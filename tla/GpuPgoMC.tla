------------------------------- MODULE GpuPgoMC -------------------------------
(* Instances of GpuPgo for TLC. *)
EXTENDS GpuPgo

Op(kind, dims) == [kind |-> kind, dims |-> dims]
\* A product twice; products that differ in their depth alone; one whose tiles do not fit.
Small == Op("matmul", <<4, 6, 8>>)
Several ==
  {<<Small, Small, Op("dot", <<140>>)>>,
   <<Op("matmul", <<30, 30, 33>>), Op("matmul", <<30, 30, 7>>), Op("matvec", <<5, 7>>)>>,
   <<Op("matmul", <<130, 130, 130>>), Op("matvec", <<2, 8200>>)>>}
WithGeneric == {<<Op("matmul", <<130, 6, 130>>), Op("generic", <<9>>)>>}
===============================================================================
