--------------------------- MODULE VortexHandlesMC ---------------------------
(* Instances of VortexHandles for TLC. *)
EXTENDS VortexHandles, TLC

BlockSymmetry == Permutations(Blocks)

\* An argument list names one block; a block that was never written names none.
NamesOne == {{b} : b \in Blocks}

\* Up to three arguments of 1, 8 or 9 bytes; a caller of vortex_kernel_set_args
\* aligns them as it likes.
ListsOf(args) == UNION {[1..n -> args] : n \in 1..3}
ArgumentSizes == ListsOf({1, 8, 9})
AnyLayouts == ListsOf([size : {1, 4, 8}, align : {1, 8}])
==============================================================================
