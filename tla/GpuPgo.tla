-------------------------------- MODULE GpuPgo --------------------------------
(***************************************************************************)
(* The GPU pipeline and its profile-guided loop: gpu-offload-decision,     *)
(* gpu-kernel-gen and type2-gpu-codegen (GpuOffloadDecision.cpp,           *)
(* GpuKernelGeneration.cpp, Type2GpuCodeGen.cpp) turn linalg operations    *)
(* into a program of tiled kernels, and scripts/pgo_iterate.sh compiles,   *)
(* runs and compiles it again with what the instrumented run suggests.     *)
(* The program opens the card through an object of Type2Gpu.               *)
(***************************************************************************)
EXTENDS Type2Gpu, Integers, Sequences, SequencesExt, FiniteSetsExt, Functions

CONSTANTS
  Modules,  \* modules: sequences of [kind, dims]
  Iters,    \* bound: iterations of the loop
  Override, \* the option prefetch-dist, 0 for none
  Program   \* the object of the generated program

ASSUME PgoOK == Program \in Objects \ Launchers /\ Iters \in Nat \ {0} /\ Override \in Nat

VARIABLES
  ir,      \* the operations, with what the passes attach: [kind, dims, offload, name]
  binary,  \* the program: its kernels and its calls, [instrument, kernels, calls]
  profile, \* what pgo_profile.json says of each kernel, by name
  exists,  \* is there such a file?
  iter,    \* the iteration
  stage,   \* where the script is
  stats    \* what the running program has measured

pgoVars == <<ir, binary, profile, exists, iter, stage, stats>>

\* A name holds the kind and the dimensions; an operation without one is "unknown".
Unnamed == [kind |-> "unknown", dims |-> <<>>]
Source(mod) == [k \in DOMAIN mod |-> [kind |-> mod[k].kind, dims |-> mod[k].dims,
                                      offload |-> FALSE, name |-> Unnamed]]
NoBinary == [instrument |-> FALSE, kernels |-> <<>>, calls |-> <<>>]

PgoInit ==
  /\ ir \in {Source(mod) : mod \in Modules}
  /\ binary = NoBinary /\ profile = <<>> /\ exists = FALSE
  /\ iter = 1 /\ stage = "decide" /\ stats = <<>>

-----------------------------------------------------------------------------
(* The passes, each time from the source *)

\* Every linalg operation is found to be worth it.
DecideOffload ==
  /\ stage = "decide" /\ stage' = "name"
  /\ ir' = [k \in DOMAIN ir |-> [ir[k] EXCEPT !.offload = @ \/ ir[k].kind \in {"matmul", "matvec", "dot", "generic"}]]
  /\ UNCHANGED <<binary, profile, exists, iter, stats>>

\* Faulty: the depth of a product is left out.
NameWithoutDepth(o) ==
  [kind |-> o.kind, dims |-> IF o.kind = "matmul" THEN SubSeq(o.dims, 1, 2) ELSE o.dims]
NameOf(o) == [kind |-> o.kind, dims |-> o.dims]

NameKernels ==
  /\ stage = "name" /\ stage' = "emit"
  /\ ir' = [k \in DOMAIN ir |-> IF ir[k].offload THEN [ir[k] EXCEPT !.name = NameOf(ir[k])] ELSE ir[k]]
  /\ UNCHANGED <<binary, profile, exists, iter, stats>>

Pick(d) == IF d <= 8 THEN d ELSE IF d <= 32 THEN 16 ELSE IF d <= 128 THEN 32 ELSE 64
Prefetch(default, p) ==
  IF Override > 0 THEN Override ELSE IF p.pf > 0 THEN p.pf ELSE default

\* chooseTile takes all of a profile, or none of it.
MatmulConfig(dims, p) ==
  IF p.tile[1] > 0 THEN [tile |-> p.tile, pf |-> IF Override > 0 THEN Override ELSE p.pf]
  ELSE [tile |-> <<Pick(dims[1]), Pick(dims[2]), Pick(dims[3])>>, pf |-> IF Override > 0 THEN Override ELSE 2]
Config(o, p) ==
  IF o.kind = "matmul" THEN MatmulConfig(o.dims, p)
  ELSE [tile |-> <<0, 0, 0>>, pf |-> Prefetch(IF o.kind = "matvec" THEN 4 ELSE 8, p)]

NoProfile == [tile |-> <<0, 0, 0>>, pf |-> 0]
UsesProfile == (iter > 1 \/ stage = "final") /\ exists
Looked(name) == IF UsesProfile /\ name \in DOMAIN profile THEN profile[name] ELSE NoProfile

\* The kernel of the first operation of a name serves all; generic operations get none.
Emitted == {k \in DOMAIN ir : ir[k].offload /\ ir[k].kind \in {"matmul", "matvec", "dot"}}
Called(n) == {k \in Emitted : ir[k].name = n}
Kernel(n) ==
  LET o == ir[Min(Called(n))]
      c == Config(o, Looked(n))
  IN  [dims |-> o.dims, tile |-> c.tile, pf |-> c.pf]
Emit(instrument) ==
  LET names == {ir[k].name : k \in Emitted}
  IN  binary' = [instrument |-> instrument,
                 kernels |-> [n \in names |-> Kernel(n)],
                 calls |-> [n \in names |-> Cardinality(Called(n))]]

\* The first iteration instruments, as does one that finds no profile.
EmitIteration ==
  /\ stage = "emit" /\ iter <= Iters
  /\ Emit(~UsesProfile) /\ stage' = "start"
  /\ UNCHANGED <<ir, profile, exists, iter, stats>>

EmitFinal ==
  /\ stage = "final" /\ Emit(FALSE) /\ stage' = "start"
  /\ UNCHANGED <<ir, profile, exists, iter, stats>>

-----------------------------------------------------------------------------
(* The program *)

\* main opens the card; without it the program fails and the script ends.
Start ==
  /\ stage = "start" /\ Create(Program)
  /\ stage' = IF phase'[Program] = "ready" THEN "run" ELSE "dead"
  /\ stats' = <<>>
  /\ UNCHANGED <<ir, binary, profile, exists, iter>>

\* Whether the tiles fit the cache of 32 KiB decides the estimated hit rate, in percent.
L1 == 32768
TileBytes(t) == 4 * (t[1] * t[3] + t[3] * t[2] + t[1] * t[2])
HitRate(n) ==
  LET k == binary.kernels[n]
  IN  CASE n.kind = "matmul" -> IF TileBytes(k.tile) <= L1 THEN 100 ELSE 0
        [] n.kind = "matvec" -> IF 4 * k.dims[2] <= L1 THEN 100 ELSE 0
        [] OTHER -> 100

\* One execution of each call; the last measurement of a name is what the profile keeps.
\* What is suggested for M is suggested for all three.
AtMost(x, hi) == IF x > hi THEN hi ELSE x
AtLeast(x, lo) == IF x < lo THEN lo ELSE x
SuggestedTile(n, slow) ==
  LET t == binary.kernels[n].tile[1]
  IN  CASE HitRate(n) < 90 -> AtLeast(t \div 2, 8)
        [] HitRate(n) > 98 /\ slow -> AtMost(2 * t, 128)
        [] OTHER -> t
SuggestedPrefetch(n) ==
  LET pf == binary.kernels[n].pf IN IF HitRate(n) < 95 THEN AtMost(pf + 1, 8) ELSE pf

Execute ==
  /\ stage = "run" /\ stage' = "ran"
  /\ stats' \in IF binary.instrument THEN [DOMAIN binary.kernels -> BOOLEAN] ELSE {<<>>}
  /\ UNCHANGED <<gpuVars, ir, binary, profile, exists, iter>>

Measured(n, slow) ==
  [tile |-> binary.kernels[n].tile, pf |-> binary.kernels[n].pf, hit |-> HitRate(n),
   newTile |-> SuggestedTile(n, slow), newPf |-> SuggestedPrefetch(n)]

\* The profile is written only by an instrumented program; then the card is closed.
Finish ==
  /\ stage = "ran" /\ ShutdownObject(Program)
  /\ stage' = IF iter > Iters THEN "done" ELSE "rewrite"
  /\ IF binary.instrument
     THEN profile' = [n \in DOMAIN stats |-> Measured(n, stats[n])] /\ exists' = TRUE
     ELSE UNCHANGED <<profile, exists>>
  /\ UNCHANGED <<ir, binary, iter, stats>>

-----------------------------------------------------------------------------
(* The script *)

\* The suggestions of a profile become its values, except after the last iteration; then
\* the program and its object are gone.
Rewrite ==
  /\ stage = "rewrite"
  /\ profile' = IF exists /\ iter < Iters
                THEN [n \in DOMAIN profile |->
                       [profile[n] EXCEPT !.tile = <<profile[n].newTile, profile[n].newTile, profile[n].newTile>>,
                                          !.pf = profile[n].newPf]]
                ELSE profile
  /\ iter' = iter + 1
  /\ stage' = IF iter < Iters THEN "decide" ELSE "final"
  /\ ir' = [k \in DOMAIN ir |-> IF iter < Iters THEN [ir[k] EXCEPT !.offload = FALSE, !.name = Unnamed] ELSE ir[k]]
  /\ obj' = [obj EXCEPT ![Program] = Closed] /\ held' = [held EXCEPT ![Program] = {}]
  /\ phase' = [phase EXCEPT ![Program] = "new"]
  /\ UNCHANGED <<asked, verdict, cardVars, binary, exists, stats>>

Passes == DecideOffload \/ NameKernels \/ EmitIteration \/ EmitFinal

\* A client of the card beside the script.
Client == \/ \E o \in Objects \ {Program} : Create(o) \/ ShutdownObject(o)
          \/ ShutdownObject(Program) /\ stage \in {"done", "dead"}
          \/ DeviceNext

GpuNext ==
  \/ Passes /\ UNCHANGED gpuVars
  \/ Start \/ Execute \/ Finish \/ Rewrite
  \/ Client /\ UNCHANGED pgoVars

GpuInit == DeviceInit /\ PgoInit
GpuSpec == GpuInit /\ [][GpuNext]_<<gpuVars, pgoVars>>

-----------------------------------------------------------------------------
(* The loops of the kernels *)

\* One loop over d in steps of t: the indices of each of its blocks.
Blocks(d, t) == {lo..(AtMost(lo + t, d) - 1) : lo \in {t * b : b \in 0..((d - 1) \div t)}}
\* The rows fetched ahead, for the steps of a loop at which the test lets it.
Ahead(d, t, pf) == {lo + pf * t : lo \in {lo \in {t * b : b \in 0..((d - 1) \div t)} : lo + pf * t < d}}

\* The loops that are blocked.
Loops(kind, k) ==
  IF kind = "matmul" THEN [j \in 1..3 |-> Blocks(k.dims[j], k.tile[j])] ELSE <<>>
\* Rows of the matrix, and elements of the vectors a cache line of 16 at a time.
MatvecAhead(d, pf) == {i + pf : i \in {i \in 0..(d - 1) : i + pf < d}}
DotAhead(d, pf) == {i + 16 * pf : i \in {i \in 0..(d - 1) : i + 16 * pf < d}}

-----------------------------------------------------------------------------
(* Properties *)

IsPartition(blocks, d) == UNION blocks = 0..(d - 1) /\ \A a, b \in blocks : a = b \/ a \cap b = {}

\* The program computes every product that was offloaded: each operation is called for, as
\* often as it occurs, with a kernel of its dimensions whose loops pass each index once,
\* whatever tiles the profile chose, and which fetches ahead only what is there.
ProductsComputed ==
  stage = "start" =>
    \A k \in DOMAIN ir : ir[k].kind # "generic" =>
      LET n == ir[k].name
          kernel == binary.kernels[n]
          loops == Loops(ir[k].kind, kernel)
      IN  /\ n \in DOMAIN binary.kernels /\ kernel.dims = ir[k].dims
          /\ binary.calls[n] = Cardinality({j \in DOMAIN ir : ir[j].kind = ir[k].kind /\ ir[j].dims = ir[k].dims})
          /\ \A j \in DOMAIN loops : IsPartition(loops[j], ir[k].dims[j])
          /\ CASE n.kind = "matmul" -> Ahead(kernel.dims[3], kernel.tile[3], kernel.pf) \subseteq 0..(ir[k].dims[3] - 1)
               [] n.kind = "matvec" -> MatvecAhead(kernel.dims[1], kernel.pf) \subseteq 0..(ir[k].dims[1] - 1)
               [] OTHER -> DotAhead(kernel.dims[1], kernel.pf) \subseteq 0..(ir[k].dims[1] - 1)

\* The final build uses what was measured: however often the profile is rewritten, each
\* kernel has the tiles and the distance that the instrumented run suggested for it.
SuggestionsUsed ==
  stage = "done" /\ Iters > 1 =>
    \A n \in DOMAIN binary.kernels :
      LET k == binary.kernels[n]  p == profile[n]
      IN  /\ n.kind = "matmul" => k.tile = <<p.newTile, p.newTile, p.newTile>>
          /\ Override = 0 => k.pf = p.newPf

\* "L1 = 32KB, 3 tiles must fit".
TilesFit == \A n \in DOMAIN binary.kernels : n.kind = "matmul" => HitRate(n) = 100

\* Every offloaded operation has a kernel in the program.
OffloadedAreEmitted ==
  stage = "done" => \A k \in DOMAIN ir : ir[k].offload => ir[k].name \in DOMAIN binary.kernels
===============================================================================
