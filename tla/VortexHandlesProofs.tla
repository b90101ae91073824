------------------------- MODULE VortexHandlesProofs -------------------------
(***************************************************************************)
(* Proofs about the handle tables of the Vortex backend, for any number of *)
(* blocks and ids, with allocations that may fail.                         *)
(***************************************************************************)
EXTENDS VortexHandles, WellFoundedInduction, TLAPS

-----------------------------------------------------------------------------
(* Packing the arguments: by induction over the list, which the library's  *)
(* theorem allows for a set, not for a predicate                           *)

\* Induction over the naturals, for a set in place of a predicate.
LEMMA Least ==
  ASSUME NEW T, T \subseteq Nat, T # {}
  PROVE  \E m \in T : \A n \in T : m <= n
<1> DEFINE R == OpToRel(<, Nat)
<1>1. IsWellFoundedOn(R, Nat)
  BY NatLessThanWellFounded
<1>2. \A n, m \in Nat : <<n, m>> \notin R => m <= n
  BY DEF OpToRel
<1> HIDE DEF R
<1>3. \E m \in T : \A n \in T : <<n, m>> \notin R
  BY <1>1, WFMin
<1> QED
  BY <1>2, <1>3

LEMMA SetInduction ==
  ASSUME NEW T, 0 \in T, \A n \in Nat : n \in T => n + 1 \in T
  PROVE  Nat \subseteq T
<1> DEFINE U == {n \in Nat : n \notin T}
<1> SUFFICES ASSUME U # {} PROVE FALSE
  OBVIOUS
<1>1. PICK m \in U : \A n \in U : m <= n
  BY Least
<1>2. m \in Nat /\ m # 0 /\ m \notin T
  OBVIOUS
<1> DEFINE k == m - 1
<1>3. k \in Nat /\ k + 1 = m /\ k < m
  BY <1>2
<1>4. k \in T
  BY <1>1, <1>3
<1> QED
  BY <1>2, <1>3, <1>4

\* What is defined by recursion over 0 .. n, one step at a time, is defined.
Recurses(f, N, S, a, step) ==
  /\ f \in [0 .. N -> S] /\ f[0] = a
  /\ \A n \in 1 .. N : f[n] = step[n][f[n - 1]]

LEMMA Recursion ==
  ASSUME NEW S, NEW a \in S, NEW N \in Nat, NEW step \in [1 .. N -> [S -> S]]
  PROVE  \E f : Recurses(f, N, S, a, step)
<1> DEFINE Good(k, f) == f \in [0 .. k -> S] /\ f[0] = a /\ \A n \in 1 .. k : f[n] = step[n][f[n - 1]]
           T == {k \in Nat : k <= N => \E f : Good(k, f)}
<1>1. 0 \in T
  <2> DEFINE f == [n \in 0 .. 0 |-> a]
  <2>1. f \in [0 .. 0 -> S] /\ f[0] = a
    OBVIOUS
  <2>2. Good(0, f)
    BY <2>1
  <2> QED
    BY <2>2
<1>2. ASSUME NEW k \in Nat, k \in T PROVE k + 1 \in T
  <2> SUFFICES ASSUME k + 1 <= N PROVE \E f : Good(k + 1, f)
    OBVIOUS
  <2>1. PICK f : Good(k, f)
    BY <1>2
  <2> DEFINE v == step[k + 1][f[k]]
             g == [n \in 0 .. k + 1 |-> IF n = k + 1 THEN v ELSE f[n]]
  <2>2. v \in S
    <3>1. f[k] \in S /\ k + 1 \in 1 .. N
      BY <2>1
    <3> QED
      BY <3>1
  <2>3. \A n \in 0 .. k : g[n] = f[n] /\ f[n] \in S
    BY <2>1
  <2>4. g[k + 1] = step[k + 1][g[k]]
    BY <2>3
  <2> HIDE DEF v
  <2>5. g \in [0 .. k + 1 -> S]
    <3>1. ASSUME NEW n \in 0 .. k + 1 PROVE (IF n = k + 1 THEN v ELSE f[n]) \in S
      <4>1. CASE n = k + 1
        BY <2>2, <4>1
      <4>2. CASE n # k + 1
        <5>1. n \in 0 .. k
          BY <4>2
        <5>2. f[n] \in S
          BY <2>1, <5>1
        <5> QED
          BY <4>2, <5>2
      <4> QED
        BY <4>1, <4>2
    <3> QED
      BY <3>1
  <2>6. g[0] = a
    BY <2>1, <2>3
  <2>7. ASSUME NEW n \in 1 .. k PROVE g[n] = step[n][g[n - 1]]
    <3>1. n \in 0 .. k /\ n - 1 \in 0 .. k /\ f[n] = step[n][f[n - 1]]
      BY <2>1
    <3> HIDE DEF g
    <3> QED
      BY <2>3, <3>1
  <2> HIDE DEF g
  <2>8. Good(k + 1, g)
    <3>1. ASSUME NEW n \in 1 .. k + 1 PROVE g[n] = step[n][g[n - 1]]
      <4>1. CASE n = k + 1
        <5>1. n - 1 = k
          BY <4>1
        <5> QED
          BY <2>4, <4>1, <5>1
      <4>2. CASE n \in 1 .. k
        BY <2>7, <4>2
      <4> QED
        BY <4>1, <4>2
    <3> QED
      BY <2>5, <2>6, <3>1
  <2> QED
    BY <2>8
<1> HIDE DEF T
<1>3. Nat \subseteq T
  BY <1>1, <1>2, SetInduction
<1>4. PICK f : Good(N, f)
  BY <1>3 DEF T
<1> QED
  BY <1>4 DEF Recurses

\* An offset aligned by 8 stays aligned when what is added is.
LEMMA AlignedEight ==
  ASSUME NEW n \in Nat, NEW m \in Nat
  PROVE  /\ Aligned(n, 8) \in Nat /\ n <= Aligned(n, 8)
         /\ Aligned(Aligned(n, 8) + m, 8) = Aligned(n, 8) + Aligned(m, 8)
BY DEF Aligned

\* The steps an argument list stands for have a size and the alignment.
LEMMA Sized ==
  ASSUME NEW args \in Seq([size : Nat, align : {8}])
  PROVE  /\ Len(args) \in Nat
         /\ \A n \in 1 .. Len(args) : args[n].size \in Nat /\ args[n].align = 8
<1> DEFINE Arg == [size : Nat, align : {8}]
<1>1. args \in Seq(Arg)
  OBVIOUS
<1>2. \A x \in Arg : x.size \in Nat /\ x.align = 8
  OBVIOUS
<1> HIDE DEF Arg
<1>3. Len(args) \in Nat /\ \A n \in 1 .. Len(args) : args[n] \in Arg
  BY <1>1
<1> QED
  BY <1>2, <1>3

\* What the first loop of vortex_kernel_set_args adds, argument by argument ...
LEMMA RoomsAre ==
  ASSUME NEW args \in Seq([size : Nat, align : {8}])
  PROVE  /\ Rooms(args)[0] = 0
         /\ \A n \in 1 .. Len(args) : Rooms(args)[n] = Rooms(args)[n - 1] + Aligned(args[n].size, 8)
<1> DEFINE N == Len(args)
           Body(g) == [n \in 0 .. N |-> IF n = 0 THEN 0 ELSE g[n - 1] + Aligned(args[n].size, args[n].align)]
           step == [n \in 1 .. N |-> [x \in Nat |-> x + Aligned(args[n].size, args[n].align)]]
<1>1. N \in Nat /\ \A n \in 1 .. N : args[n].size \in Nat /\ args[n].align = 8
  BY Sized
<1> HIDE DEF N
<1>2. step \in [1 .. N -> [Nat -> Nat]]
  <2>1. ASSUME NEW n \in 1 .. N, NEW x \in Nat PROVE x + Aligned(args[n].size, args[n].align) \in Nat
    <3>1. args[n].size \in Nat /\ args[n].align = 8
      BY <1>1
    <3>2. Aligned(args[n].size, 8) \in Nat /\ Aligned(x, 8) \in Nat
      BY <3>1, AlignedEight
    <3> QED
      BY <3>1, <3>2
  <2> QED
    BY <2>1
<1>3. PICK f : Recurses(f, N, Nat, 0, step)
  <2> HIDE DEF step, Body
  <2>1. N \in Nat /\ 0 \in Nat
    BY <1>1
  <2> QED
    BY <1>2, <2>1, Recursion
<1>4. f = Body(f)
  <2>1. ASSUME NEW n \in 1 .. N PROVE f[n] = f[n - 1] + Aligned(args[n].size, args[n].align)
    <3>1. n - 1 \in 0 .. N
      BY <1>1
    <3>2. f[n - 1] \in Nat
      BY <1>3, <3>1 DEF Recurses
    <3>3. f[n] = step[n][f[n - 1]]
      BY <1>3 DEF Recurses
    <3> QED
      BY <3>2, <3>3
  <2>2. ASSUME NEW n \in 0 .. N PROVE f[n] = Body(f)[n]
    <3>1. CASE n = 0
      BY <1>3, <3>1 DEF Recurses
    <3>2. CASE n # 0
      <4>1. n \in 1 .. N
        BY <3>2
      <4> QED
        BY <2>1, <3>2, <4>1
    <3> QED
      BY <3>1, <3>2
  <2>3. DOMAIN Body(f) = 0 .. N /\ DOMAIN f = 0 .. N
    BY <1>3 DEF Recurses
  <2>4. f = [n \in 0 .. N |-> f[n]]
    BY <1>3 DEF Recurses
  <2> QED
    BY <2>2, <2>3, <2>4
<1>5. Rooms(args) = CHOOSE g : g = Body(g)
  BY DEF Rooms, N
<1> DEFINE r == Rooms(args)
<1>6. r = Body(r)
  <2> HIDE DEF Body
  <2> QED
    BY <1>4, <1>5
<1> HIDE DEF r
<1>7. r[0] = 0 /\ \A n \in 1 .. N : r[n] = r[n - 1] + Aligned(args[n].size, 8)
  <2>1. \A n \in 0 .. N : r[n] = Body(r)[n]
    BY <1>6
  <2>2. r[0] = 0
    <3>1. 0 \in 0 .. N
      BY <1>1
    <3>2. r[0] = Body(r)[0]
      BY <2>1, <3>1
    <3> QED
      BY <3>1, <3>2
  <2>3. ASSUME NEW n \in 1 .. N PROVE r[n] = r[n - 1] + Aligned(args[n].size, 8)
    <3>1. n \in 0 .. N /\ n # 0
      BY <1>1
    <3>2. r[n] = Body(r)[n]
      BY <2>1, <3>1
    <3>3. args[n].align = 8
      BY <1>1
    <3> QED
      BY <3>1, <3>2, <3>3
  <2> QED
    BY <2>2, <2>3
<1> QED
  BY <1>7 DEF r, N

\* ... and where the second leaves off.
LEMMA EndsAre ==
  ASSUME NEW args \in Seq([size : Nat, align : {8}])
  PROVE  /\ Ends(args)[0] = 0
         /\ \A n \in 1 .. Len(args) : Ends(args)[n] = Aligned(Ends(args)[n - 1], 8) + args[n].size
<1> DEFINE N == Len(args)
           Body(g) == [n \in 0 .. N |-> IF n = 0 THEN 0 ELSE Aligned(g[n - 1], args[n].align) + args[n].size]
           step == [n \in 1 .. N |-> [x \in Nat |-> Aligned(x, args[n].align) + args[n].size]]
<1>1. N \in Nat /\ \A n \in 1 .. N : args[n].size \in Nat /\ args[n].align = 8
  BY Sized
<1> HIDE DEF N
<1>2. step \in [1 .. N -> [Nat -> Nat]]
  <2>1. ASSUME NEW n \in 1 .. N, NEW x \in Nat PROVE Aligned(x, args[n].align) + args[n].size \in Nat
    <3>1. args[n].size \in Nat /\ args[n].align = 8
      BY <1>1
    <3>2. Aligned(args[n].size, 8) \in Nat /\ Aligned(x, 8) \in Nat
      BY <3>1, AlignedEight
    <3> QED
      BY <3>1, <3>2
  <2> QED
    BY <2>1
<1>3. PICK f : Recurses(f, N, Nat, 0, step)
  <2> HIDE DEF step, Body
  <2>1. N \in Nat /\ 0 \in Nat
    BY <1>1
  <2> QED
    BY <1>2, <2>1, Recursion
<1>4. f = Body(f)
  <2>1. ASSUME NEW n \in 1 .. N PROVE f[n] = Aligned(f[n - 1], args[n].align) + args[n].size
    <3>1. n - 1 \in 0 .. N
      BY <1>1
    <3>2. f[n - 1] \in Nat
      BY <1>3, <3>1 DEF Recurses
    <3>3. f[n] = step[n][f[n - 1]]
      BY <1>3 DEF Recurses
    <3> QED
      BY <3>2, <3>3
  <2>2. ASSUME NEW n \in 0 .. N PROVE f[n] = Body(f)[n]
    <3>1. CASE n = 0
      BY <1>3, <3>1 DEF Recurses
    <3>2. CASE n # 0
      <4>1. n \in 1 .. N
        BY <3>2
      <4> QED
        BY <2>1, <3>2, <4>1
    <3> QED
      BY <3>1, <3>2
  <2>3. DOMAIN Body(f) = 0 .. N /\ DOMAIN f = 0 .. N
    BY <1>3 DEF Recurses
  <2>4. f = [n \in 0 .. N |-> f[n]]
    BY <1>3 DEF Recurses
  <2> QED
    BY <2>2, <2>3, <2>4
<1>5. Ends(args) = CHOOSE g : g = Body(g)
  BY DEF Ends, N
<1> DEFINE e == Ends(args)
<1>6. e = Body(e)
  <2> HIDE DEF Body
  <2> QED
    BY <1>4, <1>5
<1> HIDE DEF e
<1>7. e[0] = 0 /\ \A n \in 1 .. N : e[n] = Aligned(e[n - 1], 8) + args[n].size
  <2>1. \A n \in 0 .. N : e[n] = Body(e)[n]
    BY <1>6
  <2>2. e[0] = 0
    <3>1. 0 \in 0 .. N
      BY <1>1
    <3>2. e[0] = Body(e)[0]
      BY <2>1, <3>1
    <3> QED
      BY <3>1, <3>2
  <2>3. ASSUME NEW n \in 1 .. N PROVE e[n] = Aligned(e[n - 1], 8) + args[n].size
    <3>1. n \in 0 .. N /\ n # 0
      BY <1>1
    <3>2. e[n] = Body(e)[n]
      BY <2>1, <3>1
    <3>3. args[n].align = 8
      BY <1>1
    <3> QED
      BY <3>1, <3>2, <3>3
  <2> QED
    BY <2>2, <2>3
<1> QED
  BY <1>7 DEF e, N

\* Where all arguments are aligned by 8, the next free offset is what has been added up.
LEMMA PackedFits ==
  ASSUME NEW args \in Seq([size : Nat, align : {8}])
  PROVE  Fits(args)
<1> DEFINE N == Len(args)  e == Ends(args)  r == Rooms(args)
           T == {n \in Nat : n <= N => e[n] \in Nat /\ Aligned(e[n], 8) = r[n]}
<1>1. /\ N \in Nat /\ e[0] = 0 /\ r[0] = 0
      /\ \A n \in 1 .. N : /\ e[n] = Aligned(e[n - 1], 8) + args[n].size
                           /\ r[n] = r[n - 1] + Aligned(args[n].size, 8)
                           /\ args[n].size \in Nat
  BY RoomsAre, EndsAre, Sized
<1> HIDE DEF N, e, r
<1>2. 0 \in T
  BY <1>1 DEF Aligned
<1>3. ASSUME NEW n \in Nat, n \in T PROVE n + 1 \in T
  <2> SUFFICES ASSUME n + 1 <= N PROVE e[n + 1] \in Nat /\ Aligned(e[n + 1], 8) = r[n + 1]
    OBVIOUS
  <2> DEFINE k == n + 1
  <2>1. e[n] \in Nat /\ Aligned(e[n], 8) = r[n]
    BY <1>1, <1>3
  <2>2. k \in 1 .. N /\ k - 1 = n
    BY <1>1
  <2> HIDE DEF k
  <2>3. e[k] = Aligned(e[n], 8) + args[k].size /\ r[k] = r[n] + Aligned(args[k].size, 8)
    BY <1>1, <2>2
  <2>4. args[k].size \in Nat
    BY <1>1, <2>2
  <2> DEFINE m == args[k].size
  <2>5. Aligned(Aligned(e[n], 8) + m, 8) = Aligned(e[n], 8) + Aligned(m, 8) /\ Aligned(e[n], 8) \in Nat
    BY <2>1, <2>4, AlignedEight
  <2>6. e[k] \in Nat /\ Aligned(e[k], 8) = r[k]
    BY <2>1, <2>3, <2>4, <2>5
  <2> QED
    BY <2>6 DEF k
<1> HIDE DEF T
<1>4. N \in T
  BY <1>1, <1>2, <1>3, SetInduction
<1>5. e[N] \in Nat /\ Aligned(e[N], 8) = r[N]
  BY <1>1, <1>4 DEF T
<1>6. e[N] <= r[N]
  BY <1>5, AlignedEight
<1> QED
  BY <1>6 DEF Fits, Written, Allocated, N, e, r

\* However long an argument list, vortex_kernel_set_args fills no more than it allocated.
THEOREM PackingFits == ASSUME Layouts \subseteq Seq(Nat) PROVE Spec => []ArgumentsFit
<1>1. ASSUME NEW sizes \in Seq(Nat) PROVE Fits(AlignedByEight(sizes))
  <2>1. AlignedByEight(sizes) \in Seq([size : Nat, align : {8}])
    <3> DEFINE Arg == [size : Nat, align : {8}]
    <3>1. \A i \in 1 .. Len(sizes) : [size |-> sizes[i], align |-> 8] \in Arg
      OBVIOUS
    <3>2. Len(sizes) \in Nat /\ DOMAIN sizes = 1 .. Len(sizes)
      OBVIOUS
    <3> HIDE DEF Arg
    <3>3. AlignedByEight(sizes) \in [1 .. Len(sizes) -> Arg]
      BY <3>1, <3>2 DEF AlignedByEight
    <3>4. AlignedByEight(sizes) \in Seq(Arg)
      BY <3>2, <3>3
    <3> QED
      BY <3>4 DEF Arg
  <2> QED
    BY <2>1, PackedFits
<1>2. ArgumentsFit
  BY <1>1 DEF ArgumentsFit
<1> QED
  BY <1>2, PTL

-----------------------------------------------------------------------------
(* The handle tables *)

USE HandlesOK, NoBlockOK

Entry == [is : {"free", "data", "code", "args"}, names : SUBSET Blocks]

TypeOK ==
  /\ up \in BOOLEAN /\ failed \in BOOLEAN /\ twice \in BOOLEAN
  /\ DOMAIN buffers \subseteq Ids /\ DOMAIN kernels \subseteq Ids
  /\ \A i \in DOMAIN buffers : buffers[i] \in Blocks
  /\ \A k \in DOMAIN kernels :
       kernels[k] \in [code : Blocks, args : Blocks \cup {NoBlock}]
  /\ nextBuffer \in Nat /\ nextKernel \in Nat
  /\ mem \in [Blocks -> Entry]
  /\ running \subseteq Blocks

\* The next ids are not in the tables, and there is nothing in them before
\* vortex_backend_init.
Fresh ==
  /\ \A i \in DOMAIN buffers : i < nextBuffer
  /\ \A k \in DOMAIN kernels : k < nextKernel
  /\ ~up => DOMAIN buffers = {} /\ DOMAIN kernels = {}

\* What is allocated is what the tables name ...
OwnedLive ==
  \A b \in Blocks :
    mem[b].is # "free" <=>
      \/ \E i \in DOMAIN buffers : buffers[i] = b
      \/ \E k \in DOMAIN kernels : kernels[k].code = b \/ kernels[k].args = b

\* ... and they name it once.
OneOwner ==
  /\ \A i, j \in DOMAIN buffers : buffers[i] = buffers[j] => i = j
  /\ \A i \in DOMAIN buffers, k \in DOMAIN kernels :
       buffers[i] # kernels[k].code /\ buffers[i] # kernels[k].args
  /\ \A k, l \in DOMAIN kernels :
       /\ kernels[k].code # kernels[l].args
       /\ kernels[k].code = kernels[l].code => k = l
       /\ kernels[k].args = kernels[l].args /\ kernels[k].args # NoBlock => k = l

HandlesInv ==
  TypeOK /\ Fresh /\ (~failed => OwnedLive) /\ (~failed => OneOwner /\ ~twice)

-----------------------------------------------------------------------------

\* Entry by entry, and as sets of blocks.
LEMMA OwnedIsLive ==
  ASSUME HandlesInv, ~failed PROVE Owned = Live /\ ~Shared /\ ~twice
<1>1. OwnedLive /\ OneOwner /\ ~twice /\ TypeOK
  BY DEF HandlesInv
<1>2. Owned \subseteq Live
  BY <1>1 DEF Owned, Live, KernelBlocks, OwnedLive, TypeOK
<1>3. ASSUME NEW b \in Live PROVE b \in Owned
  <2>1. CASE \E i \in DOMAIN buffers : buffers[i] = b
    BY <2>1 DEF Owned
  <2>2. CASE \E k \in DOMAIN kernels : kernels[k].code = b \/ kernels[k].args = b
    <3>1. PICK k \in DOMAIN kernels : kernels[k].code = b \/ kernels[k].args = b
      BY <2>2
    <3>2. b \in KernelBlocks(k)
      BY <1>3, <3>1 DEF KernelBlocks, Live
    <3> QED
      BY <3>2 DEF Owned
  <2> QED
    BY <1>1, <1>3, <2>1, <2>2 DEF OwnedLive, Live
<1>4. ~Shared
  BY <1>1 DEF Shared, KernelBlocks, OneOwner, TypeOK
<1> QED
  BY <1>1, <1>2, <1>3, <1>4

\* Every step leaves tables and memory well formed.
LEMMA TypeStep ==
  ASSUME HandlesInv, [Next]_vars
  PROVE  TypeOK'
<1> USE DEF Initialize, DeviceOpens, DeviceCloses, DeviceReady, CopyTo, Filled, Wiped, With, Without,
     AfterOldArgs, OldArgsGone, Launchable, Overwritten, others, Holds, Unused, Data, Live, Ids, HandlesInv, TypeOK, Entry, Named
<1>1. CASE BackendInit
  BY <1>1 DEF BackendInit
<1>2. CASE KernelWrites
  BY <1>2 DEF KernelWrites
<1>3. CASE BackendCleanup
  <2>1. mem' = Wiped(Owned) /\ twice' \in BOOLEAN
    BY <1>3 DEF BackendCleanup
  <2>2. mem' \in [Blocks -> Entry]
    BY <2>1
  <2>3. DOMAIN buffers' = {} /\ DOMAIN kernels' = {}
    BY <1>3 DEF BackendCleanup
  <2>4. up' = FALSE /\ running' = {} /\ UNCHANGED <<nextBuffer, nextKernel, failed>>
    BY <1>3 DEF BackendCleanup
  <2> QED
    BY <2>1, <2>2, <2>3, <2>4
<1>4. CASE Synchronize
  BY <1>4 DEF Synchronize
<1>5. ASSUME NEW b \in Blocks, up, Malloc(b) PROVE TypeOK'
  BY <1>5 DEF Malloc
<1>6. ASSUME NEW b \in Blocks, up, LoadKernel(b) PROVE TypeOK'
  BY <1>6 DEF LoadKernel
<1>7. ASSUME NEW i \in Ids, up, Free(i) PROVE TypeOK'
  BY <1>7 DEF Free
<1>8. ASSUME NEW i \in Ids, up, HostToDevice(i) PROVE TypeOK'
  BY <1>8 DEF HostToDevice
<1>9. ASSUME NEW k \in Ids, up, SetArgsNoAddress(k) PROVE TypeOK'
  BY <1>9 DEF SetArgsNoAddress
<1>10. ASSUME NEW k \in Ids, up, SetArgsNoBlock(k) PROVE TypeOK'
  BY <1>10 DEF SetArgsNoBlock
<1>11. ASSUME NEW k \in Ids, up, Launch(k) PROVE TypeOK'
  BY <1>11 DEF Launch
<1>12. ASSUME NEW k \in Ids, up, LaunchTimesOut(k) PROVE TypeOK'
  BY <1>12 DEF LaunchTimesOut
<1>13. ASSUME NEW k \in Ids, NEW b \in Blocks, up, SetArgsUncopied(k, b) PROVE TypeOK'
  BY <1>13 DEF SetArgsUncopied
<1>14. ASSUME NEW k \in Ids, NEW b \in Blocks, NEW names \in ArgNames, up, SetArgs(k, b, names) PROVE TypeOK'
  BY <1>14 DEF SetArgs
<1>15. CASE UNCHANGED vars
  BY <1>15 DEF vars
<1> QED
  BY <1>1, <1>2, <1>3, <1>4, <1>5, <1>6, <1>7, <1>8, <1>9, <1>10, <1>11,
     <1>12, <1>13, <1>14, <1>15 DEF Next, Call

\* Ids are handed out in order, and a backend that comes up finds empty tables.
LEMMA FreshStep ==
  ASSUME HandlesInv, [Next]_vars
  PROVE  Fresh'
<1> USE DEF Initialize, DeviceOpens, DeviceCloses, DeviceReady, CopyTo, Filled, Wiped, With, Without,
     AfterOldArgs, OldArgsGone, Launchable, Overwritten, others, Holds, Unused, Data, Live, Ids, HandlesInv, TypeOK, Entry, Fresh
<1>1. CASE BackendInit
  BY <1>1 DEF BackendInit
<1>2. CASE KernelWrites
  BY <1>2 DEF KernelWrites
<1>3. CASE BackendCleanup
  BY <1>3 DEF BackendCleanup
<1>4. CASE Synchronize
  BY <1>4 DEF Synchronize
<1>5. ASSUME NEW b \in Blocks, up, Malloc(b) PROVE Fresh'
  BY <1>5 DEF Malloc
<1>6. ASSUME NEW b \in Blocks, up, LoadKernel(b) PROVE Fresh'
  BY <1>6 DEF LoadKernel
<1>7. ASSUME NEW i \in Ids, up, Free(i) PROVE Fresh'
  BY <1>7 DEF Free
<1>8. ASSUME NEW i \in Ids, up, HostToDevice(i) PROVE Fresh'
  BY <1>8 DEF HostToDevice
<1>9. ASSUME NEW k \in Ids, up, SetArgsNoAddress(k) PROVE Fresh'
  BY <1>9 DEF SetArgsNoAddress
<1>10. ASSUME NEW k \in Ids, up, SetArgsNoBlock(k) PROVE Fresh'
  BY <1>10 DEF SetArgsNoBlock
<1>11. ASSUME NEW k \in Ids, up, Launch(k) PROVE Fresh'
  BY <1>11 DEF Launch
<1>12. ASSUME NEW k \in Ids, up, LaunchTimesOut(k) PROVE Fresh'
  BY <1>12 DEF LaunchTimesOut
<1>13. ASSUME NEW k \in Ids, NEW b \in Blocks, up, SetArgsUncopied(k, b) PROVE Fresh'
  BY <1>13 DEF SetArgsUncopied
<1>14. ASSUME NEW k \in Ids, NEW b \in Blocks, NEW names \in ArgNames, up, SetArgs(k, b, names) PROVE Fresh'
  BY <1>14 DEF SetArgs
<1>15. CASE UNCHANGED vars
  BY <1>15 DEF vars
<1> QED
  BY <1>1, <1>2, <1>3, <1>4, <1>5, <1>6, <1>7, <1>8, <1>9, <1>10, <1>11,
     <1>12, <1>13, <1>14, <1>15 DEF Next, Call

\* What a step allocates it enters, what it frees it strikes out.
LEMMA OwnedStep ==
  ASSUME HandlesInv, [Next]_vars
  PROVE  (~failed => OwnedLive)'
<1> USE DEF Initialize, DeviceOpens, DeviceCloses, DeviceReady, CopyTo, Filled, Wiped, With, Without,
     AfterOldArgs, OldArgsGone, Launchable, Overwritten, others, Holds, Unused, Data, Live, Ids, HandlesInv, TypeOK, Entry, Fresh, OwnedLive, OneOwner, Named, KernelBlocks, Owned
<1>1. CASE BackendInit
  BY <1>1 DEF BackendInit
<1>2. CASE KernelWrites
  BY <1>2 DEF KernelWrites
<1>3. CASE BackendCleanup
  BY <1>3 DEF BackendCleanup
<1>4. CASE Synchronize
  BY <1>4 DEF Synchronize
<1>5. ASSUME NEW b \in Blocks, up, Malloc(b) PROVE (~failed => OwnedLive)'
  <2>1. /\ DOMAIN buffers' = DOMAIN buffers \cup {nextBuffer}
        /\ buffers'[nextBuffer] = b
        /\ \A i \in DOMAIN buffers : buffers'[i] = buffers[i]
    BY <1>5 DEF Malloc
  <2>2. \A c \in Blocks : mem'[c].is # "free" <=> mem[c].is # "free" \/ c = b
    BY <1>5 DEF Malloc
  <2>3. kernels' = kernels /\ failed' = failed
    BY <1>5 DEF Malloc
  <2> HIDE DEF With, Filled, Holds, Data, TypeOK
  <2> QED
    BY <2>1, <2>2, <2>3
<1>6. ASSUME NEW b \in Blocks, up, LoadKernel(b) PROVE (~failed => OwnedLive)'
  <2>1. /\ DOMAIN kernels' = DOMAIN kernels \cup {nextKernel}
        /\ kernels'[nextKernel].code = b /\ kernels'[nextKernel].args = NoBlock
        /\ \A k \in DOMAIN kernels : kernels'[k] = kernels[k]
    BY <1>6 DEF LoadKernel
  <2>2. \A c \in Blocks : mem'[c].is # "free" <=> mem[c].is # "free" \/ c = b
    BY <1>6 DEF LoadKernel
  <2>3. buffers' = buffers /\ failed' = failed
    BY <1>6 DEF LoadKernel
  <2> HIDE DEF With, Filled, Holds, TypeOK
  <2> QED
    BY <2>1, <2>2, <2>3
<1>7. ASSUME NEW i \in Ids, up, Free(i) PROVE (~failed => OwnedLive)'
  BY <1>7 DEF Free
<1>8. ASSUME NEW i \in Ids, up, HostToDevice(i) PROVE (~failed => OwnedLive)'
  BY <1>8 DEF HostToDevice
<1>9. ASSUME NEW k \in Ids, up, SetArgsNoAddress(k) PROVE (~failed => OwnedLive)'
  BY <1>9 DEF SetArgsNoAddress
<1>10. ASSUME NEW k \in Ids, up, SetArgsNoBlock(k) PROVE (~failed => OwnedLive)'
  <2>1. CASE kernels[k].args = NoBlock
    <3>1. mem' = mem
      BY <1>10, <2>1 DEF SetArgsNoBlock
    <3> QED
      BY <1>10, <3>1 DEF SetArgsNoBlock
  <2>2. CASE kernels[k].args # NoBlock
    BY <1>10, <2>2 DEF SetArgsNoBlock
  <2> QED
    BY <2>1, <2>2
<1>11. ASSUME NEW k \in Ids, up, Launch(k) PROVE (~failed => OwnedLive)'
  BY <1>11 DEF Launch
<1>12. ASSUME NEW k \in Ids, up, LaunchTimesOut(k) PROVE (~failed => OwnedLive)'
  BY <1>12 DEF LaunchTimesOut
<1>13. ASSUME NEW k \in Ids, NEW b \in Blocks, up, SetArgsUncopied(k, b) PROVE (~failed => OwnedLive)'
  BY <1>13 DEF SetArgsUncopied
<1>14. ASSUME NEW k \in Ids, NEW b \in Blocks, NEW names \in ArgNames, up, SetArgs(k, b, names) PROVE (~failed => OwnedLive)'
  BY <1>14 DEF SetArgs
<1>15. CASE UNCHANGED vars
  BY <1>15 DEF vars
<1> QED
  BY <1>1, <1>2, <1>3, <1>4, <1>5, <1>6, <1>7, <1>8, <1>9, <1>10, <1>11,
     <1>12, <1>13, <1>14, <1>15 DEF Next, Call

\* A block is entered once: it was not allocated before.
LEMMA OwnerStep ==
  ASSUME HandlesInv, [Next]_vars
  PROVE  (~failed => OneOwner /\ ~twice)'
<1> USE DEF Initialize, DeviceOpens, DeviceCloses, DeviceReady, CopyTo, Filled, Wiped, With, Without,
     AfterOldArgs, OldArgsGone, Launchable, Overwritten, others, Holds, Unused, Data, Live, Ids, HandlesInv, TypeOK, Entry, Fresh, OwnedLive, OneOwner, Named
<1>1. CASE BackendInit
  BY <1>1 DEF BackendInit
<1>2. CASE KernelWrites
  BY <1>2 DEF KernelWrites
<1>3. CASE BackendCleanup
  BY <1>3, OwnedIsLive DEF BackendCleanup
<1>4. CASE Synchronize
  BY <1>4 DEF Synchronize
<1>5. ASSUME NEW b \in Blocks, up, Malloc(b) PROVE (~failed => OneOwner /\ ~twice)'
  BY <1>5 DEF Malloc
<1>6. ASSUME NEW b \in Blocks, up, LoadKernel(b) PROVE (~failed => OneOwner /\ ~twice)'
  BY <1>6 DEF LoadKernel
<1>7. ASSUME NEW i \in Ids, up, Free(i) PROVE (~failed => OneOwner /\ ~twice)'
  BY <1>7 DEF Free
<1>8. ASSUME NEW i \in Ids, up, HostToDevice(i) PROVE (~failed => OneOwner /\ ~twice)'
  BY <1>8 DEF HostToDevice
<1>9. ASSUME NEW k \in Ids, up, SetArgsNoAddress(k) PROVE (~failed => OneOwner /\ ~twice)'
  BY <1>9 DEF SetArgsNoAddress
<1>10. ASSUME NEW k \in Ids, up, SetArgsNoBlock(k) PROVE (~failed => OneOwner /\ ~twice)'
  BY <1>10 DEF SetArgsNoBlock
<1>11. ASSUME NEW k \in Ids, up, Launch(k) PROVE (~failed => OneOwner /\ ~twice)'
  BY <1>11 DEF Launch
<1>12. ASSUME NEW k \in Ids, up, LaunchTimesOut(k) PROVE (~failed => OneOwner /\ ~twice)'
  BY <1>12 DEF LaunchTimesOut
<1>13. ASSUME NEW k \in Ids, NEW b \in Blocks, up, SetArgsUncopied(k, b) PROVE (~failed => OneOwner /\ ~twice)'
  BY <1>13 DEF SetArgsUncopied
<1>14. ASSUME NEW k \in Ids, NEW b \in Blocks, NEW names \in ArgNames, up, SetArgs(k, b, names) PROVE (~failed => OneOwner /\ ~twice)'
  BY <1>14 DEF SetArgs
<1>15. CASE UNCHANGED vars
  BY <1>15 DEF vars
<1> QED
  BY <1>1, <1>2, <1>3, <1>4, <1>5, <1>6, <1>7, <1>8, <1>9, <1>10, <1>11,
     <1>12, <1>13, <1>14, <1>15 DEF Next, Call

\* The invariant holds, whatever the constants.
THEOREM HandlesKept == Spec => []HandlesInv
<1>1. ASSUME Init PROVE HandlesInv
  <2>1. DOMAIN buffers = {} /\ DOMAIN kernels = {}
    BY <1>1 DEF Init
  <2>2. mem \in [Blocks -> Entry] /\ \A b \in Blocks : mem[b].is = "free"
    BY <1>1 DEF Init, Entry, Unused, Holds
  <2> QED
    BY <1>1, <2>1, <2>2 DEF Init, HandlesInv, TypeOK, Fresh, OwnedLive, OneOwner
<1>2. HandlesInv /\ [Next]_vars => HandlesInv'
  BY TypeStep, FreshStep, OwnedStep, OwnerStep DEF HandlesInv
<1> QED
  BY <1>1, <1>2, PTL DEF Spec

\* Until an argument allocation fails, device memory is neither lost nor freed
\* twice (vortex_offload_backend.cpp, vortex_device.cpp).
THEOREM DeviceMemoryOwned == Spec => []BlocksOwned
<1>1. HandlesInv => BlocksOwned
  BY OwnedIsLive DEF BlocksOwned
<1> QED
  BY <1>1, HandlesKept, PTL

=============================================================================
