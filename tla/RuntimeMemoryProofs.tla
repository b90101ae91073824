------------------------ MODULE RuntimeMemoryProofs ------------------------
(***************************************************************************)
(* Proofs about the memory of the CIRA runtime, for any number of threads  *)
(* and cells.  Tiles, pools and references share the heap and nothing      *)
(* else: what is proved of each rests on its own calls, and on the others' *)
(* leaving its cells alone.                                                *)
(***************************************************************************)
EXTENDS RuntimeMemory, SequenceTheorems, FiniteSetTheorems, TLAPS

\* What a call works on: a tile of its own, a line not in the table, a pool of its own, a
\* tile it installs into, whoever has it by now.
OnTile(p) == p.at \in {"take_line", "enter", "give", "forget", "free_line", "free_tile"}
OnLine(p) == p.at \in {"enter", "free_line"}
OnPool(p) == p.at \in {"unregister", "untrack", "free_base"}
Installs(p) == p.at \in {"clear", "complete"}

-----------------------------------------------------------------------------
(* The invariant *)

Kinds == {"free", "tile", "line", "pool", "ref"}
HeapOK == heap \in [Cells -> Kinds]

Labels ==
  {"idle", "take_line", "enter", "give", "forget", "free_line", "free_tile", "clear",
   "complete", "await", "unregister", "untrack", "free_base"}
Calls == [at : Labels, cell : Cells \cup {None}, line : Cells \cup {None}]
WithinCall(p) ==
  /\ p.at = "idle" => p = Idle
  /\ OnTile(p) \/ OnPool(p) => p.cell \in Cells
  /\ OnTile(p) /\ p.at # "take_line" => p.line \in Cells
  /\ OnPool(p) => p.line \in {p.cell, None}
CallsOK == pc \in [Threads -> Calls] /\ \A t \in Threads : WithinCall(pc[t])

TilesOK ==
  /\ DOMAIN tiles \subseteq Cells /\ \A c \in DOMAIN tiles : tiles[c] \in Cells
  /\ held \subseteq DOMAIN tiles

PoolsOK ==
  DOMAIN pools \subseteq Cells /\ \A c \in DOMAIN pools : pools[c] \in BOOLEAN

RefsOK ==
  /\ DOMAIN refs \subseteq Cells /\ \A r \in DOMAIN refs : refs[r].addr \in Mapped \cup {Failed}
  /\ DOMAIN callers \subseteq Cells

TypeOK == HeapOK /\ CallsOK /\ TilesOK /\ PoolsOK /\ RefsOK

\* A tile is its caller's, or of one call that allocates or frees it ...
HeldAre == \A c \in held : heap[c] = "tile"
WorkedAre ==
  \A t \in Threads : OnTile(pc[t]) => heap[pc[t].cell] = "tile" /\ pc[t].cell \notin held
WorkedOnce ==
  \A t, u \in Threads : OnTile(pc[t]) /\ OnTile(pc[u]) /\ pc[t].cell = pc[u].cell => t = u
\* ... and the table has the tiles held, those about to be given out and those about to be
\* forgotten.
EntryOf(p) == p.at \in {"give", "forget"}
EntriesKnown ==
  \A c \in DOMAIN tiles : c \in held \/ \E t \in Threads : EntryOf(pc[t]) /\ pc[t].cell = c
ForgetsOwn ==
  \A t \in Threads : EntryOf(pc[t]) =>
    pc[t].cell \in DOMAIN tiles /\ tiles[pc[t].cell] = pc[t].line

\* A completion line is that of one entry, or of one call.
LinesAre == \A c \in DOMAIN tiles : heap[tiles[c]] = "line"
LinesDiffer == \A c, d \in DOMAIN tiles : tiles[c] = tiles[d] => c = d
LooseAre ==
  \A t \in Threads : OnLine(pc[t]) =>
    heap[pc[t].line] = "line" /\ \A c \in DOMAIN tiles : tiles[c] # pc[t].line
LooseOnce ==
  \A t, u \in Threads : OnLine(pc[t]) /\ OnLine(pc[u]) /\ pc[t].line = pc[u].line => t = u

\* A line that does not say that it is complete is about to be completed: whoever cleared
\* it has not done yet.
LinesAnswer ==
  \A c \in held : tiles[c] \in magic \/ \E t \in Threads :
    pc[t].at = "complete" /\ pc[t].line = tiles[c]

TileInv ==
  /\ TilesOK
  /\ HeldAre /\ WorkedAre /\ WorkedOnce /\ EntriesKnown /\ ForgetsOwn
  /\ LinesAre /\ LinesDiffer /\ LooseAre /\ LooseOnce
  /\ LinesAnswer

\* A pool is its caller's, or of one call that frees it.
PoolsAre == \A c \in DOMAIN pools : heap[c] = "pool"
FreedAre ==
  \A t \in Threads : OnPool(pc[t]) => heap[pc[t].cell] = "pool" /\ pc[t].cell \notin DOMAIN pools
FreedOnce ==
  \A t, u \in Threads : OnPool(pc[t]) /\ OnPool(pc[u]) /\ pc[t].cell = pc[u].cell => t = u

\* A base is registered once; a pool's region is there while the pool believes so, and
\* until its free removes it.
Regs == [base : Nat, size : Nat, dev : Nat]
AllRegions == {PoolRegion(c) : c \in Cells} \cup {Arena}
RegionsAre == regions \in Seq(Regs) /\ \A k \in DOMAIN regions : regions[k] \in AllRegions
Based(b) == \E k \in DOMAIN regions : regions[k].base = b
BasesDiffer == \A j, k \in DOMAIN regions : regions[j].base = regions[k].base => j = k
HasRegion(c) == Based(Addr(c, 0))
BelieveRight == \A c \in DOMAIN pools : pools[c] <=> HasRegion(c)
RegionsOfPools ==
  \A c \in Cells : HasRegion(c) =>
    \/ c \in DOMAIN pools
    \/ \E t \in Threads : pc[t].at = "unregister" /\ pc[t].cell = c /\ pc[t].line = c

\* What is tracked is in a pool, or in one whose entries are about to go.
Tracked(c) == \E i \in 0..1 : Addr(c, i) \in active
ActiveKnown == \A a \in active : \E c \in Cells, i \in 0..1 : a = Addr(c, i)
ActiveAre ==
  \A c \in Cells : Tracked(c) =>
    \/ c \in DOMAIN pools
    \/ \E t \in Threads : pc[t].at \in {"unregister", "untrack"} /\ pc[t].cell = c

PoolInv ==
  /\ PoolsOK
  /\ PoolsAre /\ FreedAre /\ FreedOnce
  /\ RegionsAre /\ BasesDiffer /\ BelieveRight /\ RegionsOfPools
  /\ ActiveKnown /\ ActiveAre

\* A reference is its caller's, and memory is mapped for one entry.
RefsAre == \A r \in DOMAIN callers : heap[r] = "ref"
MappedOnce ==
  \A r, s \in DOMAIN refs : refs[r].addr = refs[s].addr => r = s \/ refs[r].addr = Failed
CallersAgree == ~migrated => refs = callers

RefInv == RefsOK /\ RefsAre /\ MappedOnce /\ CallersAgree

MemoryInv == HeapOK /\ CallsOK /\ TileInv /\ PoolInv /\ RefInv

\* A caller does not free a reference it has migrated: its memory may be another's.
OneFree == ~FreesMigrated

\* A region of the application's own holds no pool.
Apart == ~Overlap

-----------------------------------------------------------------------------
(* The steps *)

\* A call that takes several steps passes from one to the next.
Passes(t, from, to) ==
  pc[t].at = from /\ Goto(t, IF to = "idle" THEN Idle ELSE At(to, pc[t].cell, pc[t].line))

Forgets(t) ==
  /\ Passes(t, "forget", "free_line") /\ tiles' = Without(tiles, pc[t].cell)
  /\ UNCHANGED <<heap, held, magic, poolVars, remoteVars>>
FreesLine(t) ==
  /\ Passes(t, "free_line", "free_tile") /\ Release(pc[t].line)
  /\ UNCHANGED <<tileVars, poolVars, remoteVars>>
FreesTile(t) ==
  /\ Passes(t, "free_tile", "idle") /\ Release(pc[t].cell)
  /\ UNCHANGED <<tileVars, poolVars, remoteVars>>

Clears(t) ==
  /\ Passes(t, "clear", "complete") /\ magic' = magic \ {pc[t].line}
  /\ UNCHANGED <<heap, tiles, held, poolVars, remoteVars>>
Completes(t) ==
  /\ Passes(t, "complete", "idle") /\ magic' = magic \cup ({pc[t].line} \ {None})
  /\ UNCHANGED <<heap, tiles, held, poolVars, remoteVars>>

Unregisters(t) ==
  /\ Passes(t, "unregister", "untrack")
  /\ regions' = IF pc[t].line # None THEN Unregistered(Addr(pc[t].cell, 0)) ELSE regions
  /\ UNCHANGED <<heap, pools, active, tileVars, remoteVars>>
Untracks(t) ==
  /\ Passes(t, "untrack", "free_base")
  /\ active' = active \ {Addr(pc[t].cell, i) : i \in 0..1}
  /\ UNCHANGED <<heap, pools, regions, tileVars, remoteVars>>
FreesBase(t) ==
  /\ Passes(t, "free_base", "idle") /\ Release(pc[t].cell)
  /\ UNCHANGED <<pools, active, regions, tileVars, remoteVars>>

TileSteps ==
  \E t \in Threads :
    \/ TileNoLine(t) \/ TileEnter(t) \/ TileGive(t)
    \/ Forgets(t) \/ FreesLine(t) \/ FreesTile(t)
    \/ Clears(t) \/ Completes(t) \/ GetMwaitEnds(t)
    \/ \E c \in Cells :
         \/ TileTake(t, c) \/ TileLine(t, c) \/ TileFree(t, c)
         \/ Install(t, c) \/ GetMwait(t, c)

PoolSteps ==
  \E t \in Threads :
    \/ RegisterArena(t) \/ UnregisterArena(t) \/ PhaseBarrier(t)
    \/ Unregisters(t) \/ Untracks(t) \/ FreesBase(t)
    \/ \E c \in Cells :
         \/ PoolAlloc(t, c) \/ PoolRegister(t, c) \/ PoolUnregister(t, c) \/ PoolFree(t, c)
         \/ \E i \in 0..1 : PoolArm(t, c, i)

RefSteps ==
  \E t \in Threads, r \in Cells :
    \/ RemoteDeallocate(t, r)
    \/ \E a \in Mapped \cup {Failed}, tier \in Tiers :
         \/ RemoteAllocate(t, r, a, tier)
         \/ \E n \in Cells : RemoteMigrate(t, r, n, a, tier)

\* What a list of two or three steps says.
LEMMA AfterIs ==
  ASSUME NEW order, NEW n \in Nat, DOMAIN order = 1..n, Len(order) = n, NEW k \in 1..n,
         \A j \in 1..n : order[j] = order[k] => j = k
  PROVE  After(order, order[k]) = IF k = n THEN "idle" ELSE order[k + 1]
<1>1. \A j \in DOMAIN order : order[j] = order[k] <=> j = k
  OBVIOUS
<1>2. (CHOOSE j \in DOMAIN order : order[j] = order[k]) = k
  BY <1>1
<1> QED
  BY <1>2 DEF After

LEMMA ThreeSteps ==
  ASSUME NEW s, Len(s) = 3, DOMAIN s = 1..3, s[1] # s[2], s[1] # s[3], s[2] # s[3]
  PROVE  /\ Range(s) = {s[1], s[2], s[3]}
         /\ After(s, s[1]) = s[2] /\ After(s, s[2]) = s[3] /\ After(s, s[3]) = "idle"
<1>1. \A k \in 1..3 : k = 1 \/ k = 2 \/ k = 3
  OBVIOUS
<1>2. \A j, k \in 1..3 : s[j] = s[k] => j = k
  BY <1>1
<1>3. \A k \in 1..3 : After(s, s[k]) = IF k = 3 THEN "idle" ELSE s[k + 1]
  BY <1>2, AfterIs
<1>4. After(s, s[1]) = s[2] /\ After(s, s[2]) = s[3] /\ After(s, s[3]) = "idle"
  BY <1>3
<1>5. Range(s) = {s[1], s[2], s[3]}
  BY <1>1 DEF Range
<1> QED
  BY <1>4, <1>5

LEMMA TileOrder ==
  /\ Range(TileFreeOrder) = {"forget", "free_line", "free_tile"}
  /\ Head(TileFreeOrder) = "forget"
  /\ After(TileFreeOrder, "forget") = "free_line"
  /\ After(TileFreeOrder, "free_line") = "free_tile"
  /\ After(TileFreeOrder, "free_tile") = "idle"
<1>1. /\ Len(TileFreeOrder) = 3 /\ DOMAIN TileFreeOrder = 1..3
      /\ TileFreeOrder[1] = "forget" /\ TileFreeOrder[2] = "free_line"
      /\ TileFreeOrder[3] = "free_tile" /\ Head(TileFreeOrder) = "forget"
  BY DEF TileFreeOrder
<1>2. /\ TileFreeOrder[1] # TileFreeOrder[2] /\ TileFreeOrder[1] # TileFreeOrder[3]
      /\ TileFreeOrder[2] # TileFreeOrder[3]
  BY <1>1
<1> QED
  BY <1>1, <1>2, ThreeSteps

LEMMA PoolOrder ==
  /\ Range(PoolFreeOrder) = {"unregister", "untrack", "free_base"}
  /\ Head(PoolFreeOrder) = "unregister"
  /\ After(PoolFreeOrder, "unregister") = "untrack"
  /\ After(PoolFreeOrder, "untrack") = "free_base"
  /\ After(PoolFreeOrder, "free_base") = "idle"
<1>1. /\ Len(PoolFreeOrder) = 3 /\ DOMAIN PoolFreeOrder = 1..3
      /\ PoolFreeOrder[1] = "unregister" /\ PoolFreeOrder[2] = "untrack"
      /\ PoolFreeOrder[3] = "free_base" /\ Head(PoolFreeOrder) = "unregister"
  BY DEF PoolFreeOrder
<1>2. /\ PoolFreeOrder[1] # PoolFreeOrder[2] /\ PoolFreeOrder[1] # PoolFreeOrder[3]
      /\ PoolFreeOrder[2] # PoolFreeOrder[3]
  BY <1>1
<1> QED
  BY <1>1, <1>2, ThreeSteps

LEMMA InstallsInOrder ==
  /\ Range(InstallOrder) = {"clear", "complete"}
  /\ Head(InstallOrder) = "clear"
  /\ After(InstallOrder, "clear") = "complete"
  /\ After(InstallOrder, "complete") = "idle"
<1>1. /\ Len(InstallOrder) = 2 /\ DOMAIN InstallOrder = 1..2
      /\ InstallOrder[1] = "clear" /\ InstallOrder[2] = "complete"
      /\ Head(InstallOrder) = "clear"
  BY DEF InstallOrder
<1>2. \A k \in 1..2 : k = 1 \/ k = 2
  OBVIOUS
<1>3. \A j, k \in 1..2 : InstallOrder[j] = InstallOrder[k] => j = k
  BY <1>1, <1>2
<1>4. \A k \in 1..2 :
        After(InstallOrder, InstallOrder[k]) = IF k = 2 THEN "idle" ELSE InstallOrder[k + 1]
  <2> DEFINE order == InstallOrder
  <2>1. DOMAIN order = 1..2 /\ Len(order) = 2 /\ 2 \in Nat
    BY <1>1
  <2>2. \A j, k \in 1..2 : order[j] = order[k] => j = k
    BY <1>3
  <2> HIDE DEF order
  <2>3. ASSUME NEW k \in 1..2
        PROVE  After(order, order[k]) = IF k = 2 THEN "idle" ELSE order[k + 1]
    <3>1. \A j \in 1..2 : order[j] = order[k] => j = k
      BY <2>2
    <3> QED
      BY <2>1, <3>1, AfterIs
  <2> QED
    BY <2>3 DEF order
<1>5. /\ After(InstallOrder, InstallOrder[1]) = InstallOrder[2]
      /\ After(InstallOrder, InstallOrder[2]) = "idle"
  BY <1>4
<1>6. Range(InstallOrder) = {InstallOrder[1], InstallOrder[2]}
  BY <1>1, <1>2 DEF Range
<1> QED
  BY <1>1, <1>5, <1>6

LEMMA FirstSteps ==
  /\ Head(TileFreeOrder) = "forget" /\ Head(PoolFreeOrder) = "unregister"
  /\ Head(InstallOrder) = "clear"
  BY TileOrder, PoolOrder, InstallsInOrder

\* A step of one thread leaves the calls of the others where they are.
LEMMA GotoIs ==
  ASSUME CallsOK, NEW t \in Threads, NEW p, Goto(t, p)
  PROVE  pc'[t] = p /\ \A u \in Threads : u # t => pc'[u] = pc[u]
  BY DEF CallsOK, Goto

LEMMA IdleAt == Idle.at = "idle"
  BY DEF Idle

LEMMA NoneApart == None \notin Cells
  BY CellsOK DEF None, Cells

\* Every step of Next is one of the steps above.
LEMMA StepsAre ==
  ASSUME CallsOK, Next
  PROVE  TileSteps \/ PoolSteps \/ RefSteps
<1>1. PICK t \in Threads : TileStep(t) \/ PoolStep(t) \/ RemoteStep(t)
  BY DEF Next
<1>2. pc[t] \in Calls
  BY DEF CallsOK
<1>3. \A to : [pc[t] EXCEPT !.at = to] = At(to, pc[t].cell, pc[t].line)
  BY <1>2 DEF Calls, At
<1>4. ASSUME NEW order, Proceed(t, order)
      PROVE  Passes(t, pc[t].at, After(order, pc[t].at))
  BY <1>3, <1>4 DEF Proceed, Passes
<1>5. ASSUME TileFreeStep(t) PROVE Forgets(t) \/ FreesLine(t) \/ FreesTile(t)
  <2>1. Passes(t, pc[t].at, After(TileFreeOrder, pc[t].at))
    BY <1>4, <1>5 DEF TileFreeStep
  <2>2. pc[t].at = "forget" \/ pc[t].at = "free_line" \/ pc[t].at = "free_tile"
    BY <1>5, TileOrder DEF TileFreeStep
  <2> QED
    BY <1>5, <2>1, <2>2, TileOrder DEF TileFreeStep, Forgets, FreesLine, FreesTile, tileVars
<1>6. ASSUME InstallStep(t) PROVE Clears(t) \/ Completes(t)
  <2>1. Passes(t, pc[t].at, After(InstallOrder, pc[t].at))
    BY <1>4, <1>6 DEF InstallStep
  <2>2. pc[t].at = "clear" \/ pc[t].at = "complete"
    BY <1>6, InstallsInOrder DEF InstallStep
  <2> QED
    BY <1>6, <2>1, <2>2, InstallsInOrder DEF InstallStep, Clears, Completes
<1>7. ASSUME PoolFreeStep(t) PROVE Unregisters(t) \/ Untracks(t) \/ FreesBase(t)
  <2>1. Passes(t, pc[t].at, After(PoolFreeOrder, pc[t].at))
    BY <1>4, <1>7 DEF PoolFreeStep
  <2>2. pc[t].at = "unregister" \/ pc[t].at = "untrack" \/ pc[t].at = "free_base"
    BY <1>7, PoolOrder DEF PoolFreeStep
  <2> QED
    BY <1>7, <2>1, <2>2, PoolOrder DEF PoolFreeStep, Unregisters, Untracks, FreesBase
<1> QED
  BY <1>1, <1>5, <1>6, <1>7 DEF TileStep, PoolStep, RemoteStep, TileSteps, PoolSteps, RefSteps

-----------------------------------------------------------------------------
(* What the steps of the others leave alone *)

BesideTiles ==
  /\ UNCHANGED <<tiles, held>>
  /\ \A c \in Cells : heap[c] = "line" /\ c \in magic => c \in magic'
  /\ \A c \in Cells : heap[c] \in {"tile", "line"} => heap'[c] = heap[c]
  /\ \A t \in Threads :
       \/ pc'[t] = pc[t]
       \/ ~OnTile(pc[t]) /\ ~OnTile(pc'[t]) /\ ~Installs(pc[t]) /\ ~Installs(pc'[t])

BesidePools ==
  /\ UNCHANGED <<regions, pools, active>>
  /\ \A c \in Cells : heap[c] = "pool" => heap'[c] = heap[c]
  /\ \A t \in Threads : pc'[t] = pc[t] \/ (~OnPool(pc[t]) /\ ~OnPool(pc'[t]))

BesideRefs ==
  /\ UNCHANGED <<refs, callers, migrated>>
  /\ \A c \in Cells : heap[c] = "ref" => heap'[c] = heap[c]

-----------------------------------------------------------------------------
(* Tiles *)

\* The table stays well formed.
LEMMA TilesOKStep ==
  ASSUME HeapOK, CallsOK, TilesOK, WorkedAre, ForgetsOwn,
         TileSteps
  PROVE  TilesOK'
<1> USE DEF WorkedAre, TilesOK, tileVars, OnTile, OnLine, Installs,
     CallsOK, WithinCall, HeapOK, Idle, At, Goto, IsFree, Alloc, Release, Passes, With, Without
<1>1. ASSUME NEW t \in Threads, NEW c \in Cells, TileTake(t, c) PROVE TilesOK'
  BY <1>1 DEF TileTake
<1>2. ASSUME NEW t \in Threads, NEW c \in Cells, TileLine(t, c) PROVE TilesOK'
  BY <1>2 DEF TileLine
<1>3. ASSUME NEW t \in Threads, TileNoLine(t) PROVE TilesOK'
  BY <1>3 DEF TileNoLine
<1>4. ASSUME NEW t \in Threads, TileEnter(t) PROVE TilesOK'
  BY <1>4 DEF TileEnter
<1>5. ASSUME NEW t \in Threads, NEW c \in Cells, TileFree(t, c) PROVE TilesOK'
  BY <1>5, FirstSteps DEF TileFree
<1>6. ASSUME NEW t \in Threads, Forgets(t) PROVE TilesOK'
  BY <1>6 DEF Forgets
<1>7. ASSUME NEW t \in Threads, FreesLine(t) PROVE TilesOK'
  BY <1>7 DEF FreesLine
<1>8. ASSUME NEW t \in Threads, FreesTile(t) PROVE TilesOK'
  BY <1>8 DEF FreesTile
<1>9. ASSUME NEW t \in Threads, TileGive(t) PROVE TilesOK'
  BY <1>9 DEF TileGive, ForgetsOwn, EntryOf
<1>10. ASSUME NEW t \in Threads, NEW c \in Cells, Install(t, c) PROVE TilesOK'
  BY <1>10, FirstSteps DEF Install
<1>11. ASSUME NEW t \in Threads, Clears(t) PROVE TilesOK'
  BY <1>11 DEF Clears
<1>12. ASSUME NEW t \in Threads, Completes(t) PROVE TilesOK'
  BY <1>12 DEF Completes
<1>13. ASSUME NEW t \in Threads, NEW c \in Cells, GetMwait(t, c) PROVE TilesOK'
  BY <1>13 DEF GetMwait
<1>14. ASSUME NEW t \in Threads, GetMwaitEnds(t) PROVE TilesOK'
  BY <1>14 DEF GetMwaitEnds
<1> QED
  BY <1>1, <1>2, <1>3, <1>4, <1>5, <1>6, <1>7, <1>8, <1>9, <1>10, <1>11, <1>12, <1>13, <1>14
     DEF TileSteps

\* A tile is held when it is entered, and freed when it no longer is.
LEMMA HeldStep ==
  ASSUME HeapOK, CallsOK, TilesOK, HeldAre, WorkedAre, LooseAre,
         TileSteps
  PROVE  HeldAre'
<1> USE DEF HeldAre, WorkedAre, LooseAre, tileVars, OnTile, OnLine, Installs, CallsOK,
     WithinCall, HeapOK, Idle, At, Goto, IsFree, Alloc, Release, Passes, With, Without, TilesOK
<1>1. ASSUME NEW t \in Threads, NEW c \in Cells, TileTake(t, c) PROVE HeldAre'
  BY <1>1 DEF TileTake
<1>2. ASSUME NEW t \in Threads, NEW c \in Cells, TileLine(t, c) PROVE HeldAre'
  BY <1>2 DEF TileLine
<1>3. ASSUME NEW t \in Threads, TileNoLine(t) PROVE HeldAre'
  BY <1>3 DEF TileNoLine
<1>4. ASSUME NEW t \in Threads, TileEnter(t) PROVE HeldAre'
  BY <1>4 DEF TileEnter
<1>5. ASSUME NEW t \in Threads, NEW c \in Cells, TileFree(t, c) PROVE HeldAre'
  BY <1>5, FirstSteps DEF TileFree
<1>6. ASSUME NEW t \in Threads, Forgets(t) PROVE HeldAre'
  BY <1>6 DEF Forgets
<1>7. ASSUME NEW t \in Threads, FreesLine(t) PROVE HeldAre'
  BY <1>7 DEF FreesLine
<1>8. ASSUME NEW t \in Threads, FreesTile(t) PROVE HeldAre'
  BY <1>8 DEF FreesTile
<1>9. ASSUME NEW t \in Threads, TileGive(t) PROVE HeldAre'
  BY <1>9 DEF TileGive
<1>10. ASSUME NEW t \in Threads, NEW c \in Cells, Install(t, c) PROVE HeldAre'
  BY <1>10, FirstSteps DEF Install
<1>11. ASSUME NEW t \in Threads, Clears(t) PROVE HeldAre'
  BY <1>11 DEF Clears
<1>12. ASSUME NEW t \in Threads, Completes(t) PROVE HeldAre'
  BY <1>12 DEF Completes
<1>13. ASSUME NEW t \in Threads, NEW c \in Cells, GetMwait(t, c) PROVE HeldAre'
  BY <1>13 DEF GetMwait
<1>14. ASSUME NEW t \in Threads, GetMwaitEnds(t) PROVE HeldAre'
  BY <1>14 DEF GetMwaitEnds
<1> QED
  BY <1>1, <1>2, <1>3, <1>4, <1>5, <1>6, <1>7, <1>8, <1>9, <1>10, <1>11, <1>12, <1>13, <1>14
     DEF TileSteps

\* A call allocates a tile from free memory, or takes it out of held.
LEMMA WorkedStep ==
  ASSUME HeapOK, CallsOK, TilesOK, HeldAre, WorkedAre, WorkedOnce, LooseAre,
         TileSteps
  PROVE  WorkedAre'
<1> USE DEF HeldAre, WorkedAre, WorkedOnce, LooseAre, tileVars, OnTile, OnLine, Installs,
     CallsOK, WithinCall, HeapOK, Idle, At, Goto, IsFree, Alloc, Release, Passes, With,
     Without, TilesOK
<1>1. ASSUME NEW t \in Threads, NEW c \in Cells, TileTake(t, c) PROVE WorkedAre'
  BY <1>1 DEF TileTake
<1>2. ASSUME NEW t \in Threads, NEW c \in Cells, TileLine(t, c) PROVE WorkedAre'
  BY <1>2 DEF TileLine
<1>3. ASSUME NEW t \in Threads, TileNoLine(t) PROVE WorkedAre'
  BY <1>3 DEF TileNoLine
<1>4. ASSUME NEW t \in Threads, TileEnter(t) PROVE WorkedAre'
  BY <1>4 DEF TileEnter
<1>5. ASSUME NEW t \in Threads, NEW c \in Cells, TileFree(t, c) PROVE WorkedAre'
  BY <1>5, FirstSteps DEF TileFree
<1>6. ASSUME NEW t \in Threads, Forgets(t) PROVE WorkedAre'
  BY <1>6 DEF Forgets
<1>7. ASSUME NEW t \in Threads, FreesLine(t) PROVE WorkedAre'
  BY <1>7 DEF FreesLine
<1>8. ASSUME NEW t \in Threads, FreesTile(t) PROVE WorkedAre'
  BY <1>8 DEF FreesTile
<1>9. ASSUME NEW t \in Threads, TileGive(t) PROVE WorkedAre'
  BY <1>9 DEF TileGive
<1>10. ASSUME NEW t \in Threads, NEW c \in Cells, Install(t, c) PROVE WorkedAre'
  BY <1>10, FirstSteps DEF Install
<1>11. ASSUME NEW t \in Threads, Clears(t) PROVE WorkedAre'
  BY <1>11 DEF Clears
<1>12. ASSUME NEW t \in Threads, Completes(t) PROVE WorkedAre'
  BY <1>12 DEF Completes
<1>13. ASSUME NEW t \in Threads, NEW c \in Cells, GetMwait(t, c) PROVE WorkedAre'
  BY <1>13 DEF GetMwait
<1>14. ASSUME NEW t \in Threads, GetMwaitEnds(t) PROVE WorkedAre'
  BY <1>14 DEF GetMwaitEnds
<1> QED
  BY <1>1, <1>2, <1>3, <1>4, <1>5, <1>6, <1>7, <1>8, <1>9, <1>10, <1>11, <1>12, <1>13, <1>14
     DEF TileSteps

\* So no other call works on it.
LEMMA WorkedOnceStep ==
  ASSUME HeapOK, CallsOK, TilesOK, HeldAre, WorkedAre, WorkedOnce,
         TileSteps
  PROVE  WorkedOnce'
<1> USE DEF HeldAre, WorkedAre, WorkedOnce, OnTile, OnLine, Installs, CallsOK, WithinCall,
     HeapOK, Idle, At, Goto, IsFree, Alloc, Release, Passes, With, Without, TilesOK
<1>1. ASSUME NEW t \in Threads, NEW c \in Cells, TileTake(t, c) PROVE WorkedOnce'
  BY <1>1 DEF TileTake
<1>2. ASSUME NEW t \in Threads, NEW c \in Cells, TileLine(t, c) PROVE WorkedOnce'
  BY <1>2 DEF TileLine
<1>3. ASSUME NEW t \in Threads, TileNoLine(t) PROVE WorkedOnce'
  BY <1>3 DEF TileNoLine
<1>4. ASSUME NEW t \in Threads, TileEnter(t) PROVE WorkedOnce'
  BY <1>4 DEF TileEnter
<1>5. ASSUME NEW t \in Threads, NEW c \in Cells, TileFree(t, c) PROVE WorkedOnce'
  BY <1>5, FirstSteps DEF TileFree
<1>6. ASSUME NEW t \in Threads, Forgets(t) PROVE WorkedOnce'
  BY <1>6 DEF Forgets
<1>7. ASSUME NEW t \in Threads, FreesLine(t) PROVE WorkedOnce'
  BY <1>7 DEF FreesLine
<1>8. ASSUME NEW t \in Threads, FreesTile(t) PROVE WorkedOnce'
  BY <1>8 DEF FreesTile
<1>9. ASSUME NEW t \in Threads, TileGive(t) PROVE WorkedOnce'
  BY <1>9 DEF TileGive
<1>10. ASSUME NEW t \in Threads, NEW c \in Cells, Install(t, c) PROVE WorkedOnce'
  BY <1>10, FirstSteps DEF Install
<1>11. ASSUME NEW t \in Threads, Clears(t) PROVE WorkedOnce'
  BY <1>11 DEF Clears
<1>12. ASSUME NEW t \in Threads, Completes(t) PROVE WorkedOnce'
  BY <1>12 DEF Completes
<1>13. ASSUME NEW t \in Threads, NEW c \in Cells, GetMwait(t, c) PROVE WorkedOnce'
  BY <1>13 DEF GetMwait
<1>14. ASSUME NEW t \in Threads, GetMwaitEnds(t) PROVE WorkedOnce'
  BY <1>14 DEF GetMwaitEnds
<1> QED
  BY <1>1, <1>2, <1>3, <1>4, <1>5, <1>6, <1>7, <1>8, <1>9, <1>10, <1>11, <1>12, <1>13, <1>14
     DEF TileSteps

\* An entry is forgotten by the call that took the tile out of held.
LEMMA EntriesStep ==
  ASSUME HeapOK, CallsOK, TilesOK, EntriesKnown, WorkedOnce,
         TileSteps
  PROVE  EntriesKnown'
<1> USE DEF EntryOf, EntriesKnown, WorkedOnce, tileVars, OnTile, OnLine, Installs, CallsOK, WithinCall,
     HeapOK, Idle, At, Goto, IsFree, Alloc, Release, Passes, With, Without, TilesOK
<1>1. ASSUME NEW t \in Threads, NEW c \in Cells, TileTake(t, c) PROVE EntriesKnown'
  <2>1. UNCHANGED <<tiles, held>> /\ pc[t] = Idle
    BY <1>1 DEF TileTake, Install
  <2>2. \A u \in Threads : u # t => pc'[u] = pc[u]
    BY <1>1 DEF TileTake, Install
  <2> HIDE DEF Idle
  <2>3. pc[t].at = "idle"
    BY <2>1, IdleAt
  <2>4. \A u \in Threads : EntryOf(pc[u]) => pc'[u] = pc[u]
    BY <2>2, <2>3
  <2> HIDE DEF OnTile, OnLine, Installs, CallsOK, WithinCall, HeapOK, TilesOK, Goto, At
  <2> QED
    BY <2>1, <2>4
<1>2. ASSUME NEW t \in Threads, NEW c \in Cells, TileLine(t, c) PROVE EntriesKnown'
  BY <1>2 DEF TileLine
<1>3. ASSUME NEW t \in Threads, TileNoLine(t) PROVE EntriesKnown'
  BY <1>3 DEF TileNoLine
<1>4. ASSUME NEW t \in Threads, TileEnter(t) PROVE EntriesKnown'
  BY <1>4 DEF TileEnter
<1>5. ASSUME NEW t \in Threads, NEW c \in Cells, TileFree(t, c) PROVE EntriesKnown'
  <2>1. UNCHANGED tiles /\ held' = held \ {c} /\ pc'[t].at = "forget" /\ pc'[t].cell = c
    BY <1>5, FirstSteps DEF TileFree
  <2>2. pc[t] = Idle /\ \A u \in Threads : u # t => pc'[u] = pc[u]
    BY <1>5 DEF TileFree
  <2> HIDE DEF Idle
  <2>3. \A u \in Threads : EntryOf(pc[u]) => pc'[u] = pc[u]
    BY <2>2, IdleAt
  <2> HIDE DEF OnTile, OnLine, Installs, CallsOK, WithinCall, HeapOK, TilesOK, Goto, At
  <2> QED
    BY <2>1, <2>3
<1>6. ASSUME NEW t \in Threads, Forgets(t) PROVE EntriesKnown'
  BY <1>6 DEF Forgets
<1>7. ASSUME NEW t \in Threads, FreesLine(t) PROVE EntriesKnown'
  BY <1>7 DEF FreesLine
<1>8. ASSUME NEW t \in Threads, FreesTile(t) PROVE EntriesKnown'
  BY <1>8 DEF FreesTile
<1>9. ASSUME NEW t \in Threads, TileGive(t) PROVE EntriesKnown'
  BY <1>9 DEF TileGive
<1>10. ASSUME NEW t \in Threads, NEW c \in Cells, Install(t, c) PROVE EntriesKnown'
  <2>1. UNCHANGED <<tiles, held>> /\ pc[t] = Idle
    BY <1>10 DEF TileTake, Install
  <2>2. \A u \in Threads : u # t => pc'[u] = pc[u]
    BY <1>10 DEF TileTake, Install
  <2> HIDE DEF Idle
  <2>3. pc[t].at = "idle"
    BY <2>1, IdleAt
  <2>4. \A u \in Threads : EntryOf(pc[u]) => pc'[u] = pc[u]
    BY <2>2, <2>3
  <2> HIDE DEF OnTile, OnLine, Installs, CallsOK, WithinCall, HeapOK, TilesOK, Goto, At
  <2> QED
    BY <2>1, <2>4
<1>11. ASSUME NEW t \in Threads, Clears(t) PROVE EntriesKnown'
  BY <1>11 DEF Clears
<1>12. ASSUME NEW t \in Threads, Completes(t) PROVE EntriesKnown'
  BY <1>12 DEF Completes
<1>13. ASSUME NEW t \in Threads, NEW c \in Cells, GetMwait(t, c) PROVE EntriesKnown'
  BY <1>13 DEF GetMwait
<1>14. ASSUME NEW t \in Threads, GetMwaitEnds(t) PROVE EntriesKnown'
  BY <1>14 DEF GetMwaitEnds
<1> QED
  BY <1>1, <1>2, <1>3, <1>4, <1>5, <1>6, <1>7, <1>8, <1>9, <1>10, <1>11, <1>12, <1>13, <1>14
     DEF TileSteps

\* The call that forgets an entry has its line.
LEMMA ForgetsStep ==
  ASSUME HeapOK, CallsOK, TilesOK, ForgetsOwn, WorkedAre, WorkedOnce, EntriesKnown,
         TileSteps
  PROVE  ForgetsOwn'
<1> USE DEF EntryOf, ForgetsOwn, WorkedAre, WorkedOnce, EntriesKnown, tileVars, OnTile, OnLine,
     Installs, CallsOK, WithinCall, HeapOK, Idle, At, Goto, IsFree, Alloc, Release, Passes,
     With, Without, TilesOK
<1>1. ASSUME NEW t \in Threads, NEW c \in Cells, TileTake(t, c) PROVE ForgetsOwn'
  BY <1>1 DEF TileTake
<1>2. ASSUME NEW t \in Threads, NEW c \in Cells, TileLine(t, c) PROVE ForgetsOwn'
  BY <1>2 DEF TileLine
<1>3. ASSUME NEW t \in Threads, TileNoLine(t) PROVE ForgetsOwn'
  BY <1>3 DEF TileNoLine
<1>4. ASSUME NEW t \in Threads, TileEnter(t) PROVE ForgetsOwn'
  BY <1>4 DEF TileEnter
<1>5. ASSUME NEW t \in Threads, NEW c \in Cells, TileFree(t, c) PROVE ForgetsOwn'
  BY <1>5, FirstSteps DEF TileFree
<1>6. ASSUME NEW t \in Threads, Forgets(t) PROVE ForgetsOwn'
  BY <1>6 DEF Forgets
<1>7. ASSUME NEW t \in Threads, FreesLine(t) PROVE ForgetsOwn'
  BY <1>7 DEF FreesLine
<1>8. ASSUME NEW t \in Threads, FreesTile(t) PROVE ForgetsOwn'
  BY <1>8 DEF FreesTile
<1>9. ASSUME NEW t \in Threads, TileGive(t) PROVE ForgetsOwn'
  BY <1>9 DEF TileGive
<1>10. ASSUME NEW t \in Threads, NEW c \in Cells, Install(t, c) PROVE ForgetsOwn'
  BY <1>10, FirstSteps DEF Install
<1>11. ASSUME NEW t \in Threads, Clears(t) PROVE ForgetsOwn'
  BY <1>11 DEF Clears
<1>12. ASSUME NEW t \in Threads, Completes(t) PROVE ForgetsOwn'
  BY <1>12 DEF Completes
<1>13. ASSUME NEW t \in Threads, NEW c \in Cells, GetMwait(t, c) PROVE ForgetsOwn'
  BY <1>13 DEF GetMwait
<1>14. ASSUME NEW t \in Threads, GetMwaitEnds(t) PROVE ForgetsOwn'
  BY <1>14 DEF GetMwaitEnds
<1> QED
  BY <1>1, <1>2, <1>3, <1>4, <1>5, <1>6, <1>7, <1>8, <1>9, <1>10, <1>11, <1>12, <1>13, <1>14
     DEF TileSteps

\* A line is allocated for the entry to come, and freed once it is forgotten.
LEMMA LinesStep ==
  ASSUME HeapOK, CallsOK, TilesOK, LinesAre, LooseAre, WorkedAre, ForgetsOwn, LinesDiffer,
         TileSteps
  PROVE  LinesAre'
<1> USE DEF EntryOf, LinesAre, LooseAre, WorkedAre, ForgetsOwn, LinesDiffer, tileVars, OnTile, OnLine,
     Installs, CallsOK, WithinCall, HeapOK, Idle, At, Goto, IsFree, Alloc, Release, Passes,
     With, Without, TilesOK
<1>1. ASSUME NEW t \in Threads, NEW c \in Cells, TileTake(t, c) PROVE LinesAre'
  BY <1>1 DEF TileTake
<1>2. ASSUME NEW t \in Threads, NEW c \in Cells, TileLine(t, c) PROVE LinesAre'
  BY <1>2 DEF TileLine
<1>3. ASSUME NEW t \in Threads, TileNoLine(t) PROVE LinesAre'
  BY <1>3 DEF TileNoLine
<1>4. ASSUME NEW t \in Threads, TileEnter(t) PROVE LinesAre'
  BY <1>4 DEF TileEnter
<1>5. ASSUME NEW t \in Threads, NEW c \in Cells, TileFree(t, c) PROVE LinesAre'
  BY <1>5, FirstSteps DEF TileFree
<1>6. ASSUME NEW t \in Threads, Forgets(t) PROVE LinesAre'
  BY <1>6 DEF Forgets
<1>7. ASSUME NEW t \in Threads, FreesLine(t) PROVE LinesAre'
  <2>1. \A d \in DOMAIN tiles : tiles[d] # pc[t].line
    BY <1>7 DEF FreesLine
  <2>2. pc[t].line \in Cells /\ UNCHANGED tiles /\ heap' = [heap EXCEPT ![pc[t].line] = "free"]
    BY <1>7 DEF FreesLine
  <2>3. \A d \in DOMAIN tiles : tiles[d] \in Cells /\ heap[tiles[d]] = "line"
    OBVIOUS
  <2> HIDE DEF LooseAre, WorkedAre, ForgetsOwn, LinesDiffer, OnTile, OnLine, Installs, CallsOK,
           WithinCall, TilesOK, Goto, At
  <2> QED
    BY <2>1, <2>2, <2>3
<1>8. ASSUME NEW t \in Threads, FreesTile(t) PROVE LinesAre'
  BY <1>8 DEF FreesTile
<1>9. ASSUME NEW t \in Threads, TileGive(t) PROVE LinesAre'
  BY <1>9 DEF TileGive
<1>10. ASSUME NEW t \in Threads, NEW c \in Cells, Install(t, c) PROVE LinesAre'
  BY <1>10, FirstSteps DEF Install
<1>11. ASSUME NEW t \in Threads, Clears(t) PROVE LinesAre'
  BY <1>11 DEF Clears
<1>12. ASSUME NEW t \in Threads, Completes(t) PROVE LinesAre'
  BY <1>12 DEF Completes
<1>13. ASSUME NEW t \in Threads, NEW c \in Cells, GetMwait(t, c) PROVE LinesAre'
  BY <1>13 DEF GetMwait
<1>14. ASSUME NEW t \in Threads, GetMwaitEnds(t) PROVE LinesAre'
  BY <1>14 DEF GetMwaitEnds
<1> QED
  BY <1>1, <1>2, <1>3, <1>4, <1>5, <1>6, <1>7, <1>8, <1>9, <1>10, <1>11, <1>12, <1>13, <1>14
     DEF TileSteps

\* It is entered once.
LEMMA LinesDifferStep ==
  ASSUME HeapOK, CallsOK, TilesOK, LinesDiffer, LooseAre,
         TileSteps
  PROVE  LinesDiffer'
<1> USE DEF LinesDiffer, LooseAre, tileVars, OnTile, OnLine, Installs, CallsOK, WithinCall,
     HeapOK, Idle, At, Goto, IsFree, Alloc, Release, Passes, With, Without, TilesOK
<1>1. ASSUME NEW t \in Threads, NEW c \in Cells, TileTake(t, c) PROVE LinesDiffer'
  BY <1>1 DEF TileTake
<1>2. ASSUME NEW t \in Threads, NEW c \in Cells, TileLine(t, c) PROVE LinesDiffer'
  BY <1>2 DEF TileLine
<1>3. ASSUME NEW t \in Threads, TileNoLine(t) PROVE LinesDiffer'
  BY <1>3 DEF TileNoLine
<1>4. ASSUME NEW t \in Threads, TileEnter(t) PROVE LinesDiffer'
  BY <1>4 DEF TileEnter
<1>5. ASSUME NEW t \in Threads, NEW c \in Cells, TileFree(t, c) PROVE LinesDiffer'
  BY <1>5, FirstSteps DEF TileFree
<1>6. ASSUME NEW t \in Threads, Forgets(t) PROVE LinesDiffer'
  BY <1>6 DEF Forgets
<1>7. ASSUME NEW t \in Threads, FreesLine(t) PROVE LinesDiffer'
  BY <1>7 DEF FreesLine
<1>8. ASSUME NEW t \in Threads, FreesTile(t) PROVE LinesDiffer'
  BY <1>8 DEF FreesTile
<1>9. ASSUME NEW t \in Threads, TileGive(t) PROVE LinesDiffer'
  BY <1>9 DEF TileGive
<1>10. ASSUME NEW t \in Threads, NEW c \in Cells, Install(t, c) PROVE LinesDiffer'
  BY <1>10, FirstSteps DEF Install
<1>11. ASSUME NEW t \in Threads, Clears(t) PROVE LinesDiffer'
  BY <1>11 DEF Clears
<1>12. ASSUME NEW t \in Threads, Completes(t) PROVE LinesDiffer'
  BY <1>12 DEF Completes
<1>13. ASSUME NEW t \in Threads, NEW c \in Cells, GetMwait(t, c) PROVE LinesDiffer'
  BY <1>13 DEF GetMwait
<1>14. ASSUME NEW t \in Threads, GetMwaitEnds(t) PROVE LinesDiffer'
  BY <1>14 DEF GetMwaitEnds
<1> QED
  BY <1>1, <1>2, <1>3, <1>4, <1>5, <1>6, <1>7, <1>8, <1>9, <1>10, <1>11, <1>12, <1>13, <1>14
     DEF TileSteps

LEMMA PassesIs ==
  ASSUME CallsOK, NEW t \in Threads, NEW from, NEW to, Passes(t, from, to)
  PROVE  /\ pc[t].at = from /\ \A u \in Threads : u # t => pc'[u] = pc[u]
         /\ pc'[t] = IF to = "idle" THEN Idle ELSE At(to, pc[t].cell, pc[t].line)
BY GotoIs DEF Passes

\* The entry is in the table before the tile is given out.
LEMMA EnterPasses ==
  ASSUME CallsOK, NEW t \in Threads, TileEnter(t)
  PROVE  Passes(t, "enter", "give")
<1>1. pc[t] \in Calls
  BY DEF CallsOK
<1>2. [pc[t] EXCEPT !.at = "give"] = At("give", pc[t].cell, pc[t].line)
  BY <1>1 DEF Calls, At
<1> QED
  BY <1>2 DEF TileEnter, Passes

\* Where a call is, and whether it has a line of its own there.
LEMMA AtIs ==
  ASSUME NEW label, NEW c, NEW l
  PROVE  /\ At(label, c, l).at = label /\ At(label, c, l).cell = c /\ At(label, c, l).line = l
         /\ OnLine(At(label, c, l)) <=> label \in {"enter", "free_line"}
BY DEF At, OnLine

LEMMA IdleHasNoLine == ~OnLine(Idle)
BY DEF Idle, OnLine

\* Lines stay loose if they stay allocated, and their calls stay where they are.
LEMMA LooseKept ==
  ASSUME LooseAre, NEW t \in Threads, \A u \in Threads : u # t => pc'[u] = pc[u],
         UNCHANGED tiles,
         \A u \in Threads : u # t /\ OnLine(pc[u]) => heap'[pc[u].line] = heap[pc[u].line],
         OnLine(pc'[t]) => /\ heap'[pc'[t].line] = "line"
                           /\ \A c \in DOMAIN tiles : tiles[c] # pc'[t].line
  PROVE  LooseAre'
<1>1. ASSUME NEW u \in Threads, OnLine(pc'[u])
      PROVE  heap'[pc'[u].line] = "line" /\ \A c \in DOMAIN tiles : tiles[c] # pc'[u].line
  <2>1. CASE u = t
    BY <1>1, <2>1
  <2>2. CASE u # t
    BY <1>1, <2>2 DEF LooseAre
  <2> QED
    BY <2>1, <2>2
<1> QED
  BY <1>1 DEF LooseAre, OnLine

\* A cell that is no line is none that a call enters or frees.
LEMMA NoLine ==
  ASSUME HeapOK, CallsOK, LooseAre, NEW c, heap[c] # "line", NEW v, heap' = [heap EXCEPT ![c] = v]
  PROVE  \A u \in Threads : OnLine(pc[u]) => heap'[pc[u].line] = heap[pc[u].line]
<1> SUFFICES ASSUME NEW u \in Threads, OnLine(pc[u]) PROVE heap'[pc[u].line] = heap[pc[u].line]
  OBVIOUS
<1>1. pc[u].line \in Cells
  BY DEF CallsOK, WithinCall, OnLine, OnTile
<1>2. pc[u].line # c
  BY DEF LooseAre
<1> QED
  BY <1>1, <1>2 DEF HeapOK

\* A line that is entered or freed is no entry's.
LEMMA LooseStep ==
  ASSUME HeapOK, CallsOK, TilesOK, LooseAre, LooseOnce, LinesAre, LinesDiffer, ForgetsOwn, WorkedAre,
         TileSteps
  PROVE  LooseAre'
<1>1. ASSUME NEW t \in Threads, NEW c \in Cells, TileTake(t, c) PROVE LooseAre'
  <2>1. /\ UNCHANGED tiles /\ heap[c] # "line" /\ heap' = [heap EXCEPT ![c] = "tile"]
        /\ Goto(t, At("take_line", c, None))
    BY <1>1 DEF TileTake, IsFree, Alloc, tileVars
  <2>2. ~OnLine(pc'[t]) /\ \A u \in Threads : u # t => pc'[u] = pc[u]
    BY <2>1, GotoIs, AtIs
  <2> QED
    BY <2>1, <2>2, NoLine, LooseKept
<1>2. ASSUME NEW t \in Threads, NEW c \in Cells, TileLine(t, c) PROVE LooseAre'
  <2>1. /\ UNCHANGED tiles /\ heap[c] = "free" /\ heap' = [heap EXCEPT ![c] = "line"]
        /\ Goto(t, At("enter", pc[t].cell, c))
    BY <1>2 DEF TileLine, IsFree, Alloc
  <2>2. heap'[c] = "line" /\ \A d \in DOMAIN tiles : tiles[d] # c
    BY <2>1 DEF HeapOK, LinesAre
  <2>3. pc'[t].line = c
    BY <2>1, GotoIs, AtIs
  <2>4. \A u \in Threads : OnLine(pc[u]) => heap'[pc[u].line] = heap[pc[u].line]
    BY <2>1, NoLine
  <2> QED
    BY <2>1, <2>2, <2>3, <2>4, GotoIs, LooseKept
<1>3. ASSUME NEW t \in Threads, TileNoLine(t) PROVE LooseAre'
  <2>1. UNCHANGED tiles /\ heap' = [heap EXCEPT ![pc[t].cell] = "free"] /\ Goto(t, Idle)
    BY <1>3 DEF TileNoLine, Release, tileVars
  <2>2. heap[pc[t].cell] # "line"
    BY <1>3 DEF TileNoLine, WorkedAre, OnTile
  <2>3. ~OnLine(pc'[t]) /\ \A u \in Threads : u # t => pc'[u] = pc[u]
    BY <2>1, GotoIs, IdleHasNoLine
  <2> QED
    BY <2>1, <2>2, <2>3, NoLine, LooseKept
<1>4. ASSUME NEW t \in Threads, TileEnter(t) PROVE LooseAre'
  <2>1. /\ UNCHANGED heap /\ tiles' = With(tiles, pc[t].cell, pc[t].line)
        /\ Passes(t, "enter", "give") /\ OnLine(pc[t])
    BY <1>4, EnterPasses DEF TileEnter, OnLine
  <2>2. ASSUME NEW u \in Threads, OnLine(pc'[u])
        PROVE  heap'[pc'[u].line] = "line" /\ \A c \in DOMAIN tiles' : tiles'[c] # pc'[u].line
    <3>1. u # t /\ pc'[u] = pc[u]
      BY <2>1, <2>2, PassesIs, AtIs
    <3>2. pc[u].line # pc[t].line
      BY <2>1, <2>2, <3>1 DEF LooseOnce
    <3>3. heap[pc[u].line] = "line" /\ \A c \in DOMAIN tiles : tiles[c] # pc[u].line
      BY <2>2, <3>1 DEF LooseAre
    <3> QED
      BY <2>1, <3>1, <3>2, <3>3 DEF With
  <2> QED
    BY <2>2 DEF LooseAre, OnLine
<1>5. ASSUME NEW t \in Threads, NEW c \in Cells, TileFree(t, c) PROVE LooseAre'
  <2>1. UNCHANGED <<heap, tiles>> /\ Goto(t, At("forget", c, tiles[c]))
    BY <1>5, FirstSteps DEF TileFree
  <2>2. ~OnLine(pc'[t]) /\ \A u \in Threads : u # t => pc'[u] = pc[u]
    BY <2>1, GotoIs, AtIs
  <2> QED
    BY <2>1, <2>2, LooseKept
<1>6. ASSUME NEW t \in Threads, Forgets(t) PROVE LooseAre'
  <2>1. pc[t].cell \in DOMAIN tiles /\ tiles[pc[t].cell] = pc[t].line
    BY <1>6, PassesIs DEF Forgets, ForgetsOwn, EntryOf
  <2>2. /\ UNCHANGED heap /\ DOMAIN tiles' = DOMAIN tiles \ {pc[t].cell}
        /\ \A d \in DOMAIN tiles' : tiles'[d] = tiles[d]
    BY <1>6 DEF Forgets, Without
  <2>3. pc'[t].line = pc[t].line /\ \A u \in Threads : u # t => pc'[u] = pc[u]
    BY <1>6, PassesIs, AtIs DEF Forgets
  <2>4. heap'[pc'[t].line] = "line" /\ \A d \in DOMAIN tiles' : tiles'[d] # pc'[t].line
    BY <2>1, <2>2, <2>3 DEF LinesAre, LinesDiffer
  <2>5. ASSUME NEW u \in Threads, u # t, OnLine(pc'[u])
        PROVE  heap'[pc'[u].line] = "line" /\ \A d \in DOMAIN tiles' : tiles'[d] # pc'[u].line
    BY <2>2, <2>3, <2>5 DEF LooseAre
  <2> QED
    BY <2>4, <2>5 DEF LooseAre, OnLine
<1>7. ASSUME NEW t \in Threads, FreesLine(t) PROVE LooseAre'
  <2>1. /\ UNCHANGED tiles /\ heap' = [heap EXCEPT ![pc[t].line] = "free"]
        /\ Passes(t, "free_line", "free_tile")
    BY <1>7 DEF FreesLine, Release, tileVars
  <2>2. ASSUME NEW u \in Threads, u # t, OnLine(pc[u]) PROVE heap'[pc[u].line] = heap[pc[u].line]
    <3>1. OnLine(pc[t])
      BY <2>1, PassesIs DEF OnLine
    <3>2. pc[u].line # pc[t].line
      BY <2>2, <3>1 DEF LooseOnce
    <3>3. pc[u].line \in Cells
      BY <2>2 DEF CallsOK, WithinCall, OnLine, OnTile
    <3> QED
      BY <2>1, <3>2, <3>3 DEF HeapOK
  <2>3. ~OnLine(pc'[t])
    BY <2>1, PassesIs, AtIs
  <2> QED
    BY <2>1, <2>2, <2>3, PassesIs, LooseKept
<1>8. ASSUME NEW t \in Threads, FreesTile(t) PROVE LooseAre'
  <2>1. /\ UNCHANGED tiles /\ heap' = [heap EXCEPT ![pc[t].cell] = "free"]
        /\ Passes(t, "free_tile", "idle")
    BY <1>8 DEF FreesTile, Release, tileVars
  <2>2. heap[pc[t].cell] # "line"
    BY <2>1, PassesIs DEF WorkedAre, OnTile
  <2>3. ~OnLine(pc'[t])
    BY <2>1, PassesIs, IdleHasNoLine
  <2> QED
    BY <2>1, <2>2, <2>3, PassesIs, NoLine, LooseKept
<1>9. ASSUME NEW t \in Threads, TileGive(t) \/ GetMwaitEnds(t) PROVE LooseAre'
  <2>1. UNCHANGED <<heap, tiles>> /\ Goto(t, Idle)
    BY <1>9 DEF TileGive, GetMwaitEnds, tileVars
  <2>2. ~OnLine(pc'[t]) /\ \A u \in Threads : u # t => pc'[u] = pc[u]
    BY <2>1, GotoIs, IdleHasNoLine
  <2> QED
    BY <2>1, <2>2, LooseKept
<1>10. ASSUME NEW t \in Threads, NEW c \in Cells, Install(t, c) \/ GetMwait(t, c)
       PROVE  LooseAre'
  <2>1. /\ UNCHANGED <<heap, tiles>>
        /\ \E label \in {"clear", "await"}, l \in {tiles[c], None} : Goto(t, At(label, c, l))
    BY <1>10, FirstSteps DEF Install, GetMwait, tileVars
  <2>2. ~OnLine(pc'[t]) /\ \A u \in Threads : u # t => pc'[u] = pc[u]
    BY <2>1, GotoIs, AtIs
  <2> QED
    BY <2>1, <2>2, LooseKept
<1>11. ASSUME NEW t \in Threads, Clears(t) \/ Completes(t) PROVE LooseAre'
  <2>1. /\ UNCHANGED <<heap, tiles>>
        /\ Passes(t, "clear", "complete") \/ Passes(t, "complete", "idle")
    BY <1>11 DEF Clears, Completes
  <2>2. /\ \A u \in Threads : u # t => pc'[u] = pc[u]
        /\ ~OnLine(pc'[t])
    BY <2>1, PassesIs, AtIs, IdleHasNoLine
  <2> QED
    BY <2>1, <2>2, LooseKept
<1> QED
  BY <1>1, <1>2, <1>3, <1>4, <1>5, <1>6, <1>7, <1>8, <1>9, <1>10, <1>11 DEF TileSteps

\* And no other call's.
LEMMA LooseOnceStep ==
  ASSUME HeapOK, CallsOK, TilesOK, LooseOnce, LooseAre, LinesAre, ForgetsOwn,
         TileSteps
  PROVE  LooseOnce'
<1> USE DEF EntryOf, LooseOnce, LooseAre, LinesAre, ForgetsOwn, OnTile, OnLine, Installs, CallsOK,
     WithinCall, HeapOK, Idle, At, Goto, IsFree, Alloc, Release, Passes, With, Without, TilesOK
<1>1. ASSUME NEW t \in Threads, NEW c \in Cells, TileTake(t, c) PROVE LooseOnce'
  BY <1>1 DEF TileTake
<1>2. ASSUME NEW t \in Threads, NEW c \in Cells, TileLine(t, c) PROVE LooseOnce'
  BY <1>2 DEF TileLine
<1>3. ASSUME NEW t \in Threads, TileNoLine(t) PROVE LooseOnce'
  BY <1>3 DEF TileNoLine
<1>4. ASSUME NEW t \in Threads, TileEnter(t) PROVE LooseOnce'
  BY <1>4 DEF TileEnter
<1>5. ASSUME NEW t \in Threads, NEW c \in Cells, TileFree(t, c) PROVE LooseOnce'
  BY <1>5, FirstSteps DEF TileFree
<1>6. ASSUME NEW t \in Threads, Forgets(t) PROVE LooseOnce'
  <2>1. pc[t].cell \in DOMAIN tiles /\ tiles[pc[t].cell] = pc[t].line
    BY <1>6 DEF Forgets
  <2>2. pc'[t].line = pc[t].line /\ \A u \in Threads : u # t => pc'[u] = pc[u]
    BY <1>6 DEF Forgets
  <2> HIDE DEF OnTile, OnLine, Installs, CallsOK, WithinCall, HeapOK, TilesOK, Goto, At
  <2>3. ASSUME NEW u \in Threads, u # t, OnLine(pc[u])'
        PROVE  OnLine(pc[u]) /\ pc'[u] = pc[u] /\ pc[u].line # pc[t].line
    <3>1. pc'[u] = pc[u] /\ OnLine(pc[u])
      BY <2>2, <2>3 DEF OnLine
    <3> QED
      BY <2>1, <3>1
  <2> QED
    BY <2>2, <2>3
<1>7. ASSUME NEW t \in Threads, FreesLine(t) PROVE LooseOnce'
  BY <1>7 DEF FreesLine
<1>8. ASSUME NEW t \in Threads, FreesTile(t) PROVE LooseOnce'
  BY <1>8 DEF FreesTile
<1>9. ASSUME NEW t \in Threads, TileGive(t) PROVE LooseOnce'
  BY <1>9 DEF TileGive
<1>10. ASSUME NEW t \in Threads, NEW c \in Cells, Install(t, c) PROVE LooseOnce'
  BY <1>10, FirstSteps DEF Install
<1>11. ASSUME NEW t \in Threads, Clears(t) PROVE LooseOnce'
  BY <1>11 DEF Clears
<1>12. ASSUME NEW t \in Threads, Completes(t) PROVE LooseOnce'
  BY <1>12 DEF Completes
<1>13. ASSUME NEW t \in Threads, NEW c \in Cells, GetMwait(t, c) PROVE LooseOnce'
  BY <1>13 DEF GetMwait
<1>14. ASSUME NEW t \in Threads, GetMwaitEnds(t) PROVE LooseOnce'
  BY <1>14 DEF GetMwaitEnds
<1> QED
  BY <1>1, <1>2, <1>3, <1>4, <1>5, <1>6, <1>7, <1>8, <1>9, <1>10, <1>11, <1>12, <1>13, <1>14
     DEF TileSteps

\* A line that is cleared has a call that completes it, and stays cleared no longer.
LEMMA AnswerStep ==
  ASSUME CallsOK, TilesOK, LinesAnswer, LinesAre, WorkedAre, ForgetsOwn,
         TileSteps
  PROVE  LinesAnswer'
<1>1. ASSUME NEW t \in Threads, pc[t].at # "complete",
             \A u \in Threads : u # t => pc'[u] = pc[u],
             \A c \in held' : c \in held /\ tiles'[c] = tiles[c],
             \A c \in held' : tiles[c] \in magic => tiles[c] \in magic'
      PROVE  LinesAnswer'
  BY <1>1 DEF LinesAnswer
<1>2. ASSUME NEW t \in Threads, NEW c \in Cells,
             TileTake(t, c) \/ TileFree(t, c) \/ Install(t, c) \/ GetMwait(t, c)
      PROVE  LinesAnswer'
  <2>1. pc[t].at # "complete" /\ \A u \in Threads : u # t => pc'[u] = pc[u]
    BY <1>2, GotoIs, IdleAt DEF TileTake, TileFree, Install, GetMwait
  <2>2. UNCHANGED <<tiles, magic>> /\ held' \subseteq held
    BY <1>2 DEF TileTake, TileFree, Install, GetMwait, tileVars
  <2> QED
    BY <1>1, <2>1, <2>2
<1>3. ASSUME NEW t \in Threads, NEW l \in Cells, TileLine(t, l) PROVE LinesAnswer'
  <2>1. pc[t].at # "complete" /\ \A u \in Threads : u # t => pc'[u] = pc[u]
    BY <1>3, GotoIs DEF TileLine
  <2>2. UNCHANGED <<tiles, held>> /\ magic' = magic \ {l} /\ heap[l] = "free"
    BY <1>3 DEF TileLine, IsFree
  <2>3. \A c \in held : tiles[c] # l
    BY <2>2 DEF LinesAre, TilesOK
  <2> QED
    BY <1>1, <2>1, <2>2, <2>3
<1>4. ASSUME NEW t \in Threads,
             TileNoLine(t) \/ FreesLine(t) \/ FreesTile(t) \/ GetMwaitEnds(t)
      PROVE  LinesAnswer'
  <2>1. pc[t].at # "complete" /\ \A u \in Threads : u # t => pc'[u] = pc[u]
    BY <1>4, GotoIs DEF TileNoLine, FreesLine, FreesTile, GetMwaitEnds, Passes
  <2>2. UNCHANGED <<tiles, magic, held>>
    BY <1>4 DEF TileNoLine, FreesLine, FreesTile, GetMwaitEnds, tileVars
  <2> QED
    BY <1>1, <2>1, <2>2
<1>5. ASSUME NEW t \in Threads, TileEnter(t) \/ Forgets(t) PROVE LinesAnswer'
  <2>1. pc[t].at # "complete" /\ \A u \in Threads : u # t => pc'[u] = pc[u]
    BY <1>5, GotoIs DEF TileEnter, Forgets, Passes
  <2>2. pc[t].cell \notin held
    BY <1>5 DEF TileEnter, Forgets, Passes, WorkedAre, OnTile
  <2>3. UNCHANGED <<magic, held>> /\ \A c \in held : tiles'[c] = tiles[c]
    BY <1>5, <2>2 DEF TileEnter, Forgets, TilesOK, With, Without
  <2> QED
    BY <1>1, <2>1, <2>3
<1>6. ASSUME NEW t \in Threads, TileGive(t) PROVE LinesAnswer'
  <2>1. pc[t].at = "give" /\ \A u \in Threads : u # t => pc'[u] = pc[u]
    BY <1>6, GotoIs DEF TileGive
  <2>2. /\ UNCHANGED tiles /\ held' = held \cup {pc[t].cell}
        /\ magic' = magic \cup {pc[t].line}
    BY <1>6 DEF TileGive
  <2>3. tiles[pc[t].cell] = pc[t].line
    BY <2>1 DEF ForgetsOwn, EntryOf
  <2> QED
    BY <2>1, <2>2, <2>3 DEF LinesAnswer
<1>7. ASSUME NEW t \in Threads, Clears(t) PROVE LinesAnswer'
  <2>1. /\ pc[t].at = "clear" /\ pc'[t].at = "complete" /\ pc'[t].line = pc[t].line
        /\ \A u \in Threads : u # t => pc'[u] = pc[u]
    BY <1>7, PassesIs, AtIs DEF Clears
  <2>2. UNCHANGED <<tiles, held>> /\ magic' = magic \ {pc[t].line}
    BY <1>7 DEF Clears
  <2> QED
    BY <2>1, <2>2 DEF LinesAnswer
<1>8. ASSUME NEW t \in Threads, Completes(t) PROVE LinesAnswer'
  <2>1. \A u \in Threads : u # t => pc'[u] = pc[u]
    BY <1>8, PassesIs DEF Completes
  <2>2. UNCHANGED <<tiles, held>> /\ magic' = magic \cup ({pc[t].line} \ {None})
    BY <1>8 DEF Completes
  <2>3. \A c \in held : tiles[c] # None
    BY NoneApart DEF TilesOK
  <2> QED
    BY <2>1, <2>2, <2>3 DEF LinesAnswer
<1> QED
  BY <1>2, <1>3, <1>4, <1>5, <1>6, <1>7, <1>8 DEF TileSteps

\* What pools and references do leaves it all as it is.
LEMMA TilesBeside ==
  ASSUME HeapOK, CallsOK, TileInv, BesideTiles
  PROVE  TileInv'
<1>1. \A t \in Threads : OnTile(pc[t])' => OnTile(pc[t]) /\ pc'[t] = pc[t]
  BY DEF BesideTiles
<1>2. \A t \in Threads : Installs(pc[t]) => pc'[t] = pc[t]
  BY DEF BesideTiles
<1>3. \A t \in Threads : EntryOf(pc[t]) => pc'[t] = pc[t]
  BY DEF BesideTiles, OnTile, EntryOf
<1>4. \A t \in Threads : OnLine(pc[t])' => OnLine(pc[t]) /\ pc'[t] = pc[t]
  BY DEF BesideTiles, OnTile, OnLine
<1>5. \A c \in Cells : heap[c] = "tile" \/ heap[c] = "line" => heap'[c] = heap[c]
  BY DEF BesideTiles
<1>6. UNCHANGED <<tiles, held>>
  BY DEF BesideTiles
<1>7. TilesOK'
  BY <1>6 DEF TileInv, TilesOK
<1>8. HeldAre'
  BY <1>5, <1>6 DEF TileInv, TilesOK, HeldAre
<1>9. WorkedAre'
  BY <1>1, <1>5, <1>6 DEF TileInv, WorkedAre, CallsOK, WithinCall
<1>10. WorkedOnce'
  BY <1>1 DEF TileInv, WorkedOnce
<1>11. EntriesKnown'
  BY <1>3, <1>6 DEF TileInv, EntriesKnown, EntryOf
<1>12. ForgetsOwn'
  BY <1>1, <1>6 DEF TileInv, ForgetsOwn, EntryOf, OnTile
<1>13. LinesAre'
  BY <1>5, <1>6 DEF TileInv, TilesOK, LinesAre
<1>14. LinesDiffer'
  BY <1>6 DEF TileInv, LinesDiffer
<1>15. LooseAre'
  <2>1. \A t \in Threads : OnLine(pc[t]) => pc[t].line \in Cells
    BY DEF CallsOK, WithinCall, OnLine, OnTile
  <2> QED
    BY <1>4, <1>5, <1>6, <2>1 DEF TileInv, LooseAre
<1>16. LooseOnce'
  BY <1>4 DEF TileInv, LooseOnce
<1>17. LinesAnswer'
  <2>1. \A c \in held : tiles[c] \in Cells /\ heap[tiles[c]] = "line"
    BY DEF TileInv, TilesOK, LinesAre
  <2>2. \A c \in held : tiles[c] \in magic => tiles[c] \in magic'
    BY <2>1 DEF BesideTiles
  <2>3. \A t \in Threads : pc[t].at = "complete" => pc'[t] = pc[t]
    BY <1>2 DEF Installs
  <2> QED
    BY <1>6, <2>2, <2>3 DEF TileInv, LinesAnswer
<1> QED
  BY <1>7, <1>8, <1>9, <1>10, <1>11, <1>12, <1>13, <1>14, <1>15, <1>16, <1>17 DEF TileInv

-----------------------------------------------------------------------------
(* Regions *)

LEMMA RemoveAtIs ==
  ASSUME NEW S, NEW s \in Seq(S), NEW k \in 1..Len(s)
  PROVE  /\ RemoveAt(s, k) \in Seq(S) /\ Len(RemoveAt(s, k)) = Len(s) - 1
         /\ \A i \in 1..(Len(s) - 1) : RemoveAt(s, k)[i] = IF i < k THEN s[i] ELSE s[i + 1]
<1> DEFINE n == Len(s)
           before == SubSeq(s, 1, k - 1)
           after == SubSeq(s, k + 1, n)
<1>1. n \in Nat /\ k \in Int /\ 1 <= k /\ k <= n /\ \A i \in 1..n : s[i] \in S
  OBVIOUS
<1>2. /\ before \in Seq(S) /\ Len(before) = k - 1
      /\ \A i \in 1..(k - 1) : before[i] = s[i]
  <2>1. \A i \in 1..(k - 1) : s[i] \in S
    BY <1>1
  <2>2. /\ before \in Seq(S) /\ Len(before) = IF 1 <= k - 1 THEN k - 1 - 1 + 1 ELSE 0
        /\ \A i \in 1..(k - 1 - 1 + 1) : before[i] = s[1 + i - 1]
    BY <1>1, <2>1, SubSeqProperties
  <2> QED
    BY <1>1, <2>2
<1>3. /\ after \in Seq(S) /\ Len(after) = n - k
      /\ \A i \in 1..(n - k) : after[i] = s[k + i]
  <2>1. \A i \in (k + 1)..n : s[i] \in S
    BY <1>1
  <2>2. /\ after \in Seq(S) /\ Len(after) = IF k + 1 <= n THEN n - (k + 1) + 1 ELSE 0
        /\ \A i \in 1..(n - (k + 1) + 1) : after[i] = s[k + 1 + i - 1]
    BY <1>1, <2>1, SubSeqProperties
  <2> QED
    BY <1>1, <2>2
<1>4. RemoveAt(s, k) = before \o after
  BY DEF RemoveAt
<1> HIDE DEF n, before, after
<1>5. /\ before \o after \in Seq(S) /\ Len(before \o after) = Len(before) + Len(after)
      /\ \A i \in 1..(Len(before) + Len(after)) :
           (before \o after)[i] = IF i <= Len(before) THEN before[i] ELSE after[i - Len(before)]
  BY <1>2, <1>3, ConcatProperties
<1>6. Len(before) + Len(after) = n - 1
  BY <1>1, <1>2, <1>3
<1>7. \A i \in 1..(n - 1) : (before \o after)[i] = IF i < k THEN s[i] ELSE s[i + 1]
  <2> TAKE i \in 1..(n - 1)
  <2>1. CASE i < k
    BY <1>1, <1>2, <1>5, <1>6, <2>1
  <2>2. CASE ~(i < k)
    <3>1. (before \o after)[i] = after[i - (k - 1)]
      BY <1>1, <1>2, <1>5, <1>6, <2>2
    <3>2. i - (k - 1) \in 1..(n - k) /\ k + (i - (k - 1)) = i + 1
      BY <1>1, <2>2
    <3>3. after[i - (k - 1)] = s[k + (i - (k - 1))]
      BY <1>3, <3>2
    <3> QED
      BY <2>2, <3>1, <3>2, <3>3
  <2> QED
    BY <2>1, <2>2
<1> QED
  BY <1>4, <1>5, <1>6, <1>7 DEF n

\* A base says which region it is.
LEMMA BasesTell ==
  /\ Arena \in Regs /\ \A c \in Cells : PoolRegion(c) \in Regs
  /\ \A c \in Cells : Addr(c, 0) # Arena.base /\ PoolRegion(c).base = Addr(c, 0)
  /\ \A c, d \in Cells : Addr(c, 0) = Addr(d, 0) => c = d
<1>1. \A c \in Cells : c \in Nat /\ 1 <= c /\ c <= NCells
  BY CellsOK DEF Cells
<1>2. Arena.base \in Nat /\ \A c \in Cells : 2 * c # Arena.base
  <2>1. CASE Overlap
    BY <1>1, <2>1 DEF Arena
  <2>2. CASE ~Overlap
    <3>1. Arena.base = 2 * NCells + 2
      BY <2>2 DEF Arena
    <3> QED
      BY <1>1, <3>1, CellsOK
  <2> QED
    BY <2>1, <2>2
<1>3. Arena \in Regs
  BY CellsOK DEF Arena, Regs
<1>4. \A c \in Cells : PoolRegion(c) \in Regs
  BY <1>1 DEF PoolRegion, Addr, Regs
<1> QED
  BY <1>1, <1>2, <1>3, <1>4 DEF PoolRegion, Addr

\* Registering a region adds its base, and changes no other entry.
LEMMA RegisteredIs ==
  ASSUME RegionsAre, BasesDiffer, NEW r \in AllRegions, regions' = Registered(r)
  PROVE  /\ RegionsAre' /\ BasesDiffer'
         /\ \A b : Based(b)' <=> Based(b) \/ b = r.base
<1>1. \A s, q \in AllRegions : s.base = q.base => s = q
  BY BasesTell DEF AllRegions
<1>2. r \in Regs
  BY BasesTell DEF AllRegions
<1>3. CASE Based(r.base)
  <2>1. PICK k \in DOMAIN regions : regions' = [regions EXCEPT ![k] = r] /\ regions[k].base = r.base
    <3> DEFINE P(k) == regions[k].base = r.base /\ \A j \in 1..(k - 1) : regions[j].base # r.base
    <3>1. \E k \in DOMAIN regions : P(k)
      <4>1. PICK k \in DOMAIN regions : regions[k].base = r.base
        BY <1>3 DEF Based
      <4>2. DOMAIN regions = 1..Len(regions) /\ Len(regions) \in Nat
        BY DEF RegionsAre
      <4>3. \A j \in 1..(k - 1) : j \in DOMAIN regions /\ j # k
        BY <4>2
      <4>4. \A j \in 1..(k - 1) : regions[j].base # r.base
        BY <4>1, <4>3 DEF BasesDiffer
      <4> QED
        BY <4>1, <4>4
    <3> DEFINE m == CHOOSE k \in DOMAIN regions : P(k)
    <3>2. m \in DOMAIN regions /\ P(m)
      BY <3>1
    <3>3. regions' = [regions EXCEPT ![m] = r]
      BY <1>3 DEF Registered, Based
    <3> QED
      BY <3>2, <3>3
  <2>2. regions[k] = r
    BY <1>1, <2>1 DEF RegionsAre
  <2>3. regions' = regions
    BY <2>1, <2>2 DEF RegionsAre
  <2> QED
    BY <1>3, <2>3 DEF RegionsAre, BasesDiffer, Based
<1>4. CASE ~Based(r.base)
  <2>1. regions' = Append(regions, r)
    BY <1>4 DEF Registered, Based
  <2> DEFINE n == Len(regions)
  <2>2. n \in Nat /\ DOMAIN regions = 1..n /\ regions \in Seq(Regs)
    BY DEF RegionsAre
  <2>3. /\ regions' \in Seq(Regs) /\ Len(regions') = n + 1
        /\ \A i \in 1..n : regions'[i] = regions[i]
        /\ regions'[n + 1] = r
    BY <1>2, <2>1, <2>2, AppendProperties
  <2>4. DOMAIN regions' = 1..(n + 1)
    BY <2>3
  <2> HIDE DEF n
  <2>5. \A i \in DOMAIN regions' : (i \in DOMAIN regions /\ regions'[i] = regions[i]) \/ i = n + 1
    BY <2>2, <2>3, <2>4
  <2>6. n + 1 \in DOMAIN regions' /\ \A i \in DOMAIN regions : i \in DOMAIN regions'
    BY <2>2, <2>4
  <2>7. RegionsAre'
    BY <2>3, <2>5 DEF RegionsAre
  <2>8. \A i \in DOMAIN regions : regions[i].base # r.base
    BY <1>4 DEF Based
  <2>9. BasesDiffer'
    BY <2>3, <2>5, <2>8 DEF BasesDiffer
  <2>10. \A b : Based(b)' <=> Based(b) \/ b = r.base
    BY <2>2, <2>3, <2>5, <2>6 DEF Based
  <2> QED
    BY <2>7, <2>9, <2>10
<1> QED
  BY <1>3, <1>4

\* Removing a base removes that base.
LEMMA UnregisteredIs ==
  ASSUME RegionsAre, BasesDiffer, NEW base, regions' = Unregistered(base)
  PROVE  /\ RegionsAre' /\ BasesDiffer'
         /\ \A b : Based(b)' <=> Based(b) /\ b # base
<1>1. CASE ~Based(base)
  <2>1. regions' = regions
    BY <1>1 DEF Unregistered, Based
  <2> QED
    BY <1>1, <2>1 DEF RegionsAre, BasesDiffer, Based
<1>2. CASE Based(base)
  <2> DEFINE n == Len(regions)
  <2>1. n \in Nat /\ DOMAIN regions = 1..n /\ regions \in Seq(Regs)
    BY DEF RegionsAre
  <2>2. PICK k \in DOMAIN regions : regions' = RemoveAt(regions, k) /\ regions[k].base = base
    <3> DEFINE m == CHOOSE k \in DOMAIN regions : regions[k].base = base
    <3>1. m \in DOMAIN regions /\ regions[m].base = base
      BY <1>2 DEF Based
    <3>2. regions' = RemoveAt(regions, m)
      BY <1>2 DEF Unregistered, Based
    <3> QED
      BY <3>1, <3>2
  <2>3. /\ regions' \in Seq(Regs) /\ Len(regions') = n - 1
        /\ \A i \in 1..(n - 1) : regions'[i] = IF i < k THEN regions[i] ELSE regions[i + 1]
    BY <2>1, <2>2, RemoveAtIs
  <2>4. DOMAIN regions' = 1..(n - 1)
    BY <2>3
  <2> HIDE DEF n
  <2> DEFINE old(i) == IF i < k THEN i ELSE i + 1
  <2>5. \A i \in DOMAIN regions' :
          old(i) \in DOMAIN regions /\ old(i) # k /\ regions'[i] = regions[old(i)]
    BY <2>1, <2>2, <2>3, <2>4
  <2>6. \A i, j \in DOMAIN regions' : old(i) = old(j) => i = j
    BY <2>1, <2>2, <2>4
  <2>7. \A i \in DOMAIN regions : i # k => \E j \in DOMAIN regions' : i = old(j)
    <3> TAKE i \in DOMAIN regions
    <3> HAVE i # k
    <3>1. CASE i < k
      BY <2>1, <2>2, <2>4, <3>1
    <3>2. CASE ~(i < k)
      <4>1. i - 1 \in DOMAIN regions' /\ old(i - 1) = i
        BY <2>1, <2>2, <2>4, <3>2
      <4> QED
        BY <4>1
    <3> QED
      BY <3>1, <3>2
  <2> HIDE DEF old
  <2>8. RegionsAre'
    BY <2>3, <2>5 DEF RegionsAre
  <2>9. BasesDiffer'
    BY <2>5, <2>6 DEF BasesDiffer
  <2>10. \A b : Based(b)' => Based(b) /\ b # base
    BY <2>2, <2>5 DEF Based, BasesDiffer
  <2>11. \A b : Based(b) /\ b # base => Based(b)'
    BY <2>2, <2>5, <2>7 DEF Based
  <2> QED
    BY <2>8, <2>9, <2>10, <2>11
<1> QED
  BY <1>1, <1>2

-----------------------------------------------------------------------------
(* Pools *)

\* The table of regions changes by registering or removing one.
LEMMA RegionsStep ==
  ASSUME PoolSteps, RegionsAre, BasesDiffer
  PROVE  RegionsAre' /\ BasesDiffer'
<1>1. PICK t \in Threads :
        \/ UNCHANGED regions
        \/ regions' = Registered(Arena) \/ \E c \in Cells : regions' = Registered(PoolRegion(c))
        \/ \E b : regions' = Unregistered(b)
  BY DEF PoolSteps, RegisterArena, UnregisterArena, PhaseBarrier, Unregisters, Untracks, FreesBase,
     PoolAlloc, PoolRegister, PoolUnregister, PoolFree, PoolArm
<1>2. CASE UNCHANGED regions
  BY <1>2 DEF RegionsAre, BasesDiffer
<1>3. ASSUME NEW r \in AllRegions, regions' = Registered(r) PROVE RegionsAre' /\ BasesDiffer'
  BY <1>3, RegisteredIs
<1>4. ASSUME NEW b, regions' = Unregistered(b) PROVE RegionsAre' /\ BasesDiffer'
  BY <1>4, UnregisteredIs
<1> QED
  BY <1>1, <1>2, <1>3, <1>4 DEF AllRegions

\* Which pools have a region after a step.
LEMMA HasRegionStep ==
  ASSUME RegionsAre, BasesDiffer, NEW t \in Threads, NEW d \in Cells
  PROVE  /\ RegisterArena(t) \/ UnregisterArena(t) => (HasRegion(d)' <=> HasRegion(d))
         /\ \A c \in Cells : PoolRegister(t, c) => (HasRegion(d)' <=> (HasRegion(d) \/ d = c))
         /\ \A c \in Cells : PoolUnregister(t, c) => (HasRegion(d)' <=> (HasRegion(d) /\ d # c))
         /\ Unregisters(t) /\ pc[t].cell \in Cells =>
              (HasRegion(d)' <=> (HasRegion(d) /\ (pc[t].line = None \/ d # pc[t].cell)))
         /\ UNCHANGED regions => (HasRegion(d)' <=> HasRegion(d))
<1>1. Addr(d, 0) # Arena.base /\ Arena \in AllRegions
  BY BasesTell DEF AllRegions
<1>2. \A c \in Cells : /\ PoolRegion(c) \in AllRegions /\ PoolRegion(c).base = Addr(c, 0)
                       /\ Addr(c, 0) = Addr(d, 0) <=> c = d
  BY BasesTell DEF AllRegions
<1>3. UNCHANGED regions => (HasRegion(d)' <=> HasRegion(d))
  BY DEF HasRegion, Based
<1>4. ASSUME RegisterArena(t) PROVE HasRegion(d)' <=> HasRegion(d)
  <2>1. regions' = Registered(Arena)
    BY <1>4 DEF RegisterArena
  <2>2. \A b : Based(b)' <=> Based(b) \/ b = Arena.base
    BY <1>1, <2>1, RegisteredIs
  <2>3. Based(Addr(d, 0))' <=> Based(Addr(d, 0))
    BY <1>1, <2>2
  <2> QED
    BY <2>3 DEF HasRegion
<1>5. ASSUME UnregisterArena(t) PROVE HasRegion(d)' <=> HasRegion(d)
  <2>1. regions' = Unregistered(Arena.base)
    BY <1>5 DEF UnregisterArena
  <2>2. \A b : Based(b)' <=> Based(b) /\ b # Arena.base
    BY <2>1, UnregisteredIs
  <2> QED
    BY <1>1, <2>2 DEF HasRegion
<1>6. ASSUME NEW c \in Cells, PoolRegister(t, c) PROVE HasRegion(d)' <=> (HasRegion(d) \/ d = c)
  <2>1. regions' = Registered(PoolRegion(c))
    BY <1>6 DEF PoolRegister
  <2>2. \A b : Based(b)' <=> Based(b) \/ b = PoolRegion(c).base
    BY <1>2, <2>1, RegisteredIs
  <2> QED
    BY <1>2, <2>2 DEF HasRegion
<1>7. ASSUME NEW c \in Cells, PoolUnregister(t, c) PROVE HasRegion(d)' <=> (HasRegion(d) /\ d # c)
  <2>1. regions' = Unregistered(Addr(c, 0))
    BY <1>7 DEF PoolUnregister
  <2>2. \A b : Based(b)' <=> Based(b) /\ b # Addr(c, 0)
    BY <2>1, UnregisteredIs
  <2> QED
    BY <1>2, <2>2 DEF HasRegion
<1>8. ASSUME Unregisters(t), pc[t].cell \in Cells
      PROVE  HasRegion(d)' <=> (HasRegion(d) /\ (pc[t].line = None \/ d # pc[t].cell))
  <2>1. CASE pc[t].line = None
    BY <1>3, <1>8, <2>1 DEF Unregisters
  <2>2. CASE pc[t].line # None
    <3>1. regions' = Unregistered(Addr(pc[t].cell, 0))
      BY <1>8, <2>2 DEF Unregisters
    <3>2. \A b : Based(b)' <=> Based(b) /\ b # Addr(pc[t].cell, 0)
      BY <3>1, UnregisteredIs
    <3> QED
      BY <1>2, <1>8, <2>2, <3>2 DEF HasRegion
  <2> QED
    BY <2>1, <2>2
<1> QED
  BY <1>3, <1>4, <1>5, <1>6, <1>7, <1>8

\* Which pools have entries that are tracked.
LEMMA AddressesTell ==
  ASSUME NEW c \in Cells, NEW d \in Cells, NEW i \in 0..1, NEW j \in 0..1, Addr(c, i) = Addr(d, j)
  PROVE  c = d /\ i = j
  BY CellsOK DEF Addr, Cells

LEMMA TrackedStep ==
  ASSUME NEW t \in Threads, NEW d \in Cells
  PROVE  /\ \A c \in Cells, i \in 0..1 : PoolArm(t, c, i) => (Tracked(d)' <=> (Tracked(d) \/ d = c))
         /\ Untracks(t) /\ pc[t].cell \in Cells => (Tracked(d)' <=> (Tracked(d) /\ d # pc[t].cell))
         /\ UNCHANGED active => (Tracked(d)' <=> Tracked(d))
         /\ PhaseBarrier(t) => ~Tracked(d)'
<1>1. ASSUME NEW c \in Cells, NEW i \in 0..1, PoolArm(t, c, i)
      PROVE  Tracked(d)' <=> (Tracked(d) \/ d = c)
  <2>1. active' = active \cup {Addr(c, i)}
    BY <1>1 DEF PoolArm
  <2> QED
    BY <2>1, AddressesTell DEF Tracked
<1>2. ASSUME Untracks(t), pc[t].cell \in Cells
      PROVE  Tracked(d)' <=> (Tracked(d) /\ d # pc[t].cell)
  <2>1. active' = active \ {Addr(pc[t].cell, i) : i \in 0..1}
    BY <1>2 DEF Untracks
  <2>2. CASE d = pc[t].cell
    BY <2>1, <2>2 DEF Tracked
  <2>3. CASE d # pc[t].cell
    <3>1. \A i, j \in 0..1 : Addr(d, i) # Addr(pc[t].cell, j)
      BY <1>2, <2>3, AddressesTell
    <3>2. \A i \in 0..1 : Addr(d, i) \in active' <=> Addr(d, i) \in active
      BY <2>1, <3>1
    <3> QED
      BY <2>3, <3>2 DEF Tracked
  <2> QED
    BY <2>2, <2>3
<1>3. UNCHANGED active => (Tracked(d)' <=> Tracked(d))
  BY DEF Tracked
<1>4. PhaseBarrier(t) => ~Tracked(d)'
  BY DEF PhaseBarrier, Tracked
<1> QED
  BY <1>1, <1>2, <1>3, <1>4

LEMMA ActiveKnownStep ==
  ASSUME PoolSteps, ActiveKnown
  PROVE  ActiveKnown'
<1>1. active' \subseteq active \/ \E c \in Cells, i \in 0..1 : active' = active \cup {Addr(c, i)}
  BY DEF PoolSteps, RegisterArena, UnregisterArena, PhaseBarrier, Unregisters, Untracks, FreesBase,
     PoolAlloc, PoolRegister, PoolUnregister, PoolFree, PoolArm
<1> QED
  BY <1>1 DEF ActiveKnown

\* The pools and what is tracked stay well formed.
LEMMA PoolsOKStep ==
  ASSUME HeapOK, CallsOK, PoolsOK, FreedAre,
         PoolSteps
  PROVE  PoolsOK'
<1> USE DEF FreedAre, PoolsOK, poolVars, OnPool, CallsOK, WithinCall, HeapOK, Idle, At, Goto,
     IsFree, Alloc, Release, Passes, With, Without
<1>1. ASSUME NEW t \in Threads, RegisterArena(t) PROVE PoolsOK'
  BY <1>1 DEF RegisterArena
<1>2. ASSUME NEW t \in Threads, UnregisterArena(t) PROVE PoolsOK'
  BY <1>2 DEF UnregisterArena
<1>3. ASSUME NEW t \in Threads, NEW c \in Cells, PoolAlloc(t, c) PROVE PoolsOK'
  BY <1>3 DEF PoolAlloc
<1>4. ASSUME NEW t \in Threads, NEW c \in Cells, PoolRegister(t, c) PROVE PoolsOK'
  BY <1>4 DEF PoolRegister
<1>5. ASSUME NEW t \in Threads, NEW c \in Cells, PoolUnregister(t, c) PROVE PoolsOK'
  BY <1>5 DEF PoolUnregister
<1>6. ASSUME NEW t \in Threads, NEW c \in Cells, NEW i \in 0..1, PoolArm(t, c, i) PROVE PoolsOK'
  BY <1>6 DEF PoolArm
<1>7. ASSUME NEW t \in Threads, NEW c \in Cells, PoolFree(t, c) PROVE PoolsOK'
  BY <1>7, FirstSteps DEF PoolFree
<1>8. ASSUME NEW t \in Threads, Unregisters(t) PROVE PoolsOK'
  BY <1>8 DEF Unregisters
<1>9. ASSUME NEW t \in Threads, Untracks(t) PROVE PoolsOK'
  BY <1>9 DEF Untracks
<1>10. ASSUME NEW t \in Threads, FreesBase(t) PROVE PoolsOK'
  BY <1>10 DEF FreesBase
<1>11. ASSUME NEW t \in Threads, PhaseBarrier(t) PROVE PoolsOK'
  BY <1>11 DEF PhaseBarrier
<1> QED
  BY <1>1, <1>2, <1>3, <1>4, <1>5, <1>6, <1>7, <1>8, <1>9, <1>10, <1>11 DEF PoolSteps

\* A pool is taken from free memory.
LEMMA PoolsStep ==
  ASSUME HeapOK, CallsOK, PoolsOK, PoolsAre, FreedAre,
         PoolSteps
  PROVE  PoolsAre'
<1> USE DEF PoolsAre, FreedAre, poolVars, OnPool, CallsOK, WithinCall, HeapOK, Idle, At, Goto,
     IsFree, Alloc, Release, Passes, With, Without, PoolsOK
<1>1. ASSUME NEW t \in Threads, RegisterArena(t) PROVE PoolsAre'
  BY <1>1 DEF RegisterArena
<1>2. ASSUME NEW t \in Threads, UnregisterArena(t) PROVE PoolsAre'
  BY <1>2 DEF UnregisterArena
<1>3. ASSUME NEW t \in Threads, NEW c \in Cells, PoolAlloc(t, c) PROVE PoolsAre'
  BY <1>3 DEF PoolAlloc
<1>4. ASSUME NEW t \in Threads, NEW c \in Cells, PoolRegister(t, c) PROVE PoolsAre'
  BY <1>4 DEF PoolRegister
<1>5. ASSUME NEW t \in Threads, NEW c \in Cells, PoolUnregister(t, c) PROVE PoolsAre'
  BY <1>5 DEF PoolUnregister
<1>6. ASSUME NEW t \in Threads, NEW c \in Cells, NEW i \in 0..1, PoolArm(t, c, i) PROVE PoolsAre'
  BY <1>6 DEF PoolArm
<1>7. ASSUME NEW t \in Threads, NEW c \in Cells, PoolFree(t, c) PROVE PoolsAre'
  BY <1>7, FirstSteps DEF PoolFree
<1>8. ASSUME NEW t \in Threads, Unregisters(t) PROVE PoolsAre'
  BY <1>8 DEF Unregisters
<1>9. ASSUME NEW t \in Threads, Untracks(t) PROVE PoolsAre'
  BY <1>9 DEF Untracks
<1>10. ASSUME NEW t \in Threads, FreesBase(t) PROVE PoolsAre'
  BY <1>10 DEF FreesBase
<1>11. ASSUME NEW t \in Threads, PhaseBarrier(t) PROVE PoolsAre'
  BY <1>11 DEF PhaseBarrier
<1> QED
  BY <1>1, <1>2, <1>3, <1>4, <1>5, <1>6, <1>7, <1>8, <1>9, <1>10, <1>11 DEF PoolSteps

\* The call that frees a pool took it from its caller.
LEMMA FreedStep ==
  ASSUME HeapOK, CallsOK, PoolsOK, PoolsAre, FreedAre, FreedOnce,
         PoolSteps
  PROVE  FreedAre'
<1> USE DEF PoolsAre, FreedAre, FreedOnce, poolVars, OnPool, CallsOK, WithinCall, HeapOK,
     Idle, At, Goto, IsFree, Alloc, Release, Passes, With, Without, PoolsOK
<1>1. ASSUME NEW t \in Threads, RegisterArena(t) PROVE FreedAre'
  BY <1>1 DEF RegisterArena
<1>2. ASSUME NEW t \in Threads, UnregisterArena(t) PROVE FreedAre'
  BY <1>2 DEF UnregisterArena
<1>3. ASSUME NEW t \in Threads, NEW c \in Cells, PoolAlloc(t, c) PROVE FreedAre'
  BY <1>3 DEF PoolAlloc
<1>4. ASSUME NEW t \in Threads, NEW c \in Cells, PoolRegister(t, c) PROVE FreedAre'
  BY <1>4 DEF PoolRegister
<1>5. ASSUME NEW t \in Threads, NEW c \in Cells, PoolUnregister(t, c) PROVE FreedAre'
  BY <1>5 DEF PoolUnregister
<1>6. ASSUME NEW t \in Threads, NEW c \in Cells, NEW i \in 0..1, PoolArm(t, c, i) PROVE FreedAre'
  BY <1>6 DEF PoolArm
<1>7. ASSUME NEW t \in Threads, NEW c \in Cells, PoolFree(t, c) PROVE FreedAre'
  BY <1>7, FirstSteps DEF PoolFree
<1>8. ASSUME NEW t \in Threads, Unregisters(t) PROVE FreedAre'
  BY <1>8 DEF Unregisters
<1>9. ASSUME NEW t \in Threads, Untracks(t) PROVE FreedAre'
  BY <1>9 DEF Untracks
<1>10. ASSUME NEW t \in Threads, FreesBase(t) PROVE FreedAre'
  BY <1>10 DEF FreesBase
<1>11. ASSUME NEW t \in Threads, PhaseBarrier(t) PROVE FreedAre'
  BY <1>11 DEF PhaseBarrier
<1> QED
  BY <1>1, <1>2, <1>3, <1>4, <1>5, <1>6, <1>7, <1>8, <1>9, <1>10, <1>11 DEF PoolSteps

\* So no other call frees it.
LEMMA FreedOnceStep ==
  ASSUME HeapOK, CallsOK, PoolsOK, PoolsAre, FreedAre, FreedOnce,
         PoolSteps
  PROVE  FreedOnce'
<1> USE DEF PoolsAre, FreedAre, FreedOnce, OnPool, CallsOK, WithinCall, HeapOK, Idle, At,
     Goto, IsFree, Alloc, Release, Passes, With, Without, PoolsOK
<1>1. ASSUME NEW t \in Threads, RegisterArena(t) PROVE FreedOnce'
  BY <1>1 DEF RegisterArena
<1>2. ASSUME NEW t \in Threads, UnregisterArena(t) PROVE FreedOnce'
  BY <1>2 DEF UnregisterArena
<1>3. ASSUME NEW t \in Threads, NEW c \in Cells, PoolAlloc(t, c) PROVE FreedOnce'
  BY <1>3 DEF PoolAlloc
<1>4. ASSUME NEW t \in Threads, NEW c \in Cells, PoolRegister(t, c) PROVE FreedOnce'
  BY <1>4 DEF PoolRegister
<1>5. ASSUME NEW t \in Threads, NEW c \in Cells, PoolUnregister(t, c) PROVE FreedOnce'
  BY <1>5 DEF PoolUnregister
<1>6. ASSUME NEW t \in Threads, NEW c \in Cells, NEW i \in 0..1, PoolArm(t, c, i) PROVE FreedOnce'
  BY <1>6 DEF PoolArm
<1>7. ASSUME NEW t \in Threads, NEW c \in Cells, PoolFree(t, c) PROVE FreedOnce'
  BY <1>7, FirstSteps DEF PoolFree
<1>8. ASSUME NEW t \in Threads, Unregisters(t) PROVE FreedOnce'
  BY <1>8 DEF Unregisters
<1>9. ASSUME NEW t \in Threads, Untracks(t) PROVE FreedOnce'
  BY <1>9 DEF Untracks
<1>10. ASSUME NEW t \in Threads, FreesBase(t) PROVE FreedOnce'
  BY <1>10 DEF FreesBase
<1>11. ASSUME NEW t \in Threads, PhaseBarrier(t) PROVE FreedOnce'
  BY <1>11 DEF PhaseBarrier
<1> QED
  BY <1>1, <1>2, <1>3, <1>4, <1>5, <1>6, <1>7, <1>8, <1>9, <1>10, <1>11 DEF PoolSteps

\* A pool knows whether it is registered.
LEMMA BelieveStep ==
  ASSUME HeapOK, CallsOK, PoolsOK, RegionsAre, BasesDiffer, BelieveRight, RegionsOfPools, FreedAre, PoolsAre,
         PoolSteps
  PROVE  BelieveRight'
<1> USE DEF RegionsAre, BasesDiffer, BelieveRight, RegionsOfPools, FreedAre, PoolsAre,
     poolVars, OnPool, CallsOK, WithinCall, HeapOK, Idle, At, Goto, IsFree, Alloc, Release,
     Passes, With, Without, PoolsOK
<1>1. ASSUME NEW t \in Threads, RegisterArena(t) PROVE BelieveRight'
  BY <1>1, HasRegionStep DEF RegisterArena
<1>2. ASSUME NEW t \in Threads, UnregisterArena(t) PROVE BelieveRight'
  BY <1>2, HasRegionStep DEF UnregisterArena
<1>3. ASSUME NEW t \in Threads, NEW c \in Cells, PoolAlloc(t, c) PROVE BelieveRight'
  <2>1. /\ UNCHANGED regions /\ heap[c] = "free"
        /\ DOMAIN pools' = DOMAIN pools \cup {c} /\ pools'[c] = FALSE
        /\ \A d \in DOMAIN pools : d # c => pools'[d] = pools[d]
    BY <1>3 DEF PoolAlloc
  <2>2. \A t1 \in Threads : pc[t1].at = "unregister" => pc[t1].cell # c
    BY <2>1
  <2>3. c \notin DOMAIN pools
    BY <2>1
  <2> HIDE DEF OnPool, CallsOK, WithinCall, HeapOK, Idle, Goto, At
  <2>4. ~HasRegion(c)
    BY <2>2, <2>3
  <2>5. \A d \in Cells : HasRegion(d)' <=> HasRegion(d)
    BY <2>1, HasRegionStep
  <2> QED
    BY <2>1, <2>4, <2>5
<1>4. ASSUME NEW t \in Threads, NEW c \in Cells, PoolRegister(t, c) PROVE BelieveRight'
  <2>1. /\ c \in DOMAIN pools /\ DOMAIN pools' = DOMAIN pools /\ pools'[c] = TRUE
        /\ \A d \in DOMAIN pools : d # c => pools'[d] = pools[d]
    BY <1>4 DEF PoolRegister
  <2> HIDE DEF OnPool, CallsOK, WithinCall, HeapOK, Idle, Goto, At
  <2>2. \A d \in Cells : HasRegion(d)' <=> HasRegion(d) \/ d = c
    BY <1>4, HasRegionStep
  <2> QED
    BY <2>1, <2>2
<1>5. ASSUME NEW t \in Threads, NEW c \in Cells, PoolUnregister(t, c) PROVE BelieveRight'
  <2>1. /\ c \in DOMAIN pools /\ DOMAIN pools' = DOMAIN pools /\ pools'[c] = FALSE
        /\ \A d \in DOMAIN pools : d # c => pools'[d] = pools[d]
    BY <1>5 DEF PoolUnregister
  <2> HIDE DEF OnPool, CallsOK, WithinCall, HeapOK, Idle, Goto, At
  <2>2. \A d \in Cells : HasRegion(d)' <=> HasRegion(d) /\ d # c
    BY <1>5, HasRegionStep
  <2> QED
    BY <2>1, <2>2
<1>6. ASSUME NEW t \in Threads, NEW c \in Cells, NEW i \in 0..1, PoolArm(t, c, i) PROVE BelieveRight'
  BY <1>6, HasRegionStep DEF PoolArm
<1>7. ASSUME NEW t \in Threads, NEW c \in Cells, PoolFree(t, c) PROVE BelieveRight'
  BY <1>7, HasRegionStep, FirstSteps DEF PoolFree
<1>8. ASSUME NEW t \in Threads, Unregisters(t) PROVE BelieveRight'
  <2>1. UNCHANGED pools /\ pc[t].cell \in Cells /\ pc[t].cell \notin DOMAIN pools
    BY <1>8 DEF Unregisters
  <2> HIDE DEF OnPool, CallsOK, WithinCall, HeapOK, Idle, Goto, At
  <2>2. \A d \in Cells :
          HasRegion(d)' <=> HasRegion(d) /\ (pc[t].line = None \/ d # pc[t].cell)
    BY <1>8, <2>1, HasRegionStep
  <2> QED
    BY <2>1, <2>2
<1>9. ASSUME NEW t \in Threads, Untracks(t) PROVE BelieveRight'
  <2> HIDE DEF OnPool, CallsOK, WithinCall, HeapOK, Idle, Goto, At, Passes
  <2>1. UNCHANGED <<pools, regions>>
    BY <1>9 DEF Untracks
  <2>2. \A d \in Cells : HasRegion(d)' <=> HasRegion(d)
    BY <2>1, HasRegionStep
  <2> QED
    BY <2>1, <2>2
<1>10. ASSUME NEW t \in Threads, FreesBase(t) PROVE BelieveRight'
  <2> HIDE DEF OnPool, CallsOK, WithinCall, HeapOK, Idle, Goto, At, Passes
  <2>1. UNCHANGED <<pools, regions>>
    BY <1>10 DEF FreesBase
  <2>2. \A d \in Cells : HasRegion(d)' <=> HasRegion(d)
    BY <2>1, HasRegionStep
  <2> QED
    BY <2>1, <2>2
<1>11. ASSUME NEW t \in Threads, PhaseBarrier(t) PROVE BelieveRight'
  BY <1>11, HasRegionStep DEF PhaseBarrier
<1> QED
  BY <1>1, <1>2, <1>3, <1>4, <1>5, <1>6, <1>7, <1>8, <1>9, <1>10, <1>11 DEF PoolSteps

\* A region goes before its pool does.
LEMMA RegionsOfStep ==
  ASSUME HeapOK, CallsOK, PoolsOK, RegionsAre, BasesDiffer, RegionsOfPools, BelieveRight, FreedOnce,
         PoolSteps
  PROVE  RegionsOfPools'
<1> USE DEF RegionsAre, BasesDiffer, RegionsOfPools, BelieveRight, FreedOnce, poolVars,
     OnPool, CallsOK, WithinCall, HeapOK, Idle, At, Goto, IsFree, Alloc, Release, Passes,
     With, Without, PoolsOK
<1>1. ASSUME NEW t \in Threads, RegisterArena(t) PROVE RegionsOfPools'
  BY <1>1, HasRegionStep DEF RegisterArena
<1>2. ASSUME NEW t \in Threads, UnregisterArena(t) PROVE RegionsOfPools'
  BY <1>2, HasRegionStep DEF UnregisterArena
<1>3. ASSUME NEW t \in Threads, NEW c \in Cells, PoolAlloc(t, c) PROVE RegionsOfPools'
  BY <1>3, HasRegionStep DEF PoolAlloc
<1>4. ASSUME NEW t \in Threads, NEW c \in Cells, PoolRegister(t, c) PROVE RegionsOfPools'
  <2>1. c \in DOMAIN pools /\ DOMAIN pools' = DOMAIN pools /\ UNCHANGED pc
    BY <1>4 DEF PoolRegister
  <2> HIDE DEF OnPool, CallsOK, WithinCall, HeapOK, Idle, Goto, At
  <2>2. \A d \in Cells : HasRegion(d)' <=> HasRegion(d) \/ d = c
    BY <1>4, HasRegionStep
  <2> QED
    BY <2>1, <2>2
<1>5. ASSUME NEW t \in Threads, NEW c \in Cells, PoolUnregister(t, c) PROVE RegionsOfPools'
  BY <1>5, HasRegionStep DEF PoolUnregister
<1>6. ASSUME NEW t \in Threads, NEW c \in Cells, NEW i \in 0..1, PoolArm(t, c, i) PROVE RegionsOfPools'
  BY <1>6, HasRegionStep DEF PoolArm
<1>7. ASSUME NEW t \in Threads, NEW c \in Cells, PoolFree(t, c) PROVE RegionsOfPools'
  <2>1. /\ UNCHANGED regions /\ c \in DOMAIN pools /\ DOMAIN pools' = DOMAIN pools \ {c} /\ pc[t] = Idle
    BY <1>7 DEF PoolFree
  <2> DEFINE p == [at |-> "unregister", cell |-> c, line |-> IF pools[c] THEN c ELSE None]
  <2>2. pc'[t].at = "unregister" /\ pc'[t].cell = c /\ (pools[c] => pc'[t].line = c)
    <3>1. pc'[t] = p
      BY <1>7, FirstSteps DEF PoolFree
    <3>2. p.at = "unregister" /\ p.cell = c /\ (pools[c] => p.line = c)
      OBVIOUS
    <3> HIDE DEF p
    <3> QED
      BY <3>1, <3>2
  <2>3. \A u \in Threads : u # t => pc'[u] = pc[u]
    BY <1>7 DEF PoolFree
  <2> HIDE DEF OnPool, CallsOK, WithinCall, HeapOK, Idle, Goto, At
  <2>4. \A d \in Cells : HasRegion(d)' <=> HasRegion(d)
    BY <2>1, HasRegionStep
  <2>5. \A u \in Threads : pc[u].at = "unregister" => pc'[u] = pc[u]
    BY <2>1, <2>3, IdleAt
  <2>6. HasRegion(c) => pc'[t].line = c
    BY <2>1, <2>2
  <2>7. ASSUME NEW d \in Cells, HasRegion(d)
        PROVE  \/ d \in DOMAIN pools'
               \/ \E u \in Threads : pc'[u].at = "unregister" /\ pc'[u].cell = d /\ pc'[u].line = d
    <3>1. CASE d = c
      BY <2>2, <2>6, <2>7, <3>1
    <3>2. CASE d # c
      BY <2>1, <2>5, <2>7, <3>2
    <3> QED
      BY <3>1, <3>2
  <2> QED
    BY <2>4, <2>7
<1>8. ASSUME NEW t \in Threads, Unregisters(t) PROVE RegionsOfPools'
  <2>1. UNCHANGED pools /\ pc[t].cell \in Cells /\ pc[t].at = "unregister"
    BY <1>8 DEF Unregisters
  <2>2. \A u \in Threads : u # t => pc'[u] = pc[u]
    BY <1>8 DEF Unregisters
  <2>3. pc[t].line = None => pc[t].line # pc[t].cell
    <3> HIDE DEF OnPool, CallsOK, WithinCall, HeapOK, Idle, Goto, At
    <3> QED
      BY <2>1, NoneApart
  <2> HIDE DEF OnPool, CallsOK, WithinCall, HeapOK, Idle, Goto, At
  <2>4. \A d \in Cells :
          HasRegion(d)' <=> HasRegion(d) /\ (pc[t].line = None \/ d # pc[t].cell)
    BY <1>8, <2>1, HasRegionStep
  <2> QED
    BY <2>1, <2>2, <2>3, <2>4
<1>9. ASSUME NEW t \in Threads, Untracks(t) PROVE RegionsOfPools'
  BY <1>9, HasRegionStep DEF Untracks
<1>10. ASSUME NEW t \in Threads, FreesBase(t) PROVE RegionsOfPools'
  BY <1>10, HasRegionStep DEF FreesBase
<1>11. ASSUME NEW t \in Threads, PhaseBarrier(t) PROVE RegionsOfPools'
  BY <1>11, HasRegionStep DEF PhaseBarrier
<1> QED
  BY <1>1, <1>2, <1>3, <1>4, <1>5, <1>6, <1>7, <1>8, <1>9, <1>10, <1>11 DEF PoolSteps

\* So do the entries of what is tracked.
LEMMA ActiveStep ==
  ASSUME HeapOK, CallsOK, PoolsOK, ActiveAre, FreedOnce, PoolsAre,
         PoolSteps
  PROVE  ActiveAre'
<1> USE DEF ActiveAre, FreedOnce, PoolsAre, poolVars, OnPool, CallsOK, WithinCall, HeapOK,
     Idle, At, Goto, IsFree, Alloc, Release, Passes, With, Without, PoolsOK
<1>1. ASSUME NEW t \in Threads, RegisterArena(t) PROVE ActiveAre'
  BY <1>1, TrackedStep DEF RegisterArena
<1>2. ASSUME NEW t \in Threads, UnregisterArena(t) PROVE ActiveAre'
  BY <1>2, TrackedStep DEF UnregisterArena
<1>3. ASSUME NEW t \in Threads, NEW c \in Cells, PoolAlloc(t, c) PROVE ActiveAre'
  BY <1>3, TrackedStep DEF PoolAlloc
<1>4. ASSUME NEW t \in Threads, NEW c \in Cells, PoolRegister(t, c) PROVE ActiveAre'
  BY <1>4, TrackedStep DEF PoolRegister
<1>5. ASSUME NEW t \in Threads, NEW c \in Cells, PoolUnregister(t, c) PROVE ActiveAre'
  BY <1>5, TrackedStep DEF PoolUnregister
<1>6. ASSUME NEW t \in Threads, NEW c \in Cells, NEW i \in 0..1, PoolArm(t, c, i) PROVE ActiveAre'
  BY <1>6, TrackedStep DEF PoolArm
<1>7. ASSUME NEW t \in Threads, NEW c \in Cells, PoolFree(t, c) PROVE ActiveAre'
  <2>1. /\ UNCHANGED active /\ DOMAIN pools' = DOMAIN pools \ {c} /\ pc[t] = Idle
        /\ pc'[t].at = "unregister" /\ pc'[t].cell = c
    BY <1>7, FirstSteps DEF PoolFree
  <2>2. \A u \in Threads : u # t => pc'[u] = pc[u]
    BY <1>7 DEF PoolFree
  <2> HIDE DEF OnPool, CallsOK, WithinCall, HeapOK, Idle, Goto, At
  <2>3. \A d \in Cells : Tracked(d)' <=> Tracked(d)
    BY <2>1, TrackedStep
  <2>4. \A u \in Threads : pc[u].at \in {"unregister", "untrack"} => pc'[u] = pc[u]
    BY <2>1, <2>2, IdleAt
  <2> QED
    BY <2>1, <2>3, <2>4
<1>8. ASSUME NEW t \in Threads, Unregisters(t) PROVE ActiveAre'
  BY <1>8, TrackedStep DEF Unregisters
<1>9. ASSUME NEW t \in Threads, Untracks(t) PROVE ActiveAre'
  <2>1. UNCHANGED pools /\ pc[t].cell \in Cells /\ pc[t].at = "untrack"
    BY <1>9 DEF Untracks
  <2>2. \A u \in Threads : u # t => pc'[u] = pc[u]
    BY <1>9 DEF Untracks
  <2> HIDE DEF OnPool, CallsOK, WithinCall, HeapOK, Idle, Goto, At
  <2>3. \A d \in Cells : Tracked(d)' <=> Tracked(d) /\ d # pc[t].cell
    BY <1>9, <2>1, TrackedStep
  <2> QED
    BY <2>1, <2>2, <2>3
<1>10. ASSUME NEW t \in Threads, FreesBase(t) PROVE ActiveAre'
  BY <1>10, TrackedStep DEF FreesBase
<1>11. ASSUME NEW t \in Threads, PhaseBarrier(t) PROVE ActiveAre'
  BY <1>11, TrackedStep DEF PhaseBarrier
<1> QED
  BY <1>1, <1>2, <1>3, <1>4, <1>5, <1>6, <1>7, <1>8, <1>9, <1>10, <1>11 DEF PoolSteps

\* What tiles and references do leaves it all as it is.
LEMMA PoolsBeside ==
  ASSUME HeapOK, CallsOK, PoolInv, BesidePools
  PROVE  PoolInv'
<1>1. \A t \in Threads : OnPool(pc[t])' => OnPool(pc[t]) /\ pc'[t] = pc[t]
  BY DEF BesidePools
<1>2. \A t \in Threads : pc[t].at = "unregister" \/ pc[t].at = "untrack" => pc'[t] = pc[t]
  BY DEF BesidePools, OnPool
<1>3. \A c \in Cells : heap[c] = "pool" => heap'[c] = heap[c]
  BY DEF BesidePools
<1>4. UNCHANGED <<regions, pools, active>>
  BY DEF BesidePools
<1>5. PoolsOK' /\ RegionsAre' /\ BasesDiffer' /\ ActiveKnown'
  BY <1>4 DEF PoolInv, PoolsOK, RegionsAre, BasesDiffer, ActiveKnown
<1>6. PoolsAre'
  BY <1>3, <1>4 DEF PoolInv, PoolsOK, PoolsAre
<1>7. FreedAre'
  <2>1. \A t \in Threads : OnPool(pc[t]) => pc[t].cell \in Cells
    BY DEF CallsOK, WithinCall
  <2> QED
    BY <1>1, <1>3, <1>4, <2>1 DEF PoolInv, FreedAre
<1>8. FreedOnce'
  BY <1>1 DEF PoolInv, FreedOnce
<1>9. BelieveRight'
  BY <1>4 DEF PoolInv, BelieveRight, HasRegion, Based
<1>10. RegionsOfPools'
  BY <1>2, <1>4 DEF PoolInv, RegionsOfPools, HasRegion, Based
<1>11. ActiveAre'
  BY <1>2, <1>4 DEF PoolInv, ActiveAre, Tracked
<1> QED
  BY <1>5, <1>6, <1>7, <1>8, <1>9, <1>10, <1>11 DEF PoolInv

-----------------------------------------------------------------------------
(* References *)

\* The entries stay well formed.
LEMMA RefsOKStep ==
  ASSUME HeapOK, RefsOK, RefsAre,
         RefSteps
  PROVE  RefsOK'
<1> USE DEF RefsAre, RefsOK, HeapOK, IsFree, Alloc, Release, With, Without
<1>1. ASSUME NEW t \in Threads, NEW r \in Cells, NEW a \in Mapped \cup {Failed}, NEW tier \in Tiers, RemoteAllocate(t, r, a, tier) PROVE RefsOK'
  BY <1>1 DEF RemoteAllocate
<1>2. ASSUME NEW t \in Threads, NEW r \in Cells, RemoteDeallocate(t, r) PROVE RefsOK'
  BY <1>2 DEF RemoteDeallocate
<1>3. ASSUME NEW t \in Threads, NEW r \in Cells, NEW n \in Cells, NEW a \in Mapped \cup {Failed}, NEW tier \in Tiers, RemoteMigrate(t, r, n, a, tier) PROVE RefsOK'
  BY <1>3 DEF RemoteMigrate
<1> QED
  BY <1>1, <1>2, <1>3 DEF RefSteps

\* A reference that is a caller's is allocated.
LEMMA RefsStep ==
  ASSUME OneFree, HeapOK, RefsOK, RefsAre,
         RefSteps
  PROVE  RefsAre'
<1> USE DEF RefsAre, OneFree, HeapOK, IsFree, Alloc, Release, With, Without, RefsOK
<1>1. ASSUME NEW t \in Threads, NEW r \in Cells, NEW a \in Mapped \cup {Failed}, NEW tier \in Tiers, RemoteAllocate(t, r, a, tier) PROVE RefsAre'
  BY <1>1 DEF RemoteAllocate
<1>2. ASSUME NEW t \in Threads, NEW r \in Cells, RemoteDeallocate(t, r) PROVE RefsAre'
  BY <1>2 DEF RemoteDeallocate
<1>3. ASSUME NEW t \in Threads, NEW r \in Cells, NEW n \in Cells, NEW a \in Mapped \cup {Failed}, NEW tier \in Tiers, RemoteMigrate(t, r, n, a, tier) PROVE RefsAre'
  BY <1>3 DEF RemoteMigrate
<1> QED
  BY <1>1, <1>2, <1>3 DEF RefSteps

\* What is mapped for an entry was mapped for no other.
LEMMA MappedStep ==
  ASSUME HeapOK, RefsOK, MappedOnce,
         RefSteps
  PROVE  MappedOnce'
<1> USE DEF MappedOnce, MappedNow, Fresh, HeapOK, IsFree, Alloc, Release, With, Without, RefsOK
<1>1. ASSUME NEW t \in Threads, NEW r \in Cells, NEW a \in Mapped \cup {Failed}, NEW tier \in Tiers, RemoteAllocate(t, r, a, tier) PROVE MappedOnce'
  BY <1>1 DEF RemoteAllocate
<1>2. ASSUME NEW t \in Threads, NEW r \in Cells, RemoteDeallocate(t, r) PROVE MappedOnce'
  BY <1>2 DEF RemoteDeallocate
<1>3. ASSUME NEW t \in Threads, NEW r \in Cells, NEW n \in Cells, NEW a \in Mapped \cup {Failed}, NEW tier \in Tiers, RemoteMigrate(t, r, n, a, tier) PROVE MappedOnce'
  BY <1>3 DEF RemoteMigrate
<1> QED
  BY <1>1, <1>2, <1>3 DEF RefSteps

\* Entries and references come and go together.
LEMMA AgreeStep ==
  ASSUME HeapOK, RefsOK, CallersAgree,
         RefSteps
  PROVE  CallersAgree'
<1> USE DEF CallersAgree, HeapOK, IsFree, Alloc, Release, With, Without, RefsOK
<1>1. ASSUME NEW t \in Threads, NEW r \in Cells, NEW a \in Mapped \cup {Failed}, NEW tier \in Tiers, RemoteAllocate(t, r, a, tier) PROVE CallersAgree'
  BY <1>1 DEF RemoteAllocate
<1>2. ASSUME NEW t \in Threads, NEW r \in Cells, RemoteDeallocate(t, r) PROVE CallersAgree'
  BY <1>2 DEF RemoteDeallocate
<1>3. ASSUME NEW t \in Threads, NEW r \in Cells, NEW n \in Cells, NEW a \in Mapped \cup {Failed}, NEW tier \in Tiers, RemoteMigrate(t, r, n, a, tier) PROVE CallersAgree'
  BY <1>3 DEF RemoteMigrate
<1> QED
  BY <1>1, <1>2, <1>3 DEF RefSteps

\* What tiles and pools do leaves it all as it is.
LEMMA RefsBeside ==
  ASSUME RefInv, BesideRefs
  PROVE  RefInv'
  BY DEF RefInv, RefsOK, RefsAre, MappedOnce, CallersAgree, BesideRefs

-----------------------------------------------------------------------------
(* Calls *)

LEMMA CallIs ==
  ASSUME NEW label \in Labels, label # "idle", NEW c \in Cells \cup {None}, NEW l \in Cells \cup {None},
         label \in {"enter", "give", "forget", "free_line", "free_tile"} => l \in Cells,
         label \in {"unregister", "untrack", "free_base"} => l = c \/ l = None,
         c \in Cells \/ label = "complete"
  PROVE  At(label, c, l) \in Calls /\ WithinCall(At(label, c, l))
<1>1. At(label, c, l) \in Calls
  BY DEF At, Calls
<1>2. /\ At(label, c, l).at = label /\ At(label, c, l).cell = c
      /\ At(label, c, l).line = l
  BY DEF At
<1> QED
  BY <1>1, <1>2 DEF WithinCall, OnTile, OnPool, Installs

LEMMA IdleIs == Idle \in Calls /\ WithinCall(Idle)
  BY DEF Idle, Calls, Labels, WithinCall, OnTile, OnPool, Installs

LEMMA CallsGo ==
  ASSUME CallsOK, NEW t \in Threads, NEW p \in Calls, WithinCall(p), Goto(t, p)
  PROVE  CallsOK'
<1>1. pc' \in [Threads -> Calls] /\ pc'[t] = p /\ \A u \in Threads : u # t => pc'[u] = pc[u]
  BY DEF CallsOK, Goto
<1>2. \A u \in Threads : WithinCall(pc'[u])
  BY <1>1 DEF CallsOK
<1> QED
  BY <1>1, <1>2 DEF CallsOK

\* A call that passes from one of its steps to another, or ends, is a call still.
LEMMA PassesCalls ==
  ASSUME CallsOK, NEW t \in Threads, NEW from, NEW to \in Labels, Passes(t, from, to),
         \/ to = "idle"
         \/ from = "forget" /\ to = "free_line"
         \/ from = "free_line" /\ to = "free_tile"
         \/ from = "unregister" /\ to = "untrack"
         \/ from = "untrack" /\ to = "free_base"
         \/ from = "enter" /\ to = "give"
         \/ from = "clear" /\ to = "complete"
  PROVE  CallsOK'
<1>1. CASE to = "idle"
  BY <1>1, IdleIs, CallsGo DEF Passes
<1>2. CASE to # "idle"
  <2>1. pc[t].at = from /\ Goto(t, At(to, pc[t].cell, pc[t].line))
    BY <1>2 DEF Passes
  <2>2. pc[t] \in Calls /\ WithinCall(pc[t])
    BY DEF CallsOK
  <2>3. pc[t].cell \in Cells \cup {None} /\ (pc[t].cell \in Cells \/ to = "complete")
    BY <1>2, <2>1, <2>2 DEF WithinCall, OnTile, OnPool, Calls
  <2>4. pc[t].line \in Cells \cup {None}
    BY <2>2 DEF Calls
  <2>5. to \in {"enter", "give", "forget", "free_line", "free_tile"} => pc[t].line \in Cells
    BY <2>1, <2>2 DEF WithinCall, OnTile
  <2>6. to \in {"unregister", "untrack", "free_base"} => pc[t].line \in {pc[t].cell, None}
    BY <2>1, <2>2 DEF WithinCall, OnPool
  <2>7. LET p == At(to, pc[t].cell, pc[t].line) IN p \in Calls /\ WithinCall(p)
    BY <1>2, <2>3, <2>4, <2>5, <2>6, CallIs
  <2> QED
    BY <2>1, <2>7, CallsGo
<1> QED
  BY <1>1, <1>2

LEMMA TileCallsStep ==
  ASSUME CallsOK, TilesOK, TileSteps
  PROVE  CallsOK'
<1>1. PICK t \in Threads :
        \/ TileNoLine(t) \/ TileEnter(t) \/ TileGive(t)
        \/ Forgets(t) \/ FreesLine(t) \/ FreesTile(t)
        \/ Clears(t) \/ Completes(t) \/ GetMwaitEnds(t)
        \/ \E c \in Cells :
             \/ TileTake(t, c) \/ TileLine(t, c) \/ TileFree(t, c)
             \/ Install(t, c) \/ GetMwait(t, c)
  BY DEF TileSteps
<1>2. CASE TileNoLine(t) \/ TileGive(t) \/ GetMwaitEnds(t)
  BY <1>2, IdleIs, CallsGo DEF TileNoLine, TileGive, GetMwaitEnds
<1>3. CASE Forgets(t) \/ FreesLine(t) \/ FreesTile(t) \/ TileEnter(t)
  BY <1>3, EnterPasses, PassesCalls DEF Forgets, FreesLine, FreesTile, Labels
<1>4. CASE Clears(t) \/ Completes(t)
  BY <1>4, PassesCalls DEF Clears, Completes, Labels
<1>5. ASSUME NEW c \in Cells, TileTake(t, c) PROVE CallsOK'
  <2>1. At("take_line", c, None) \in Calls /\ WithinCall(At("take_line", c, None))
    BY CallIs DEF Labels
  <2> QED
    BY <1>5, <2>1, CallsGo DEF TileTake
<1>6. ASSUME NEW c \in Cells, TileLine(t, c) PROVE CallsOK'
  <2>1. pc[t].cell \in Cells
    BY <1>6 DEF TileLine, CallsOK, WithinCall, OnTile
  <2>2. At("enter", pc[t].cell, c) \in Calls /\ WithinCall(At("enter", pc[t].cell, c))
    BY <2>1, CallIs DEF Labels
  <2> QED
    BY <1>6, <2>2, CallsGo DEF TileLine
<1>7. ASSUME NEW c \in Cells, TileFree(t, c) PROVE CallsOK'
  <2>1. tiles[c] \in Cells
    BY <1>7 DEF TileFree, TilesOK
  <2>2. At("forget", c, tiles[c]) \in Calls /\ WithinCall(At("forget", c, tiles[c]))
    BY <2>1, CallIs DEF Labels
  <2> QED
    BY <1>7, <2>2, CallsGo, FirstSteps DEF TileFree
<1>8. ASSUME NEW c \in Cells, Install(t, c) \/ GetMwait(t, c) PROVE CallsOK'
  <2>1. PICK label \in {"clear", "await"}, l \in {tiles[c], None} : Goto(t, At(label, c, l))
    BY <1>8, FirstSteps DEF Install, GetMwait
  <2>2. l \in Cells \cup {None}
    BY <1>8 DEF Install, GetMwait, TilesOK
  <2>3. At(label, c, l) \in Calls /\ WithinCall(At(label, c, l))
    BY <2>2, CallIs DEF Labels
  <2> QED
    BY <2>1, <2>3, CallsGo
<1> QED
  BY <1>1, <1>2, <1>3, <1>4, <1>5, <1>6, <1>7, <1>8

LEMMA PoolCallsStep ==
  ASSUME CallsOK, PoolsOK, PoolSteps
  PROVE  CallsOK'
<1>1. PICK t \in Threads :
        \/ RegisterArena(t) \/ UnregisterArena(t) \/ PhaseBarrier(t)
        \/ Unregisters(t) \/ Untracks(t) \/ FreesBase(t)
        \/ \E c \in Cells :
             \/ PoolAlloc(t, c) \/ PoolRegister(t, c) \/ PoolUnregister(t, c) \/ PoolFree(t, c)
             \/ \E i \in 0..1 : PoolArm(t, c, i)
  BY DEF PoolSteps
<1>2. CASE Unregisters(t) \/ Untracks(t) \/ FreesBase(t)
  BY <1>2, PassesCalls DEF Unregisters, Untracks, FreesBase, Labels
<1>3. ASSUME NEW c \in Cells, PoolFree(t, c) PROVE CallsOK'
  <2> DEFINE l == IF pools[c] THEN c ELSE None
  <2>1. At("unregister", c, l) \in Calls /\ WithinCall(At("unregister", c, l))
    BY CallIs DEF Labels
  <2>2. Goto(t, At("unregister", c, l))
    BY <1>3, FirstSteps DEF PoolFree, At
  <2> QED
    BY <2>1, <2>2, CallsGo
<1>4. CASE UNCHANGED pc
  BY <1>4 DEF CallsOK
<1> QED
  BY <1>1, <1>2, <1>3, <1>4 DEF RegisterArena, UnregisterArena, PhaseBarrier, PoolAlloc,
     PoolRegister, PoolUnregister, PoolArm

\* A call to the manager changes nothing but references, and takes or gives back the cell
\* of one.
LEMMA RefStepsAre ==
  ASSUME RefSteps
  PROVE  /\ UNCHANGED <<pc, tileVars, poolVars>>
         /\ \E r \in Cells :
              (IsFree(r) /\ Alloc(r, "ref")) \/ (r \in DOMAIN callers /\ Release(r))
<1> DEFINE Alone == UNCHANGED <<pc, tileVars, poolVars>>
           Touches(r) == (IsFree(r) /\ Alloc(r, "ref")) \/ (r \in DOMAIN callers /\ Release(r))
<1>1. ASSUME NEW t \in Threads, NEW r \in Cells, RemoteDeallocate(t, r)
      PROVE  Alone /\ Touches(r)
  BY <1>1 DEF RemoteDeallocate
<1>2. ASSUME NEW t \in Threads, NEW r \in Cells, NEW a, NEW tier, RemoteAllocate(t, r, a, tier)
      PROVE  Alone /\ Touches(r)
  BY <1>2 DEF RemoteAllocate
<1>3. ASSUME NEW t \in Threads, NEW r \in Cells, NEW n, NEW a, NEW tier,
             RemoteMigrate(t, r, n, a, tier)
      PROVE  Alone /\ Touches(r)
  BY <1>3 DEF RemoteMigrate
<1> HIDE DEF Alone, Touches
<1>4. \E r \in Cells : Alone /\ Touches(r)
  BY <1>1, <1>2, <1>3 DEF RefSteps
<1> QED
  BY <1>4 DEF Alone, Touches

LEMMA RefCallsStep ==
  ASSUME CallsOK, RefSteps
  PROVE  CallsOK'
<1>1. UNCHANGED pc
  BY RefStepsAre
<1> QED
  BY <1>1 DEF CallsOK

-----------------------------------------------------------------------------
(* Each kind of step leaves the others' cells and calls alone *)

\* Only the cell that is taken or given back changes.
LEMMA OneCell ==
  ASSUME HeapOK, NEW c \in Cells, NEW as, Alloc(c, as) \/ Release(c)
  PROVE  \A d \in Cells : d # c => heap'[d] = heap[d]
  BY DEF HeapOK, Alloc, Release

LEMMA IdleApart == ~OnTile(Idle) /\ ~OnPool(Idle) /\ ~Installs(Idle)
  BY DEF Idle, OnTile, OnPool, Installs

LEMMA LabelApart ==
  ASSUME NEW label, NEW c, NEW l
  PROVE  /\ label \in {"take_line", "enter", "give", "forget", "free_line", "free_tile",
                       "clear", "complete", "await"} => ~OnPool(At(label, c, l))
         /\ label \in {"unregister", "untrack", "free_base"} =>
              ~OnTile(At(label, c, l)) /\ ~Installs(At(label, c, l))
  BY DEF At, OnTile, OnPool, Installs

LEMMA TilesMove ==
  ASSUME CallsOK, TileSteps
  PROVE  \A u \in Threads : pc'[u] = pc[u] \/ (~OnPool(pc[u]) /\ ~OnPool(pc'[u]))
<1> DEFINE Moves(u) == pc'[u] = pc[u] \/ (~OnPool(pc[u]) /\ ~OnPool(pc'[u]))
<1>0. PICK t \in Threads :
        \/ TileNoLine(t) \/ TileEnter(t) \/ TileGive(t)
        \/ Forgets(t) \/ FreesLine(t) \/ FreesTile(t)
        \/ Clears(t) \/ Completes(t) \/ GetMwaitEnds(t)
        \/ \E c \in Cells :
             \/ TileTake(t, c) \/ TileLine(t, c) \/ TileFree(t, c)
             \/ Install(t, c) \/ GetMwait(t, c)
  BY DEF TileSteps
<1>1. ASSUME NEW label, NEW c, NEW l, Goto(t, At(label, c, l)), ~OnPool(pc[t]),
             label \in {"take_line", "enter", "give", "forget", "free_line", "free_tile",
                        "clear", "complete", "await"}
      PROVE  \A u \in Threads : Moves(u)
  BY <1>1, GotoIs, LabelApart
<1>2. ASSUME Goto(t, Idle), ~OnPool(pc[t])
      PROVE  \A u \in Threads : Moves(u)
  BY <1>2, GotoIs, IdleApart
<1>3. pc[t].at \in {"take_line", "enter", "give", "forget", "free_line", "free_tile",
                    "clear", "complete", "await"} => ~OnPool(pc[t])
  BY DEF OnPool
<1> HIDE DEF Moves
<1>4. CASE TileNoLine(t) \/ TileGive(t) \/ GetMwaitEnds(t)
  BY <1>2, <1>3, <1>4 DEF TileNoLine, TileGive, GetMwaitEnds, Moves
<1>5. CASE Forgets(t) \/ FreesLine(t) \/ FreesTile(t) \/ TileEnter(t)
  BY <1>1, <1>2, <1>3, <1>5, EnterPasses DEF Forgets, FreesLine, FreesTile, Passes, Moves
<1>6. CASE Clears(t) \/ Completes(t)
  BY <1>1, <1>2, <1>3, <1>6 DEF Clears, Completes, Passes, Moves
<1>7. ASSUME NEW c \in Cells, TileTake(t, c) \/ TileLine(t, c) \/ TileFree(t, c)
      PROVE  \A u \in Threads : Moves(u)
  BY <1>1, <1>3, <1>7, FirstSteps, IdleApart DEF TileTake, TileLine, TileFree
<1>8. ASSUME NEW c \in Cells, Install(t, c) \/ GetMwait(t, c)
      PROVE  \A u \in Threads : Moves(u)
  BY <1>1, <1>3, <1>8, FirstSteps, IdleApart DEF Install, GetMwait
<1> USE DEF Moves
<1> QED
  BY <1>0, <1>4, <1>5, <1>6, <1>7, <1>8

LEMMA TilesTake ==
  ASSUME HeapOK, CallsOK, WorkedAre, LooseAre, TileSteps
  PROVE  \A d \in Cells : heap[d] \in {"pool", "ref"} => heap'[d] = heap[d]
<1> SUFFICES ASSUME NEW t \in Threads,
                    \/ TileNoLine(t) \/ TileEnter(t) \/ TileGive(t)
                    \/ Forgets(t) \/ FreesLine(t) \/ FreesTile(t)
                    \/ Clears(t) \/ Completes(t) \/ GetMwaitEnds(t)
                    \/ \E c \in Cells :
                         \/ TileTake(t, c) \/ TileLine(t, c) \/ TileFree(t, c)
                         \/ Install(t, c) \/ GetMwait(t, c),
                    NEW d \in Cells, heap[d] \in {"pool", "ref"}
             PROVE  heap'[d] = heap[d]
  BY DEF TileSteps
<1>1. ASSUME NEW c \in Cells, IsFree(c), NEW as, Alloc(c, as) PROVE heap'[d] = heap[d]
  BY <1>1, OneCell DEF IsFree
<1>2. ASSUME NEW c \in Cells, heap[c] \in {"tile", "line"}, Release(c) PROVE heap'[d] = heap[d]
  BY <1>2, OneCell
<1>3. OnTile(pc[t]) => pc[t].cell \in Cells /\ heap[pc[t].cell] = "tile"
  BY DEF CallsOK, WithinCall, WorkedAre
<1>4. OnLine(pc[t]) => pc[t].line \in Cells /\ heap[pc[t].line] = "line"
  BY DEF CallsOK, WithinCall, LooseAre, OnLine, OnTile
<1>5. CASE TileNoLine(t) \/ FreesTile(t)
  <2>1. OnTile(pc[t]) /\ Release(pc[t].cell)
    BY <1>5 DEF TileNoLine, FreesTile, Passes, OnTile
  <2> QED
    BY <1>2, <1>3, <2>1
<1>6. CASE FreesLine(t)
  <2>1. OnLine(pc[t]) /\ Release(pc[t].line)
    BY <1>6 DEF FreesLine, Passes, OnLine
  <2> QED
    BY <1>2, <1>4, <2>1
<1>7. ASSUME NEW c \in Cells, TileTake(t, c) \/ TileLine(t, c) PROVE heap'[d] = heap[d]
  BY <1>1, <1>7 DEF TileTake, TileLine
<1>8. CASE UNCHANGED heap
  BY <1>8
<1> QED
  BY <1>5, <1>6, <1>7, <1>8 DEF TileEnter, TileGive, Forgets, Clears, Completes, TileFree,
     Install, GetMwait, GetMwaitEnds

LEMMA TileStepsAlone ==
  ASSUME HeapOK, CallsOK, WorkedAre, LooseAre, TileSteps
  PROVE  BesidePools /\ BesideRefs
<1>1. UNCHANGED <<poolVars, remoteVars>>
  BY DEF TileSteps, TileNoLine, TileEnter, TileGive, Forgets, FreesLine, FreesTile, Clears,
     Completes, TileTake, TileLine, TileFree, Install, GetMwait, GetMwaitEnds
<1>2. \A d \in Cells : heap[d] \in {"pool", "ref"} => heap'[d] = heap[d]
  BY TilesTake
<1>3. \A u \in Threads : pc'[u] = pc[u] \/ (~OnPool(pc[u]) /\ ~OnPool(pc'[u]))
  BY TilesMove
<1>4. BesidePools
  BY <1>1, <1>2, <1>3 DEF BesidePools, poolVars
<1>5. BesideRefs
  BY <1>1, <1>2 DEF BesideRefs, remoteVars
<1> QED
  BY <1>4, <1>5

LEMMA PoolsMove ==
  ASSUME CallsOK, PoolSteps
  PROVE  \A u \in Threads :
           \/ pc'[u] = pc[u]
           \/ ~OnTile(pc[u]) /\ ~OnTile(pc'[u]) /\ ~Installs(pc[u]) /\ ~Installs(pc'[u])
<1> DEFINE Moves(u) ==
      \/ pc'[u] = pc[u]
      \/ ~OnTile(pc[u]) /\ ~OnTile(pc'[u]) /\ ~Installs(pc[u]) /\ ~Installs(pc'[u])
<1>1. PICK t \in Threads :
        \/ UNCHANGED pc
        \/ Unregisters(t) \/ Untracks(t) \/ FreesBase(t) \/ \E c \in Cells : PoolFree(t, c)
  BY DEF PoolSteps, RegisterArena, UnregisterArena, PhaseBarrier, PoolAlloc, PoolRegister,
     PoolUnregister, PoolArm
<1>2. ASSUME NEW label, NEW c, NEW l, Goto(t, At(label, c, l)),
             ~OnTile(pc[t]), ~Installs(pc[t]), label \in {"unregister", "untrack", "free_base"}
      PROVE  \A u \in Threads : Moves(u)
  BY <1>2, GotoIs, LabelApart
<1>3. ASSUME Goto(t, Idle), ~OnTile(pc[t]), ~Installs(pc[t]) PROVE \A u \in Threads : Moves(u)
  BY <1>3, GotoIs, IdleApart
<1>4. pc[t].at \in {"unregister", "untrack", "free_base"} => ~OnTile(pc[t]) /\ ~Installs(pc[t])
  BY DEF OnTile, Installs
<1>5. CASE Unregisters(t) \/ Untracks(t) \/ FreesBase(t)
  BY <1>2, <1>3, <1>4, <1>5 DEF Unregisters, Untracks, FreesBase, Passes
<1>6. ASSUME NEW c \in Cells, PoolFree(t, c) PROVE \A u \in Threads : Moves(u)
  <2>1. Goto(t, At("unregister", c, IF pools[c] THEN c ELSE None))
    BY <1>6, FirstSteps DEF PoolFree, At
  <2>2. pc[t] = Idle
    BY <1>6 DEF PoolFree
  <2> HIDE DEF Moves
  <2> QED
    BY <1>2, <2>1, <2>2, IdleApart
<1>7. CASE UNCHANGED pc
  BY <1>7
<1> QED
  BY <1>1, <1>5, <1>6, <1>7

LEMMA PoolsTake ==
  ASSUME HeapOK, CallsOK, FreedAre, PoolSteps
  PROVE  \A d \in Cells : heap[d] \in {"tile", "line", "ref"} => heap'[d] = heap[d]
<1> SUFFICES ASSUME NEW d \in Cells, heap[d] \in {"tile", "line", "ref"}
             PROVE  heap'[d] = heap[d]
  OBVIOUS
<1>1. PICK t \in Threads : UNCHANGED heap \/ FreesBase(t) \/ \E c \in Cells : PoolAlloc(t, c)
  BY DEF PoolSteps, RegisterArena, UnregisterArena, PhaseBarrier, PoolRegister, PoolFree,
     PoolUnregister, PoolArm, Unregisters, Untracks
<1>2. ASSUME NEW c \in Cells, PoolAlloc(t, c) PROVE heap'[d] = heap[d]
  BY <1>2, OneCell DEF IsFree, PoolAlloc
<1>3. CASE FreesBase(t)
  <2>1. OnPool(pc[t]) /\ Release(pc[t].cell)
    BY <1>3 DEF FreesBase, Passes, OnPool
  <2>2. pc[t].cell \in Cells /\ heap[pc[t].cell] = "pool"
    BY <2>1 DEF CallsOK, WithinCall, FreedAre
  <2> QED
    BY <2>1, <2>2, OneCell
<1> QED
  BY <1>1, <1>2, <1>3

LEMMA PoolStepsAlone ==
  ASSUME HeapOK, CallsOK, FreedAre, PoolSteps
  PROVE  BesideTiles /\ BesideRefs
<1>1. UNCHANGED <<tiles, held, remoteVars>>
  BY DEF PoolSteps, RegisterArena, UnregisterArena, PhaseBarrier, PoolAlloc, PoolRegister, PoolFree,
     PoolUnregister, PoolArm, Unregisters, Untracks, FreesBase, tileVars
<1>2. \A d \in Cells : heap[d] \in {"tile", "line", "ref"} => heap'[d] = heap[d]
  BY PoolsTake
<1>3. \A d \in Cells : heap[d] = "line" /\ d \in magic => d \in magic'
  <2>1. UNCHANGED magic \/ \E c \in Cells : IsFree(c) /\ magic' = magic \ {c}
    BY DEF PoolSteps, RegisterArena, UnregisterArena, PhaseBarrier, PoolAlloc, PoolRegister, PoolFree,
       PoolUnregister, PoolArm, Unregisters, Untracks, FreesBase, tileVars
  <2> QED
    BY <2>1 DEF IsFree
<1>4. BesideTiles
  BY <1>1, <1>2, <1>3, PoolsMove DEF BesideTiles
<1>5. BesideRefs
  BY <1>1, <1>2 DEF BesideRefs, remoteVars
<1> QED
  BY <1>4, <1>5

LEMMA RefStepsAlone ==
  ASSUME HeapOK, RefsOK, RefsAre, RefSteps
  PROVE  BesideTiles /\ BesidePools
<1>1. UNCHANGED <<pc, tileVars, poolVars>>
  BY RefStepsAre
<1>2. \A d \in Cells : heap[d] \in {"tile", "line", "pool"} => heap'[d] = heap[d]
  <2> SUFFICES ASSUME NEW d \in Cells, heap[d] \in {"tile", "line", "pool"}
               PROVE  heap'[d] = heap[d]
    OBVIOUS
  <2>1. PICK r \in Cells : \/ IsFree(r) /\ Alloc(r, "ref")
                           \/ r \in DOMAIN callers /\ Release(r)
    BY RefStepsAre
  <2> QED
    BY <2>1, OneCell DEF IsFree, RefsAre
<1>3. UNCHANGED pc
  BY <1>1
<1>4. BesideTiles
  BY <1>1, <1>2, <1>3 DEF BesideTiles, tileVars
<1>5. BesidePools
  BY <1>1, <1>2, <1>3 DEF BesidePools, poolVars
<1> QED
  BY <1>4, <1>5

\* The heap stays well formed,
LEMMA TileHeapStep ==
  ASSUME HeapOK, CallsOK,
         TileSteps
  PROVE  HeapOK'
<1> USE DEF HeapOK, Kinds, Alloc, Release, IsFree, CallsOK, WithinCall, OnTile, OnPool,
     Passes, poolVars, remoteVars, tileVars
<1>1. ASSUME NEW t \in Threads, NEW c \in Cells, TileTake(t, c) PROVE HeapOK'
  BY <1>1 DEF TileTake
<1>2. ASSUME NEW t \in Threads, NEW c \in Cells, TileLine(t, c) PROVE HeapOK'
  BY <1>2 DEF TileLine
<1>3. ASSUME NEW t \in Threads, TileNoLine(t) PROVE HeapOK'
  BY <1>3 DEF TileNoLine
<1>4. ASSUME NEW t \in Threads, TileEnter(t) PROVE HeapOK'
  BY <1>4 DEF TileEnter
<1>5. ASSUME NEW t \in Threads, NEW c \in Cells, TileFree(t, c) PROVE HeapOK'
  BY <1>5, FirstSteps DEF TileFree
<1>6. ASSUME NEW t \in Threads, Forgets(t) PROVE HeapOK'
  BY <1>6 DEF Forgets
<1>7. ASSUME NEW t \in Threads, FreesLine(t) PROVE HeapOK'
  BY <1>7 DEF FreesLine
<1>8. ASSUME NEW t \in Threads, FreesTile(t) PROVE HeapOK'
  BY <1>8 DEF FreesTile
<1>9. ASSUME NEW t \in Threads, TileGive(t) PROVE HeapOK'
  BY <1>9 DEF TileGive
<1>10. ASSUME NEW t \in Threads, NEW c \in Cells, Install(t, c) PROVE HeapOK'
  BY <1>10, FirstSteps DEF Install
<1>11. ASSUME NEW t \in Threads, Clears(t) PROVE HeapOK'
  BY <1>11 DEF Clears
<1>12. ASSUME NEW t \in Threads, Completes(t) PROVE HeapOK'
  BY <1>12 DEF Completes
<1>13. ASSUME NEW t \in Threads, NEW c \in Cells, GetMwait(t, c) PROVE HeapOK'
  BY <1>13 DEF GetMwait
<1>14. ASSUME NEW t \in Threads, GetMwaitEnds(t) PROVE HeapOK'
  BY <1>14 DEF GetMwaitEnds
<1> QED
  BY <1>1, <1>2, <1>3, <1>4, <1>5, <1>6, <1>7, <1>8, <1>9, <1>10, <1>11, <1>12, <1>13, <1>14
     DEF TileSteps

\* The heap stays well formed,
LEMMA PoolHeapStep ==
  ASSUME HeapOK, CallsOK,
         PoolSteps
  PROVE  HeapOK'
<1> USE DEF HeapOK, Kinds, Alloc, Release, IsFree, CallsOK, WithinCall, OnTile, OnPool,
     Passes, tileVars, remoteVars, poolVars
<1>1. ASSUME NEW t \in Threads, RegisterArena(t) PROVE HeapOK'
  BY <1>1 DEF RegisterArena
<1>2. ASSUME NEW t \in Threads, UnregisterArena(t) PROVE HeapOK'
  BY <1>2 DEF UnregisterArena
<1>3. ASSUME NEW t \in Threads, NEW c \in Cells, PoolAlloc(t, c) PROVE HeapOK'
  BY <1>3 DEF PoolAlloc
<1>4. ASSUME NEW t \in Threads, NEW c \in Cells, PoolRegister(t, c) PROVE HeapOK'
  BY <1>4 DEF PoolRegister
<1>5. ASSUME NEW t \in Threads, NEW c \in Cells, PoolUnregister(t, c) PROVE HeapOK'
  BY <1>5 DEF PoolUnregister
<1>6. ASSUME NEW t \in Threads, NEW c \in Cells, NEW i \in 0..1, PoolArm(t, c, i) PROVE HeapOK'
  BY <1>6 DEF PoolArm
<1>7. ASSUME NEW t \in Threads, NEW c \in Cells, PoolFree(t, c) PROVE HeapOK'
  BY <1>7, FirstSteps DEF PoolFree
<1>8. ASSUME NEW t \in Threads, Unregisters(t) PROVE HeapOK'
  BY <1>8 DEF Unregisters
<1>9. ASSUME NEW t \in Threads, Untracks(t) PROVE HeapOK'
  BY <1>9 DEF Untracks
<1>10. ASSUME NEW t \in Threads, FreesBase(t) PROVE HeapOK'
  BY <1>10 DEF FreesBase
<1>11. ASSUME NEW t \in Threads, PhaseBarrier(t) PROVE HeapOK'
  BY <1>11 DEF PhaseBarrier
<1> QED
  BY <1>1, <1>2, <1>3, <1>4, <1>5, <1>6, <1>7, <1>8, <1>9, <1>10, <1>11 DEF PoolSteps

\* The heap stays well formed,
LEMMA RefHeapStep ==
  ASSUME HeapOK, CallsOK,
         RefSteps
  PROVE  HeapOK'
<1> USE DEF HeapOK, Kinds, Alloc, Release, IsFree, CallsOK, WithinCall, OnTile, OnPool,
     Passes, tileVars, poolVars, remoteVars
<1>1. ASSUME NEW t \in Threads, NEW r \in Cells, NEW a \in Mapped \cup {Failed}, NEW tier \in Tiers, RemoteAllocate(t, r, a, tier) PROVE HeapOK'
  BY <1>1 DEF RemoteAllocate
<1>2. ASSUME NEW t \in Threads, NEW r \in Cells, RemoteDeallocate(t, r) PROVE HeapOK'
  BY <1>2 DEF RemoteDeallocate
<1>3. ASSUME NEW t \in Threads, NEW r \in Cells, NEW n \in Cells, NEW a \in Mapped \cup {Failed}, NEW tier \in Tiers, RemoteMigrate(t, r, n, a, tier) PROVE HeapOK'
  BY <1>3 DEF RemoteMigrate
<1> QED
  BY <1>1, <1>2, <1>3 DEF RefSteps

-----------------------------------------------------------------------------
(* All of it *)

LEMMA TileInvStep ==
  ASSUME HeapOK, CallsOK, TileInv, TileSteps
  PROVE  TileInv'
<1> USE DEF TileInv
<1>1. TilesOK' /\ HeldAre' /\ WorkedAre' /\ WorkedOnce'
  BY TilesOKStep, HeldStep, WorkedStep, WorkedOnceStep
<1>2. EntriesKnown' /\ ForgetsOwn' /\ LinesAre' /\ LinesDiffer'
  BY EntriesStep, ForgetsStep, LinesStep, LinesDifferStep
<1>3. LooseAre' /\ LooseOnce' /\ LinesAnswer'
  BY LooseStep, LooseOnceStep, AnswerStep
<1> QED
  BY <1>1, <1>2, <1>3

LEMMA PoolInvStep ==
  ASSUME HeapOK, CallsOK, PoolInv, PoolSteps
  PROVE  PoolInv'
<1> USE DEF PoolInv
<1>1. PoolsOK' /\ PoolsAre' /\ FreedAre' /\ FreedOnce'
  BY PoolsOKStep, PoolsStep, FreedStep, FreedOnceStep
<1>2. RegionsAre' /\ BasesDiffer' /\ BelieveRight' /\ RegionsOfPools'
  BY RegionsStep, BelieveStep, RegionsOfStep
<1>3. ActiveKnown' /\ ActiveAre'
  BY ActiveKnownStep, ActiveStep
<1> QED
  BY <1>1, <1>2, <1>3

LEMMA RefInvStep ==
  ASSUME OneFree, HeapOK, RefInv, RefSteps
  PROVE  RefInv'
  BY RefsOKStep, RefsStep, MappedStep, AgreeStep DEF RefInv

LEMMA MemoryStep ==
  ASSUME OneFree, MemoryInv, [Next]_vars
  PROVE  MemoryInv'
<1> USE DEF MemoryInv
<1>1. CASE TileSteps
  <2>1. HeapOK' /\ CallsOK' /\ TileInv'
    BY <1>1, TileHeapStep, TileCallsStep, TileInvStep DEF TileInv
  <2>2. PoolInv' /\ RefInv'
    BY <1>1, TileStepsAlone, PoolsBeside, RefsBeside DEF TileInv
  <2> QED
    BY <2>1, <2>2
<1>2. CASE PoolSteps
  <2>1. HeapOK' /\ CallsOK' /\ PoolInv'
    BY <1>2, PoolHeapStep, PoolCallsStep, PoolInvStep DEF PoolInv
  <2>2. TileInv' /\ RefInv'
    BY <1>2, PoolStepsAlone, TilesBeside, RefsBeside DEF PoolInv
  <2> QED
    BY <2>1, <2>2
<1>3. CASE RefSteps
  <2>1. HeapOK' /\ CallsOK' /\ RefInv'
    BY <1>3, RefHeapStep, RefCallsStep, RefInvStep
  <2>2. TileInv' /\ PoolInv'
    BY <1>3, RefStepsAlone, TilesBeside, PoolsBeside DEF RefInv
  <2> QED
    BY <2>1, <2>2
<1>4. CASE UNCHANGED vars
  <2> USE <1>4 DEF vars, tileVars, poolVars, remoteVars
  <2>1. HeapOK' /\ CallsOK'
    BY DEF HeapOK, CallsOK
  <2>2. BesideTiles /\ BesidePools /\ BesideRefs
    BY DEF BesideTiles, BesidePools, BesideRefs
  <2> QED
    BY <2>1, <2>2, TilesBeside, PoolsBeside, RefsBeside
<1> QED
  BY <1>1, <1>2, <1>3, <1>4, StepsAre

\* Nothing is allocated to begin with.
LEMMA MemoryInit ==
  ASSUME Init
  PROVE  MemoryInv
<1> USE DEF Init
<1>1. \A t \in Threads : ~OnTile(pc[t]) /\ ~OnPool(pc[t]) /\ ~Installs(pc[t]) /\ ~OnLine(pc[t])
  BY DEF Idle, OnTile, OnPool, Installs, OnLine
<1>2. HeapOK
  BY DEF HeapOK, Kinds
<1>3. CallsOK
  BY IdleIs DEF CallsOK
<1>4. \A t \in Threads : pc[t].at = "idle"
  BY DEF Idle
<1>5. TilesOK /\ HeldAre /\ EntriesKnown /\ LinesAre /\ LinesDiffer /\ LinesAnswer
  BY DEF TilesOK, HeldAre, EntriesKnown, LinesAre, LinesDiffer, LinesAnswer
<1>6. WorkedAre /\ WorkedOnce /\ LooseAre /\ LooseOnce
  BY <1>1 DEF WorkedAre, WorkedOnce, LooseAre, LooseOnce
<1>7. ForgetsOwn
  BY <1>4 DEF ForgetsOwn, EntryOf
<1>8. PoolsOK /\ PoolsAre /\ RegionsAre /\ BasesDiffer /\ ActiveKnown
  BY DEF PoolsOK, PoolsAre, RegionsAre, BasesDiffer, ActiveKnown
<1>9. FreedAre /\ FreedOnce
  BY <1>1 DEF FreedAre, FreedOnce
<1>10. BelieveRight /\ RegionsOfPools /\ ActiveAre
  BY DEF BelieveRight, RegionsOfPools, ActiveAre, HasRegion, Based, Tracked
<1>11. RefInv
  BY DEF RefInv, RefsOK, RefsAre, MappedOnce, CallersAgree
<1> QED
  BY <1>2, <1>3, <1>5, <1>6, <1>7, <1>8, <1>9, <1>10, <1>11 DEF MemoryInv, TileInv, PoolInv

\* The invariant holds when callers free what they were given, once.
THEOREM MemoryKept == ASSUME OneFree PROVE Spec => []MemoryInv
<1>1. Init => MemoryInv
  BY MemoryInit
<1>2. MemoryInv /\ [Next]_vars => MemoryInv'
  BY MemoryStep
<1> QED
  BY <1>1, <1>2, PTL DEF Spec

-----------------------------------------------------------------------------
(* What callers rely on *)

\* Whatever threads allocate, install, await and free, and even if a tile is freed while
\* calls work on it: the table is right for the tiles that callers hold, has no others but
\* those about to be given out and those being freed, and a line that is not complete has
\* an install that will complete it.
THEOREM TilesAreKnown == ASSUME OneFree PROVE Spec => []TilesKnown
<1>1. MemoryInv => TilesKnown
  <2> SUFFICES ASSUME TileInv PROVE TilesKnown
    BY DEF MemoryInv
  <2> USE DEF TileInv
  <2>1. held \subseteq DOMAIN tiles
    BY DEF TilesOK
  <2>2. ASSUME NEW c \in DOMAIN tiles, c \notin held
        PROVE  c \in WorkedAt({"give"} \cup Range(TileFreeOrder))
    <3>1. PICK t \in Threads : EntryOf(pc[t]) /\ pc[t].cell = c
      BY <2>2 DEF EntriesKnown
    <3>2. pc[t].at \in {"give"} \cup Range(TileFreeOrder)
      BY <3>1, TileOrder DEF EntryOf
    <3> QED
      BY <3>1, <3>2 DEF WorkedAt
  <2>3. \A c \in held : heap[c] = "tile" /\ heap[tiles[c]] = "line"
    BY <2>1 DEF HeldAre, LinesAre
  <2>4. \A c, d \in held : c # d => tiles[c] # tiles[d]
    BY <2>1 DEF LinesDiffer
  <2>5. \A c \in held : tiles[c] \in magic \/ \E t \in Threads :
          pc[t].at \in Range(InstallOrder) /\ pc[t].line = tiles[c]
    BY InstallsInOrder DEF LinesAnswer
  <2> QED
    BY <2>1, <2>2, <2>3, <2>4, <2>5 DEF TilesKnown
<1> QED
  BY <1>1, MemoryKept, PTL

\* The cell of an address.
LEMMA CellOf ==
  ASSUME NEW c \in Cells, NEW i \in 0..1
  PROVE  Addr(c, i) \div 2 = c
<1>1. c \in Int /\ (i = 0 \/ i = 1)
  BY CellsOK DEF Cells
<1>2. (2 * c) \div 2 = c /\ (2 * c + 1) \div 2 = c
  BY <1>1
<1> QED
  BY <1>1, <1>2 DEF Addr

\* A region of a pool covers the pool's addresses and no other pool's.
LEMMA CoversOwn ==
  ASSUME Apart, NEW c \in Cells, NEW i \in 0..1, NEW r \in AllRegions
  PROVE  Covers(r, Addr(c, i)) <=> r = PoolRegion(c)
<1>1. c \in Int /\ 1 <= c /\ c <= NCells /\ (i = 0 \/ i = 1) /\ NCells \in Int
  BY CellsOK DEF Cells
<1>2. CASE r = Arena
  <2>1. r.base = 2 * NCells + 2
    BY <1>2 DEF Arena, Apart
  <2>2. ~Covers(r, Addr(c, i))
    BY <1>1, <2>1 DEF Covers, Addr
  <2>3. r # PoolRegion(c)
    BY <1>1, <2>1 DEF PoolRegion, Addr
  <2> QED
    BY <2>2, <2>3
<1>3. ASSUME NEW d \in Cells, r = PoolRegion(d)
      PROVE  Covers(r, Addr(c, i)) <=> r = PoolRegion(c)
  <2>1. d \in Int /\ r.base = 2 * d /\ r.size = 2
    BY <1>3, CellsOK DEF PoolRegion, Addr, Cells
  <2>2. Covers(r, Addr(c, i)) <=> d = c
    BY <1>1, <2>1 DEF Covers, Addr
  <2>3. r = PoolRegion(c) => d = c
    <3>1. PoolRegion(c).base = 2 * c
      BY <1>1 DEF PoolRegion, Addr
    <3> QED
      BY <1>1, <2>1, <3>1
  <2> QED
    BY <1>3, <2>2, <2>3
<1> QED
  BY <1>2, <1>3 DEF AllRegions

\* The region that translates an address of a pool is the pool's.
LEMMA FirstHit ==
  ASSUME Apart, RegionsAre, BasesDiffer, NEW c \in Cells, HasRegion(c), NEW i \in 0..1
  PROVE  Translated(Addr(c, i)) = 100 * c + i
<1> DEFINE hits == {k \in DOMAIN regions : Covers(regions[k], Addr(c, i))}
<1>1. PICK k \in DOMAIN regions : regions[k].base = Addr(c, 0)
  BY DEF HasRegion, Based
<1>2. \A j \in DOMAIN regions : Covers(regions[j], Addr(c, i)) <=> regions[j] = PoolRegion(c)
  BY CoversOwn DEF RegionsAre
<1>3. regions[k] = PoolRegion(c)
  <2>1. regions[k] \in AllRegions
    BY <1>1 DEF RegionsAre
  <2> QED
    BY <1>1, <2>1, BasesTell DEF AllRegions
<1>4. \A j \in DOMAIN regions : regions[j] = PoolRegion(c) => j = k
  BY <1>3 DEF BasesDiffer
<1>5. hits = {k}
  BY <1>1, <1>2, <1>3, <1>4
<1>6. k \in Nat
  BY <1>1 DEF RegionsAre
<1>7. (CHOOSE m \in hits : \A j \in hits : m <= j) = k
  BY <1>5, <1>6
<1>8. Translated(Addr(c, i)) = regions[k].dev + (Addr(c, i) - regions[k].base)
  BY <1>5, <1>7 DEF Translated
<1>9. c \in Int /\ i \in Int
  BY CellsOK DEF Cells
<1>10. regions[k].dev = 100 * c /\ regions[k].base = 2 * c /\ Addr(c, i) = 2 * c + i
  BY <1>3, <1>9 DEF PoolRegion, Addr
<1> QED
  BY <1>8, <1>9, <1>10

\* A registered pool has its device addresses, and no region outlives its pool.
THEOREM PoolsReached == ASSUME OneFree, Apart PROVE Spec => []PoolsTranslate
<1>1. MemoryInv => PoolsTranslate
  <2> SUFFICES ASSUME CallsOK, PoolInv PROVE PoolsTranslate
    BY DEF MemoryInv
  <2> USE DEF PoolInv
  <2>1. ASSUME NEW c \in DOMAIN pools, pools[c], NEW i \in 0..1
        PROVE  DeviceAddr(c, i) = 100 * c + i
    <3>1. c \in Cells /\ HasRegion(c)
      BY <2>1 DEF PoolsOK, BelieveRight
    <3>2. Translated(Addr(c, i)) = 100 * c + i
      BY <3>1, FirstHit
    <3>3. i < 2
      OBVIOUS
    <3> QED
      BY <3>2, <3>3 DEF DeviceAddr
  <2>2. ASSUME NEW k \in DOMAIN regions, regions[k] # Arena
        PROVE  heap[(regions[k].base) \div 2] = "pool"
    <3>1. PICK c \in Cells : regions[k] = PoolRegion(c)
      BY <2>2 DEF RegionsAre, AllRegions
    <3>2. regions[k].base = Addr(c, 0)
      BY <3>1, BasesTell
    <3>3. HasRegion(c)
      BY <3>2 DEF HasRegion, Based
    <3>4. c \in DOMAIN pools \/ \E t \in Threads : OnPool(pc[t]) /\ pc[t].cell = c
      BY <3>3 DEF RegionsOfPools, OnPool
    <3>5. heap[c] = "pool"
      BY <3>4 DEF PoolsAre, FreedAre
    <3>6. Addr(c, 0) \div 2 = c
      BY CellOf
    <3> QED
      BY <3>2, <3>5, <3>6
  <2> QED
    BY <2>1, <2>2 DEF PoolsTranslate
<1> QED
  BY <1>1, MemoryKept, PTL

\* The phase barrier looks at no line of a pool that has been freed.
THEOREM TrackedInPools == ASSUME OneFree PROVE Spec => []ActiveInPools
<1>1. MemoryInv => ActiveInPools
  <2> SUFFICES ASSUME PoolInv, NEW a \in active PROVE heap[a \div 2] = "pool"
    BY DEF MemoryInv, ActiveInPools
  <2> USE DEF PoolInv
  <2>1. PICK c \in Cells, i \in 0..1 : a = Addr(c, i)
    BY DEF ActiveKnown
  <2>2. Tracked(c)
    BY <2>1 DEF Tracked
  <2>3. c \in DOMAIN pools \/ \E t \in Threads : OnPool(pc[t]) /\ pc[t].cell = c
    BY <2>2 DEF ActiveAre, OnPool
  <2>4. heap[c] = "pool"
    BY <2>3 DEF PoolsAre, FreedAre
  <2> QED
    BY <2>1, <2>4, CellOf
<1> QED
  BY <1>1, MemoryKept, PTL

\* Until a reference is migrated, the manager has exactly the references its callers
\* have, with the memory and tiers they see: a tier's used memory is what they have of it,
\* those that got no memory included, and no two share memory.
THEOREM ReferencesCounted == ASSUME OneFree PROVE Spec => []RemoteAccounted
<1>1. MemoryInv => RemoteAccounted
  <2> SUFFICES ASSUME RefInv, ~migrated PROVE Accounted
    BY DEF MemoryInv, RemoteAccounted
  <2>1. refs = callers /\ \A r \in DOMAIN refs : heap[r] = "ref"
    BY DEF RefInv, CallersAgree, RefsAre
  <2>2. \A r, s \in DOMAIN refs : refs[r].addr = refs[s].addr /\ r # s => refs[r].addr = Failed
    BY DEF RefInv, MappedOnce
  <2> QED
    BY <2>1, <2>2 DEF Accounted, UsedMemory
<1> QED
  BY <1>1, MemoryKept, PTL

=============================================================================
