---------------------------- MODULE RuntimeMemory ----------------------------
(***************************************************************************)
(* What runtime/src/CiraRuntime.cpp keeps on the heap: LLC tiles with      *)
(* their completion lines, pools of futures with the regions they are      *)
(* registered as, and the remote memory manager's references.  Memory that *)
(* is freed may be handed out again at once, to any thread.                *)
(*                                                                         *)
(* An allocation is a cell of two cache lines: cell c has the addresses    *)
(* 2 * c and 2 * c + 1.  A critical section is one step; between two of    *)
(* them, and between an allocation and a critical section, others run.     *)
(* What is copied into a tile is not modelled: nothing in the runtime      *)
(* keeps the copies of two installs, or a copy and its reader, apart.      *)
(***************************************************************************)
EXTENDS Integers, Sequences, SequencesExt, FiniteSets

CONSTANTS
  Threads,
  NCells,    \* bound: cells of the heap
  Mapped,    \* what mmap can return
  Tiers,     \* memory tiers
  Failed,    \* what mmap and numa_alloc return when they have no memory
  Overlap,   \* does the application register memory that holds pools?
  FreesInUse,  \* do callers free a tile while a call works on it?
  FreesMigrated \* do callers free a reference they have migrated?

ASSUME CellsOK == NCells \in Nat \ {0}
ASSUME CallersOK == {Overlap, FreesInUse, FreesMigrated} \subseteq BOOLEAN

Cells == 1..NCells
Addr(c, i) == 2 * c + i
None == 0
ASSUME NoneOK == None \notin Mapped /\ Failed \notin Mapped

VARIABLES
  heap,     \* what a cell is allocated as, or "free"
  pc,       \* a thread is idle or within a call, with the cells it works on
  tiles,    \* g_llc_tiles: from the tile to its completion line
  held,     \* tiles their callers have
  magic,    \* lines that say they are complete
  regions,  \* g_registered_regions
  pools,    \* from a pool to whether it believes itself registered
  active,   \* active_futures
  refs,     \* allocations_: from the reference to memory and tier
  callers,  \* what callers think they hold: references, with memory and tier
  migrated  \* history: some reference was migrated

tileVars == <<tiles, held, magic>>
poolVars == <<regions, pools, active>>
remoteVars == <<refs, callers, migrated>>
vars == <<heap, pc, tileVars, poolVars, remoteVars>>

Idle == [at |-> "idle", cell |-> None, line |-> None]
At(label, c, l) == [at |-> label, cell |-> c, line |-> l]
Without(f, x) == [y \in DOMAIN f \ {x} |-> f[y]]
With(f, x, v) == [y \in DOMAIN f \cup {x} |-> IF y = x THEN v ELSE f[y]]
Goto(t, p) == pc' = [pc EXCEPT ![t] = p]
IsFree(c) == heap[c] = "free"
Alloc(c, as) == heap' = [heap EXCEPT ![c] = as]
Release(c) == heap' = [heap EXCEPT ![c] = "free"]

Init ==
  /\ heap = [c \in Cells |-> "free"] /\ pc = [t \in Threads |-> Idle]
  /\ tiles = <<>> /\ held = {} /\ magic = {}
  /\ regions = <<>> /\ pools = <<>> /\ active = {}
  /\ refs = <<>> /\ callers = <<>> /\ migrated = FALSE

-----------------------------------------------------------------------------
(* LLC tiles *)

\* cira_llc_tile_alloc: the tile, its line, the entry in the table, and only then is
\* the line complete and the tile the caller's.
TileTake(t, c) ==
  /\ pc[t] = Idle /\ IsFree(c)
  /\ Alloc(c, "tile") /\ Goto(t, At("take_line", c, None))
  /\ UNCHANGED <<tileVars, poolVars, remoteVars>>

TileLine(t, l) ==
  /\ pc[t].at = "take_line" /\ IsFree(l)
  /\ Alloc(l, "line") /\ magic' = magic \ {l}
  /\ Goto(t, At("enter", pc[t].cell, l))
  /\ UNCHANGED <<tiles, held, poolVars, remoteVars>>

TileNoLine(t) ==
  /\ pc[t].at = "take_line"
  /\ Release(pc[t].cell) /\ Goto(t, Idle)
  /\ UNCHANGED <<tileVars, poolVars, remoteVars>>

TileEnter(t) ==
  /\ pc[t].at = "enter"
  /\ tiles' = With(tiles, pc[t].cell, pc[t].line)
  /\ Goto(t, [pc[t] EXCEPT !.at = "give"])
  /\ UNCHANGED <<heap, held, magic, poolVars, remoteVars>>

TileGive(t) ==
  /\ pc[t].at = "give"
  /\ magic' = magic \cup {pc[t].line} /\ held' = held \cup {pc[t].cell}
  /\ Goto(t, Idle)
  /\ UNCHANGED <<heap, tiles, poolVars, remoteVars>>

\* cira_llc_tile_free: the entry goes first, so that the memory is not handed out
\* to a thread whose entry is then erased.
TileFreeBackwards == <<"free_line", "free_tile", "forget">>
TileFreeOrder == <<"forget", "free_line", "free_tile">>

After(order, step) ==
  LET k == CHOOSE k \in DOMAIN order : order[k] = step
  IN  IF k = Len(order) THEN "idle" ELSE order[k + 1]
Proceed(t, order) ==
  Goto(t, IF After(order, pc[t].at) = "idle" THEN Idle
          ELSE [pc[t] EXCEPT !.at = After(order, @)])

InUse(c) == \E t \in Threads : pc[t].cell = c

\* A caller frees a tile once, and unless FreesInUse when no call works on it.
TileFree(t, c) ==
  /\ pc[t] = Idle /\ c \in held /\ (FreesInUse \/ ~InUse(c))
  /\ held' = held \ {c}
  /\ Goto(t, At(Head(TileFreeOrder), c, tiles[c]))
  /\ UNCHANGED <<heap, tiles, magic, poolVars, remoteVars>>

TileFreeStep(t) ==
  /\ pc[t].at \in Range(TileFreeOrder)
  /\ CASE pc[t].at = "forget" -> tiles' = Without(tiles, pc[t].cell) /\ UNCHANGED heap
       [] pc[t].at = "free_line" -> Release(pc[t].line) /\ UNCHANGED tiles
       [] OTHER -> Release(pc[t].cell) /\ UNCHANGED tiles
  /\ Proceed(t, TileFreeOrder)
  /\ UNCHANGED <<held, magic, poolVars, remoteVars>>

\* Any thread installs into any tile, whoever else does: the line is looked up under
\* the lock, or is the caller's own; then it is cleared, and complete after the copy.
InstallEarly == <<"complete", "clear">>
InstallOrder == <<"clear", "complete">>

Install(t, c) ==
  /\ pc[t] = Idle /\ c \in held
  /\ \E l \in {tiles[c], None} : Goto(t, At(Head(InstallOrder), c, l))
  /\ UNCHANGED <<heap, tileVars, poolVars, remoteVars>>

InstallStep(t) ==
  /\ pc[t].at \in Range(InstallOrder)
  /\ magic' = IF pc[t].at = "clear" THEN magic \ {pc[t].line}
              ELSE magic \cup ({pc[t].line} \ {None})
  /\ Proceed(t, InstallOrder)
  /\ UNCHANGED <<heap, tiles, held, poolVars, remoteVars>>

\* The line is looked up under the lock and awaited after it; the wait may time out,
\* and the tile is returned all the same.
GetMwait(t, c) ==
  /\ pc[t] = Idle /\ c \in held
  /\ Goto(t, At("await", c, tiles[c]))
  /\ UNCHANGED <<heap, tileVars, poolVars, remoteVars>>

GetMwaitEnds(t) ==
  /\ pc[t].at = "await" /\ Goto(t, Idle)
  /\ UNCHANGED <<heap, tileVars, poolVars, remoteVars>>

-----------------------------------------------------------------------------
(* Regions, and pools of futures *)

Covers(r, a) == r.base <= a /\ a < r.base + r.size

\* register_linear_region replaces the entry with the same base, else appends.
Registered(r) ==
  IF \E k \in DOMAIN regions : regions[k].base = r.base
  THEN LET k == CHOOSE k \in DOMAIN regions :
              regions[k].base = r.base /\ \A j \in 1..(k - 1) : regions[j].base # r.base
       IN  [regions EXCEPT ![k] = r]
  ELSE Append(regions, r)

\* unregister_linear_region removes what has that base: registering keeps one entry
\* for a base, so that there is one to remove.
Unregistered(base) ==
  IF \E k \in DOMAIN regions : regions[k].base = base
  THEN RemoveAt(regions, CHOOSE k \in DOMAIN regions : regions[k].base = base)
  ELSE regions

\* The first region that covers an address translates it.
Translated(a) ==
  LET hits == {k \in DOMAIN regions : Covers(regions[k], a)}
  IN  IF hits = {} THEN None
      ELSE LET k == CHOOSE k \in hits : \A j \in hits : k <= j
           IN  regions[k].dev + (a - regions[k].base)

\* The device address of the ith entry of a pool, and 0 beyond its depth.
DeviceAddr(c, i) == IF i < 2 THEN Translated(Addr(c, i)) ELSE 0

\* The device sees the pool in cell c at 100 * c.
PoolRegion(c) == [base |-> Addr(c, 0), size |-> 2, dev |-> 100 * c]

\* A region of the application's own: memory elsewhere, or all of the heap.
Arena == [base |-> IF Overlap THEN 1 ELSE 2 * NCells + 2, size |-> 2 * NCells + 1,
          dev |-> 1000]

RegisterArena(t) ==
  /\ pc[t] = Idle
  /\ regions' = Registered(Arena)
  /\ UNCHANGED <<heap, pc, pools, active, tileVars, remoteVars>>

UnregisterArena(t) ==
  /\ pc[t] = Idle /\ Arena \in Range(regions)
  /\ regions' = Unregistered(Arena.base)
  /\ UNCHANGED <<heap, pc, pools, active, tileVars, remoteVars>>

PoolAlloc(t, c) ==
  /\ pc[t] = Idle /\ IsFree(c)
  /\ Alloc(c, "pool") /\ pools' = With(pools, c, FALSE) /\ magic' = magic \ {c}
  /\ UNCHANGED <<pc, regions, active, tiles, held, remoteVars>>

PoolRegister(t, c) ==
  /\ pc[t] = Idle /\ c \in DOMAIN pools
  /\ regions' = Registered(PoolRegion(c)) /\ pools' = [pools EXCEPT ![c] = TRUE]
  /\ UNCHANGED <<heap, pc, active, tileVars, remoteVars>>

PoolUnregister(t, c) ==
  /\ pc[t] = Idle /\ c \in DOMAIN pools /\ \E k \in DOMAIN regions : regions[k].base = Addr(c, 0)
  /\ regions' = Unregistered(Addr(c, 0)) /\ pools' = [pools EXCEPT ![c] = FALSE]
  /\ UNCHANGED <<heap, pc, active, tileVars, remoteVars>>

PoolArm(t, c, i) ==
  /\ pc[t] = Idle /\ c \in DOMAIN pools
  /\ active' = active \cup {Addr(c, i)}
  /\ UNCHANGED <<heap, pc, regions, pools, tileVars, remoteVars>>

\* cira_future_pool_free: the region, the tracked entries, then the memory.
PoolFreeBackwards == <<"free_base", "unregister", "untrack">>
PoolFreeOrder == <<"unregister", "untrack", "free_base">>

PoolFree(t, c) ==
  /\ pc[t] = Idle /\ c \in DOMAIN pools
  /\ pools' = Without(pools, c)
  /\ Goto(t, [at |-> Head(PoolFreeOrder), cell |-> c, line |-> IF pools[c] THEN c ELSE None])
  /\ UNCHANGED <<heap, regions, active, tileVars, remoteVars>>

PoolFreeStep(t) ==
  /\ pc[t].at \in Range(PoolFreeOrder)
  /\ regions' = IF pc[t].at = "unregister" /\ pc[t].line # None
                THEN Unregistered(Addr(pc[t].cell, 0)) ELSE regions
  /\ active' = IF pc[t].at = "untrack" THEN active \ {Addr(pc[t].cell, i) : i \in 0..1}
               ELSE active
  /\ IF pc[t].at = "free_base" THEN Release(pc[t].cell) ELSE UNCHANGED heap
  /\ Proceed(t, PoolFreeOrder)
  /\ UNCHANGED <<pools, tileVars, remoteVars>>

\* The phase barrier clears the list once the lines are complete.
PhaseBarrier(t) ==
  /\ pc[t] = Idle /\ active # {} /\ active' = {}
  /\ UNCHANGED <<heap, pc, regions, pools, tileVars, remoteVars>>

-----------------------------------------------------------------------------
(* The remote memory manager.  It has no lock: its callers take turns, so that a call   *)
(* is one step.  What mmap returns is stored unseen: a reference without memory counts. *)

MappedNow == {refs[r].addr : r \in DOMAIN refs} \ {Failed}
Fresh == Mapped \ MappedNow

\* getUsedMemory, where every reference is for memory of one size.
UsedMemory(tier) == Cardinality({r \in DOMAIN refs : refs[r].tier = tier})

RemoteAllocate(t, r, a, tier) ==
  /\ pc[t] = Idle /\ IsFree(r) /\ a \in Fresh \cup {Failed}
  /\ Alloc(r, "ref")
  /\ refs' = With(refs, r, [addr |-> a, tier |-> tier])
  /\ callers' = With(callers, r, [addr |-> a, tier |-> tier])
  /\ UNCHANGED <<pc, migrated, tileVars, poolVars>>

\* Faulty: the reference is deleted, its entry stays.
RemoteDeallocateKeeps(t, r) ==
  /\ pc[t] = Idle /\ r \in DOMAIN callers
  /\ Release(r) /\ callers' = Without(callers, r)
  /\ UNCHANGED <<pc, refs, migrated, tileVars, poolVars>>

RemoteDeallocate(t, r) ==
  /\ pc[t] = Idle /\ r \in DOMAIN callers
  /\ Release(r) /\ refs' = Without(refs, r) /\ callers' = Without(callers, r)
  /\ UNCHANGED <<pc, migrated, tileVars, poolVars>>

\* The new allocation's entry stays under a reference that is deleted; the old
\* reference, which the caller still has, is deleted before it is written.  A copy from
\* or to memory that could not be had ends the process.
RemoteMigrate(t, r, n, a, tier) ==
  /\ pc[t] = Idle /\ r \in DOMAIN callers /\ r \in DOMAIN refs /\ IsFree(n)
  /\ a \in Fresh /\ callers[r].addr # Failed
  /\ refs' = With(Without(refs, r), n, [addr |-> a, tier |-> tier])
  /\ callers' = IF FreesMigrated THEN With(callers, r, [addr |-> a, tier |-> tier])
                ELSE Without(callers, r)
  /\ Release(r) /\ migrated' = TRUE
  /\ UNCHANGED <<pc, tileVars, poolVars>>

-----------------------------------------------------------------------------

TileStep(t) ==
  \/ TileNoLine(t) \/ TileEnter(t) \/ TileGive(t) \/ TileFreeStep(t)
  \/ InstallStep(t) \/ GetMwaitEnds(t)
  \/ \E c \in Cells :
       TileTake(t, c) \/ TileLine(t, c) \/ TileFree(t, c) \/ Install(t, c) \/ GetMwait(t, c)

PoolStep(t) ==
  \/ RegisterArena(t) \/ UnregisterArena(t) \/ PoolFreeStep(t) \/ PhaseBarrier(t)
  \/ \E c \in Cells :
       \/ PoolAlloc(t, c) \/ PoolRegister(t, c) \/ PoolUnregister(t, c) \/ PoolFree(t, c)
       \/ \E i \in 0..1 : PoolArm(t, c, i)

RemoteStep(t) ==
  \E r \in Cells :
    \/ RemoteDeallocate(t, r)
    \/ \E a \in Mapped \cup {Failed}, tier \in Tiers :
         RemoteAllocate(t, r, a, tier) \/ \E n \in Cells : RemoteMigrate(t, r, n, a, tier)

Next == \E t \in Threads : TileStep(t) \/ PoolStep(t) \/ RemoteStep(t)

Spec == Init /\ [][Next]_vars

-----------------------------------------------------------------------------
(* Properties *)

WorkedAt(labels) == {pc[t].cell : t \in {u \in Threads : pc[u].at \in labels}}

\* Whatever threads allocate, install, await and free meanwhile, a tile its caller holds
\* has its entry, with a line that is allocated and no other tile's; the table has no
\* entries but those of tiles that are held, about to be given out or being freed; and
\* whoever waits for a tile waits for an install: a line that is not complete has one at
\* work on it, however many overlap (cira_llc_tile_alloc to cira_llc_tile_get_mwait).
TilesKnown ==
  /\ held \subseteq DOMAIN tiles
  /\ DOMAIN tiles \subseteq held \cup WorkedAt({"give"} \cup Range(TileFreeOrder))
  /\ \A c \in held : heap[c] = "tile" /\ heap[tiles[c]] = "line"
  /\ \A c, d \in held : c # d => tiles[c] # tiles[d]
  /\ \A c \in held : tiles[c] \in magic \/ \E t \in Threads :
       pc[t].at \in Range(InstallOrder) /\ pc[t].line = tiles[c]

\* A pool that is registered has the device addresses it was registered with, and no
\* region outlives its pool, into whatever the memory is by then.
PoolsTranslate ==
  /\ \A c \in DOMAIN pools : pools[c] =>
       \A i \in 0..1 : DeviceAddr(c, i) = 100 * c + i
  /\ \A k \in DOMAIN regions : regions[k] # Arena => heap[(regions[k].base) \div 2] = "pool"

\* The phase barrier never looks at a line whose pool has been freed.
ActiveInPools == \A a \in active : heap[a \div 2] = "pool"

\* The manager's table is what its callers hold, with the memory and the tier they see,
\* so that each tier counts as used what callers have of it, the references that got no
\* memory with the others; and no two have the same memory ...
Accounted ==
  /\ refs = callers /\ \A r \in DOMAIN refs : heap[r] = "ref"
  /\ \A tier \in Tiers :
       UsedMemory(tier) = Cardinality({r \in DOMAIN callers : callers[r].tier = tier})
  /\ \A r, s \in DOMAIN refs : refs[r].addr = refs[s].addr /\ r # s => refs[r].addr = Failed

\* ... until a reference is migrated (allocateRemote, deallocateRemote).
RemoteAccounted == ~migrated => Accounted
==============================================================================
