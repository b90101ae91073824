----------------------------- MODULE Type2Cache -----------------------------
(***************************************************************************)
(* The CXL Type-2 cache controller, Type2CacheControllerImpl in            *)
(* runtime/src/CiraRuntime.cpp: a device cache of host memory with MESI    *)
(* states (CXL.cache), device memory behind BAR4 (CXL.mem) and a delay     *)
(* buffer that models the pipeline.  cache_mutex_ makes each call one      *)
(* step.                                                                   *)
(*                                                                         *)
(* A cache line is two words, so that an address can be in the middle of   *)
(* a line and an access shorter than one.  The entry of an evicted line    *)
(* stays in the map, in state INVALID.                                     *)
(***************************************************************************)
EXTENDS Naturals

CONSTANTS
  NumLines,    \* host lines
  Val,         \* contents of a word, 0 among them
  Offsets,     \* word offsets callers use, 0 .. 1
  LoadSizes,   \* words cacheLoad is asked for
  StoreSizes,  \* words cacheStore is given
  Revive,      \* may a snoop for SHARED reach a line that was evicted?
  DelaysFirst, \* may cira_type2_set_delay come before cira_type2_configure?
  DefaultDepth, Depths  \* depths of the delay buffer: initial, and set later

ASSUME ConstantsOK ==
  /\ NumLines \in Nat \ {0} /\ 0 \in Val
  /\ Offsets \subseteq 0 .. 1
  /\ LoadSizes \subseteq 1 .. 2 /\ StoreSizes \subseteq 1 .. 2
  /\ Revive \in BOOLEAN /\ DelaysFirst \in BOOLEAN
  /\ DefaultDepth \in Nat \ {0} /\ Depths \subseteq Nat \ {0}

Lines == 0 .. NumLines - 1
Words == 0 .. 2 * NumLines  \* one beyond the last line, for accesses across it
State == {"INVALID", "SHARED", "EXCLUSIVE", "MODIFIED"}
Addresses == {w \in Words : w < 2 * NumLines /\ w % 2 \in Offsets}

VARIABLES
  mem,                  \* host memory
  present,              \* lines that have an entry in cache_
  state, dirty, data,   \* the entries
  queue, depth,         \* entries in delay_buffer_, delay_buffer_depth_
  ready, bars,          \* initialized_; are the BARs mapped?
  dev,                  \* a word of device memory
  newest, devNewest     \* history: what was last written where

cacheVars == <<present, state, dirty, data>>
deviceVars == <<ready, bars, dev, devNewest>>
vars == <<mem, cacheVars, queue, depth, deviceVars, newest>>

\* Entries hold a MESI state and a line of words; the buffer's depth is never 0.
TypeOK ==
  /\ mem \in [Words -> Val] /\ newest \in [Words -> Val]
  /\ present \subseteq Lines
  /\ state \in [Lines -> State] /\ dirty \in [Lines -> BOOLEAN]
  /\ data \in [Lines -> [0 .. 1 -> Val]]
  /\ queue \in Nat /\ depth \in Nat \ {0}
  /\ ready \in BOOLEAN /\ bars \in BOOLEAN
  /\ dev \in Val /\ devNewest \in Val

Empty == [o \in 0 .. 1 |-> 0]

Init ==
  /\ mem = [w \in Words |-> 0] /\ newest = mem
  /\ present = {}
  /\ state = [a \in Lines |-> "INVALID"] /\ dirty = [a \in Lines |-> FALSE]
  /\ data = [a \in Lines |-> Empty]
  /\ queue = 0 /\ depth = DefaultDepth
  /\ ready = FALSE /\ bars = FALSE
  /\ dev = 0 /\ devNewest = 0

alignToLine(w) == w \div 2
Hit(a) == a \in present /\ state[a] # "INVALID"

\* memcpy of a whole line to the address the caller gave.
WriteBack(a, w) ==
  mem' = [x \in Words |-> IF x \in {w, w + 1} THEN data[a][x - w] ELSE mem[x]]

\* What becomes of the history when line contents are thrown away on request.
Discard(S) ==
  newest' = [w \in Words |-> IF alignToLine(w) \in S THEN mem[w] ELSE newest[w]]

\* processDelayBuffer drops the entries whose time is over, oldest first;
\* enqueueDelayedOp drops the oldest when the buffer is full.
Process(q) == 0 .. q
Enqueue(q) == IF q >= depth THEN q ELSE q + 1

-----------------------------------------------------------------------------
(* CXL.cache *)

LoadHit(w) ==
  /\ Hit(alignToLine(w))
  /\ queue' \in Process(queue)
  /\ UNCHANGED <<mem, cacheVars, depth, deviceVars, newest>>

LoadMiss(w, n) ==
  LET a == alignToLine(w) IN
  /\ ~Hit(a)
  /\ present' = present \cup {a}
  /\ data' = [data EXCEPT ![a] = [i \in 0 .. 1 |-> IF i < n THEN mem[w + i] ELSE @[i]]]
  /\ state' = [state EXCEPT ![a] = "SHARED"]
  /\ dirty' = [dirty EXCEPT ![a] = FALSE]
  /\ \E q \in Process(queue) : queue' = Enqueue(q)
  /\ UNCHANGED <<mem, depth, deviceVars, newest>>

\* Faulty: a store miss does not fetch the rest of the line.
StoreNoFetch(w, n, v) ==
  LET a == alignToLine(w) IN
  /\ present' = present \cup {a}
  /\ data' = [data EXCEPT ![a] = [i \in 0 .. 1 |-> IF i < n THEN v ELSE @[i]]]
  /\ state' = [state EXCEPT ![a] = "MODIFIED"]
  /\ dirty' = [dirty EXCEPT ![a] = TRUE]
  /\ \E q \in Process(queue) :
       queue' = Enqueue(IF state[a] = "SHARED" THEN Enqueue(q) ELSE q)
  /\ newest' = [x \in Words |-> IF x \in w .. w + n - 1 THEN v ELSE newest[x]]
  /\ UNCHANGED <<mem, depth, deviceVars>>

\* A miss fetches the whole line first; SHARED is upgraded, at the price of one
\* more delay; the data go to the start of the line.
Store(w, n, v) ==
  LET a == alignToLine(w)
      fetched(i) == IF Hit(a) THEN data[a][i] ELSE mem[w + i]
  IN
  /\ present' = present \cup {a}
  /\ data' = [data EXCEPT ![a] = [i \in 0 .. 1 |-> IF i < n THEN v ELSE fetched(i)]]
  /\ state' = [state EXCEPT ![a] = "MODIFIED"]
  /\ dirty' = [dirty EXCEPT ![a] = TRUE]
  /\ \E q \in Process(queue) :
       queue' = Enqueue(IF state[a] = "SHARED" THEN Enqueue(q) ELSE q)
  /\ newest' = [x \in Words |-> IF x \in w .. w + n - 1 THEN v ELSE newest[x]]
  /\ UNCHANGED <<mem, depth, deviceVars>>

\* The caller chooses whether dirty data go back to the host.
Evict(w, writeback) ==
  LET a == alignToLine(w) IN
  /\ a \in present
  /\ \/ writeback /\ dirty[a] /\ WriteBack(a, w) /\ UNCHANGED newest
     \/ ~writeback /\ dirty[a] /\ Discard({a}) /\ UNCHANGED mem
     \/ ~dirty[a] /\ UNCHANGED <<mem, newest>>
  /\ state' = [state EXCEPT ![a] = "INVALID"]
  /\ dirty' = [dirty EXCEPT ![a] = FALSE]
  /\ UNCHANGED <<present, data, queue, depth, deviceVars>>

\* handleSnoop: another agent wants the line, s is the state it leaves us.
Snoop(w, s) ==
  LET a == alignToLine(w) IN
  /\ a \in present
  /\ Hit(a) \/ s = "INVALID" \/ Revive
  /\ IF state[a] = "MODIFIED" /\ dirty[a]
       THEN WriteBack(a, w) /\ dirty' = [dirty EXCEPT ![a] = FALSE]
       ELSE UNCHANGED mem /\ dirty' = [dirty EXCEPT ![a] = @ /\ s # "INVALID"]
  /\ state' = [state EXCEPT ![a] = s]
  /\ UNCHANGED <<present, data, queue, depth, deviceVars, newest>>

\* The lines invalidateRange visits.
LineRange(w, n) == {a \in present : a >= alignToLine(w) /\ 2 * a < w + n}

\* Faulty: invalidation forgets the dirty data.
InvalidateOnly(w, n) ==
  /\ state' = [a \in Lines |-> IF a \in LineRange(w, n) THEN "INVALID" ELSE state[a]]
  /\ dirty' = [a \in Lines |-> dirty[a] /\ a \notin LineRange(w, n)]
  /\ UNCHANGED <<mem, present, data, queue, depth, deviceVars, newest>>

InvalidateRange(w, n) ==
  LET lost == {a \in LineRange(w, n) : dirty[a] /\ state[a] = "MODIFIED"} IN
  /\ mem' = [x \in Words |->
               IF alignToLine(x) \in lost THEN data[alignToLine(x)][x % 2] ELSE mem[x]]
  /\ state' = [a \in Lines |-> IF a \in LineRange(w, n) THEN "INVALID" ELSE state[a]]
  /\ dirty' = [a \in Lines |-> dirty[a] /\ a \notin LineRange(w, n)]
  /\ UNCHANGED <<present, data, queue, depth, deviceVars, newest>>

\* The host's own caches: a write needs the line, so the device has lost it.
HostWrite(w, v) ==
  /\ ~Hit(alignToLine(w))
  /\ mem' = [mem EXCEPT ![w] = v]
  /\ newest' = [newest EXCEPT ![w] = v]
  /\ UNCHANGED <<cacheVars, queue, depth, deviceVars>>

-----------------------------------------------------------------------------
(* Life cycle, CXL.mem and the delay buffer *)

\* cira_type2_configure and cira_type2_set_delay both end here, and it does nothing
\* the second time; only the first has BAR sizes to map.  Mapping can fail.
Initialize(withBars) ==
  /\ IF ready
       THEN UNCHANGED <<depth, ready, bars>>
       ELSE /\ depth' = DefaultDepth
            /\ ready' \in BOOLEAN
            /\ bars' = (ready' /\ withBars)
  /\ UNCHANGED <<mem, cacheVars, queue, dev, devNewest, newest>>

Configure == Initialize(TRUE)
SetDelay == (DelaysFirst \/ ready) /\ Initialize(FALSE)

Shutdown ==
  /\ ready
  /\ queue' = 0
  /\ ready' = FALSE /\ bars' = FALSE
  /\ dev' = 0 /\ devNewest' = 0
  /\ present' = {}
  /\ state' = [a \in Lines |-> "INVALID"] /\ dirty' = [a \in Lines |-> FALSE]
  /\ data' = [a \in Lines |-> Empty]
  /\ Discard({a \in Lines : dirty[a]})
  /\ UNCHANGED <<mem, depth>>

\* memStore to a device that was initialized; without BAR4 it does nothing.
MemStore(v) ==
  /\ ready
  /\ dev' = IF bars THEN v ELSE dev
  /\ devNewest' = v
  /\ UNCHANGED <<mem, cacheVars, queue, depth, ready, bars, newest>>

\* memLoad hands out fresh zero pages when BAR4 is not mapped.
MemLoad == IF bars THEN dev ELSE 0

SetDelayBufferDepth(d) ==
  /\ depth' = d
  /\ UNCHANGED <<mem, cacheVars, queue, deviceVars, newest>>

DrainDelayBuffer ==
  /\ queue' = 0
  /\ UNCHANGED <<mem, cacheVars, depth, deviceVars, newest>>

-----------------------------------------------------------------------------

CacheCall(w) ==
  \/ LoadHit(w)
  \/ \E n \in LoadSizes : LoadMiss(w, n)
  \/ \E n \in StoreSizes, v \in Val : Store(w, n, v)
  \/ \E writeback \in BOOLEAN : Evict(w, writeback)
  \/ \E s \in {"INVALID", "SHARED"} : Snoop(w, s)
  \/ \E n \in 1 .. 2 : InvalidateRange(w, n)

Next ==
  \/ \E w \in Addresses : CacheCall(w)
  \/ \E w \in Words, v \in Val : HostWrite(w, v)
  \/ Configure \/ SetDelay \/ Shutdown \/ DrainDelayBuffer
  \/ \E v \in Val : MemStore(v)
  \/ \E d \in Depths : SetDelayBufferDepth(d)

Spec == Init /\ [][Next]_vars

-----------------------------------------------------------------------------
(* Properties *)

\* The device coherently caches the host memory line: a valid entry holds what
\* was last written to each of its words, by whichever side.
LoadsNewest ==
  \A a \in Lines : Hit(a) => \A o \in 0 .. 1 : data[a][o] = newest[2 * a + o]

\* No write is lost: what is not in host memory is in a dirty entry.
NothingLost ==
  \A a \in Lines : ~dirty[a] => \A o \in 0 .. 1 : mem[2 * a + o] = newest[2 * a + o]

\* Dirty data are held in state MODIFIED and nowhere else, so that a snoop or an
\* invalidation, which test both, cannot miss them.
DirtyIsModified == \A a \in Lines : dirty[a] <=> state[a] = "MODIFIED"

\* The delay buffer never holds more than its depth.
QueueBounded == queue <= depth

\* CXL.mem: a load sees the last store to device memory.
MemReadsStored == MemLoad = devNewest
=============================================================================
