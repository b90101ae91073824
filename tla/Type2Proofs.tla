----------------------------- MODULE Type2Proofs -----------------------------
(***************************************************************************)
(* Proofs about the Type 2 card: its GPU, for any number of objects and    *)
(* requests and whatever the profile-guided loop compiles, and its cache   *)
(* controller, for any number of lines and any contents.  Coherence needs  *)
(* what compiled code keeps to: it loads whole lines, from their first     *)
(* word, and nobody snoops an evicted line back to life (Aligned).         *)
(***************************************************************************)
EXTENDS Type2Cache, GpuPgo, WellFoundedInduction, TLAPS

-----------------------------------------------------------------------------
(* The card's registers and the waits for a kernel *)

\* One object launches kernels, and the card has taken a launch before its status is next
\* read. Its user may give up waiting, launch again over a kernel that runs, and shut down.
OneLauncher ==
  /\ Prompt /\ None \notin Requests
  /\ \A a, b \in Launchers : a = b

GpuType ==
  /\ phase \in [Objects -> Phases]
  /\ asked \in [Objects -> Requests \cup {None}]
  /\ verdict \in [Objects -> {"none", "timeout", "done", "error", "simulated"}]
  /\ pending \in BOOLEAN
  /\ regs \in [kernel : Requests \cup {None}, completion : Requests \cup {None}, dcoh : BOOLEAN]

\* Who is launching or waits, does so with the kernel the registers hold; who waits, waits
\* for that one to be started, for the one that runs, or for the one that ran last. Before
\* its first launch the card is idle, and what ended late is asked for no more.
CardIsOwn ==
  \A o \in Launchers :
    /\ phase[o] \in {"launching", "set", "waiting"} => asked[o] \in Requests /\ regs.kernel = asked[o]
    /\ phase[o] = "waiting" /\ ~pending => running = asked[o] \/ (running = None /\ asked[o] \in ended)
    /\ phase[o] \in {"launching", "set", "waiting"} => verdict[o] \in {"none", "timeout"}

RunningShows == running # None => status = "running"

WaitInv == GpuType /\ CardIsOwn /\ RunningShows /\ WaitsForOwn

\* Where an object is neither launching nor waiting after a step, and the card stays as it
\* is, so does the invariant.
LEMMA CardUntouched ==
  ASSUME OneLauncher, WaitInv, NEW o \in Objects, NEW p \in {"new", "ready", "closed", "gone", "deleted"},
         phase' = [phase EXCEPT ![o] = p], UNCHANGED <<asked, verdict, cardVars>>
  PROVE  WaitInv'
<1> USE ObjectsOK DEF OneLauncher, WaitInv, cardVars
<1>1. GpuType'
  BY DEF GpuType, Phases
<1>2. \A l \in Launchers : phase'[l] \in {"launching", "set", "waiting"} => phase'[l] = phase[l]
  BY DEF GpuType
<1>3. CardIsOwn'
  BY <1>2 DEF CardIsOwn
<1>4. RunningShows' /\ WaitsForOwn'
  BY DEF RunningShows, WaitsForOwn
<1> QED
  BY <1>1, <1>3, <1>4

LEMMA LaunchKeeps ==
  ASSUME OneLauncher, WaitInv, NEW o \in Objects, NEW q \in Requests, Launch(o, q)
  PROVE  WaitInv'
<1> USE ObjectsOK DEF OneLauncher, WaitInv
<1>1. o \in Launchers /\ \A l \in Launchers : l = o
  BY DEF Launch
<1>2. asked'[o] = q /\ verdict'[o] = "none" /\ UNCHANGED <<pending, status, running>>
  BY DEF Launch, GpuType
<1>3. GpuType' /\ (phase'[o] = "closed" \/ (phase'[o] = "launching" /\ regs'.kernel = q))
  <2>1. \/ phase[o] = "closed" /\ regs' = regs /\ phase' = phase
        \/ regs' = [regs EXCEPT !.kernel = q] /\ phase' = [phase EXCEPT ![o] = "launching"]
    BY DEF Launch
  <2>2. regs' \in [kernel : Requests \cup {None}, completion : Requests \cup {None}, dcoh : BOOLEAN]
    BY <2>1 DEF GpuType
  <2>3. phase' \in [Objects -> Phases] /\ (phase'[o] = "closed" \/ (phase'[o] = "launching" /\ regs'.kernel = q))
    BY <2>1 DEF GpuType, Phases
  <2>4. asked' \in [Objects -> Requests \cup {None}]
        /\ verdict' \in [Objects -> {"none", "timeout", "done", "error", "simulated"}]
    BY DEF Launch, GpuType
  <2> QED
    BY <1>2, <2>2, <2>3, <2>4 DEF GpuType
<1>4. CardIsOwn'
  BY <1>1, <1>2, <1>3 DEF CardIsOwn
<1>5. RunningShows' /\ WaitsForOwn'
  BY <1>1, <1>2 DEF RunningShows, WaitsForOwn, Ended
<1> QED
  BY <1>3, <1>4, <1>5

LEMMA RegistersKeep ==
  ASSUME OneLauncher, WaitInv, NEW o \in Objects, SetCompletion(o) \/ Trigger(o)
  PROVE  WaitInv'
<1> USE ObjectsOK DEF OneLauncher, WaitInv
<1>1. UNCHANGED <<asked, verdict, status, running, ended>> /\ regs'.kernel = regs.kernel
  BY DEF SetCompletion, Trigger, GpuType
<1>2. \/ phase[o] = "launching" /\ phase' = [phase EXCEPT ![o] = "set"] /\ pending' = pending
      \/ phase[o] = "set" /\ phase' = [phase EXCEPT ![o] = "waiting"] /\ pending' = TRUE
  BY DEF SetCompletion, Trigger
<1>3. GpuType'
  <2>1. asked[o] \in Requests \cup {None}
    BY DEF GpuType
  <2>2. regs' \in [kernel : Requests \cup {None}, completion : Requests \cup {None}, dcoh : BOOLEAN]
    BY <2>1 DEF SetCompletion, Trigger, GpuType
  <2>3. phase' \in [Objects -> Phases] /\ pending' \in BOOLEAN
    BY <1>2 DEF GpuType, Phases
  <2> QED
    BY <1>1, <2>2, <2>3 DEF GpuType
<1>4. CardIsOwn'
  BY <1>1, <1>2 DEF CardIsOwn, GpuType
<1>5. RunningShows' /\ WaitsForOwn'
  BY <1>1 DEF RunningShows, WaitsForOwn
<1> QED
  BY <1>3, <1>4, <1>5

LEMMA WaitKeeps ==
  ASSUME OneLauncher, WaitInv, NEW o \in Objects, Wait(o)
  PROVE  WaitInv'
<1> USE ObjectsOK DEF OneLauncher, WaitInv
<1>1. UNCHANGED <<asked, cardVars>> /\ o \in Launchers /\ \A l \in Launchers : l = o
  BY DEF Wait
<1>2. RunningShows'
  BY <1>1 DEF RunningShows, cardVars
<1>3. CASE phase[o] = "closed"
  <2>1. verdict' = [verdict EXCEPT ![o] = "simulated"] /\ phase' = phase
    BY <1>3 DEF Wait, GpuType
  <2>2. GpuType' /\ WaitsForOwn' /\ CardIsOwn'
    BY <1>1, <1>3, <2>1 DEF GpuType, WaitsForOwn, CardIsOwn, Ended, cardVars
  <2> QED
    BY <1>2, <2>2
<1>4. CASE phase[o] = "waiting" /\ StatusRead \notin Ended
  <2>1. verdict' = [verdict EXCEPT ![o] = "timeout"] /\ phase' = phase
    BY <1>4 DEF Wait, GpuType
  <2>2. GpuType' /\ WaitsForOwn' /\ CardIsOwn'
    BY <1>1, <2>1 DEF GpuType, WaitsForOwn, CardIsOwn, Ended, cardVars
  <2> QED
    BY <1>2, <2>2
<1>5. CASE phase[o] = "waiting" /\ StatusRead \in Ended
  <2>1. verdict' = [verdict EXCEPT ![o] = StatusRead] /\ phase' = [phase EXCEPT ![o] = "ready"]
    BY <1>5 DEF Wait
  <2>2. ~pending /\ status # "running" /\ running = None
    BY <1>5 DEF StatusRead, RunningShows, Ended
  <2>3. asked[o] \in ended
    BY <1>1, <1>5, <2>2 DEF CardIsOwn
  <2>4. GpuType'
    BY <1>1, <1>5, <2>1 DEF GpuType, Ended, Phases, cardVars
  <2>5. WaitsForOwn' /\ CardIsOwn'
    BY <1>1, <2>1, <2>3 DEF GpuType, WaitsForOwn, CardIsOwn, cardVars
  <2> QED
    BY <1>2, <2>4, <2>5
<1> QED
  BY <1>3, <1>4, <1>5 DEF Wait

LEMMA CardKeeps ==
  ASSUME OneLauncher, WaitInv, CardStarts \/ CardEnds
  PROVE  WaitInv'
<1> USE ObjectsOK DEF OneLauncher, WaitInv
<1>1. UNCHANGED <<phase, asked, verdict, regs>>
  BY DEF CardStarts, CardEnds
<1>2. GpuType'
  BY <1>1 DEF GpuType, CardStarts, CardEnds
<1>3. CASE CardStarts
  <2>1. pending /\ ~pending' /\ status' = "running" /\ running' = regs.kernel /\ ended' = ended
    BY <1>3 DEF CardStarts
  <2>2. CardIsOwn' /\ RunningShows' /\ WaitsForOwn'
    BY <1>1, <2>1 DEF CardIsOwn, RunningShows, WaitsForOwn
  <2> QED
    BY <1>2, <2>2
<1>4. CASE CardEnds
  <2>1. /\ running # None /\ running' = None /\ ended' = ended \cup {running} /\ pending' = pending
    BY <1>4 DEF CardEnds
  <2>2. CardIsOwn' /\ RunningShows' /\ WaitsForOwn'
    BY <1>1, <2>1 DEF CardIsOwn, RunningShows, WaitsForOwn
  <2> QED
    BY <1>2, <2>2
<1> QED
  BY <1>3, <1>4

\* What a step does to the objects and the card, whoever takes it: the script's own
\* program creates, shuts down and renews its object.
LEMMA GpuSteps ==
  ASSUME [GpuNext]_<<gpuVars, pgoVars>>
  PROVE  \/ UNCHANGED gpuVars \/ Rewrite
         \/ \E o \in Objects : Create(o) \/ ShutdownObject(o) \/ Wait(o) \/ \E q \in Requests : Launch(o, q)
         \/ \E o \in Objects : SetCompletion(o) \/ Trigger(o)
         \/ CardStarts \/ CardEnds
<1> USE PgoOK
<1>1. CASE Passes /\ UNCHANGED gpuVars
  BY <1>1
<1>2. CASE Start \/ Finish
  BY <1>2 DEF Start, Finish
<1>3. CASE Execute
  BY <1>3 DEF Execute, gpuVars
<1>4. CASE Client
  BY <1>4 DEF Client, DeviceNext
<1> QED
  BY <1>1, <1>2, <1>3, <1>4 DEF GpuNext

\* The invariant of the waits.
THEOREM CardServesOne == ASSUME OneLauncher PROVE GpuSpec => []WaitInv
<1>1. GpuInit => WaitInv
  <2> SUFFICES ASSUME DeviceInit PROVE WaitInv
    BY DEF GpuInit
  <2>1. \A o \in Launchers : phase[o] = "new" /\ verdict[o] = "none"
    BY ObjectsOK DEF DeviceInit
  <2>2. GpuType
    BY DEF DeviceInit, GpuType, Phases
  <2>3. CardIsOwn /\ RunningShows /\ WaitsForOwn
    BY <2>1 DEF DeviceInit, CardIsOwn, RunningShows, WaitsForOwn, Ended
  <2> QED
    BY <2>2, <2>3 DEF WaitInv
<1>2. WaitInv /\ [GpuNext]_<<gpuVars, pgoVars>> => WaitInv'
  <2> SUFFICES ASSUME WaitInv, [GpuNext]_<<gpuVars, pgoVars>> PROVE WaitInv'
    OBVIOUS
  <2>1. CASE UNCHANGED gpuVars
    BY <2>1 DEF gpuVars, WaitInv, GpuType, CardIsOwn, RunningShows, WaitsForOwn
  <2>2. CASE Rewrite
    <3>1. Program \in Objects /\ Program \notin Launchers
      BY PgoOK
    <3> QED
      BY <2>2, <3>1, CardUntouched DEF Rewrite
  <2>3. ASSUME NEW o \in Objects, Create(o) PROVE WaitInv'
    <3>1. UNCHANGED <<asked, verdict, cardVars>>
      BY <2>3 DEF Create
    <3>2. \E p \in {"ready", "gone"} : phase' = [phase EXCEPT ![o] = p]
      BY <2>3 DEF Create, InitializeObject, InitializeFails
    <3> QED
      BY <3>1, <3>2, CardUntouched
  <2>4. ASSUME NEW o \in Objects, ShutdownObject(o) PROVE WaitInv'
    <3>1. UNCHANGED <<asked, verdict, cardVars>>
      BY <2>4 DEF ShutdownObject
    <3>2. \E p \in {"closed", "deleted"} : phase' = [phase EXCEPT ![o] = p]
      BY <2>4 DEF ShutdownObject, WaitInv, GpuType
    <3> QED
      BY <3>1, <3>2, CardUntouched
  <2>5. ASSUME NEW o \in Objects, Wait(o) PROVE WaitInv'
    BY <2>5, WaitKeeps
  <2>6. ASSUME NEW o \in Objects, NEW q \in Requests, Launch(o, q) PROVE WaitInv'
    BY <2>6, LaunchKeeps
  <2>7. ASSUME NEW o \in Objects, SetCompletion(o) \/ Trigger(o) PROVE WaitInv'
    BY <2>7, RegistersKeep
  <2>8. CASE CardStarts \/ CardEnds
    BY <2>8, CardKeeps
  <2> QED
    BY <2>1, <2>2, <2>3, <2>4, <2>5, <2>6, <2>7, <2>8, GpuSteps
<1> QED
  BY <1>1, <1>2, PTL DEF GpuSpec

\* A wait that reads its answer from the card has it of the kernel launched last: not of
\* one given up that ends after the next launch, nor of one whose status is still in the
\* register (wait_kernel_completion).
THEOREM WaitsAnswerForOwn == ASSUME OneLauncher PROVE GpuSpec => []WaitsForOwn
<1>1. WaitInv => WaitsForOwn
  BY DEF WaitInv
<1> QED
  BY <1>1, CardServesOne, PTL

-----------------------------------------------------------------------------
(* What the process holds for an object *)

Mapped == [bar0 : {"null", "failed", "mapped"}, bar0Fd : BOOLEAN,
           shared : {"null", "dax", "bar2", "heap"}, sharedFd : BOOLEAN, size : Nat]

\* What is held for an object is what its fields tell shutdown to give back; before the
\* object is initialized, and after it is shut down, that is nothing.
HeldIsReleased ==
  /\ obj \in [Objects -> Mapped] /\ DOMAIN held = Objects
  /\ DOMAIN phase = Objects
  /\ \A o \in Objects :
       IF phase[o] \in {"ready", "launching", "set", "waiting"} THEN held[o] \subseteq Released(obj[o]) ELSE held[o] = {}

LEMMA ObjectsUntouched ==
  ASSUME HeldIsReleased, UNCHANGED <<obj, held, phase>>
  PROVE  HeldIsReleased'
BY DEF HeldIsReleased

LEMMA CreateHolds ==
  ASSUME HeldIsReleased, NEW o \in Objects, Create(o)
  PROVE  HeldIsReleased'
<1>1. phase[o] = "new" /\ held[o] = {}
  BY DEF Create, HeldIsReleased
<1>2. CASE InitializeObject(o)
  <2>1. PICK s \in SharedOutcomes :
          /\ obj' = [obj EXCEPT ![o] = [bar0 |-> "mapped", bar0Fd |-> TRUE, shared |-> s.is,
                                        sharedFd |-> s.fd, size |-> s.size]]
          /\ held' = [held EXCEPT ![o] = {"bar0Fd", "bar0Map"} \cup s.holds]
          /\ phase' = [phase EXCEPT ![o] = "ready"]
    BY <1>2 DEF InitializeObject
  <2>2. s.is \in {"null", "dax", "bar2", "heap"} /\ s.fd \in BOOLEAN /\ s.size \in Nat
    <3>1. SharedDefault \in Nat /\ Bar2Size \in Nat
      BY DEF SharedDefault, Bar2Size
    <3>2. s.is \in {"null", "dax", "bar2", "heap"}
      BY <2>1 DEF SharedOutcomes
    <3>3. s.size \in Nat
      BY <2>1, <3>1 DEF SharedOutcomes
    <3>4. s.fd \in BOOLEAN
      <4>1. \/ s = [is |-> "dax", fd |-> TRUE, size |-> SharedDefault, holds |-> {"sharedFd", "sharedMap"}]
            \/ s = [is |-> "bar2", fd |-> TRUE, size |-> Bar2Size, holds |-> {"sharedFd", "sharedMap"}]
            \/ s = [is |-> "heap", fd |-> FALSE, size |-> SharedDefault, holds |-> {"heap"}]
            \/ s = [is |-> "null", fd |-> FALSE, size |-> SharedDefault, holds |-> {}]
        BY <2>1 DEF SharedOutcomes
      <4>2. s.fd = TRUE \/ s.fd = FALSE
        BY <4>1
      <4> QED
        BY <4>2
    <3> QED
      BY <3>2, <3>3, <3>4
  <2>3. obj' \in [Objects -> Mapped]
    BY <2>1, <2>2 DEF HeldIsReleased, Mapped
  <2>4. held'[o] \subseteq Released(obj'[o])
    <3>1. s.holds \subseteq (IF s.is # "null" THEN {IF s.fd THEN "sharedMap" ELSE "heap"} ELSE {})
                              \cup (IF s.fd THEN {"sharedFd"} ELSE {})
      BY <2>1 DEF SharedOutcomes
    <3>2. /\ held'[o] = {"bar0Fd", "bar0Map"} \cup s.holds
          /\ obj'[o].bar0 = "mapped" /\ obj'[o].bar0Fd /\ obj'[o].shared = s.is /\ obj'[o].sharedFd = s.fd
      BY <2>1 DEF HeldIsReleased
    <3> QED
      BY <3>1, <3>2 DEF Released
  <2> QED
    BY <2>1, <2>3, <2>4 DEF HeldIsReleased
<1>3. CASE InitializeFails(o)
  <2>1. PICK b \in {"null", "failed"} : obj' = [obj EXCEPT ![o].bar0 = b]
    BY <1>3 DEF InitializeFails
  <2>2. obj' \in [Objects -> Mapped]
    BY <2>1 DEF HeldIsReleased, Mapped
  <2>3. held' = held /\ phase' = [phase EXCEPT ![o] = "gone"] /\ \A p \in Objects : p # o => obj'[p] = obj[p]
    BY <1>3, <2>1 DEF InitializeFails, HeldIsReleased
  <2> QED
    BY <1>1, <2>2, <2>3 DEF HeldIsReleased
<1> QED
  BY <1>2, <1>3 DEF Create

LEMMA ShutdownReleases ==
  ASSUME HeldIsReleased, NEW o \in Objects, ShutdownObject(o)
  PROVE  HeldIsReleased'
<1>1. /\ held' = [held EXCEPT ![o] = @ \ Released(obj[o])]
      /\ obj' = [obj EXCEPT ![o] = [Closed EXCEPT !.size = obj[o].size]]
      /\ phase' = [phase EXCEPT ![o] = IF @ \in {"gone", "closed"} THEN "deleted" ELSE "closed"]
      /\ phase[o] \in {"ready", "waiting", "gone", "closed"}
  BY DEF ShutdownObject
<1>2. obj' \in [Objects -> Mapped]
  BY <1>1 DEF HeldIsReleased, Mapped, Closed
<1>3. held'[o] = {} /\ phase'[o] \in {"closed", "deleted"}
  BY <1>1 DEF HeldIsReleased
<1> QED
  BY <1>1, <1>2, <1>3 DEF HeldIsReleased

\* An object that is deleted leaves nothing behind: each descriptor, mapping or block of
\* the heap that initialize took in its many ways is given back as what it is, by
\* shutdown or by the destructor, whatever else happens on the card.
THEOREM ObjectsLeaveNothing == GpuSpec => []NothingLeaked
<1>1. GpuInit => HeldIsReleased
  BY DEF GpuInit, DeviceInit, HeldIsReleased, Mapped, Closed, SharedDefault
<1>2. HeldIsReleased /\ [GpuNext]_<<gpuVars, pgoVars>> => HeldIsReleased'
  <2> SUFFICES ASSUME HeldIsReleased, [GpuNext]_<<gpuVars, pgoVars>> PROVE HeldIsReleased'
    OBVIOUS
  <2>1. CASE UNCHANGED gpuVars
    BY <2>1, ObjectsUntouched DEF gpuVars
  <2>2. CASE Rewrite
    <3>1. /\ obj' = [obj EXCEPT ![Program] = Closed] /\ held' = [held EXCEPT ![Program] = {}]
          /\ phase' = [phase EXCEPT ![Program] = "new"]
      BY <2>2 DEF Rewrite
    <3>2. Closed \in Mapped
      BY DEF Closed, Mapped, SharedDefault
    <3> QED
      BY <3>1, <3>2, PgoOK DEF HeldIsReleased
  <2>3. ASSUME NEW o \in Objects, Create(o) PROVE HeldIsReleased'
    BY <2>3, CreateHolds
  <2>4. ASSUME NEW o \in Objects, ShutdownObject(o) PROVE HeldIsReleased'
    BY <2>4, ShutdownReleases
  <2>5. ASSUME NEW o \in Objects, Wait(o) PROVE HeldIsReleased'
    <3>1. UNCHANGED <<obj, held>>
      BY <2>5 DEF Wait
    <3>2. \E p \in Phases :
            /\ phase' = [phase EXCEPT ![o] = p]
            /\ p = phase[o] \/ (phase[o] = "waiting" /\ p = "ready")
      <4>1. phase[o] \in Phases
        BY <2>5 DEF Wait, Phases
      <4>2. CASE phase[o] = "waiting" /\ StatusRead \in Ended
        BY <2>5, <4>2 DEF Wait, Phases
      <4>3. CASE ~(phase[o] = "waiting" /\ StatusRead \in Ended)
        BY <2>5, <4>1, <4>3 DEF Wait
      <4> QED
        BY <4>2, <4>3
    <3> QED
      BY <3>1, <3>2 DEF HeldIsReleased
  <2>6. ASSUME NEW o \in Objects, NEW q \in Requests, Launch(o, q) PROVE HeldIsReleased'
    <3>1. UNCHANGED <<obj, held>>
      BY <2>6 DEF Launch
    <3>2. \/ phase' = phase
          \/ phase[o] \in {"ready", "waiting"} /\ phase' = [phase EXCEPT ![o] = "launching"]
      BY <2>6 DEF Launch
    <3> QED
      BY <3>1, <3>2 DEF HeldIsReleased
  <2>7. ASSUME NEW o \in Objects, SetCompletion(o) \/ Trigger(o) PROVE HeldIsReleased'
    BY <2>7 DEF SetCompletion, Trigger, HeldIsReleased
  <2>8. CASE CardStarts \/ CardEnds
    BY <2>8, ObjectsUntouched DEF CardStarts, CardEnds
  <2> QED
    BY <2>1, <2>2, <2>3, <2>4, <2>5, <2>6, <2>7, <2>8, GpuSteps
<1>3. HeldIsReleased => NothingLeaked
  BY DEF HeldIsReleased, NothingLeaked
<1> QED
  BY <1>1, <1>2, <1>3, PTL DEF GpuSpec

-----------------------------------------------------------------------------
(* The cache controller *)


USE ConstantsOK
USE DEF Lines, Words, State

\* The accesses of cira.type2 operations on lines.
Aligned == Offsets \subseteq {0} /\ LoadSizes \subseteq {2} /\ ~Revive

\* Dirty data are in entries the map holds, so that no lookup misses them.
DirtyPresent == \A a \in Lines : dirty[a] => a \in present

CacheInv == TypeOK /\ DirtyIsModified /\ DirtyPresent /\ LoadsNewest /\ NothingLost

-----------------------------------------------------------------------------
(* Addresses *)

LEMMA WordsOfLine ==
  ASSUME NEW a \in Lines, NEW o \in 0 .. 1
  PROVE  2 * a + o \in Words /\ alignToLine(2 * a + o) = a /\ (2 * a + o) % 2 = o
BY DEF alignToLine

\* An address in the middle of no line is the first word of its line.
LEMMA AlignedAddress ==
  ASSUME Aligned, NEW w \in Addresses
  PROVE  alignToLine(w) \in Lines /\ w = 2 * alignToLine(w) /\ w \in Words /\ w + 1 \in Words
BY DEF Aligned, Addresses, alignToLine

-----------------------------------------------------------------------------
(* Type correctness, and where dirty data are held *)

LEMMA QueueType ==
  ASSUME NEW q \in Nat PROVE Enqueue(q) \in Nat /\ Process(q) \subseteq Nat
BY DEF Enqueue, Process

LEMMA WriteBackType ==
  ASSUME TypeOK, NEW a \in Lines, NEW w \in Words, WriteBack(a, w)
  PROVE  mem' \in [Words -> Val]
<1>1. \A x \in Words : x \in {w, w + 1} => x - w \in 0 .. 1
  OBVIOUS
<1> QED
  BY <1>1 DEF TypeOK, WriteBack

\* Wherever callers point, every access leaves entries and buffer well formed.
LEMMA TypeStep == ASSUME TypeOK, [Next]_vars PROVE TypeOK'
<1> USE DEF TypeOK, cacheVars, deviceVars
<1>1. ASSUME NEW w \in Addresses, CacheCall(w) PROVE TypeOK'
  <2> DEFINE a == alignToLine(w)
  <2>1. w \in Words /\ w + 1 \in Words /\ w + 2 \in Nat /\ a \in Lines
    BY DEF Addresses, alignToLine
  <2>2. CASE LoadHit(w)
    BY <2>2, QueueType DEF LoadHit
  <2>3. ASSUME NEW n \in LoadSizes, LoadMiss(w, n) PROVE TypeOK'
    <3>1. [i \in 0 .. 1 |-> IF i < n THEN mem[w + i] ELSE data[a][i]] \in [0 .. 1 -> Val]
      BY <2>1
    <3>2. data' \in [Lines -> [0 .. 1 -> Val]]
      BY <2>1, <2>3, <3>1 DEF LoadMiss
    <3>3. queue' \in Nat
      BY <2>3, QueueType DEF LoadMiss
    <3> QED
      BY <2>1, <2>3, <3>2, <3>3 DEF LoadMiss
  <2>4. ASSUME NEW n \in StoreSizes, NEW v \in Val, Store(w, n, v) PROVE TypeOK'
    <3> DEFINE fetched(i) == IF Hit(a) THEN data[a][i] ELSE mem[w + i]
    <3>1. [i \in 0 .. 1 |-> IF i < n THEN v ELSE fetched(i)] \in [0 .. 1 -> Val]
      BY <2>1
    <3>2. data' \in [Lines -> [0 .. 1 -> Val]]
      BY <2>1, <2>4, <3>1 DEF Store
    <3>3. queue' \in Nat
      BY <2>4, QueueType DEF Store
    <3>4. newest' \in [Words -> Val]
      BY <2>4 DEF Store
    <3> QED
      BY <2>1, <2>4, <3>2, <3>3, <3>4 DEF Store
  <2>5. ASSUME NEW writeback \in BOOLEAN, Evict(w, writeback) PROVE TypeOK'
    <3>1. mem' \in [Words -> Val]
      BY <2>1, <2>5, WriteBackType DEF Evict
    <3>2. newest' \in [Words -> Val]
      BY <2>5 DEF Evict, Discard
    <3> QED
      BY <2>1, <2>5, <3>1, <3>2 DEF Evict
  <2>6. ASSUME NEW s \in {"INVALID", "SHARED"}, Snoop(w, s) PROVE TypeOK'
    <3>1. mem' \in [Words -> Val]
      BY <2>1, <2>6, WriteBackType DEF Snoop
    <3>2. dirty' \in [Lines -> BOOLEAN]
      BY <2>1, <2>6, Zenon DEF Snoop
    <3> QED
      BY <2>1, <2>6, <3>1, <3>2 DEF Snoop
  <2>7. ASSUME NEW n \in 1 .. 2, InvalidateRange(w, n) PROVE TypeOK'
    <3>1. mem' \in [Words -> Val]
      <4>1. \A x \in Words : x % 2 \in 0 .. 1
        OBVIOUS
      <4>2. \A x \in Words : alignToLine(x) \in Lines => data[alignToLine(x)][x % 2] \in Val
        BY <4>1
      <4>3. LineRange(w, n) \subseteq Lines
        BY DEF LineRange
      <4> QED
        BY <2>7, <4>2, <4>3 DEF InvalidateRange
    <3>2. state' \in [Lines -> State] /\ dirty' \in [Lines -> BOOLEAN]
      BY <2>7 DEF InvalidateRange
    <3> QED
      BY <2>7, <3>1, <3>2 DEF InvalidateRange
  <2> QED
    BY <1>1, <2>2, <2>3, <2>4, <2>5, <2>6, <2>7 DEF CacheCall
<1>2. ASSUME NEW w \in Words, NEW v \in Val, HostWrite(w, v) PROVE TypeOK'
  BY <1>2 DEF HostWrite
<1>3. CASE Configure \/ SetDelay
  BY <1>3 DEF Configure, SetDelay, Initialize
<1>4. CASE Shutdown
  BY <1>4 DEF Shutdown, Discard, Empty
<1>5. CASE DrainDelayBuffer
  BY <1>5 DEF DrainDelayBuffer
<1>6. ASSUME NEW v \in Val, MemStore(v) PROVE TypeOK'
  BY <1>6 DEF MemStore
<1>7. ASSUME NEW d \in Depths, SetDelayBufferDepth(d) PROVE TypeOK'
  BY <1>7 DEF SetDelayBufferDepth
<1>8. CASE UNCHANGED vars
  BY <1>8 DEF vars
<1> QED
  BY <1>1, <1>2, <1>3, <1>4, <1>5, <1>6, <1>7, <1>8 DEF Next

\* A line is dirty exactly when it is MODIFIED, and then in the map, wherever
\* callers point: the tests of handleSnoop and invalidateRange miss nothing.
LEMMA DirtyStep ==
  ASSUME TypeOK, DirtyIsModified, DirtyPresent, [Next]_vars
  PROVE  DirtyIsModified' /\ DirtyPresent'
<1> USE DEF TypeOK, DirtyIsModified, DirtyPresent, cacheVars, deviceVars
<1>1. ASSUME NEW w \in Addresses, CacheCall(w) PROVE DirtyIsModified' /\ DirtyPresent'
  <2>1. alignToLine(w) \in Lines
    BY DEF Addresses, alignToLine
  <2>2. CASE LoadHit(w)
    BY <2>2 DEF LoadHit
  <2>3. ASSUME NEW n \in LoadSizes, LoadMiss(w, n) PROVE DirtyIsModified' /\ DirtyPresent'
    BY <2>1, <2>3 DEF LoadMiss
  <2>4. ASSUME NEW n \in StoreSizes, NEW v \in Val, Store(w, n, v)
        PROVE  DirtyIsModified' /\ DirtyPresent'
    BY <2>1, <2>4 DEF Store
  <2>5. ASSUME NEW writeback \in BOOLEAN, Evict(w, writeback)
        PROVE  DirtyIsModified' /\ DirtyPresent'
    BY <2>1, <2>5 DEF Evict
  <2>6. ASSUME NEW s \in {"INVALID", "SHARED"}, Snoop(w, s)
        PROVE  DirtyIsModified' /\ DirtyPresent'
    <3>1. dirty' = [dirty EXCEPT ![alignToLine(w)] = FALSE]
      BY <2>1, <2>6 DEF Snoop
    <3> QED
      BY <2>1, <2>6, <3>1 DEF Snoop
  <2>7. ASSUME NEW n \in 1 .. 2, InvalidateRange(w, n)
        PROVE  DirtyIsModified' /\ DirtyPresent'
    BY <2>7 DEF InvalidateRange
  <2> QED
    BY <1>1, <2>2, <2>3, <2>4, <2>5, <2>6, <2>7 DEF CacheCall
<1>2. ASSUME NEW w \in Words, NEW v \in Val, HostWrite(w, v)
      PROVE  DirtyIsModified' /\ DirtyPresent'
  BY <1>2 DEF HostWrite
<1>3. CASE Configure \/ SetDelay
  BY <1>3 DEF Configure, SetDelay, Initialize
<1>4. CASE Shutdown
  BY <1>4 DEF Shutdown
<1>5. CASE DrainDelayBuffer
  BY <1>5 DEF DrainDelayBuffer
<1>6. ASSUME NEW v \in Val, MemStore(v) PROVE DirtyIsModified' /\ DirtyPresent'
  BY <1>6 DEF MemStore
<1>7. ASSUME NEW d \in Depths, SetDelayBufferDepth(d)
      PROVE  DirtyIsModified' /\ DirtyPresent'
  BY <1>7 DEF SetDelayBufferDepth
<1>8. CASE UNCHANGED vars
  BY <1>8 DEF vars
<1> QED
  BY <1>1, <1>2, <1>3, <1>4, <1>5, <1>6, <1>7, <1>8 DEF Next

-----------------------------------------------------------------------------
(* Coherence *)

\* One word of one line, which the steps below look at.
Newest(b, o) ==
  /\ Hit(b) => data[b][o] = newest[2 * b + o]
  /\ ~dirty[b] => mem[2 * b + o] = newest[2 * b + o]

LEMMA NewestEverywhere ==
  (\A b \in Lines, o \in 0 .. 1 : Newest(b, o)) <=> LoadsNewest /\ NothingLost
BY DEF Newest, LoadsNewest, NothingLost

\* The words an aligned access can reach are those of its line.
LEMMA SameLine ==
  ASSUME Aligned, NEW w \in Addresses, NEW b \in Lines, NEW o \in 0 .. 1
  PROVE  /\ 2 * b + o \in {w, w + 1} <=> b = alignToLine(w)
         /\ b = alignToLine(w) => 2 * b + o = w + o
BY AlignedAddress DEF alignToLine

\* An aligned write back puts every word of the line in its place, and no other.
LEMMA WriteBackAligned ==
  ASSUME Aligned, NEW w \in Addresses, WriteBack(alignToLine(w), w),
         NEW b \in Lines, NEW o \in 0 .. 1
  PROVE  mem'[2 * b + o] = IF b = alignToLine(w) THEN data[b][o] ELSE mem[2 * b + o]
<1>1. PICK x \in Words : x = 2 * b + o
  OBVIOUS
<1>2. mem'[x] = IF x \in {w, w + 1} THEN data[alignToLine(w)][x - w] ELSE mem[x]
  BY DEF WriteBack
<1>3. x \in {w, w + 1} <=> b = alignToLine(w)
  BY <1>1, SameLine
<1>4. b = alignToLine(w) => x - w = o
  <2>1. w \in Nat
    BY AlignedAddress
  <2>2. b = alignToLine(w) => x = w + o
    BY <1>1, SameLine
  <2> QED
    BY <2>1, <2>2
<1> HIDE DEF Words
<1>5. mem'[x] = IF b = alignToLine(w) THEN data[b][o] ELSE mem[x]
  BY <1>2, <1>3, <1>4
<1> QED
  BY <1>1, <1>5

LEMMA CallCoherent ==
  ASSUME Aligned, CacheInv, NEW w \in Addresses, CacheCall(w),
         NEW b \in Lines, NEW o \in 0 .. 1
  PROVE  Newest(b, o)'
<1> DEFINE a == alignToLine(w)
<1> USE DEF TypeOK, cacheVars, deviceVars
<1>1. a \in Lines /\ w = 2 * a /\ w \in Words /\ w + 1 \in Words
  BY AlignedAddress
<1>2. 2 * b + o \in Words /\ alignToLine(2 * b + o) = b /\ (2 * b + o) % 2 = o
  BY WordsOfLine
<1>3. Newest(b, o) /\ Newest(a, o)
  BY <1>1, NewestEverywhere DEF CacheInv
<1>4. /\ dirty[b] => state[b] = "MODIFIED" /\ b \in present
      /\ ~dirty[b] => state[b] # "MODIFIED"
  BY DEF CacheInv, DirtyIsModified, DirtyPresent
<1>5. CASE LoadHit(w)
  BY <1>3, <1>5 DEF LoadHit, Newest, Hit
<1>6. ASSUME NEW n \in LoadSizes, LoadMiss(w, n) PROVE Newest(b, o)'
  <2>1. n = 2
    BY DEF Aligned
  <2>2. CASE b = a
    <3>1. data'[b][o] = mem[w + o]
      BY <1>1, <1>6, <2>1, <2>2 DEF LoadMiss, CacheInv
    <3>2. mem[w + o] = newest[2 * b + o]
      BY <1>1, <1>3, <1>4, <1>6, <2>2 DEF LoadMiss, Newest, Hit
    <3>3. mem' = mem /\ newest' = newest
      BY <1>6 DEF LoadMiss
    <3> QED
      BY <1>1, <2>2, <3>1, <3>2, <3>3 DEF Newest
  <2>3. CASE b # a
    BY <1>1, <1>3, <1>6, <2>3 DEF LoadMiss, Newest, Hit, CacheInv
  <2> QED
    BY <2>2, <2>3
<1>7. ASSUME NEW n \in StoreSizes, NEW v \in Val, Store(w, n, v) PROVE Newest(b, o)'
  <2>1. newest'[2 * b + o] = IF 2 * b + o \in w .. w + n - 1 THEN v ELSE newest[2 * b + o]
    BY <1>2, <1>7 DEF Store
  <2>2. CASE b = a
    <3>1. data'[b][o] = IF o < n THEN v ELSE IF Hit(a) THEN data[a][o] ELSE mem[w + o]
      BY <1>1, <1>7, <2>2 DEF Store, CacheInv
    <3>2. 2 * b + o \in w .. w + n - 1 <=> o < n
      BY <1>1, <2>2
    <3>3. dirty'[b]
      BY <1>1, <1>7, <2>2 DEF Store, CacheInv
    <3>4. ~Hit(a) => ~dirty[a]
      BY <1>4, <2>2 DEF Hit
    <3> QED
      BY <1>1, <1>3, <2>1, <2>2, <3>1, <3>2, <3>3, <3>4 DEF Newest
  <2>3. CASE b # a
    <3>1. newest'[2 * b + o] = newest[2 * b + o]
      BY <1>1, <2>1, <2>3
    <3> QED
      BY <1>1, <1>3, <1>7, <2>3, <3>1 DEF Store, Newest, Hit, CacheInv
  <2> QED
    BY <2>2, <2>3
<1>8. ASSUME NEW writeback \in BOOLEAN, Evict(w, writeback) PROVE Newest(b, o)'
  <2>1. ~Hit(a)' /\ ~dirty'[a]
    BY <1>1, <1>8 DEF Evict, Hit, CacheInv
  <2>2. CASE b = a
    <3>1. CASE writeback /\ dirty[a] /\ WriteBack(a, w) /\ UNCHANGED newest
      <4>1. mem'[2 * b + o] = data[b][o] /\ Hit(b)
        BY <1>4, <2>2, <3>1, WriteBackAligned DEF Hit
      <4> QED
        BY <1>3, <2>1, <2>2, <3>1, <4>1 DEF Newest
    <3>2. CASE ~writeback /\ dirty[a] /\ Discard({a}) /\ UNCHANGED mem
      BY <1>2, <2>1, <2>2, <3>2 DEF Discard, Newest
    <3>3. CASE ~dirty[a] /\ UNCHANGED <<mem, newest>>
      BY <1>3, <2>1, <2>2, <3>3 DEF Newest
    <3> QED
      BY <1>8, <3>1, <3>2, <3>3 DEF Evict
  <2>3. CASE b # a
    <3>1. mem'[2 * b + o] = mem[2 * b + o]
      BY <1>8, <2>3, WriteBackAligned DEF Evict
    <3>2. newest'[2 * b + o] = newest[2 * b + o]
      BY <1>2, <1>8, <2>3 DEF Evict, Discard
    <3>3. state'[b] = state[b] /\ dirty'[b] = dirty[b]
      BY <1>1, <1>8, <2>3 DEF Evict, CacheInv
    <3>4. data' = data /\ present' = present
      BY <1>8 DEF Evict
    <3> QED
      BY <1>3, <3>1, <3>2, <3>3, <3>4 DEF Newest, Hit
  <2> QED
    BY <2>2, <2>3
<1>9. ASSUME NEW s \in {"INVALID", "SHARED"}, Snoop(w, s) PROVE Newest(b, o)'
  <2>1. newest' = newest /\ data' = data /\ present' = present /\ a \in present
    BY <1>9 DEF Snoop
  <2>2. CASE b = a
    <3>1. Hit(a)' => Hit(a)
      BY <1>1, <1>9, <2>1 DEF Snoop, Hit, Aligned, CacheInv
    <3>2. mem'[2 * b + o] = newest[2 * b + o]
      <4>1. CASE dirty[a]
        <5>1. WriteBack(a, w) /\ Hit(a)
          BY <1>4, <1>9, <2>2, <4>1 DEF Snoop, Hit
        <5>2. mem'[2 * b + o] = data[b][o]
          BY <2>2, <5>1, WriteBackAligned
        <5> QED
          BY <1>3, <2>2, <5>1, <5>2 DEF Newest
      <4>2. CASE ~dirty[a]
        BY <1>3, <1>9, <2>2, <4>2 DEF Snoop, Newest
      <4> QED
        BY <4>1, <4>2
    <3> QED
      BY <1>3, <2>1, <2>2, <3>1, <3>2 DEF Newest
  <2>3. CASE b # a
    <3>1. mem'[2 * b + o] = mem[2 * b + o]
      <4>1. CASE WriteBack(a, w)
        BY <2>3, <4>1, WriteBackAligned
      <4>2. CASE UNCHANGED mem
        BY <4>2
      <4> QED
        BY <1>9, <4>1, <4>2 DEF Snoop
    <3>2. state'[b] = state[b]
      BY <1>1, <1>9, <2>3 DEF Snoop, CacheInv
    <3>3. dirty'[b] = dirty[b]
      BY <1>1, <1>9, <2>3 DEF Snoop, CacheInv
    <3> QED
      BY <1>3, <2>1, <3>1, <3>2, <3>3 DEF Newest, Hit
  <2> QED
    BY <2>2, <2>3
<1>10. ASSUME NEW n \in 1 .. 2, InvalidateRange(w, n) PROVE Newest(b, o)'
  <2>1. newest' = newest /\ data' = data /\ present' = present
    BY <1>10 DEF InvalidateRange
  <2>2. mem'[2 * b + o] = IF b \in LineRange(w, n) /\ dirty[b] /\ state[b] = "MODIFIED"
                            THEN data[b][o] ELSE mem[2 * b + o]
    BY <1>2, <1>10 DEF InvalidateRange
  <2>3. /\ state'[b] = IF b \in LineRange(w, n) THEN "INVALID" ELSE state[b]
        /\ dirty'[b] = (dirty[b] /\ b \notin LineRange(w, n))
    BY <1>10 DEF InvalidateRange
  <2> QED
    BY <1>3, <1>4, <2>1, <2>2, <2>3 DEF Newest, Hit
<1> QED
  BY <1>5, <1>6, <1>7, <1>8, <1>9, <1>10 DEF CacheCall

LEMMA CoherentStep ==
  ASSUME Aligned, CacheInv, [Next]_vars PROVE LoadsNewest' /\ NothingLost'
<1> SUFFICES ASSUME NEW b \in Lines, NEW o \in 0 .. 1 PROVE Newest(b, o)'
  BY DEF Newest, LoadsNewest, NothingLost, Hit
<1> USE DEF cacheVars, deviceVars
<1>1. 2 * b + o \in Words /\ alignToLine(2 * b + o) = b
  BY WordsOfLine
<1>2. Newest(b, o)
  BY NewestEverywhere DEF CacheInv
<1>3. CASE \E w \in Addresses : CacheCall(w)
  BY <1>3, CallCoherent
<1>4. ASSUME NEW w \in Words, NEW v \in Val, HostWrite(w, v) PROVE Newest(b, o)'
  <2>1. w = 2 * b + o => ~Hit(b)
    BY <1>1, <1>4 DEF HostWrite
  <2> QED
    BY <1>1, <1>2, <1>4, <2>1 DEF HostWrite, Newest, Hit, CacheInv, TypeOK
<1>5. CASE Configure \/ SetDelay
  BY <1>2, <1>5 DEF Configure, SetDelay, Initialize, Newest, Hit
<1>6. CASE Shutdown
  <2>1. newest'[2 * b + o] = IF dirty[b] THEN mem[2 * b + o] ELSE newest[2 * b + o]
    BY <1>1, <1>6 DEF Shutdown, Discard
  <2> QED
    BY <1>2, <1>6, <2>1 DEF Shutdown, Newest, Hit
<1>7. CASE DrainDelayBuffer
  BY <1>2, <1>7 DEF DrainDelayBuffer, Newest, Hit
<1>8. ASSUME NEW v \in Val, MemStore(v) PROVE Newest(b, o)'
  BY <1>2, <1>8 DEF MemStore, Newest, Hit
<1>9. ASSUME NEW d \in Depths, SetDelayBufferDepth(d) PROVE Newest(b, o)'
  BY <1>2, <1>9 DEF SetDelayBufferDepth, Newest, Hit
<1>10. CASE UNCHANGED vars
  BY <1>2, <1>10 DEF vars, Newest, Hit
<1> QED
  BY <1>3, <1>4, <1>5, <1>6, <1>7, <1>8, <1>9, <1>10 DEF Next

-----------------------------------------------------------------------------
(* Device memory *)

\* Once initialized the device has its BARs, and without them nothing was stored.
DeviceInv ==
  /\ bars = ready /\ dev = devNewest
  /\ ~ready => devNewest = 0

LEMMA DeviceStep == ASSUME ~DelaysFirst, DeviceInv, [Next]_vars PROVE DeviceInv'
<1> USE DEF DeviceInv, cacheVars, deviceVars
<1>1. ASSUME NEW w \in Addresses, CacheCall(w) PROVE DeviceInv'
  BY <1>1 DEF CacheCall, LoadHit, LoadMiss, Store, Evict, Snoop, InvalidateRange
<1>2. ASSUME NEW w \in Words, NEW v \in Val, HostWrite(w, v) PROVE DeviceInv'
  BY <1>2 DEF HostWrite
<1>3. CASE Configure
  BY <1>3 DEF Configure, Initialize
<1>4. CASE SetDelay
  BY <1>4 DEF SetDelay, Initialize
<1>5. CASE Shutdown
  BY <1>5 DEF Shutdown
<1>6. CASE DrainDelayBuffer
  BY <1>6 DEF DrainDelayBuffer
<1>7. ASSUME NEW v \in Val, MemStore(v) PROVE DeviceInv'
  BY <1>7 DEF MemStore
<1>8. ASSUME NEW d \in Depths, SetDelayBufferDepth(d) PROVE DeviceInv'
  BY <1>8 DEF SetDelayBufferDepth
<1>9. CASE UNCHANGED vars
  BY <1>9 DEF vars
<1> QED
  BY <1>1, <1>2, <1>3, <1>4, <1>5, <1>6, <1>7, <1>8, <1>9 DEF Next

-----------------------------------------------------------------------------
(* Theorems *)

LEMMA InitHeld == Init => TypeOK /\ DirtyIsModified /\ DirtyPresent
<1> SUFFICES ASSUME Init PROVE TypeOK /\ DirtyIsModified /\ DirtyPresent
  OBVIOUS
<1> USE DEF Init
<1>1. mem \in [Words -> Val] /\ newest \in [Words -> Val]
  OBVIOUS
<1>2. data \in [Lines -> [0 .. 1 -> Val]]
  BY DEF Empty
<1>3. state \in [Lines -> State] /\ dirty \in [Lines -> BOOLEAN]
  OBVIOUS
<1> QED
  BY <1>1, <1>2, <1>3 DEF TypeOK, DirtyIsModified, DirtyPresent

\* Type2CacheControllerImpl, wherever callers point: entries stay well formed,
\* and dirty data are where handleSnoop and invalidateRange look for them.
THEOREM DirtyHeld == Spec => [](TypeOK /\ DirtyIsModified)
<1> DEFINE Held == TypeOK /\ DirtyIsModified /\ DirtyPresent
<1>1. Init => Held
  BY InitHeld
<1>2. Held /\ [Next]_vars => Held'
  BY TypeStep, DirtyStep
<1> QED
  BY <1>1, <1>2, PTL DEF Spec

LEMMA Coherent == ASSUME Aligned PROVE Spec => []CacheInv
<1>1. Init => CacheInv
  <2>1. Init => LoadsNewest
    BY DEF Init, LoadsNewest, Hit
  <2>2. Init => NothingLost
    BY DEF Init, NothingLost
  <2> QED
    BY <2>1, <2>2, InitHeld DEF CacheInv
<1>2. CacheInv /\ [Next]_vars => CacheInv'
  BY TypeStep, DirtyStep, CoherentStep DEF CacheInv
<1> QED
  BY <1>1, <1>2, PTL DEF Spec

\* "The device coherently caches the host memory line" (CiraOps.td), under any order
\* of whole-line loads and stores, evictions, invalidations, host writes, restarts and snoops
\* of lines the cache holds. Aligned excludes a snoop of an evicted line, after which
\* handleSnoop has it valid with the old data.
THEOREM CacheCoherent == ASSUME Aligned PROVE Spec => []LoadsNewest
<1>1. CacheInv => LoadsNewest
  BY DEF CacheInv
<1> QED
  BY <1>1, Coherent, PTL

\* No store is lost: what host memory lacks is in an entry that will be written back (under
\* Aligned, as above).
THEOREM StoresKept == ASSUME Aligned PROVE Spec => []NothingLost
<1>1. CacheInv => NothingLost
  BY DEF CacheInv
<1> QED
  BY <1>1, Coherent, PTL

\* memLoad returns what memStore stored last, when configuration comes first.
THEOREM DeviceMemoryKept == ASSUME ~DelaysFirst PROVE Spec => []MemReadsStored
<1>1. Init => DeviceInv
  BY DEF Init, DeviceInv
<1>2. DeviceInv /\ [Next]_vars => DeviceInv'
  BY DeviceStep
<1>3. DeviceInv => MemReadsStored
  BY DEF DeviceInv, MemReadsStored, MemLoad
<1> QED
  BY <1>1, <1>2, <1>3, PTL DEF Spec

-----------------------------------------------------------------------------
(* The profile-guided loop *)

Kinds == {"matmul", "matvec", "dot", "generic"}
Dims == Seq(Nat \ {0})

\* How many dimensions the passes look at.
Rank(o) ==
  CASE o.kind = "matmul" -> 3 [] o.kind = "matvec" -> 2 [] o.kind = "dot" -> 1 [] OTHER -> 0

\* The operations have static shapes.
StaticShapes ==
  \A mod \in Modules :
    /\ mod \in Seq([kind : Kinds, dims : Dims])
    /\ \A k \in DOMAIN mod : Rank(mod[k]) <= Len(mod[k].dims)

Kernels == [kind : Kinds \cup {"unknown"}, dims : Dims]
Operation == [kind : Kinds, dims : Dims, offload : BOOLEAN, name : Kernels]

\* Tiles that are not there are all 0; those that are, are not.
Tiles == {t \in Nat \X Nat \X Nat : t[1] > 0 => t[2] > 0 /\ t[3] > 0}

OperationsOK ==
  /\ iter \in Nat /\ DOMAIN ir \subseteq Nat
  /\ \A k \in DOMAIN ir : ir[k] \in Operation /\ Rank(ir[k]) <= Len(ir[k].dims)

\* Each pass has done its part for every operation.
PassesDone ==
  /\ stage # "decide" => \A k \in DOMAIN ir : ir[k].offload
  /\ stage \notin {"decide", "name"} => \A k \in DOMAIN ir : ir[k].name = NameOf(ir[k])

\* What is compiled, measured and suggested are tiles.
TilesOK ==
  /\ \A n \in DOMAIN binary.kernels : binary.kernels[n].tile \in Tiles /\ binary.kernels[n].pf \in Nat
  /\ \A n \in DOMAIN profile :
       profile[n] \in [tile : Tiles, pf : Nat, hit : {0, 100}, newTile : Nat, newPf : Nat]
  /\ stage = "ran" /\ binary.instrument => DOMAIN stats = DOMAIN binary.kernels

LoopInv == OperationsOK /\ PassesDone /\ TilesOK /\ ProductsComputed

-----------------------------------------------------------------------------

\* A set of operations that is not empty has a first one.
LEMMA MinOf ==
  ASSUME NEW T, T \subseteq Nat, T # {}
  PROVE  Min(T) \in T
<1> DEFINE R == OpToRel(<, Nat)
<1>1. IsWellFoundedOn(R, Nat)
  BY NatLessThanWellFounded
<1>2. \A n, m \in Nat : <<n, m>> \notin R => m <= n
  BY DEF OpToRel
<1> HIDE DEF R
<1>3. \E m \in T : \A n \in T : <<n, m>> \notin R
  BY <1>1, WFMin
<1>4. \E m \in T : \A n \in T : m <= n
  BY <1>2, <1>3
<1> QED
  BY <1>4 DEF Min

\* Division by a tile, which may be any number.
LEMMA Divides ==
  ASSUME NEW x \in Nat, NEW t \in Nat \ {0}
  PROVE  /\ x \div t \in Nat /\ t * (x \div t) \in Nat
         /\ t * (x \div t) <= x /\ x < t * (x \div t) + t
  OBVIOUS

\* Where the blocks of a loop begin, they are a tile apart.
LEMMA Multiples ==
  ASSUME NEW t \in Nat, NEW a \in Nat, NEW b \in Nat
  PROVE  t * a \in Nat /\ (a < b => t * a + t <= t * b)
<1>1. t * a \in Nat
  OBVIOUS
<1>2. ASSUME a < b PROVE t * a + t <= t * b
  <2> DEFINE c == b - a - 1
  <2>1. c \in Nat /\ b = a + 1 + c
    BY <1>2
  <2> HIDE DEF c
  <2>2. t * b = t * a + t + t * c
    BY <2>1
  <2>3. t * c \in Nat
    BY <2>1
  <2> QED
    BY <1>1, <2>2, <2>3
<1> QED
  BY <1>1, <1>2

\* The blocks of a loop partition it, whatever the tile.
LEMMA BlocksPartition ==
  ASSUME NEW d \in Nat \ {0}, NEW t \in Nat \ {0}
  PROVE  IsPartition(Blocks(d, t), d)
<1> DEFINE last == (d - 1) \div t
           Block(b) == (t * b)..(AtMost(t * b + t, d) - 1)
<1>1. last \in Nat /\ t * last \in Nat /\ d - 1 \in Nat /\ d - 1 < t * last + t
  BY Divides
<1> HIDE DEF last
<1>2. Blocks(d, t) = {Block(b) : b \in 0..last}
  BY DEF Blocks, last
<1>3. \A b \in 0..last : t * b \in Nat
  BY <1>1, Multiples
<1>4. \A b \in 0..last : \A x : x \in Block(b) <=> x \in Nat /\ t * b <= x /\ x < t * b + t /\ x < d
  BY <1>3 DEF AtMost
<1> HIDE DEF Block
<1>5. ASSUME NEW x \in 0..(d - 1) PROVE \E b \in 0..last : x \in Block(b)
  <2> DEFINE b == x \div t
  <2>1. x \in Nat /\ x < d
    OBVIOUS
  <2>2. b \in Nat /\ t * b \in Nat /\ t * b <= x /\ x < t * b + t
    BY <2>1, Divides
  <2> HIDE DEF b
  <2>3. b <= last
    <3>1. last < b => t * last + t <= t * b
      BY <1>1, <2>2, Multiples
    <3> QED
      BY <1>1, <2>1, <2>2, <3>1
  <2>4. b \in 0..last
    BY <1>1, <2>2, <2>3
  <2> QED
    BY <1>4, <2>1, <2>2, <2>4
<1>6. ASSUME NEW a \in 0..last, NEW b \in 0..last, NEW x, x \in Block(a), x \in Block(b)
      PROVE a = b
  <2>1. ~(a < b)
    BY <1>1, <1>3, <1>4, <1>6, Multiples
  <2>2. ~(b < a)
    BY <1>1, <1>3, <1>4, <1>6, Multiples
  <2> QED
    BY <1>1, <2>1, <2>2
<1>7. UNION Blocks(d, t) = 0..(d - 1)
  BY <1>2, <1>4, <1>5
<1>8. \A a, b \in Blocks(d, t) : a = b \/ a \cap b = {}
  BY <1>2, <1>6
<1> QED
  BY <1>7, <1>8 DEF IsPartition

\* What is fetched ahead is there.
LEMMA AheadThere ==
  ASSUME NEW d \in Nat \ {0}, NEW t \in Nat \ {0}, NEW pf \in Nat
  PROVE  /\ Ahead(d, t, pf) \subseteq 0..(d - 1)
         /\ MatvecAhead(d, pf) \subseteq 0..(d - 1) /\ DotAhead(d, pf) \subseteq 0..(d - 1)
<1>1. Ahead(d, t, pf) \subseteq 0..(d - 1)
  <2>1. (d - 1) \div t \in Nat /\ pf * t \in Nat
    BY Divides, Multiples
  <2>2. \A b \in 0..((d - 1) \div t) : t * b \in Nat
    BY <2>1, Multiples
  <2> DEFINE step == pf * t
  <2>3. step \in Nat
    BY <2>1
  <2> HIDE DEF step
  <2>4. \A lo \in Nat : lo + step < d => lo + step \in 0..(d - 1)
    BY <2>3
  <2> QED
    BY <2>2, <2>4 DEF Ahead, step
<1>2. MatvecAhead(d, pf) \subseteq 0..(d - 1)
  BY DEF MatvecAhead
<1>3. DotAhead(d, pf) \subseteq 0..(d - 1)
  BY DEF DotAhead
<1> QED
  BY <1>1, <1>2, <1>3

\* An operation that gets a kernel has its dimensions.
LEMMA Shapes ==
  ASSUME OperationsOK, NEW k \in DOMAIN ir
  PROVE  /\ ir[k].dims \in Dims /\ ir[k].kind \in Kinds
         /\ ir[k].kind = "matmul" => \A j \in 1..3 : ir[k].dims[j] \in Nat \ {0}
         /\ ir[k].kind = "matvec" => \A j \in 1..2 : ir[k].dims[j] \in Nat \ {0}
         /\ ir[k].kind = "dot" => ir[k].dims[1] \in Nat \ {0}
<1>1. ir[k].dims \in Dims /\ ir[k].kind \in Kinds /\ Rank(ir[k]) <= Len(ir[k].dims)
  BY DEF OperationsOK, Operation
<1> DEFINE s == ir[k].dims
<1>2. \A j \in 1..Len(s) : s[j] \in Nat \ {0}
  BY <1>1 DEF Dims
<1>3. Len(s) \in Nat
  BY <1>1 DEF Dims
<1> HIDE DEF s
<1>4. ASSUME NEW r \in Nat, r <= Len(s) PROVE \A j \in 1..r : s[j] \in Nat \ {0}
  BY <1>2, <1>3, <1>4
<1>5. Rank(ir[k]) <= Len(s)
  BY <1>1 DEF s
<1>6. /\ ir[k].kind = "matmul" => \A j \in 1..3 : s[j] \in Nat \ {0}
      /\ ir[k].kind = "matvec" => \A j \in 1..2 : s[j] \in Nat \ {0}
      /\ ir[k].kind = "dot" => s[1] \in Nat \ {0}
  BY <1>4, <1>5 DEF Rank
<1> QED
  BY <1>1, <1>6 DEF s

\* What the passes find in the profile are tiles, or none.
LEMMA LookedTiles ==
  ASSUME TilesOK, NEW n
  PROVE  Looked(n).tile \in Tiles /\ Looked(n).pf \in Nat
<1>1. NoProfile.tile \in Tiles /\ NoProfile.pf \in Nat
  BY DEF NoProfile, Tiles
<1>2. n \in DOMAIN profile => profile[n].tile \in Tiles /\ profile[n].pf \in Nat
  BY DEF TilesOK
<1> QED
  BY <1>1, <1>2 DEF Looked

\* The tiles of a kernel: those of a product are not 0.
LEMMA ConfigTiles ==
  ASSUME OperationsOK, TilesOK, NEW k \in DOMAIN ir, NEW n
  PROVE  /\ Config(ir[k], Looked(n)).tile \in Tiles /\ Config(ir[k], Looked(n)).pf \in Nat
         /\ ir[k].kind = "matmul" =>
              \A j \in 1..3 : Config(ir[k], Looked(n)).tile[j] \in Nat \ {0}
<1> DEFINE p == Looked(n)  o == ir[k]
<1>1. p.tile \in Tiles /\ p.pf \in Nat /\ Override \in Nat
  BY LookedTiles, PgoOK
<1> HIDE DEF p
<1>2. CASE o.kind = "matmul"
  <2>1. /\ Pick(o.dims[1]) \in Nat \ {0} /\ Pick(o.dims[2]) \in Nat \ {0}
        /\ Pick(o.dims[3]) \in Nat \ {0}
    BY <1>2, Shapes DEF Pick
  <2> DEFINE picked == <<Pick(o.dims[1]), Pick(o.dims[2]), Pick(o.dims[3])>>
  <2>2. picked \in Tiles /\ picked[1] > 0
    BY <2>1 DEF Tiles
  <2>3. Config(o, p) = MatmulConfig(o.dims, p)
    BY <1>2 DEF Config
  <2>4. Config(o, p).tile = IF p.tile[1] > 0 THEN p.tile ELSE picked
    BY <2>3 DEF MatmulConfig
  <2>5. Config(o, p).pf \in Nat
    BY <1>1, <2>3 DEF MatmulConfig
  <2> HIDE DEF picked
  <2>6. Config(o, p).tile \in Tiles /\ Config(o, p).tile[1] > 0
    BY <1>1, <2>2, <2>4
  <2>7. \A t \in Tiles : t[1] > 0 => \A j \in 1..3 : t[j] \in Nat \ {0}
    BY DEF Tiles
  <2> QED
    BY <2>5, <2>6, <2>7 DEF p
<1>3. CASE o.kind # "matmul"
  <2>1. Config(o, p) = [tile |-> <<0, 0, 0>>, pf |-> Prefetch(IF o.kind = "matvec" THEN 4 ELSE 8, p)]
    BY <1>3 DEF Config
  <2>2. Prefetch(IF o.kind = "matvec" THEN 4 ELSE 8, p) \in Nat
    BY <1>1 DEF Prefetch
  <2>3. <<0, 0, 0>> \in Tiles
    BY DEF Tiles
  <2> QED
    BY <1>3, <2>1, <2>2, <2>3 DEF p
<1> QED
  BY <1>2, <1>3

\* A name tells kind and dimensions.
LEMMA NameTells ==
  ASSUME NEW o, NEW p
  PROVE  NameOf(o) = NameOf(p) <=> o.kind = p.kind /\ o.dims = p.dims
<1>1. NameOf(o).kind = o.kind /\ NameOf(o).dims = o.dims
  BY DEF NameOf
<1>2. NameOf(p).kind = p.kind /\ NameOf(p).dims = p.dims
  BY DEF NameOf
<1>3. o.kind = p.kind /\ o.dims = p.dims => NameOf(o) = NameOf(p)
  BY DEF NameOf
<1> HIDE DEF NameOf
<1> QED
  BY <1>1, <1>2, <1>3

\* What is emitted for a name that an operation bears.
LEMMA KernelFits ==
  ASSUME OperationsOK, PassesDone, TilesOK, stage \notin {"decide", "name"}, NEW k \in Emitted
  PROVE  LET n == ir[k].name
         IN  /\ Kernel(n).dims = ir[k].dims /\ Kernel(n).pf \in Nat /\ Kernel(n).tile \in Tiles
             /\ ir[k].kind = "matmul" => \A j \in 1..3 : Kernel(n).tile[j] \in Nat \ {0}
<1> DEFINE n == ir[k].name  m == Min(Called(n))
<1>1. Called(n) \subseteq Nat /\ k \in Called(n)
  BY DEF Called, Emitted, OperationsOK
<1>2. m \in Called(n)
  BY <1>1, MinOf
<1> HIDE DEF m
<1>3. m \in DOMAIN ir /\ ir[m].name = n
  BY <1>2 DEF Called, Emitted
<1>4. ir[m].kind = ir[k].kind /\ ir[m].dims = ir[k].dims
  <2>1. k \in DOMAIN ir
    BY DEF Emitted
  <2>2. ir[k].name = NameOf(ir[k]) /\ ir[m].name = NameOf(ir[m])
    BY <1>3, <2>1 DEF PassesDone
  <2> QED
    BY <1>3, <2>2, NameTells
<1>5. /\ Kernel(n).dims = ir[m].dims /\ Kernel(n).tile = Config(ir[m], Looked(n)).tile
      /\ Kernel(n).pf = Config(ir[m], Looked(n)).pf
  BY DEF Kernel, m
<1> QED
  BY <1>3, <1>4, <1>5, ConfigTiles

\* That a program computes an operation, and all of them.
ComputedFor(k, ops, program) ==
  LET n == ops[k].name
      kernel == program.kernels[n]
      loops == Loops(ops[k].kind, kernel)
  IN  /\ n \in DOMAIN program.kernels /\ kernel.dims = ops[k].dims
      /\ program.calls[n] = Cardinality({j \in DOMAIN ops : ops[j].kind = ops[k].kind /\ ops[j].dims = ops[k].dims})
      /\ \A j \in DOMAIN loops : IsPartition(loops[j], ops[k].dims[j])
      /\ CASE n.kind = "matmul" -> Ahead(kernel.dims[3], kernel.tile[3], kernel.pf) \subseteq 0..(ops[k].dims[3] - 1)
           [] n.kind = "matvec" -> MatvecAhead(kernel.dims[1], kernel.pf) \subseteq 0..(ops[k].dims[1] - 1)
           [] OTHER -> DotAhead(kernel.dims[1], kernel.pf) \subseteq 0..(ops[k].dims[1] - 1)
Computed(ops, program) ==
  \A k \in DOMAIN ops : ops[k].kind # "generic" => ComputedFor(k, ops, program)

\* The property, of any operations and program.
LEMMA ComputedIs ==
  /\ ProductsComputed <=> (stage = "start" => Computed(ir, binary))
  /\ ProductsComputed' <=> (stage' = "start" => Computed(ir', binary'))
BY DEF ProductsComputed, Computed, ComputedFor

\* A program just emitted computes every product.
LEMMA EmitComputes ==
  ASSUME OperationsOK, PassesDone, TilesOK, stage \notin {"decide", "name"},
         NEW b, Emit(b), UNCHANGED ir
  PROVE  /\ ProductsComputed'
         /\ \A n \in DOMAIN binary'.kernels : binary'.kernels[n].tile \in Tiles /\ binary'.kernels[n].pf \in Nat
<1> DEFINE names == {ir[k].name : k \in Emitted}
<1>1. binary' = [instrument |-> b, kernels |-> [n \in names |-> Kernel(n)],
                 calls |-> [n \in names |-> Cardinality(Called(n))]]
  BY DEF Emit
<1>2. /\ DOMAIN binary'.kernels = names /\ \A n \in names : binary'.kernels[n] = Kernel(n)
      /\ \A n \in names : binary'.calls[n] = Cardinality(Called(n))
  BY <1>1
<1>3. ASSUME NEW n \in names PROVE Kernel(n).tile \in Tiles /\ Kernel(n).pf \in Nat
  BY KernelFits
<1>4. ASSUME NEW k \in DOMAIN ir, ir[k].kind # "generic"
      PROVE  ComputedFor(k, ir, binary')
  <2> DEFINE n == ir[k].name  kernel == binary'.kernels[n]  d == ir[k].dims
  <2>1. k \in Emitted /\ n \in names /\ n = NameOf(ir[k])
    BY <1>4 DEF PassesDone, Emitted, OperationsOK, Operation, Kinds
  <2>2. kernel = Kernel(n)
    BY <1>2, <2>1
  <2>3. kernel.dims = d /\ kernel.pf \in Nat
    BY <2>1, <2>2, KernelFits
  <2>4. Called(n) = {j \in DOMAIN ir : ir[j].kind = ir[k].kind /\ ir[j].dims = d}
    <3>1. \A j \in DOMAIN ir : ir[j].offload /\ ir[j].name = NameOf(ir[j])
      BY DEF PassesDone
    <3>2. \A j \in DOMAIN ir : ir[j].name = n <=> ir[j].kind = ir[k].kind /\ ir[j].dims = d
      BY <2>1, <3>1, NameTells
    <3>3. ir[k].kind \in {"matmul", "matvec", "dot"}
      BY <2>1 DEF Emitted
    <3> QED
      BY <3>1, <3>2, <3>3 DEF Called, Emitted
  <2>5. binary'.calls[n] = Cardinality({j \in DOMAIN ir : ir[j].kind = ir[k].kind /\ ir[j].dims = d})
    BY <1>2, <2>1, <2>4
  <2>6. n.kind = ir[k].kind
    BY <2>1 DEF NameOf
  <2> HIDE DEF n
  <2>7. CASE ir[k].kind = "matmul"
    <3>1. \A j \in 1..3 : kernel.tile[j] \in Nat \ {0} /\ d[j] \in Nat \ {0}
      BY <2>1, <2>2, <2>7, KernelFits, Shapes DEF n
    <3>2. Loops(ir[k].kind, kernel) = [j \in 1..3 |-> Blocks(d[j], kernel.tile[j])]
      BY <2>3, <2>7 DEF Loops
    <3>3. \A j \in 1..3 : IsPartition(Blocks(d[j], kernel.tile[j]), d[j])
      BY <3>1, BlocksPartition
    <3>4. Ahead(d[3], kernel.tile[3], kernel.pf) \subseteq 0..(d[3] - 1)
      BY <2>3, <3>1, AheadThere
    <3> DEFINE loops == Loops(ir[k].kind, kernel)
    <3>5. \A j \in DOMAIN loops : IsPartition(loops[j], d[j])
      BY <3>2, <3>3
    <3> HIDE DEF loops, kernel
    <3>6. kernel = binary'.kernels[n] /\ n = ir[k].name
      BY DEF kernel, n
    <3>7. n \in DOMAIN binary'.kernels
      BY <1>2, <2>1, <3>6
    <3> QED
      BY <2>3, <2>5, <2>6, <2>7, <3>4, <3>5, <3>6, <3>7 DEF ComputedFor, loops
  <2>8. CASE ir[k].kind \in {"matvec", "dot"}
    <3>1. d[1] \in Nat \ {0}
      BY <2>8, Shapes
    <3>2. DOMAIN Loops(ir[k].kind, kernel) = {}
      BY <2>8 DEF Loops
    <3>3. MatvecAhead(d[1], kernel.pf) \subseteq 0..(d[1] - 1) /\ DotAhead(d[1], kernel.pf) \subseteq 0..(d[1] - 1)
      BY <2>3, <3>1, AheadThere
    <3> QED
      BY <1>2, <2>1, <2>3, <2>5, <2>6, <2>8, <3>2, <3>3 DEF n, ComputedFor
  <2>9. ir[k].kind \in {"matmul", "matvec", "dot"}
    BY <2>1 DEF Emitted
  <2> QED
    BY <2>7, <2>8, <2>9
<1>5. ProductsComputed'
  <2>1. ir' = ir
    OBVIOUS
  <2>2. Computed(ir', binary')
    BY <1>4, <2>1 DEF Computed
  <2> QED
    BY <2>2, ComputedIs
<1> QED
  BY <1>2, <1>3, <1>5

\* What a step of the card alone leaves.
LEMMA LoopUntouched ==
  ASSUME LoopInv, UNCHANGED <<ir, binary, profile, exists, iter, stage, stats>>
  PROVE  LoopInv'
<1>1. OperationsOK'
  BY DEF LoopInv, OperationsOK, Operation, Rank
<1>2. PassesDone' /\ TilesOK'
  BY DEF LoopInv, PassesDone, TilesOK
<1>3. ProductsComputed'
  <2>1. ProductsComputed /\ ir' = ir /\ binary' = binary /\ stage' = stage
    BY DEF LoopInv
  <2> QED
    BY <2>1, ComputedIs
<1> QED
  BY <1>1, <1>2, <1>3 DEF LoopInv

\* The passes ...
LEMMA DecideKeeps ==
  ASSUME LoopInv, DecideOffload
  PROVE  LoopInv'
<1>1. /\ stage = "decide" /\ stage' = "name" /\ UNCHANGED <<binary, profile, exists, iter, stats>>
      /\ ir' = [k \in DOMAIN ir |-> [ir[k] EXCEPT !.offload = @ \/ ir[k].kind \in {"matmul", "matvec", "dot", "generic"}]]
  BY DEF DecideOffload
<1>2. ASSUME NEW k \in DOMAIN ir
      PROVE  ir'[k] \in Operation /\ ir'[k].offload /\ Rank(ir'[k]) = Rank(ir[k]) /\ ir'[k].dims = ir[k].dims
  <2>1. ir[k] \in Operation
    BY DEF LoopInv, OperationsOK
  <2>2. ir'[k] = [ir[k] EXCEPT !.offload = TRUE]
    BY <1>1, <2>1 DEF Operation, Kinds
  <2> QED
    BY <2>1, <2>2 DEF Operation, Rank
<1>3. DOMAIN ir' = DOMAIN ir
  BY <1>1
<1>4. OperationsOK'
  BY <1>1, <1>2, <1>3 DEF LoopInv, OperationsOK
<1>5. PassesDone' /\ TilesOK' /\ ProductsComputed'
  BY <1>1, <1>2, <1>3 DEF LoopInv, PassesDone, TilesOK, ProductsComputed
<1> QED
  BY <1>4, <1>5 DEF LoopInv

\* ... of which the second names,
LEMMA NameKeeps ==
  ASSUME LoopInv, NameKernels
  PROVE  LoopInv'
<1>1. /\ stage = "name" /\ stage' = "emit" /\ UNCHANGED <<binary, profile, exists, iter, stats>>
      /\ ir' = [k \in DOMAIN ir |-> IF ir[k].offload THEN [ir[k] EXCEPT !.name = NameOf(ir[k])] ELSE ir[k]]
  BY DEF NameKernels
<1>2. ASSUME NEW k \in DOMAIN ir
      PROVE  /\ ir'[k] \in Operation /\ ir'[k].offload /\ Rank(ir'[k]) = Rank(ir[k]) /\ ir'[k].dims = ir[k].dims
             /\ ir'[k].name = NameOf(ir'[k])
  <2>1. ir[k] \in Operation /\ ir[k].offload
    BY <1>1 DEF LoopInv, OperationsOK, PassesDone
  <2>2. ir'[k] = [ir[k] EXCEPT !.name = NameOf(ir[k])]
    BY <1>1, <2>1
  <2>3. NameOf(ir[k]) \in Kernels
    BY <2>1 DEF NameOf, Kernels, Operation
  <2>4. ir'[k].kind = ir[k].kind /\ ir'[k].dims = ir[k].dims /\ ir'[k].name = NameOf(ir[k])
    BY <2>1, <2>2 DEF Operation
  <2>5. NameOf(ir'[k]) = NameOf(ir[k])
    BY <2>4, NameTells
  <2>6. ir'[k] \in Operation /\ ir'[k].offload
    BY <2>1, <2>2, <2>3 DEF Operation
  <2> QED
    BY <2>4, <2>5, <2>6 DEF Rank
<1>3. DOMAIN ir' = DOMAIN ir
  BY <1>1
<1>4. OperationsOK'
  BY <1>1, <1>2, <1>3 DEF LoopInv, OperationsOK
<1>5. PassesDone' /\ TilesOK' /\ ProductsComputed'
  BY <1>1, <1>2, <1>3 DEF LoopInv, PassesDone, TilesOK, ProductsComputed
<1> QED
  BY <1>4, <1>5 DEF LoopInv

\* ... and the third emits.
LEMMA EmitKeeps ==
  ASSUME LoopInv, EmitIteration \/ EmitFinal
  PROVE  LoopInv'
<1>1. /\ stage \in {"emit", "final"} /\ stage' = "start" /\ UNCHANGED <<ir, profile, exists, iter, stats>>
      /\ \E b \in BOOLEAN : Emit(b)
  BY DEF EmitIteration, EmitFinal, UsesProfile
<1>2. OperationsOK' /\ PassesDone'
  BY <1>1 DEF LoopInv, OperationsOK, PassesDone, Rank, Operation
<1>3. /\ ProductsComputed'
      /\ \A n \in DOMAIN binary'.kernels : binary'.kernels[n].tile \in Tiles /\ binary'.kernels[n].pf \in Nat
  BY <1>1, EmitComputes DEF LoopInv
<1>4. TilesOK'
  BY <1>1, <1>3 DEF LoopInv, TilesOK
<1> QED
  BY <1>2, <1>3, <1>4 DEF LoopInv

\* Starting, running and closing the program: only a measurement says anything new.
LEMMA StageKeeps ==
  ASSUME LoopInv, UNCHANGED <<ir, binary, iter>>, stage \notin {"decide", "name"}, stage' \notin {"start", "decide", "name"}
  PROVE  OperationsOK' /\ PassesDone' /\ ProductsComputed'
BY DEF LoopInv, OperationsOK, PassesDone, ProductsComputed, Rank, Operation

\* What is suggested for a kernel are tiles again.
LEMMA MeasuredTiles ==
  ASSUME TilesOK, NEW n \in DOMAIN binary.kernels, NEW slow
  PROVE  Measured(n, slow) \in [tile : Tiles, pf : Nat, hit : {0, 100}, newTile : Nat, newPf : Nat]
<1>1. binary.kernels[n].tile \in Tiles /\ binary.kernels[n].pf \in Nat
  BY DEF TilesOK
<1>2. HitRate(n) \in {0, 100}
  BY DEF HitRate
<1>3. \A x \in Nat : AtLeast(x \div 2, 8) \in Nat /\ AtMost(2 * x, 128) \in Nat /\ AtMost(x + 1, 8) \in Nat
  BY DEF AtLeast, AtMost
<1>4. binary.kernels[n].tile[1] \in Nat
  BY <1>1 DEF Tiles
<1>5. SuggestedTile(n, slow) \in Nat
  BY <1>3, <1>4 DEF SuggestedTile
<1>6. SuggestedPrefetch(n) \in Nat
  BY <1>1, <1>3 DEF SuggestedPrefetch
<1> QED
  BY <1>1, <1>2, <1>5, <1>6 DEF Measured

\* The program starts, runs and ends.
LEMMA ProgramKeeps ==
  ASSUME LoopInv, Start \/ Execute \/ Finish
  PROVE  LoopInv'
<1>1. CASE Start
  <2>1. UNCHANGED <<ir, binary, profile, iter>> /\ stage = "start" /\ stage' \in {"run", "dead"}
    BY <1>1 DEF Start
  <2>2. TilesOK'
    BY <2>1 DEF LoopInv, TilesOK
  <2> QED
    BY <2>1, <2>2, StageKeeps DEF LoopInv
<1>2. CASE Execute
  <2>1. /\ UNCHANGED <<ir, binary, profile, iter>> /\ stage = "run" /\ stage' = "ran"
        /\ binary.instrument => stats' \in [DOMAIN binary.kernels -> BOOLEAN]
    BY <1>2 DEF Execute
  <2>2. TilesOK'
    BY <2>1 DEF LoopInv, TilesOK
  <2> QED
    BY <2>1, <2>2, StageKeeps DEF LoopInv
<1>3. CASE Finish
  <2>1. /\ UNCHANGED <<ir, binary, iter, stats>> /\ stage = "ran" /\ stage' \in {"done", "rewrite"}
        /\ IF binary.instrument THEN profile' = [n \in DOMAIN stats |-> Measured(n, stats[n])]
           ELSE profile' = profile
    BY <1>3 DEF Finish
  <2>2. TilesOK /\ (binary.instrument => DOMAIN stats = DOMAIN binary.kernels)
    BY <2>1 DEF LoopInv, TilesOK
  <2>3. ASSUME NEW n \in DOMAIN profile'
        PROVE  profile'[n] \in [tile : Tiles, pf : Nat, hit : {0, 100}, newTile : Nat, newPf : Nat]
    <3>1. CASE binary.instrument
      <4>1. n \in DOMAIN binary.kernels /\ profile'[n] = Measured(n, stats[n])
        BY <2>1, <2>2, <3>1
      <4> QED
        BY <2>2, <4>1, MeasuredTiles
    <3>2. CASE ~binary.instrument
      BY <2>1, <2>2, <3>2 DEF TilesOK
    <3> QED
      BY <3>1, <3>2
  <2>4. TilesOK'
    BY <2>1, <2>2, <2>3 DEF TilesOK
  <2> QED
    BY <2>1, <2>4, StageKeeps DEF LoopInv
<1> QED
  BY <1>1, <1>2, <1>3

\* The script makes the suggestions the profile.
LEMMA RewriteKeeps ==
  ASSUME LoopInv, Rewrite
  PROVE  LoopInv'
<1> DEFINE again == iter < Iters
           renewed(k) == [ir[k] EXCEPT !.offload = FALSE, !.name = Unnamed]
           t(n) == profile[n].newTile
<1>1. /\ stage = "rewrite" /\ iter' = iter + 1 /\ stage' = (IF again THEN "decide" ELSE "final")
      /\ UNCHANGED <<binary, stats>>
      /\ ir' = [k \in DOMAIN ir |-> IF again THEN renewed(k) ELSE ir[k]]
      /\ profile' = IF exists /\ again
                    THEN [n \in DOMAIN profile |->
                           [profile[n] EXCEPT !.tile = <<t(n), t(n), t(n)>>, !.pf = profile[n].newPf]]
                    ELSE profile
  BY DEF Rewrite
<1> HIDE DEF again
<1>2. ASSUME NEW k \in DOMAIN ir
      PROVE  /\ ir'[k] \in Operation /\ Rank(ir'[k]) = Rank(ir[k]) /\ ir'[k].dims = ir[k].dims
             /\ ~again => ir'[k] = ir[k]
  <2>1. ir[k] \in Operation
    BY DEF LoopInv, OperationsOK
  <2>2. Unnamed \in Kernels
    BY DEF Unnamed, Kernels, Dims
  <2>3. renewed(k) \in Operation /\ renewed(k).kind = ir[k].kind /\ renewed(k).dims = ir[k].dims
    BY <2>1, <2>2 DEF Operation
  <2>4. ir'[k] = IF again THEN renewed(k) ELSE ir[k]
    BY <1>1
  <2> HIDE DEF renewed
  <2> QED
    BY <2>1, <2>3, <2>4 DEF Rank
<1>3. DOMAIN ir' = DOMAIN ir
  BY <1>1
<1>4. OperationsOK'
  <2>1. iter' \in Nat /\ DOMAIN ir' \subseteq Nat
    <3>1. iter' = iter + 1
      BY <1>1
    <3>2. iter \in Nat /\ DOMAIN ir \subseteq Nat
      BY DEF LoopInv, OperationsOK
    <3> QED
      BY <1>3, <3>1, <3>2
  <2>2. \A k \in DOMAIN ir : Rank(ir[k]) <= Len(ir[k].dims)
    BY DEF LoopInv, OperationsOK
  <2>3. \A k \in DOMAIN ir' : ir'[k] \in Operation /\ Rank(ir'[k]) <= Len(ir'[k].dims)
    BY <1>2, <1>3, <2>2
  <2> QED
    BY <2>1, <2>3 DEF OperationsOK
<1>5. PassesDone'
  BY <1>1, <1>2, <1>3 DEF LoopInv, PassesDone
<1>6. ASSUME NEW n \in DOMAIN profile'
      PROVE  profile'[n] \in [tile : Tiles, pf : Nat, hit : {0, 100}, newTile : Nat, newPf : Nat]
  <2>1. n \in DOMAIN profile
    BY <1>1
  <2>2. profile[n] \in [tile : Tiles, pf : Nat, hit : {0, 100}, newTile : Nat, newPf : Nat]
    BY <2>1 DEF LoopInv, TilesOK
  <2>3. <<t(n), t(n), t(n)>> \in Tiles /\ profile[n].newPf \in Nat
    BY <2>2 DEF Tiles
  <2> HIDE DEF t
  <2> QED
    BY <1>1, <2>1, <2>2, <2>3
<1>7. TilesOK' /\ ProductsComputed'
  BY <1>1, <1>6 DEF LoopInv, TilesOK, ProductsComputed
<1> QED
  BY <1>4, <1>5, <1>7 DEF LoopInv

\* The invariant of the loop: what the passes have done for each operation, and tiles that
\* are all there or not at all, through measuring, suggesting and rewriting.
THEOREM LoopCompiles == ASSUME StaticShapes PROVE GpuSpec => []LoopInv
<1>1. GpuInit => LoopInv
  <2> SUFFICES ASSUME PgoInit PROVE LoopInv
    BY DEF GpuInit
  <2>1. PICK mod \in Modules : ir = Source(mod)
    BY DEF PgoInit
  <2>2. DOMAIN mod \subseteq Nat
    BY <2>1 DEF StaticShapes
  <2>3. ASSUME NEW k \in DOMAIN mod
        PROVE  ir[k] \in Operation /\ Rank(ir[k]) <= Len(ir[k].dims)
    <3>1. mod[k] \in [kind : Kinds, dims : Dims] /\ Rank(mod[k]) <= Len(mod[k].dims)
      <4> DEFINE Given == [kind : Kinds, dims : Dims]
      <4>1. mod \in Seq(Given) /\ Rank(mod[k]) <= Len(mod[k].dims)
        BY DEF StaticShapes
      <4> HIDE DEF Given
      <4>2. mod[k] \in Given
        BY <4>1
      <4> QED
        BY <4>1, <4>2 DEF Given
    <3>2. ir[k] = [kind |-> mod[k].kind, dims |-> mod[k].dims, offload |-> FALSE, name |-> Unnamed]
      BY <2>1 DEF Source
    <3>3. Unnamed \in Kernels
      BY DEF Unnamed, Kernels, Dims
    <3> QED
      BY <3>1, <3>2, <3>3 DEF Operation, Rank
  <2>4. DOMAIN ir = DOMAIN mod
    BY <2>1 DEF Source
  <2>5. OperationsOK
    BY <2>2, <2>3, <2>4 DEF PgoInit, OperationsOK
  <2>6. TilesOK
    BY DEF PgoInit, TilesOK, NoBinary
  <2> QED
    BY <2>5, <2>6 DEF PgoInit, LoopInv, PassesDone, ProductsComputed
<1>2. LoopInv /\ [GpuNext]_<<gpuVars, pgoVars>> => LoopInv'
  <2> SUFFICES ASSUME LoopInv, [GpuNext]_<<gpuVars, pgoVars>> PROVE LoopInv'
    OBVIOUS
  <2>1. CASE Passes
    BY <2>1, DecideKeeps, NameKeeps, EmitKeeps DEF Passes
  <2>2. CASE Start \/ Execute \/ Finish
    BY <2>2, ProgramKeeps
  <2>3. CASE Rewrite
    BY <2>3, RewriteKeeps
  <2>4. CASE UNCHANGED pgoVars
    BY <2>4, LoopUntouched DEF pgoVars
  <2> QED
    BY <2>1, <2>2, <2>3, <2>4 DEF GpuNext
<1> QED
  BY <1>1, <1>2, PTL DEF GpuSpec

\* The program computes every product that was offloaded (Type2GpuCodeGen.cpp): whatever
\* the module, however often the profile is measured and rewritten, and whatever tiles and
\* distances it suggests, each operation is called for as often as it occurs, with a kernel
\* of its dimensions whose loops pass each index once and fetch ahead only what is there.
THEOREM EveryProductComputed == ASSUME StaticShapes PROVE GpuSpec => []ProductsComputed
<1>1. LoopInv => ProductsComputed
  BY DEF LoopInv
<1> QED
  BY <1>1, LoopCompiles, PTL
=============================================================================
