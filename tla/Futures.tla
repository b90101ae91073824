------------------------------ MODULE Futures ------------------------------
(***************************************************************************)
(* Completion futures and the phase barrier, runtime/src/CiraRuntime.cpp.  *)
(* A future is a 64-byte line that the device (or the host, in software)   *)
(* marks done.  Submitting or arming one puts it on active_futures, which  *)
(* futures_mutex guards; cira_phase_barrier waits for every line on that   *)
(* list and holds the mutex until it has.                                  *)
(*                                                                         *)
(* The doorbell protocol is CxlOffload's subject: here the device is a set *)
(* of lines whose job was rung and not yet completed.  The vector is a     *)
(* set, because it holds no duplicates and the barrier waits for all of    *)
(* it.  A critical section that only edits the vector is one step, taken   *)
(* while nobody holds the mutex.                                           *)
(***************************************************************************)
EXTENDS Naturals

CONSTANTS
  Threads,      \* host threads
  Lines,        \* memory for completion lines
  Timeouts,     \* is CIRA_CXL_MMIO_TIMEOUT_NS set (waits may give up)?
  WaitInSubmit, \* what CIRA_CXL_MMIO_WAIT may say (each call looks)
  Disciplined   \* do callers keep armed and listed lines away from the barrier?

ASSUME ConstantsOK ==
  /\ {Timeouts, Disciplined} \subseteq BOOLEAN
  /\ WaitInSubmit \subseteq BOOLEAN /\ WaitInSubmit # {}

Nobody == "nobody"
ASSUME NobodyOK == Nobody \notin Threads

VARIABLES
  mem,      \* a line is "free", "clear" (magic 0) or "done"
  use,      \* what its owner last did with it
  owner,    \* the thread that allocated it
  active,   \* active_futures
  holder,   \* the barrier that holds futures_mutex, or Nobody
  device,   \* lines whose job the device still has
  pc, line, \* each thread: where it is, and the call's argument
  toWait,   \* lines its barrier has yet to wait for
  covered   \* history: lines the device had when the barrier was called, less
            \* those it has completed since

vars == <<mem, use, owner, active, holder, device, pc, line, toWait, covered>>

PC == {"idle", "arm", "submit", "ring", "ringwait", "install", "await",
       "untrack", "release", "lock", "barrier", "returned"}
Use == {"none", "fresh", "armed", "submitted", "awaited"}

\* Lines, list and threads are well formed; only a thread in the barrier holds
\* the mutex there (cira_phase_barrier).
TypeOK ==
  /\ mem \in [Lines -> {"free", "clear", "done"}]
  /\ use \in [Lines -> Use] /\ owner \in [Lines -> Threads]
  /\ active \subseteq Lines /\ device \subseteq Lines
  /\ holder \in Threads \cup {Nobody} /\ (holder = Nobody \/ pc[holder] = "barrier")
  /\ pc \in [Threads -> PC] /\ line \in [Threads -> Lines]
  /\ \A t \in Threads : pc[t] = "barrier" => holder = t
  /\ toWait \in [Threads -> SUBSET Lines] /\ covered \in [Threads -> SUBSET Lines]

Init ==
  /\ mem = [l \in Lines |-> "free"] /\ use = [l \in Lines |-> "none"]
  /\ owner \in [Lines -> Threads]
  /\ active = {} /\ holder = Nobody /\ device = {}
  /\ pc = [t \in Threads |-> "idle"]
  /\ line \in [Threads -> Lines]
  /\ toWait = [t \in Threads |-> {}] /\ covered = [t \in Threads |-> {}]

Goto(t, from, to) == pc[t] = from /\ pc' = [pc EXCEPT ![t] = to]
Call(t, l, to) == Goto(t, "idle", to) /\ line' = [line EXCEPT ![t] = l]
barrierVars == <<holder, toWait, covered>>

\* What the callers keep to when they are Disciplined: an armed entry is used
\* before its thread calls anything that takes the mutex (nobody calls the
\* barrier while an entry of its own is armed, disciplined or not) ...
NoneArmed(t) == \A l \in Lines : owner[l] = t => use[l] # "armed"
Unarmed(t) == Disciplined => NoneArmed(t)
\* ... and a line is not cleared again while it is on the list.
MayClear(t, l) ==
  /\ owner[l] = t /\ Unarmed(t)
  /\ \/ use[l] = "fresh"
     \/ use[l] = "awaited" /\ (Disciplined => l \notin active)
     \/ use[l] = "armed"

-----------------------------------------------------------------------------
(* cira_future_alloc, cira_future_pool_alloc *)

Alloc(t, l) ==
  /\ pc[t] = "idle" /\ mem[l] = "free"
  /\ mem' = [mem EXCEPT ![l] = "clear"]
  /\ use' = [use EXCEPT ![l] = "fresh"]
  /\ owner' = [owner EXCEPT ![l] = t]
  /\ UNCHANGED <<active, device, pc, line, barrierVars>>

\* cira_future_pool_arm and cira_offload_submit clear the line first ...
Arm(t, l) ==
  /\ MayClear(t, l) /\ Call(t, l, "arm")
  /\ mem' = [mem EXCEPT ![l] = "clear"]
  /\ use' = [use EXCEPT ![l] = "armed"]
  /\ UNCHANGED <<owner, active, device, barrierVars>>

\* Faulty: the completion is never put on the list.
SubmitUntracked(t, l) ==
  /\ MayClear(t, l) /\ Call(t, l, "ring")
  /\ mem' = [mem EXCEPT ![l] = "clear"]
  /\ use' = [use EXCEPT ![l] = "submitted"]
  /\ UNCHANGED <<owner, active, device, barrierVars>>

OffloadSubmit(t, l) ==
  /\ MayClear(t, l) /\ Call(t, l, "submit")
  /\ mem' = [mem EXCEPT ![l] = "clear"]
  /\ use' = [use EXCEPT ![l] = "submitted"]
  /\ UNCHANGED <<owner, active, device, barrierVars>>

\* ... and put it on the list under the mutex.
Track(t) ==
  /\ Goto(t, "arm", "idle") \/ Goto(t, "submit", "ring")
  /\ holder = Nobody
  /\ active' = active \cup {line[t]}
  /\ UNCHANGED <<mem, use, owner, device, line, barrierVars>>

\* submit_mmio_call rings the doorbell ...
Ring(t) ==
  /\ \E wait \in WaitInSubmit : Goto(t, "ring", IF wait THEN "ringwait" ELSE "idle")
  /\ device' = device \cup {line[t]}
  /\ UNCHANGED <<mem, use, owner, active, line, barrierVars>>

RingWaited(t) ==
  /\ Goto(t, "ringwait", "idle")
  /\ mem[line[t]] = "done" \/ Timeouts
  /\ UNCHANGED <<mem, use, owner, active, device, line, barrierVars>>

\* Faulty: a submission that fails leaves the line as it is.
FailSilently(t) ==
  /\ Goto(t, "ring", "idle")
  /\ UNCHANGED <<mem, use, owner, active, device, line, barrierVars>>

\* ... or there is no window or no kernel, or it fails.
CompleteInSoftware(t) ==
  /\ Goto(t, "ring", "idle")
  /\ mem' = [mem EXCEPT ![line[t]] = "done"]
  /\ UNCHANGED <<use, owner, active, device, line, barrierVars>>

\* cira_llc_tile_install_from_cxl with an armed entry as completion_ptr clears
\* the line again, copies, and marks it done, all without the mutex.
Install(t, l) ==
  /\ owner[l] = t /\ use[l] = "armed" /\ Call(t, l, "install")
  /\ mem' = [mem EXCEPT ![l] = "clear"]
  /\ use' = [use EXCEPT ![l] = "submitted"]
  /\ UNCHANGED <<owner, active, device, barrierVars>>

Installed(t) ==
  /\ Goto(t, "install", "idle")
  /\ mem' = [mem EXCEPT ![line[t]] = "done"]
  /\ UNCHANGED <<use, owner, active, device, line, barrierVars>>

Complete(l) ==
  /\ l \in device
  /\ device' = device \ {l}
  /\ mem' = IF mem[l] = "free" THEN mem ELSE [mem EXCEPT ![l] = "done"]
  /\ covered' = [t \in Threads |-> covered[t] \ {l}]
  /\ UNCHANGED <<use, owner, active, holder, pc, line, toWait>>

-----------------------------------------------------------------------------
(* cira_future_await and cira_future_free *)

Await(t, l) ==
  /\ owner[l] = t /\ use[l] = "submitted" /\ Unarmed(t)
  /\ Call(t, l, "await")
  /\ UNCHANGED <<mem, use, owner, active, device, barrierVars>>

\* Faulty: the result of the wait is taken without looking at the magic word.
AwaitAny(t) ==
  /\ Goto(t, "await", "idle")
  /\ use' = [use EXCEPT ![line[t]] = "awaited"]
  /\ UNCHANGED <<mem, owner, active, device, line, barrierVars>>

\* The line stays on the list; a timeout looks like success to the caller.
Awaited(t) ==
  /\ Goto(t, "await", "idle")
  /\ mem[line[t]] = "done" \/ Timeouts
  /\ use' = [use EXCEPT ![line[t]] = "awaited"]
  /\ UNCHANGED <<mem, owner, active, device, line, barrierVars>>

Free(t, l) ==
  /\ owner[l] = t /\ use[l] \in {"fresh", "awaited"} /\ Unarmed(t)
  /\ Call(t, l, "untrack")
  /\ use' = [use EXCEPT ![l] = "none"]
  /\ UNCHANGED <<mem, owner, active, device, barrierVars>>

Untrack(t) ==
  /\ Goto(t, "untrack", "release")
  /\ holder = Nobody
  /\ active' = active \ {line[t]}
  /\ UNCHANGED <<mem, use, owner, device, line, barrierVars>>

Release(t) ==
  /\ Goto(t, "release", "idle")
  /\ mem' = [mem EXCEPT ![line[t]] = "free"]
  /\ UNCHANGED <<use, owner, active, device, line, barrierVars>>

-----------------------------------------------------------------------------
(* cira_phase_barrier *)

Barrier(t) ==
  /\ Goto(t, "idle", "lock") /\ NoneArmed(t)
  /\ covered' = [covered EXCEPT ![t] = device]
  /\ UNCHANGED <<mem, use, owner, active, holder, device, line, toWait>>

BarrierLock(t) ==
  /\ Goto(t, "lock", "barrier")
  /\ holder = Nobody
  /\ holder' = t
  /\ toWait' = [toWait EXCEPT ![t] = active]
  /\ UNCHANGED <<mem, use, owner, active, device, line, covered>>

BarrierWait(t, l) ==
  /\ pc[t] = "barrier" /\ l \in toWait[t]
  /\ mem[l] = "done" \/ Timeouts
  /\ toWait' = [toWait EXCEPT ![t] = @ \ {l}]
  /\ UNCHANGED <<mem, use, owner, active, holder, device, pc, line, covered>>

BarrierReturn(t) ==
  /\ Goto(t, "barrier", "returned") /\ toWait[t] = {}
  /\ active' = {}
  /\ holder' = Nobody
  /\ UNCHANGED <<mem, use, owner, device, line, toWait, covered>>

\* After the barrier a caller takes its own jobs for finished.
Leave(t) ==
  /\ Goto(t, "returned", "idle")
  /\ use' = [l \in Lines |-> IF owner[l] = t /\ use[l] = "submitted" THEN "awaited" ELSE use[l]]
  /\ covered' = [covered EXCEPT ![t] = {}]
  /\ UNCHANGED <<mem, owner, active, holder, device, line, toWait>>

-----------------------------------------------------------------------------

\* The steps of a call that has begun.
Step(t) ==
  \/ Track(t) \/ Ring(t) \/ RingWaited(t) \/ CompleteInSoftware(t) \/ Installed(t)
  \/ Awaited(t) \/ Untrack(t) \/ Release(t)
  \/ BarrierLock(t) \/ BarrierReturn(t) \/ Leave(t)
  \/ \E l \in Lines : BarrierWait(t, l)

Next ==
  \/ \E t \in Threads :
       \/ Step(t) \/ Barrier(t)
       \/ \E l \in Lines : \/ Alloc(t, l) \/ Arm(t, l) \/ OffloadSubmit(t, l)
                           \/ Install(t, l) \/ Await(t, l) \/ Free(t, l)
  \/ \E l \in Lines : Complete(l)

Spec == Init /\ [][Next]_vars

\* A thread inside a call runs, the device finishes its jobs, and whoever armed
\* an entry goes on to use it.
FairSpec ==
  /\ Spec
  /\ \A t \in Threads :
       /\ WF_vars(Step(t))
       /\ WF_vars(\E l \in Lines : Install(t, l) \/ (use[l] = "armed" /\ OffloadSubmit(t, l)))
  /\ \A l \in Lines : WF_vars(Complete(l))

-----------------------------------------------------------------------------
(* Properties *)

\* The barrier never reads a line that was freed: whatever is on the list is
\* allocated, although await leaves lines on the list and free takes no part
\* in the barrier.
ListedLive == \A l \in active : mem[l] # "free"

\* The device never writes a line that was freed.
DeviceLive == \A l \in device : mem[l] # "free"

\* Wait for all outstanding device tasks to complete: when the barrier returns,
\* every job the device had when it was called is finished, also when another
\* thread's barrier emptied the list in between.
BarrierCovers == \A t \in Threads : pc[t] = "returned" => covered[t] = {}

\* A job whose owner has waited for it is finished.
AwaitedDone ==
  \A l \in Lines : use[l] = "awaited" => l \notin device /\ mem[l] = "done"

\* A barrier that has the mutex returns, although it keeps every other thread
\* from submitting while it waits.
BarrierReturns == \A t \in Threads : pc[t] = "barrier" ~> pc[t] = "returned"

\* An await returns, whichever way the job went.
AwaitReturns == \A t \in Threads : pc[t] = "await" ~> pc[t] # "await"
=============================================================================
