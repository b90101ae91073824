------------------------------- MODULE Type2Gpu -------------------------------
(***************************************************************************)
(* runtime/src/Type2GpuDevice.cpp: device objects, what they map of the    *)
(* card, and launches through its registers.  All objects share the one    *)
(* register file; each maps BAR0 for itself and, as shared memory, a DAX   *)
(* device, BAR2 or the heap, whichever can be had.                         *)
(***************************************************************************)
EXTENDS Naturals, FiniteSets

CONSTANTS
  Objects,   \* Type2GpuDeviceReal objects
  Launchers, \* those through which kernels are launched
  Requests,  \* launch requests
  Dcoh,      \* the requests that ask for a completion line
  Prompt     \* has a write to LAUNCH taken effect before STATUS is next read?

ASSUME ObjectsOK == Launchers \subseteq Objects /\ Dcoh \subseteq Requests

CONSTANT None

VARIABLES
  obj,      \* [bar0, bar0Fd, shared, sharedFd, size] of each object
  held,     \* what the process holds for each object: descriptors, mappings, heap
  phase,    \* where its user is with an object, see Phases
  asked,    \* the request an object launched last
  verdict,  \* what its last wait found
  regs,     \* the registers: [kernel, completion, dcoh]
  pending,  \* LAUNCH was written and not seen yet
  status,   \* the STATUS register
  running,  \* the request the card runs
  ended,    \* history: requests that have run since they were launched
  signalled \* history: [by, at]: whose completion was written and to whose address

gpuVars == <<obj, held, phase, asked, verdict, regs, pending, status, running, ended, signalled>>

\* "launching" and "set" are in the middle of launch_kernel, "waiting" from then until a
\* wait has an answer. A "closed" object was shut down: its BAR0 is mapped no more, and it
\* simulates. A "gone" one could not be initialized.
Phases == {"new", "ready", "launching", "set", "waiting", "closed", "gone", "deleted"}

\* In KiB.
SharedDefault == 16384
Bar2Size == 128
DeviceOffset == 8192

Closed == [bar0 |-> "null", bar0Fd |-> FALSE, shared |-> "null", sharedFd |-> FALSE, size |-> SharedDefault]

DeviceInit ==
  /\ obj = [o \in Objects |-> Closed] /\ held = [o \in Objects |-> {}]
  /\ phase = [o \in Objects |-> "new"]
  /\ asked = [o \in Objects |-> None] /\ verdict = [o \in Objects |-> "none"]
  /\ regs = [kernel |-> None, completion |-> None, dcoh |-> FALSE]
  /\ pending = FALSE /\ status = "idle" /\ running = None /\ ended = {}
  /\ signalled = [by |-> None, at |-> None]

cardVars == <<regs, pending, status, running, ended, signalled>>

-----------------------------------------------------------------------------
(* Mapping *)

\* What map_dax leaves: the DAX device, else BAR2, else the heap, else nothing.
SharedOutcomes ==
  {[is |-> "dax", fd |-> TRUE, size |-> SharedDefault, holds |-> {"sharedFd", "sharedMap"}],
   [is |-> "bar2", fd |-> TRUE, size |-> Bar2Size, holds |-> {"sharedFd", "sharedMap"}],
   [is |-> "heap", fd |-> FALSE, size |-> SharedDefault, holds |-> {"heap"}],
   [is |-> "null", fd |-> FALSE, size |-> SharedDefault, holds |-> {}]}

InitializeObject(o) ==
  \E s \in SharedOutcomes :
    /\ obj' = [obj EXCEPT ![o] = [bar0 |-> "mapped", bar0Fd |-> TRUE, shared |-> s.is,
                                  sharedFd |-> s.fd, size |-> s.size]]
    /\ held' = [held EXCEPT ![o] = {"bar0Fd", "bar0Map"} \cup s.holds]
    /\ phase' = [phase EXCEPT ![o] = "ready"]

\* Without BAR0 the object is deleted, even though a failed mapping leaves its mark in
\* bar0_base_.
InitializeFails(o) ==
  /\ \E b \in {"null", "failed"} : obj' = [obj EXCEPT ![o].bar0 = b]
  /\ phase' = [phase EXCEPT ![o] = "gone"]
  /\ UNCHANGED held

\* create_type2_gpu_device
Create(o) ==
  /\ phase[o] = "new"
  /\ InitializeObject(o) \/ InitializeFails(o)
  /\ UNCHANGED <<asked, verdict, cardVars>>

\* What shutdown gives back: to unmap a mapping that failed is refused and harmless.
Released(d) ==
  (IF d.bar0 # "null" THEN {"bar0Map"} ELSE {}) \cup (IF d.bar0Fd THEN {"bar0Fd"} ELSE {})
    \cup (IF d.shared # "null" THEN {IF d.sharedFd THEN "sharedMap" ELSE "heap"} ELSE {})
    \cup (IF d.sharedFd THEN {"sharedFd"} ELSE {})

\* By the user, whether or not a kernel is under way, and again by the destructor.
ShutdownObject(o) ==
  /\ phase[o] \in {"ready", "waiting", "gone", "closed"}
  /\ held' = [held EXCEPT ![o] = @ \ Released(obj[o])]
  /\ obj' = [obj EXCEPT ![o] = [Closed EXCEPT !.size = obj[o].size]]
  /\ phase' = [phase EXCEPT ![o] = IF @ \in {"gone", "closed"} THEN "deleted" ELSE "closed"]
  /\ UNCHANGED <<asked, verdict, cardVars>>

\* Memory for the device is at a fixed place in the shared memory.
DeviceMemory(o) == IF obj[o].shared = "null" THEN None ELSE DeviceOffset

-----------------------------------------------------------------------------
(* Launching *)

\* launch_kernel, one step for each group of registers, LAUNCH last; no launch waits for an
\* earlier one to end. Without BAR0 there is nothing to write.
Launch(o, q) ==
  /\ phase[o] \in {"ready", "waiting", "closed"} /\ o \in Launchers
  /\ asked' = [asked EXCEPT ![o] = q] /\ ended' = ended \ {q}
  /\ verdict' = [verdict EXCEPT ![o] = "none"]
  /\ IF phase[o] = "closed" THEN UNCHANGED <<regs, phase>>
     ELSE regs' = [regs EXCEPT !.kernel = q] /\ phase' = [phase EXCEPT ![o] = "launching"]
  /\ UNCHANGED <<obj, held, pending, status, running, signalled>>

\* The completion registers are only written for a request that asks for a line.
SetCompletion(o) ==
  /\ phase[o] = "launching" /\ phase' = [phase EXCEPT ![o] = "set"]
  /\ regs' = IF asked[o] \in Dcoh THEN [regs EXCEPT !.completion = asked[o], !.dcoh = TRUE] ELSE regs
  /\ UNCHANGED <<obj, held, asked, verdict, pending, status, running, ended, signalled>>

Trigger(o) ==
  /\ phase[o] = "set" /\ phase' = [phase EXCEPT ![o] = "waiting"]
  /\ pending' = TRUE
  /\ UNCHANGED <<obj, held, asked, verdict, regs, status, running, ended, signalled>>

\* A launch replaces what still runs.
CardStarts ==
  /\ pending /\ pending' = FALSE /\ status' = "running" /\ running' = regs.kernel
  /\ UNCHANGED <<obj, held, phase, asked, verdict, regs, ended, signalled>>

CardEnds ==
  /\ running # None /\ running' = None /\ status' \in {"done", "error"}
  /\ ended' = ended \cup {running}
  /\ signalled' = IF regs.dcoh THEN [by |-> running, at |-> regs.completion] ELSE signalled
  /\ UNCHANGED <<obj, held, phase, asked, verdict, regs, pending>>

\* wait_kernel_completion: polls while the status says neither, or for so long; who has
\* waited in vain waits again, launches again or shuts down. Without BAR0 it is true at once.
StatusRead == IF pending /\ Prompt THEN "running" ELSE status
Ended == {"done", "error"}

\* Faulty: who has polled often enough takes the kernel for done.
WaitAssumes(o) ==
  /\ phase[o] \in {"waiting", "closed"} /\ o \in Launchers
  /\ verdict' = [verdict EXCEPT ![o] = IF phase[o] = "closed" THEN "simulated"
                                       ELSE IF StatusRead = "error" THEN "error" ELSE "done"]
  /\ phase' = [phase EXCEPT ![o] = IF @ = "waiting" THEN "ready" ELSE @]
  /\ UNCHANGED <<obj, held, asked, cardVars>>
Wait(o) ==
  /\ phase[o] \in {"waiting", "closed"} /\ o \in Launchers
  /\ verdict' = [verdict EXCEPT ![o] = IF phase[o] = "closed" THEN "simulated"
                                       ELSE IF StatusRead \in Ended THEN StatusRead ELSE "timeout"]
  /\ phase' = [phase EXCEPT ![o] = IF @ = "waiting" /\ StatusRead \in Ended THEN "ready" ELSE @]
  /\ UNCHANGED <<obj, held, asked, cardVars>>

DeviceNext ==
  \/ \E o \in Objects : SetCompletion(o) \/ Trigger(o) \/ Wait(o) \/ \E q \in Requests : Launch(o, q)
  \/ CardStarts \/ CardEnds

-----------------------------------------------------------------------------
(* Properties *)

\* A wait that reads its answer from the card has it of the kernel that was launched last,
\* and not of an earlier one that was given up and ended late, or whose status is still in
\* the register.
WaitsForOwn == \A o \in Launchers : verdict[o] \in Ended => asked[o] \in ended

\* Who is told that the kernel is done has had it run: the card's word and an object's that
\* was shut down are the same true to the caller.
DoneMeansRun == \A o \in Launchers : verdict[o] \in {"done", "simulated"} => asked[o] \in ended

\* An object that is deleted leaves nothing behind: each descriptor, mapping or block of
\* the heap that initialize took in its many ways is given back as what it is.
NothingLeaked == \A o \in Objects : phase[o] = "deleted" => held[o] = {}

\* The completion of a kernel is written for the request that asked for it.
CompletionGoesHome == signalled.by = signalled.at

\* "Allocate from host virtual space": what allocate_device returns is mapped.
DeviceMemoryMapped == \A o \in Objects : DeviceMemory(o) # None => DeviceOffset < obj[o].size
===============================================================================
