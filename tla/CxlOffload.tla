----------------------------- MODULE CxlOffload -----------------------------
(***************************************************************************)
(* Offload submission through the CXL control window.                      *)
(*                                                                         *)
(* Host threads run cira_mmio_submit_job (runtime/cira_mmio.cpp), which    *)
(* stages a payload, then a slot header, then the doorbell, word by word;  *)
(* the device runs vortex_cxl_firmware_loop (runtime/vortex_device.cpp),   *)
(* which polls the doorbell, runs the job and publishes a completion line  *)
(* and a host-status mirror.  Every store and every volatile load that     *)
(* another party can tell apart is a step.  Stores of one party are seen   *)
(* in program order, as the fences and the uncached window guarantee.      *)
(*                                                                         *)
(* A submission is named by the sequence number its window handed out; the *)
(* payload word "kern" stands for func, operands and their count, and is   *)
(* tagged with the submission that stored it.  doorbell->status, flags and *)
(* the constant magic/version words are left out: nobody reads them, or    *)
(* they never change after the first job.                                  *)
(***************************************************************************)
EXTENDS CxlJob, Naturals

CONSTANTS
  Hosts,       \* host threads that share one window
  Lines,       \* 64-byte completion lines the clients allocate
  JobIds,      \* the job ids the clients submit
  MaxSeq,      \* bound on the sequence numbers a run hands out
  Overlap,     \* may a client submit while an earlier job is outstanding?
  SelfSignal,  \* may a CALL kernel signal the completion line itself?
  Timeouts,    \* is CIRA_CXL_MMIO_TIMEOUT_NS set (waits may give up)?
  Leftover     \* jobs that an earlier opener of the window may have left

ASSUME ConstantsOK ==
  /\ JobIds \subseteq JobId /\ JobIds # {}
  /\ MaxSeq \in Nat \ {0}
  /\ Leftover \in Nat
  /\ {Overlap, SelfSignal, Timeouts} \subseteq BOOLEAN
  /\ 0 \notin Lines

Seqs == 1 .. MaxSeq
Nobody == 0        \* owner of a line that no client waits on
NoLine == 0        \* completion_addr before the first payload store
None   == MaxSeq + 1  \* "no result read yet"

VARIABLES
  nextSeq,   \* window->next_seq
  hpc,       \* where each host thread is in cira_mmio_submit_job / wait_seq
  req,       \* the submission each thread is staging: [id, line, seq]
  watch,     \* the sequence number a thread in cira_mmio_wait_seq waits for
  slotKern, slotLine, slotSeq,  \* arg slot per job id: payload words, header
  dbJob, dbSeq,                 \* doorbell words
  hsStatus, hsSeq,              \* host-status mirror
  magic, result,                \* completion lines
  owner,     \* the submission a client armed the line for, or Nobody
  fpc,       \* where the firmware is in its loop
  last,      \* last_seq of vortex_cxl_firmware_loop
  fJob, fSeq, fKern, fStatus,   \* service_once's local copy and status
  runs,      \* history: how often the device ran submission s
  ranArgs,   \* history: whose payload it ran it with
  staged,    \* history: the job id and number of every committed slot header
  signalled, \* history: submissions whose kernel signalled by itself
  got,       \* result each client read from its completion line
  verdict    \* what cira_mmio_wait_seq returned for each submission

hostVars == <<nextSeq, hpc, req, watch, owner, staged, got, verdict>>
slotVars == <<slotKern, slotLine, slotSeq>>
dbVars   == <<dbJob, dbSeq>>
hsVars   == <<hsStatus, hsSeq>>
lineVars == <<magic, result>>
fwVars   == <<fpc, last, fJob, fSeq, fKern, fStatus, runs, ranArgs, signalled>>
vars == <<hostVars, slotVars, dbVars, hsVars, lineVars, fwVars>>

HostPC == {"idle", "kern", "line", "head", "dbjob", "dbseq", "seen"}
FwPC == {"poll", "latch", "rjob", "rseq", "runstat", "runseq", "check",
         "call", "complete", "endstat", "endseq"}

\* The words of the window, the lines and the firmware are what the code stores
\* there; numbers stay within what the window handed out.
TypeOK ==
  /\ nextSeq \in 1 .. MaxSeq + 1
  /\ hpc \in [Hosts -> HostPC]
  /\ req \in [Hosts -> [id : JobIds, line : Lines \cup {NoLine}, seq : 0 .. MaxSeq]]
  /\ watch \in [Hosts -> 0 .. MaxSeq]
  /\ slotKern \in [JobIds -> 0 .. MaxSeq]
  /\ slotLine \in [JobIds -> Lines \cup {NoLine}]
  /\ slotSeq \in [JobIds -> Nat]
  /\ dbJob \in JobIds /\ dbSeq \in Nat
  /\ hsStatus \in JobStatus /\ hsSeq \in Nat
  /\ magic \in [Lines -> BOOLEAN]
  /\ result \in [Lines -> 0 .. MaxSeq]
  /\ owner \in [Lines -> 0 .. MaxSeq]
  /\ fpc \in FwPC
  /\ last \in Nat /\ fSeq \in Nat
  /\ fJob \in JobIds /\ fKern \in 0 .. MaxSeq /\ fStatus \in JobStatus
  /\ runs \in [Seqs -> Nat]
  /\ ranArgs \in [Seqs -> SUBSET (0 .. MaxSeq)]
  /\ staged \subseteq JobIds \X Seqs /\ signalled \subseteq Seqs
  /\ got \in [Seqs -> 0 .. None]
  /\ verdict \in [Seqs -> {"none", "OK", "EIO"}]

-----------------------------------------------------------------------------
(* Host side *)

\* The window is zeroed when it is fresh (Leftover = 0).  An opener of a
\* device-backed window restarts next_seq at 1 while the device still holds
\* the k jobs an earlier process ran.
\* The job words are not read before a host has stored them.
Init ==
  /\ nextSeq = 1
  /\ hpc = [h \in Hosts |-> "idle"]
  /\ watch = [h \in Hosts |-> 0]
  /\ slotKern = [j \in JobIds |-> 0]
  /\ slotLine = [j \in JobIds |-> NoLine]
  /\ dbJob = CHOOSE j \in JobIds : TRUE
  /\ req = [h \in Hosts |-> [id |-> dbJob, line |-> NoLine, seq |-> 0]]
  /\ \E k \in 0 .. Leftover :
       /\ dbSeq = k /\ hsSeq = k /\ last = k /\ fSeq = k
       /\ slotSeq = [j \in JobIds |-> IF j = dbJob THEN k ELSE 0]
  /\ hsStatus = "SUCCESS"
  /\ magic = [l \in Lines |-> FALSE]
  /\ result = [l \in Lines |-> 0]
  /\ owner = [l \in Lines |-> Nobody]
  /\ fpc = "poll"
  /\ fJob = dbJob /\ fKern = 0 /\ fStatus = "SUCCESS"
  /\ runs = [s \in Seqs |-> 0]
  /\ ranArgs = [s \in Seqs |-> {}]
  /\ staged = {} /\ signalled = {}
  /\ got = [s \in Seqs |-> None]
  /\ verdict = [s \in Seqs |-> "none"]

HostAt(h, from, to) == hpc[h] = from /\ hpc' = [hpc EXCEPT ![h] = to]

\* Without overlap the clients take turns: a job is submitted only when every
\* earlier one has been awaited.
MaySubmit ==
  \/ Overlap
  \/ /\ \A l \in Lines : owner[l] = Nobody
     /\ \A g \in Hosts : hpc[g] \in {"idle", "seen"}

\* Faulty variants of the actions below, one slip each; a property that none of
\* them could break would say nothing about the code.
BeginUnarmed(h, j, l) ==   \* the completion line is not reset
  /\ MaySubmit /\ nextSeq <= MaxSeq /\ owner[l] = Nobody /\ HostAt(h, "idle", "kern")
  /\ nextSeq' = nextSeq + 1
  /\ req' = [req EXCEPT ![h] = [id |-> j, line |-> l, seq |-> nextSeq]]
  /\ owner' = [owner EXCEPT ![l] = nextSeq]
  /\ UNCHANGED <<watch, staged, got, verdict, slotVars, dbVars, hsVars, lineVars, fwVars>>

StoreKernOnce(h) ==        \* a slot that holds a payload is not written again
  /\ HostAt(h, "kern", "line")
  /\ slotKern' = [slotKern EXCEPT ![req[h].id] = IF @ = 0 THEN req[h].seq ELSE @]
  /\ UNCHANGED <<nextSeq, req, watch, owner, staged, got, verdict, slotLine,
                 slotSeq, dbVars, hsVars, lineVars, fwVars>>

\* cira_mmio_arm_completion on a free line, then next_seq.fetch_add.
Begin(h, j, l) ==
  /\ MaySubmit
  /\ nextSeq <= MaxSeq
  /\ owner[l] = Nobody
  /\ HostAt(h, "idle", "kern")
  /\ nextSeq' = nextSeq + 1
  /\ req' = [req EXCEPT ![h] = [id |-> j, line |-> l, seq |-> nextSeq]]
  /\ owner' = [owner EXCEPT ![l] = nextSeq]
  /\ magic' = [magic EXCEPT ![l] = FALSE]
  /\ result' = [result EXCEPT ![l] = 0]
  /\ UNCHANGED <<watch, staged, got, verdict, slotVars, dbVars, hsVars, fwVars>>

\* The payload goes in word by word: function and operands first ...
StoreKern(h) ==
  /\ HostAt(h, "kern", "line")
  /\ slotKern' = [slotKern EXCEPT ![req[h].id] = req[h].seq]
  /\ UNCHANGED <<nextSeq, req, watch, owner, staged, got, verdict, slotLine,
                 slotSeq, dbVars, hsVars, lineVars, fwVars>>

\* ... then the address of the completion line, and a fence.
StoreLine(h) ==
  /\ HostAt(h, "line", "head")
  /\ slotLine' = [slotLine EXCEPT ![req[h].id] = req[h].line]
  /\ UNCHANGED <<nextSeq, req, watch, owner, staged, got, verdict, slotKern,
                 slotSeq, dbVars, hsVars, lineVars, fwVars>>

\* The slot header; its seq is what the device compares with the doorbell.
StoreHeader(h) ==
  /\ HostAt(h, "head", "dbjob")
  /\ slotSeq' = [slotSeq EXCEPT ![req[h].id] = req[h].seq]
  /\ staged' = staged \cup {<<req[h].id, req[h].seq>>}
  /\ UNCHANGED <<nextSeq, req, watch, owner, got, verdict, slotKern, slotLine,
                 dbVars, hsVars, lineVars, fwVars>>

\* The doorbell's job word ...
StoreDoorbellJob(h) ==
  /\ HostAt(h, "dbjob", "dbseq")
  /\ dbJob' = req[h].id
  /\ UNCHANGED <<nextSeq, req, watch, owner, staged, got, verdict, slotVars,
                 dbSeq, hsVars, lineVars, fwVars>>

\* ... and last its seq, which commits the job.
StoreDoorbellSeq(h) ==
  /\ HostAt(h, "dbseq", "idle")
  /\ dbSeq' = req[h].seq
  /\ UNCHANGED <<nextSeq, req, watch, owner, staged, got, verdict, slotVars,
                 dbJob, hsVars, lineVars, fwVars>>

\* A line's future is armed but not yet awaited, and its doorbell has rung.
Outstanding(l) ==
  /\ owner[l] # Nobody
  /\ \A h \in Hosts : hpc[h] \notin {"idle", "seen"} => req[h].seq # owner[l]

AwaitUnchecked(l) ==       \* faulty: the magic word is not compared
  /\ Outstanding(l)
  /\ got' = [got EXCEPT ![owner[l]] = result[l]]
  /\ owner' = [owner EXCEPT ![l] = Nobody]
  /\ UNCHANGED <<nextSeq, hpc, req, watch, staged, verdict, slotVars, dbVars,
                 hsVars, lineVars, fwVars>>

\* cira_mmio_wait_completion returns CIRA_MMIO_OK; the client reads the result
\* and gives the line up (for the next arm, or to free).
AwaitDone(l) ==
  /\ Outstanding(l)
  /\ magic[l]
  /\ got' = [got EXCEPT ![owner[l]] = result[l]]
  /\ owner' = [owner EXCEPT ![l] = Nobody]
  /\ UNCHANGED <<nextSeq, hpc, req, watch, staged, verdict, slotVars, dbVars,
                 hsVars, lineVars, fwVars>>

\* The wait times out; cira_future_await drops the error, and the caller goes
\* on to read the result and free the line (as cira_gapbs_region_marker does).
AwaitTimeout(l) ==
  /\ Timeouts
  /\ Outstanding(l)
  /\ ~magic[l]
  /\ got' = [got EXCEPT ![owner[l]] = result[l]]
  /\ owner' = [owner EXCEPT ![l] = Nobody]
  /\ UNCHANGED <<nextSeq, hpc, req, watch, staged, verdict, slotVars, dbVars,
                 hsVars, lineVars, fwVars>>

\* cira_mmio_wait_seq sees status->seq reach the submission ...
SeeSeq(h, s) ==
  /\ HostAt(h, "idle", "seen")
  /\ s < nextSeq /\ verdict[s] = "none"
  /\ \A g \in Hosts : hpc[g] \notin {"idle", "seen"} => req[g].seq # s
  /\ hsSeq >= s
  /\ watch' = [watch EXCEPT ![h] = s]
  /\ UNCHANGED <<nextSeq, req, owner, staged, got, verdict, slotVars, dbVars,
                 hsVars, lineVars, fwVars>>

\* ... and only then reads status->status.
ReadStatus(h) ==
  /\ HostAt(h, "seen", "idle")
  /\ verdict' = [verdict EXCEPT ![watch[h]] =
                   IF hsStatus = "SUCCESS" THEN "OK" ELSE "EIO"]
  /\ UNCHANGED <<nextSeq, req, watch, owner, staged, got, slotVars, dbVars,
                 hsVars, lineVars, fwVars>>

-----------------------------------------------------------------------------
(* Device side *)

FwAt(from, to) == fpc = from /\ fpc' = to

\* Faulty variants, as above.
LatchForgets ==            \* last_seq is not updated
  /\ FwAt("latch", "rjob")
  /\ UNCHANGED <<hostVars, slotVars, dbVars, hsVars, lineVars, last, fJob, fSeq,
                 fKern, fStatus, runs, ranArgs, signalled>>

MirrorNoRunning ==         \* the status word is left at the last job's
  /\ FwAt("runstat", "runseq")
  /\ UNCHANGED <<hostVars, slotVars, dbVars, hsVars, lineVars, last, fJob, fSeq,
                 fKern, fStatus, runs, ranArgs, signalled>>

MirrorResetSeq ==          \* seq is cleared while a job runs
  /\ FwAt("runseq", "check")
  /\ hsSeq' = 0
  /\ UNCHANGED <<hostVars, slotVars, dbVars, hsStatus, lineVars, last, fJob,
                 fSeq, fKern, fStatus, runs, ranArgs, signalled>>

CheckNothing ==            \* the slot header is not compared with the doorbell
  /\ FwAt("check", "call")
  /\ fKern' = slotKern[fJob]
  /\ UNCHANGED <<hostVars, slotVars, dbVars, hsVars, lineVars, last, fJob,
                 fSeq, fStatus, runs, ranArgs, signalled>>

CompleteSilently ==        \* the completion line is not written
  /\ FwAt("complete", "endstat")
  /\ fStatus' = "SUCCESS"
  /\ UNCHANGED <<hostVars, slotVars, dbVars, hsVars, lineVars, last, fJob, fSeq,
                 fKern, runs, ranArgs, signalled>>

MirrorSeqLatches ==        \* last_seq is taken from the doorbell after the job
  /\ FwAt("endseq", "poll")
  /\ hsSeq' = fSeq /\ last' = dbSeq
  /\ UNCHANGED <<hostVars, slotVars, dbVars, hsStatus, lineVars, fJob, fSeq,
                 fKern, fStatus, runs, ranArgs, signalled>>

\* vortex_cxl_firmware_loop reads doorbell->seq and compares it ...
Poll ==
  /\ FwAt("poll", "latch")
  /\ dbSeq # last
  /\ UNCHANGED <<hostVars, slotVars, dbVars, hsVars, lineVars, last, fJob,
                 fSeq, fKern, fStatus, runs, ranArgs, signalled>>

\* ... and reads it again to remember it.
Latch ==
  /\ FwAt("latch", "rjob")
  /\ last' = dbSeq
  /\ UNCHANGED <<hostVars, slotVars, dbVars, hsVars, lineVars, fJob, fSeq,
                 fKern, fStatus, runs, ranArgs, signalled>>

\* vortex_cxl_firmware_service_once copies the doorbell, job word first.
ReadJob ==
  /\ FwAt("rjob", "rseq")
  /\ fJob' = dbJob
  /\ UNCHANGED <<hostVars, slotVars, dbVars, hsVars, lineVars, last, fSeq,
                 fKern, fStatus, runs, ranArgs, signalled>>

ReadSeq ==
  /\ FwAt("rseq", "runstat")
  /\ fSeq' = dbSeq
  /\ UNCHANGED <<hostVars, slotVars, dbVars, hsVars, lineVars, last, fJob,
                 fKern, fStatus, runs, ranArgs, signalled>>

\* vortex_cxl_mirror_status publishes the status word, then seq: once with
\* RUNNING before the job ...
MirrorRunning ==
  /\ FwAt("runstat", "runseq")
  /\ hsStatus' = "RUNNING"
  /\ UNCHANGED <<hostVars, slotVars, dbVars, hsSeq, lineVars, last, fJob, fSeq,
                 fKern, fStatus, runs, ranArgs, signalled>>

MirrorRunningSeq ==
  /\ FwAt("runseq", "check")
  /\ hsSeq' = fSeq
  /\ UNCHANGED <<hostVars, slotVars, dbVars, hsStatus, lineVars, last, fJob,
                 fSeq, fKern, fStatus, runs, ranArgs, signalled>>

\* vortex_cxl_checked_arg accepts the slot, and the job function is read.
CheckArg ==
  /\ FwAt("check", "call")
  /\ slotSeq[fJob] = fSeq
  /\ fKern' = slotKern[fJob]
  /\ UNCHANGED <<hostVars, slotVars, dbVars, hsVars, lineVars, last, fJob,
                 fSeq, fStatus, runs, ranArgs, signalled>>

\* It refuses the slot: the status says so, the completion line does not.
RejectArg ==
  /\ FwAt("check", "endstat")
  /\ slotSeq[fJob] # fSeq
  /\ fStatus' = "BAD_ARGS"
  /\ UNCHANGED <<hostVars, slotVars, dbVars, hsVars, lineVars, last, fJob,
                 fSeq, fKern, runs, ranArgs, signalled>>

SignalLine(l, r) ==
  /\ magic' = [magic EXCEPT ![l] = TRUE]
  /\ result' = [result EXCEPT ![l] = r]

\* The job runs.  A CALL kernel gets the completion address and may publish a
\* result of its own (named here by the payload it ran with).
RunJob ==
  /\ FwAt("call", "complete")
  /\ runs' = [runs EXCEPT ![fSeq] = @ + 1]
  /\ ranArgs' = [ranArgs EXCEPT ![fSeq] = @ \cup {fKern}]
  /\ \/ UNCHANGED <<signalled, lineVars>>
     \/ /\ SelfSignal /\ fJob = "CALL"
        /\ signalled' = signalled \cup {fSeq}
        /\ SignalLine(slotLine[fJob], fKern)
  /\ UNCHANGED <<hostVars, slotVars, dbVars, hsVars, last, fJob, fSeq, fKern,
                 fStatus>>

\* vortex_cxl_write_completion on the address the payload holds now.
Complete ==
  /\ FwAt("complete", "endstat")
  /\ SignalLine(slotLine[fJob], 0)
  /\ fStatus' = "SUCCESS"
  /\ UNCHANGED <<hostVars, slotVars, dbVars, hsVars, last, fJob, fSeq, fKern,
                 runs, ranArgs, signalled>>

\* ... and once with the job's status after it.
MirrorStatus ==
  /\ FwAt("endstat", "endseq")
  /\ hsStatus' = fStatus
  /\ UNCHANGED <<hostVars, slotVars, dbVars, hsSeq, lineVars, last, fJob, fSeq,
                 fKern, fStatus, runs, ranArgs, signalled>>

MirrorSeq ==
  /\ FwAt("endseq", "poll")
  /\ hsSeq' = fSeq
  /\ UNCHANGED <<hostVars, slotVars, dbVars, hsStatus, lineVars, last, fJob,
                 fSeq, fKern, fStatus, runs, ranArgs, signalled>>

-----------------------------------------------------------------------------

Store(h) ==
  \/ StoreKern(h) \/ StoreLine(h) \/ StoreHeader(h)
  \/ StoreDoorbellJob(h) \/ StoreDoorbellSeq(h)

Firmware ==
  \/ Poll \/ Latch \/ ReadJob \/ ReadSeq
  \/ MirrorRunning \/ MirrorRunningSeq
  \/ CheckArg \/ RejectArg \/ RunJob \/ Complete
  \/ MirrorStatus \/ MirrorSeq

Next ==
  \/ \E h \in Hosts, j \in JobIds, l \in Lines : Begin(h, j, l)
  \/ \E h \in Hosts : Store(h) \/ ReadStatus(h)
  \/ \E h \in Hosts, s \in Seqs : SeeSeq(h, s)
  \/ \E l \in Lines : AwaitDone(l) \/ AwaitTimeout(l)
  \/ Firmware

Spec == Init /\ [][Next]_vars

\* A thread in the middle of a submission goes on, the firmware loop runs, and
\* a client that waits on a line notices its magic word.
Fairness ==
  /\ \A h \in Hosts : WF_vars(Store(h)) /\ WF_vars(ReadStatus(h))
  /\ \A l \in Lines : WF_vars(AwaitDone(l))
  /\ WF_vars(Firmware)

FairSpec == Spec /\ Fairness

-----------------------------------------------------------------------------
(* Properties *)

\* The device runs a job with the arguments that were staged under the job's
\* own sequence number: no doorbell ever points at somebody else's payload
\* (cira_mmio.cpp, "the device can never observe a doorbell that points at a
\* half-written argument").
OwnArgs == \A s \in Seqs : ranArgs[s] \subseteq {s}

\* A committed doorbell is consumed once: polling and re-reading it never makes
\* the device run a submission a second time.
AtMostOnce == \A s \in Seqs : runs[s] <= 1

\* A client that waits on its completion line is not released before the device
\* has run its job, whatever is still written to a line that was reused.
NoEarlyCompletion ==
  \A l \in Lines : owner[l] # Nobody /\ magic[l] => runs[owner[l]] >= 1

\* While the device runs a job and completes it, the completion address in the
\* slot is a line the client of that very job still waits on: no completion
\* lands on a freed line or on another job's future.
LineStillOwned ==
  fpc \in {"call", "complete"} =>
    slotLine[fJob] \in Lines /\ owner[slotLine[fJob]] = fSeq

\* cira_mmio_wait_seq reports success only for a job the device has run,
\* although it reads seq and status separately.
VerdictSound == \A s \in Seqs : verdict[s] = "OK" => runs[s] >= 1

\* The sequence number in the host-status mirror never goes back, so a host
\* that saw its job done keeps seeing it.
MirrorMonotone == [][hsSeq' >= hsSeq]_vars

\* The doorbell is committed with increasing sequence numbers (cira_cxl_job.h,
\* "a doorbell with a monotonically increasing sequence number").
DoorbellMonotone == [][dbSeq' >= dbSeq]_vars

\* Whatever the threads do, the device runs a job under the number and the job
\* id it was submitted with: the slot header check catches a doorbell whose job
\* and seq words come from two submissions.
RunsRightJob == fpc \in {"call", "complete"} => <<fJob, fSeq>> \in staged

\* With one submitting thread a job may run with the payload of a later
\* submission of the same id, never with that of an earlier one.
ArgsNeverStale == \A s \in Seqs : \A k \in ranArgs[s] : k >= s

\* A wait_seq caller is never told EIO for a job that the device accepts.
NoFalseError == \A s \in Seqs : ~(verdict[s] = "EIO" /\ runs[s] > 0)

\* The result a kernel publishes on its completion line is the one its client
\* reads.
KernelResultDelivered == \A s \in signalled : got[s] \in {s, None}

\* A client reads a result only after the device has run its job
\* (CiraRuntime.h on cira_future_await, "Spins until magic == 0xDEADBEEF").
ResultAfterRun == \A s \in Seqs : got[s] # None => runs[s] >= 1

\* A later doorbell may hide an earlier one, but the last one is always seen:
\* the job of the last submission is run.
LastJobRuns == nextSeq > MaxSeq ~> runs[MaxSeq] >= 1

\* Every submission is run, completed and delivered to its client.
EveryJobCompletes == \A s \in Seqs : (nextSeq > s) ~> (got[s] # None)

\* The window implements the promise of OffloadJobs.
PhaseOf(s) ==
  IF s >= nextSeq THEN "new"
  ELSE IF got[s] # None THEN "delivered"
  ELSE IF runs[s] > 0 THEN "executed"
  ELSE "submitted"

Contract == INSTANCE OffloadJobs WITH Jobs <- Seqs,
                                      phase <- [s \in Seqs |-> PhaseOf(s)]

ContractSpec == Contract!Spec

=============================================================================
