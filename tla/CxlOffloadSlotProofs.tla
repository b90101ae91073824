------------------------ MODULE CxlOffloadSlotProofs ------------------------
(***************************************************************************)
(* What the slot header is for, without any discipline of the clients: any *)
(* number of threads may submit at once, kernels may signal, waits may     *)
(* give up.  The doorbell's words may then come from two submissions, but  *)
(* a job that runs is one that was staged, under its own number.  With one *)
(* submitting thread more holds: payloads and mirror never go back.        *)
(***************************************************************************)
EXTENDS CxlOffload, TLAPS

\* The threads that are in cira_mmio_submit_job stage real submissions.
Submitting ==
  /\ nextSeq \in Nat \ {0}
  /\ hpc \in [Hosts -> HostPC]
  /\ req \in [Hosts -> [id : JobIds, line : Lines \cup {NoLine}, seq : Nat]]
  /\ \A h \in Hosts : hpc[h] \notin {"idle", "seen"} => req[h].seq # 0

\* A header that is not zero belongs to a submission.
HeadersStaged ==
  /\ slotSeq \in [JobIds -> Nat]
  /\ \A j \in JobIds : slotSeq[j] # 0 => <<j, slotSeq[j]>> \in staged

\* The firmware takes up no doorbell before one has rung.
NeverZero ==
  /\ dbJob \in JobIds /\ fJob \in JobIds
  /\ dbSeq \in Nat /\ last \in Nat /\ fSeq \in Nat
  /\ fpc # "poll" \/ last # 0 => dbSeq # 0
  /\ fpc \in {"runstat", "runseq", "check", "call", "complete"} => fSeq # 0

SlotInv == Submitting /\ HeadersStaged /\ NeverZero /\ RunsRightJob

USE ConstantsOK
USE DEF Seqs, NoLine, Nobody, HostPC, FwPC

LEMMA SlotInit == ASSUME Leftover = 0, Init PROVE SlotInv
<1>1. dbJob \in JobIds
  BY DEF Init
<1>2. dbSeq = 0 /\ last = 0 /\ fSeq = 0 /\ slotSeq = [j \in JobIds |-> 0]
  BY DEF Init
<1> QED
  BY <1>1, <1>2 DEF Init, SlotInv, Submitting, HeadersStaged, NeverZero, RunsRightJob

\* The steps of the threads.
LEMMA HostStep ==
  ASSUME SlotInv, NEW h \in Hosts,
         Store(h) \/ ReadStatus(h)
           \/ (\E j \in JobIds, l \in Lines : Begin(h, j, l))
           \/ (\E s \in Seqs : SeeSeq(h, s))
  PROVE  SlotInv'
<1> USE DEF SlotInv, Submitting, HeadersStaged, NeverZero, RunsRightJob, HostAt,
            hostVars, slotVars, dbVars, hsVars, lineVars, fwVars
<1>1. ASSUME NEW j \in JobIds, NEW l \in Lines, Begin(h, j, l) PROVE SlotInv'
  <2>1. [id |-> j, line |-> l, seq |-> nextSeq]
          \in [id : JobIds, line : Lines \cup {NoLine}, seq : Nat]
    OBVIOUS
  <2> QED
    BY <1>1, <2>1 DEF Begin
<1>2. CASE StoreKern(h)
  BY <1>2 DEF StoreKern
<1>3. CASE StoreLine(h)
  BY <1>3 DEF StoreLine
<1>4. CASE StoreHeader(h)
  <2>1. req[h].id \in JobIds /\ req[h].seq \in Nat \ {0}
    BY <1>4 DEF StoreHeader
  <2>2. slotSeq' = [slotSeq EXCEPT ![req[h].id] = req[h].seq]
    BY <1>4 DEF StoreHeader
  <2>3. staged \subseteq staged' /\ <<req[h].id, req[h].seq>> \in staged'
    BY <1>4 DEF StoreHeader
  <2>4. HeadersStaged'
    BY <2>1, <2>2, <2>3
  <2>5. Submitting'
    BY <1>4 DEF StoreHeader
  <2>6. NeverZero' /\ RunsRightJob'
    BY <1>4, <2>3 DEF StoreHeader
  <2> QED
    BY <2>4, <2>5, <2>6
<1>5. CASE StoreDoorbellJob(h)
  BY <1>5 DEF StoreDoorbellJob
<1>6. CASE StoreDoorbellSeq(h)
  BY <1>6 DEF StoreDoorbellSeq
<1>7. CASE ReadStatus(h)
  BY <1>7 DEF ReadStatus
<1>8. ASSUME NEW s \in Seqs, SeeSeq(h, s) PROVE SlotInv'
  BY <1>8 DEF SeeSeq
<1> QED
  BY <1>1, <1>2, <1>3, <1>4, <1>5, <1>6, <1>7, <1>8 DEF Store

\* The steps of the firmware: only CheckArg lets a job run, and it has compared
\* the header.
LEMMA FirmwareStep == ASSUME SlotInv, Firmware PROVE SlotInv'
<1> USE DEF SlotInv, Submitting, HeadersStaged, NeverZero, RunsRightJob, FwAt,
            hostVars, slotVars, dbVars, hsVars, lineVars, fwVars
<1>1. CASE Poll
  BY <1>1 DEF Poll
<1>2. CASE Latch
  BY <1>2 DEF Latch
<1>3. CASE ReadJob
  BY <1>3 DEF ReadJob
<1>4. CASE ReadSeq
  BY <1>4 DEF ReadSeq
<1>5. CASE MirrorRunning
  BY <1>5 DEF MirrorRunning
<1>6. CASE MirrorRunningSeq
  BY <1>6 DEF MirrorRunningSeq
<1>7. CASE CheckArg
  BY <1>7 DEF CheckArg
<1>8. CASE RejectArg
  BY <1>8 DEF RejectArg
<1>9. CASE RunJob
  BY <1>9 DEF RunJob
<1>10. CASE Complete
  BY <1>10 DEF Complete
<1>11. CASE MirrorStatus
  BY <1>11 DEF MirrorStatus
<1>12. CASE MirrorSeq
  BY <1>12 DEF MirrorSeq
<1> QED
  BY <1>1, <1>2, <1>3, <1>4, <1>5, <1>6, <1>7, <1>8, <1>9, <1>10, <1>11, <1>12
     DEF Firmware

\* Any step, a client's read of its line and a stutter among them.
LEMMA SlotNext == ASSUME SlotInv, [Next]_vars PROVE SlotInv'
<1>1. ASSUME NEW l \in Lines, AwaitDone(l) \/ AwaitTimeout(l) PROVE SlotInv'
  BY <1>1 DEF AwaitDone, AwaitTimeout, SlotInv, Submitting, HeadersStaged,
     NeverZero, RunsRightJob, slotVars, dbVars, fwVars
<1>2. CASE UNCHANGED vars
  BY <1>2 DEF vars, hostVars, slotVars, dbVars, fwVars, SlotInv, Submitting,
     HeadersStaged, NeverZero, RunsRightJob
<1> QED
  BY <1>1, <1>2, HostStep, FirmwareStep DEF Next

\* Whatever the threads do, the device runs a job under the number and the id
\* it was staged with (the header check of vortex_cxl_checked_arg).
THEOREM HeaderCheckSuffices ==
  ASSUME Leftover = 0 PROVE Spec => []RunsRightJob
<1>1. Init => SlotInv
  BY SlotInit
<1>2. SlotInv /\ [Next]_vars => SlotInv'
  BY SlotNext
<1>3. SlotInv => RunsRightJob
  BY DEF SlotInv
<1> QED
  BY <1>1, <1>2, <1>3, PTL DEF Spec

-----------------------------------------------------------------------------
(* One thread submits, and does not wait for its jobs *)

OneSubmitter == \A g, h \in Hosts : g = h

Staging(h) == hpc[h] \notin {"idle", "seen"}

\* What a thread stages is the submission handed out last ...
LatestStaged ==
  /\ nextSeq \in Nat \ {0} /\ hpc \in [Hosts -> HostPC]
  /\ req \in [Hosts -> [id : JobIds, line : Lines \cup {NoLine}, seq : Nat]]
  /\ \A h \in Hosts : Staging(h) => req[h].seq = nextSeq - 1

\* ... and the number goes from there to the doorbell, the firmware and the mirror.
NumbersFollow ==
  /\ dbSeq \in Nat /\ fSeq \in Nat /\ hsSeq \in Nat
  /\ hsSeq <= fSeq /\ fSeq <= dbSeq /\ dbSeq < nextSeq

\* A slot's payload is not older than its header, and the payload that is about to
\* get its header is that of the submission.
PayloadAhead ==
  /\ slotKern \in [JobIds -> Nat] /\ slotSeq \in [JobIds -> Nat]
  /\ \A j \in JobIds : slotSeq[j] <= slotKern[j] /\ slotKern[j] < nextSeq
  /\ \A h \in Hosts : hpc[h] \in {"line", "head"} => slotKern[req[h].id] = req[h].seq

\* A job that has passed the check has the payload that was in its slot.
NotStale ==
  /\ fJob \in JobIds /\ dbJob \in JobIds /\ fKern \in Nat
  /\ fpc = "call" => fSeq <= fKern
  /\ ranArgs \in [Seqs -> SUBSET Nat] /\ ArgsNeverStale

PipeInv == LatestStaged /\ NumbersFollow /\ PayloadAhead /\ NotStale

LEMMA PipeInit == ASSUME Leftover = 0, Init PROVE PipeInv
<1>1. dbJob \in JobIds
  BY DEF Init
<1>2. dbSeq = 0 /\ fSeq = 0 /\ hsSeq = 0 /\ slotSeq = [j \in JobIds |-> 0]
  BY DEF Init
<1> QED
  BY <1>1, <1>2 DEF Init, PipeInv, LatestStaged, Staging, NumbersFollow, PayloadAhead, NotStale,
     ArgsNeverStale

LEMMA PipeHostStep ==
  ASSUME OneSubmitter, PipeInv, NEW h \in Hosts,
         Store(h) \/ ReadStatus(h)
           \/ (\E j \in JobIds, l \in Lines : Begin(h, j, l))
           \/ (\E s \in Seqs : SeeSeq(h, s))
  PROVE  PipeInv' /\ hsSeq' >= hsSeq
<1> DEFINE OrderInv == LatestStaged /\ NumbersFollow /\ PayloadAhead
<1> USE DEF Staging, HostAt
<1>1. \A g \in Hosts : g = h
  BY DEF OneSubmitter
<1>2. LatestStaged /\ NumbersFollow /\ PayloadAhead /\ NotStale
  BY DEF PipeInv
<1>3. ASSUME NEW j \in JobIds, NEW l \in Lines, Begin(h, j, l) PROVE OrderInv'
  <2>1. [id |-> j, line |-> l, seq |-> nextSeq]
          \in [id : JobIds, line : Lines \cup {NoLine}, seq : Nat]
    BY <1>2 DEF LatestStaged
  <2>2. LatestStaged'
    BY <1>1, <1>2, <1>3, <2>1 DEF Begin, LatestStaged
  <2>3. NumbersFollow'
    BY <1>2, <1>3 DEF Begin, NumbersFollow, LatestStaged, dbVars, hsVars, fwVars
  <2>4. hpc'[h] = "kern"
    BY <1>2, <1>3 DEF Begin, LatestStaged
  <2>5. PayloadAhead'
    BY <1>1, <1>2, <1>3, <2>4 DEF Begin, PayloadAhead, LatestStaged, slotVars
  <2> QED
    BY <2>2, <2>3, <2>5
<1>4. ASSUME Store(h) \/ ReadStatus(h) \/ \E s \in Seqs : SeeSeq(h, s) PROVE LatestStaged'
  BY <1>2, <1>4 DEF Store, StoreKern, StoreLine, StoreHeader, StoreDoorbellJob, StoreDoorbellSeq,
     ReadStatus, SeeSeq, LatestStaged
<1>5. ASSUME StoreKern(h) \/ StoreLine(h) \/ StoreHeader(h) PROVE NumbersFollow'
  BY <1>2, <1>5 DEF StoreKern, StoreLine, StoreHeader, NumbersFollow, dbVars, hsVars, fwVars
<1>6. ASSUME StoreKern(h) PROVE OrderInv'
  <2>1. req[h].id \in JobIds /\ req[h].seq = nextSeq - 1
    BY <1>2, <1>6 DEF StoreKern, LatestStaged
  <2>2. PayloadAhead'
    BY <1>1, <1>2, <1>6, <2>1 DEF StoreKern, PayloadAhead, LatestStaged
  <2> QED
    BY <1>4, <1>5, <1>6, <2>2 DEF Store
<1>7. ASSUME StoreLine(h) PROVE OrderInv'
  <2>1. PayloadAhead'
    BY <1>1, <1>2, <1>7 DEF StoreLine, PayloadAhead, LatestStaged
  <2> QED
    BY <1>4, <1>5, <1>7, <2>1 DEF Store
<1>8. ASSUME StoreHeader(h) PROVE OrderInv'
  <2>1. req[h].id \in JobIds /\ slotKern[req[h].id] = req[h].seq
    BY <1>2, <1>8 DEF StoreHeader, LatestStaged, PayloadAhead
  <2>2. hpc'[h] = "dbjob"
    BY <1>2, <1>8 DEF StoreHeader, LatestStaged
  <2>3. PayloadAhead'
    BY <1>1, <1>2, <1>8, <2>1, <2>2 DEF StoreHeader, PayloadAhead, LatestStaged
  <2> QED
    BY <1>4, <1>5, <1>8, <2>3 DEF Store
<1>9. ASSUME StoreDoorbellJob(h) \/ StoreDoorbellSeq(h) \/ ReadStatus(h)
               \/ \E s \in Seqs : SeeSeq(h, s)
      PROVE  PayloadAhead'
  <2>1. hpc'[h] \notin {"line", "head"} /\ UNCHANGED <<slotKern, slotSeq, nextSeq>>
    BY <1>2, <1>9 DEF StoreDoorbellJob, StoreDoorbellSeq, ReadStatus, SeeSeq, LatestStaged, slotVars
  <2> QED
    BY <1>1, <1>2, <2>1 DEF PayloadAhead
<1>10. ASSUME StoreDoorbellJob(h) \/ ReadStatus(h) \/ \E s \in Seqs : SeeSeq(h, s)
       PROVE  OrderInv'
  <2>1. NumbersFollow'
    BY <1>2, <1>10 DEF StoreDoorbellJob, ReadStatus, SeeSeq, NumbersFollow, dbVars, hsVars, fwVars
  <2> QED
    BY <1>4, <1>9, <1>10, <2>1 DEF Store
<1>11. ASSUME StoreDoorbellSeq(h) PROVE OrderInv'
  <2>1. req[h].seq = nextSeq - 1
    BY <1>2, <1>11 DEF StoreDoorbellSeq, LatestStaged
  <2>2. NumbersFollow'
    BY <1>2, <1>11, <2>1 DEF StoreDoorbellSeq, NumbersFollow, LatestStaged, hsVars, fwVars
  <2> QED
    BY <1>4, <1>9, <1>11, <2>2 DEF Store
<1>12. OrderInv'
  BY <1>3, <1>6, <1>7, <1>8, <1>10, <1>11 DEF Store
<1>13. UNCHANGED <<hsSeq, fpc, fJob, fSeq, fKern, ranArgs>>
  BY DEF Store, StoreKern, StoreLine, StoreHeader, StoreDoorbellJob, StoreDoorbellSeq, ReadStatus,
     SeeSeq, Begin, hsVars, fwVars
<1>14. dbJob' \in JobIds
  BY <1>2 DEF Store, StoreKern, StoreLine, StoreHeader, StoreDoorbellJob, StoreDoorbellSeq, ReadStatus,
     SeeSeq, Begin, dbVars, LatestStaged, NotStale
<1>15. NotStale'
  BY <1>2, <1>13, <1>14 DEF NotStale, ArgsNeverStale
<1> QED
  BY <1>2, <1>12, <1>13, <1>15 DEF PipeInv, NumbersFollow

LEMMA PipeFirmwareStep == ASSUME PipeInv, Firmware PROVE PipeInv' /\ hsSeq' >= hsSeq
<1> USE DEF PipeInv, LatestStaged, Staging, NumbersFollow, PayloadAhead, NotStale, ArgsNeverStale,
            FwAt, hostVars, slotVars, dbVars, hsVars, lineVars, fwVars
<1>1. CASE Poll
  BY <1>1 DEF Poll
<1>2. CASE Latch
  BY <1>2 DEF Latch
<1>3. CASE ReadJob
  BY <1>3 DEF ReadJob
<1>4. CASE ReadSeq
  BY <1>4 DEF ReadSeq
<1>5. CASE MirrorRunning
  BY <1>5 DEF MirrorRunning
<1>6. CASE MirrorRunningSeq
  BY <1>6 DEF MirrorRunningSeq
<1>7. CASE CheckArg
  BY <1>7 DEF CheckArg
<1>8. CASE RejectArg
  BY <1>8 DEF RejectArg
<1>9. CASE RunJob
  <2>1. fSeq <= fKern /\ fpc' = "complete"
    BY <1>9 DEF RunJob
  <2>2. ranArgs' = [ranArgs EXCEPT ![fSeq] = @ \cup {fKern}]
    BY <1>9 DEF RunJob
  <2>3. ranArgs' \in [Seqs -> SUBSET Nat] /\ ArgsNeverStale'
    BY <2>1, <2>2
  <2> QED
    BY <1>9, <2>1, <2>3 DEF RunJob
<1>10. CASE Complete
  BY <1>10 DEF Complete
<1>11. CASE MirrorStatus
  BY <1>11 DEF MirrorStatus
<1>12. CASE MirrorSeq
  BY <1>12 DEF MirrorSeq
<1> QED
  BY <1>1, <1>2, <1>3, <1>4, <1>5, <1>6, <1>7, <1>8, <1>9, <1>10, <1>11, <1>12
     DEF Firmware

LEMMA PipeNext == ASSUME OneSubmitter, PipeInv, [Next]_vars PROVE PipeInv' /\ hsSeq' >= hsSeq
<1> USE DEF PipeInv, LatestStaged, Staging, NumbersFollow, PayloadAhead, NotStale, ArgsNeverStale,
            hostVars, slotVars, dbVars, hsVars, fwVars
<1>1. ASSUME NEW l \in Lines, AwaitDone(l) \/ AwaitTimeout(l) PROVE PipeInv' /\ hsSeq' >= hsSeq
  <2>1. UNCHANGED <<nextSeq, hpc, req, slotVars, dbVars, hsVars, fwVars>>
    BY <1>1 DEF AwaitDone, AwaitTimeout
  <2> QED
    BY <2>1
<1>2. CASE UNCHANGED vars
  BY <1>2 DEF vars
<1> QED
  BY <1>1, <1>2, PipeHostStep, PipeFirmwareStep DEF Next

\* A thread that submits without waiting may have a job run with the payload of its
\* next one, never with an older: cira_mmio_submit_job stores the header last.
THEOREM PayloadsNotStale ==
  ASSUME Leftover = 0, OneSubmitter PROVE Spec => []ArgsNeverStale
<1>1. Init => PipeInv
  BY PipeInit
<1>2. PipeInv /\ [Next]_vars => PipeInv'
  BY PipeNext
<1>3. PipeInv => ArgsNeverStale
  BY DEF PipeInv, NotStale
<1> QED
  BY <1>1, <1>2, <1>3, PTL DEF Spec

\* The mirror does not go back, however many jobs are on their way and whatever the
\* kernels signal.
THEOREM MirrorGoesForward ==
  ASSUME Leftover = 0, OneSubmitter PROVE Spec => MirrorMonotone
<1>1. Init => PipeInv
  BY PipeInit
<1>2. PipeInv /\ [Next]_vars => PipeInv'
  BY PipeNext
<1>3. PipeInv /\ [Next]_vars => [hsSeq' >= hsSeq]_vars
  BY PipeNext
<1> QED
  BY <1>1, <1>2, <1>3, PTL DEF Spec, MirrorMonotone
=============================================================================
