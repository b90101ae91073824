-------------------------- MODULE CxlOffloadProofs --------------------------
(***************************************************************************)
(* Proofs about the control window under the turn-taking discipline, for   *)
(* any number of threads, completion lines, job ids and submissions.       *)
(***************************************************************************)
EXTENDS CxlOffloadTurns, TLAPS

USE ConstantsOK, TurnTaking
USE DEF Seqs, Nobody, NoLine, None, JobId, JobStatus, HostPC, FwPC

\* The initial window satisfies every invariant below.
LEMMA InitIInv == Init => IInv
<1> SUFFICES ASSUME Init PROVE IInv
  OBVIOUS
<1> USE DEF Init
<1>1. dbJob \in JobIds
  OBVIOUS
<1>2. dbSeq = 0 /\ hsSeq = 0 /\ last = 0 /\ fSeq = 0
  OBVIOUS
<1>3. TypeOK
  BY <1>1, <1>2 DEF TypeOK
<1>4. ~Staging /\ ~Pending /\ cur = 0
  BY DEF Staging, Pending, Busy, cur
<1> QED
  BY <1>1, <1>2, <1>3, <1>4 DEF IInv, OneAtATime, StagedSoFar, Committed,
     DeviceBehind, RunSoFar, Mirrored, Delivered, Busy, Resting

(***************************************************************************)
(* While the firmware works on a job, the job is the latest submission,    *)
(* nobody stages, and the slot it looks at is that submission's.           *)
(***************************************************************************)
LEMMA BusyDevice ==
  ASSUME IInv, ~Resting
  PROVE  /\ cur \in Seqs
         /\ Pending /\ ~Staging /\ dbSeq = cur
         /\ fpc \notin {"latch", "rjob", "rseq"} =>
              /\ fSeq = cur /\ fSeq \in Seqs /\ fJob = dbJob
              /\ slotKern[fJob] = cur /\ slotSeq[fJob] = cur
              /\ slotLine[fJob] \in Lines /\ owner[slotLine[fJob]] = cur
<1>1. Pending /\ ~Staging /\ dbSeq = cur
  BY DEF IInv, DeviceBehind
<1>2. cur \in Seqs
  BY <1>1 DEF IInv, TypeOK, OneAtATime, Pending, cur
<1>3. fpc \notin {"latch", "rjob", "rseq"} => fSeq = cur /\ fJob = dbJob
  BY DEF IInv, TypeOK, DeviceBehind, Resting
<1> QED
  BY <1>1, <1>2, <1>3 DEF IInv, Committed

(***************************************************************************)
(* Type correctness.  The firmware indexes the history with the sequence   *)
(* number it copied, so its range comes from the rest of the invariant.    *)
(***************************************************************************)
LEMMA TypeStep == ASSUME IInv, [Next]_vars PROVE TypeOK'
<1> USE DEF IInv, TypeOK, HostAt, FwAt, hostVars, slotVars, dbVars, hsVars,
           lineVars, fwVars
<1>1. ASSUME NEW h \in Hosts, NEW j \in JobIds, NEW l \in Lines, Begin(h, j, l)
      PROVE  TypeOK'
  <2>1. [id |-> j, line |-> l, seq |-> nextSeq]
          \in [id : JobIds, line : Lines \cup {NoLine}, seq : 0 .. MaxSeq]
    BY <1>1 DEF Begin
  <2>2. nextSeq' \in 1 .. MaxSeq + 1 /\ nextSeq \in 0 .. MaxSeq
    <3>1. nextSeq \in 1 .. MaxSeq + 1 /\ nextSeq <= MaxSeq /\ nextSeq' = nextSeq + 1
      BY <1>1 DEF Begin
    <3> HIDE DEF IInv, TypeOK
    <3> QED
      BY <3>1
  <2>3. /\ hpc' \in [Hosts -> HostPC]
        /\ req' \in [Hosts -> [id : JobIds, line : Lines \cup {NoLine}, seq : 0 .. MaxSeq]]
    BY <1>1, <2>1 DEF Begin
  <2>4. /\ owner' \in [Lines -> 0 .. MaxSeq] /\ result' \in [Lines -> 0 .. MaxSeq]
        /\ magic' \in [Lines -> BOOLEAN]
    BY <1>1, <2>2 DEF Begin
  <2> QED
    BY <1>1, <2>2, <2>3, <2>4 DEF Begin
<1>2. ASSUME NEW h \in Hosts, StoreKern(h) PROVE TypeOK'
  BY <1>2 DEF StoreKern
<1>3. ASSUME NEW h \in Hosts, StoreLine(h) PROVE TypeOK'
  BY <1>3 DEF StoreLine
<1>4. ASSUME NEW h \in Hosts, StoreHeader(h) PROVE TypeOK'
  <2>1. req[h].seq \in Seqs /\ req[h].id \in JobIds
    BY <1>4 DEF StoreHeader, StagedSoFar, Busy
  <2>2. req[h].seq \in Nat
    BY <2>1
  <2>3. slotSeq' = [slotSeq EXCEPT ![req[h].id] = req[h].seq]
    BY <1>4 DEF StoreHeader
  <2>4. slotSeq' \in [JobIds -> Nat]
    BY <2>1, <2>2, <2>3 DEF StoreHeader
  <2>5. staged' \subseteq JobIds \X Seqs
    <3>1. <<req[h].id, req[h].seq>> \in JobIds \X Seqs
      BY <2>1
    <3>2. staged' = staged \cup {<<req[h].id, req[h].seq>>}
      BY <1>4 DEF StoreHeader
    <3> QED
      BY <3>1, <3>2
  <2>6. hpc' \in [Hosts -> HostPC]
    BY <1>4 DEF StoreHeader
  <2> QED
    BY <1>4, <2>4, <2>5, <2>6 DEF StoreHeader
<1>5. ASSUME NEW h \in Hosts, StoreDoorbellJob(h) PROVE TypeOK'
  BY <1>5 DEF StoreDoorbellJob
<1>6. ASSUME NEW h \in Hosts, StoreDoorbellSeq(h) PROVE TypeOK'
  <2>1. req[h].seq \in Nat
    BY <1>6
  <2> QED
    BY <1>6, <2>1 DEF StoreDoorbellSeq
<1>7. ASSUME NEW h \in Hosts, ReadStatus(h) PROVE TypeOK'
  BY <1>7 DEF ReadStatus, Mirrored
<1>8. ASSUME NEW h \in Hosts, NEW s \in Seqs, SeeSeq(h, s) PROVE TypeOK'
  <2>1. s \in 0 .. MaxSeq
    BY <1>8
  <2> QED
    BY <1>8, <2>1 DEF SeeSeq
<1>9. ASSUME NEW l \in Lines, AwaitDone(l) PROVE TypeOK'
  <2>1. owner[l] \in Seqs /\ result[l] \in 0 .. MaxSeq + 1
    BY <1>9 DEF AwaitDone, Outstanding
  <2>2. got' \in [Seqs -> 0 .. None] /\ owner' \in [Lines -> 0 .. MaxSeq]
    BY <1>9, <2>1 DEF AwaitDone
  <2> QED
    BY <1>9, <2>2 DEF AwaitDone
<1>10. ASSUME NEW l \in Lines, AwaitTimeout(l) PROVE TypeOK'
  BY <1>10 DEF AwaitTimeout
<1>11. CASE Poll
  BY <1>11 DEF Poll
<1>12. CASE Latch
  BY <1>12 DEF Latch
<1>13. CASE ReadJob
  BY <1>13 DEF ReadJob
<1>14. CASE ReadSeq
  BY <1>14 DEF ReadSeq
<1>15. CASE MirrorRunning
  BY <1>15 DEF MirrorRunning
<1>16. CASE MirrorRunningSeq
  BY <1>16 DEF MirrorRunningSeq
<1>17. CASE CheckArg
  BY <1>17 DEF CheckArg
<1>18. CASE RejectArg
  BY <1>18 DEF RejectArg
<1>19. CASE RunJob
  <2>1. fSeq \in Seqs
    BY <1>19, BusyDevice DEF RunJob, Resting
  <2>2. runs[fSeq] + 1 \in Nat /\ ranArgs[fSeq] \cup {fKern} \in SUBSET (0 .. MaxSeq)
    BY <2>1
  <2>3. UNCHANGED <<signalled, lineVars>>
    BY <1>19 DEF RunJob
  <2> QED
    BY <1>19, <2>1, <2>2, <2>3 DEF RunJob
<1>20. CASE Complete
  <2>1. slotLine[fJob] \in Lines
    BY <1>20, BusyDevice DEF Complete, Resting
  <2>2. magic' \in [Lines -> BOOLEAN] /\ result' \in [Lines -> 0 .. MaxSeq]
    BY <1>20, <2>1 DEF Complete, SignalLine
  <2> QED
    BY <1>20, <2>2 DEF Complete
<1>21. CASE MirrorStatus
  BY <1>21 DEF MirrorStatus
<1>22. CASE MirrorSeq
  BY <1>22 DEF MirrorSeq
<1>23. CASE UNCHANGED vars
  BY <1>23 DEF vars
<1> QED
  BY <1>1, <1>2, <1>3, <1>4, <1>5, <1>6, <1>7, <1>8, <1>9, <1>10, <1>11, <1>12,
     <1>13, <1>14, <1>15, <1>16, <1>17, <1>18, <1>19, <1>20, <1>21, <1>22, <1>23
     DEF Next, Store, Firmware

\* A thread that stages has a line armed that nobody has completed.
LEMMA StagingIsPending == IInv /\ Staging => Pending
BY DEF IInv, TypeOK, Staging, Pending, StagedSoFar

(***************************************************************************)
(* What a step leaves alone: the firmware does not move the host's side of *)
(* the protocol, and reading the mirror does not either.                   *)
(***************************************************************************)
LEMMA HostFrame ==
  ASSUME UNCHANGED <<nextSeq, hpc, owner, magic>>
  PROVE  cur' = cur /\ (Staging' <=> Staging) /\ (Pending' <=> Pending)
BY DEF cur, Staging, Pending, Busy

(***************************************************************************)
(* The rest of IInv is preserved by each step of the firmware ...          *)
(***************************************************************************)
LEMMA FirmwareStep == ASSUME IInv, Firmware PROVE IInv'
<1> USE DEF FwAt, hostVars, slotVars, dbVars, hsVars, lineVars, fwVars
<1>0. TypeOK'
  BY TypeStep DEF Next
<1>1. CASE Poll
  <2>1. cur' = cur /\ (Staging' <=> Staging) /\ (Pending' <=> Pending)
    BY <1>1, HostFrame DEF Poll
  <2>2. OneAtATime' /\ StagedSoFar' /\ Committed' /\ Delivered'
    BY <1>1, <2>1 DEF Poll, IInv, OneAtATime, StagedSoFar, Committed, Delivered, Busy
  <2>3. ~Staging /\ Pending /\ last = cur - 1
    BY <1>1, StagingIsPending DEF Poll, IInv, TypeOK, DeviceBehind, Resting
  <2>4. DeviceBehind'
    BY <1>1, <2>1, <2>3 DEF Poll, IInv, TypeOK, DeviceBehind, Resting
  <2>5. RunSoFar'
    BY <1>1, <2>1 DEF Poll, IInv, RunSoFar
  <2>6. Mirrored'
    BY <1>1, <2>1, BusyDevice DEF Poll, IInv, TypeOK, Mirrored, DeviceBehind, RunSoFar, Resting
  <2> QED
    BY <1>0, <2>2, <2>4, <2>5, <2>6 DEF IInv
<1>2. CASE Latch
  <2>1. cur' = cur /\ (Staging' <=> Staging) /\ (Pending' <=> Pending)
    BY <1>2, HostFrame DEF Latch
  <2>2. OneAtATime' /\ StagedSoFar' /\ Committed' /\ Delivered'
    BY <1>2, <2>1 DEF Latch, IInv, OneAtATime, StagedSoFar, Committed, Delivered, Busy
  <2>3. DeviceBehind'
    BY <1>2, <2>1, BusyDevice DEF Latch, IInv, TypeOK, DeviceBehind, Resting
  <2>4. RunSoFar'
    BY <1>2, <2>1 DEF Latch, IInv, RunSoFar
  <2>5. Mirrored'
    BY <1>2, <2>1, BusyDevice DEF Latch, IInv, TypeOK, Mirrored, DeviceBehind, RunSoFar, Resting
  <2> QED
    BY <1>0, <2>2, <2>3, <2>4, <2>5 DEF IInv
<1>3. CASE ReadJob
  <2>1. cur' = cur /\ (Staging' <=> Staging) /\ (Pending' <=> Pending)
    BY <1>3, HostFrame DEF ReadJob
  <2>2. OneAtATime' /\ StagedSoFar' /\ Committed' /\ Delivered'
    BY <1>3, <2>1 DEF ReadJob, IInv, OneAtATime, StagedSoFar, Committed, Delivered, Busy
  <2>3. DeviceBehind'
    BY <1>3, <2>1, BusyDevice DEF ReadJob, IInv, TypeOK, DeviceBehind, Resting
  <2>4. RunSoFar'
    BY <1>3, <2>1 DEF ReadJob, IInv, RunSoFar
  <2>5. Mirrored'
    BY <1>3, <2>1, BusyDevice DEF ReadJob, IInv, TypeOK, Mirrored, DeviceBehind, RunSoFar, Resting
  <2> QED
    BY <1>0, <2>2, <2>3, <2>4, <2>5 DEF IInv
<1>4. CASE ReadSeq
  <2>1. cur' = cur /\ (Staging' <=> Staging) /\ (Pending' <=> Pending)
    BY <1>4, HostFrame DEF ReadSeq
  <2>2. OneAtATime' /\ StagedSoFar' /\ Committed' /\ Delivered'
    BY <1>4, <2>1 DEF ReadSeq, IInv, OneAtATime, StagedSoFar, Committed, Delivered, Busy
  <2>3. DeviceBehind'
    BY <1>4, <2>1, BusyDevice DEF ReadSeq, IInv, TypeOK, DeviceBehind, Resting
  <2>4. RunSoFar'
    BY <1>4, <2>1 DEF ReadSeq, IInv, RunSoFar
  <2>5. Mirrored'
    BY <1>4, <2>1, BusyDevice DEF ReadSeq, IInv, TypeOK, Mirrored, DeviceBehind, RunSoFar, Resting
  <2> QED
    BY <1>0, <2>2, <2>3, <2>4, <2>5 DEF IInv
<1>5. CASE MirrorRunning
  <2>1. cur' = cur /\ (Staging' <=> Staging) /\ (Pending' <=> Pending)
    BY <1>5, HostFrame DEF MirrorRunning
  <2>2. OneAtATime' /\ StagedSoFar' /\ Committed' /\ Delivered'
    BY <1>5, <2>1 DEF MirrorRunning, IInv, OneAtATime, StagedSoFar, Committed, Delivered, Busy
  <2>3. DeviceBehind'
    BY <1>5, <2>1, BusyDevice DEF MirrorRunning, IInv, TypeOK, DeviceBehind, Resting
  <2>4. RunSoFar'
    BY <1>5, <2>1 DEF MirrorRunning, IInv, RunSoFar
  <2>5. Mirrored'
    BY <1>5, <2>1, BusyDevice DEF MirrorRunning, IInv, TypeOK, Mirrored, DeviceBehind, RunSoFar, Resting
  <2> QED
    BY <1>0, <2>2, <2>3, <2>4, <2>5 DEF IInv
<1>6. CASE MirrorRunningSeq
  <2>1. cur' = cur /\ (Staging' <=> Staging) /\ (Pending' <=> Pending)
    BY <1>6, HostFrame DEF MirrorRunningSeq
  <2>2. OneAtATime' /\ StagedSoFar' /\ Committed' /\ Delivered'
    BY <1>6, <2>1 DEF MirrorRunningSeq, IInv, OneAtATime, StagedSoFar, Committed, Delivered, Busy
  <2>3. DeviceBehind'
    BY <1>6, <2>1, BusyDevice DEF MirrorRunningSeq, IInv, TypeOK, DeviceBehind, Resting
  <2>4. RunSoFar'
    BY <1>6, <2>1 DEF MirrorRunningSeq, IInv, RunSoFar
  <2>5. Mirrored'
    BY <1>6, <2>1, BusyDevice DEF MirrorRunningSeq, IInv, TypeOK, Mirrored, DeviceBehind, RunSoFar, Resting
  <2> QED
    BY <1>0, <2>2, <2>3, <2>4, <2>5 DEF IInv
<1>7. CASE CheckArg
  <2>1. cur' = cur /\ (Staging' <=> Staging) /\ (Pending' <=> Pending)
    BY <1>7, HostFrame DEF CheckArg
  <2>2. OneAtATime' /\ StagedSoFar' /\ Committed' /\ Delivered'
    BY <1>7, <2>1 DEF CheckArg, IInv, OneAtATime, StagedSoFar, Committed, Delivered, Busy
  <2>3. DeviceBehind'
    BY <1>7, <2>1, BusyDevice DEF CheckArg, IInv, TypeOK, DeviceBehind, Resting
  <2>4. RunSoFar'
    BY <1>7, <2>1 DEF CheckArg, IInv, RunSoFar
  <2>5. Mirrored'
    BY <1>7, <2>1, BusyDevice DEF CheckArg, IInv, TypeOK, Mirrored, DeviceBehind, RunSoFar, Resting
  <2> QED
    BY <1>0, <2>2, <2>3, <2>4, <2>5 DEF IInv
<1>8. CASE MirrorStatus
  <2>1. cur' = cur /\ (Staging' <=> Staging) /\ (Pending' <=> Pending)
    BY <1>8, HostFrame DEF MirrorStatus
  <2>2. OneAtATime' /\ StagedSoFar' /\ Committed' /\ Delivered'
    BY <1>8, <2>1 DEF MirrorStatus, IInv, OneAtATime, StagedSoFar, Committed, Delivered, Busy
  <2>3. DeviceBehind'
    BY <1>8, <2>1, BusyDevice DEF MirrorStatus, IInv, TypeOK, DeviceBehind, Resting
  <2>4. RunSoFar'
    BY <1>8, <2>1 DEF MirrorStatus, IInv, RunSoFar
  <2>5. Mirrored'
    BY <1>8, <2>1, BusyDevice DEF MirrorStatus, IInv, TypeOK, Mirrored, DeviceBehind, RunSoFar, Resting
  <2> QED
    BY <1>0, <2>2, <2>3, <2>4, <2>5 DEF IInv
<1>9. CASE MirrorSeq
  <2>1. cur' = cur /\ (Staging' <=> Staging) /\ (Pending' <=> Pending)
    BY <1>9, HostFrame DEF MirrorSeq
  <2>2. OneAtATime' /\ StagedSoFar' /\ Committed' /\ Delivered'
    BY <1>9, <2>1 DEF MirrorSeq, IInv, OneAtATime, StagedSoFar, Committed, Delivered, Busy
  <2>3. DeviceBehind'
    BY <1>9, <2>1, BusyDevice DEF MirrorSeq, IInv, TypeOK, DeviceBehind, Resting
  <2>4. RunSoFar'
    BY <1>9, <2>1 DEF MirrorSeq, IInv, RunSoFar
  <2>5. Mirrored'
    BY <1>9, <2>1, BusyDevice DEF MirrorSeq, IInv, TypeOK, Mirrored, DeviceBehind, RunSoFar, Resting
  <2> QED
    BY <1>0, <2>2, <2>3, <2>4, <2>5 DEF IInv
<1>10. CASE RejectArg
  BY <1>10, BusyDevice DEF RejectArg, Resting
<1>11. CASE RunJob
  <2>0. UNCHANGED <<signalled, lineVars>>
    BY <1>11 DEF RunJob
  <2>1. cur' = cur /\ (Staging' <=> Staging) /\ (Pending' <=> Pending)
    BY <1>11, <2>0, HostFrame DEF RunJob
  <2>2. OneAtATime' /\ StagedSoFar' /\ Committed' /\ Delivered'
    BY <1>11, <2>0, <2>1 DEF RunJob, IInv, OneAtATime, StagedSoFar, Committed, Delivered, Busy
  <2>3. DeviceBehind'
    BY <1>11, <2>1, BusyDevice DEF RunJob, IInv, TypeOK, DeviceBehind, Resting
  <2>4. Pending /\ fSeq = cur /\ fSeq \in Seqs /\ fKern = cur
    BY <1>11, BusyDevice DEF RunJob, IInv, DeviceBehind, Resting
  <2>5. runs[cur] = 0 /\ ranArgs[cur] = {}
    <3>1. fpc = "call" /\ RunSoFar
      BY <1>11 DEF RunJob, IInv
    <3>2. cur \in Seqs /\ ~(cur < cur)
      BY <2>4
    <3>3. runs[cur] = 0
      BY <2>4, <3>1, <3>2 DEF RunSoFar
    <3>4. ranArgs[cur] = IF runs[cur] = 1 THEN {cur} ELSE {}
      BY <3>1, <3>2 DEF RunSoFar
    <3> QED
      BY <3>3, <3>4
  <2>6. /\ runs' = [runs EXCEPT ![cur] = 1]
        /\ ranArgs' = [ranArgs EXCEPT ![cur] = {cur}]
        /\ cur' = cur /\ Pending' /\ fpc' = "complete" /\ fpc = "call"
    BY <1>11, <2>1, <2>4, <2>5 DEF RunJob, IInv, TypeOK
  <2>7. RunSoFar'
    <3> SUFFICES ASSUME NEW s \in Seqs
                 PROVE  /\ runs'[s] = IF s <= cur THEN 1 ELSE 0
                        /\ ranArgs'[s] = IF runs'[s] = 1 THEN {s} ELSE {}
      BY <2>6, <2>4 DEF RunSoFar
    <3>1. CASE s = cur
      BY <2>6, <3>1 DEF IInv, TypeOK
    <3>2. CASE s # cur
      BY <2>6, <2>4, <3>2 DEF IInv, TypeOK, RunSoFar
    <3> QED
      BY <3>1, <3>2
  <2>8. Mirrored'
    BY <1>11, <2>1, <2>4, <2>5, <2>7 DEF RunJob, IInv, TypeOK, Mirrored
  <2> QED
    BY <1>0, <2>2, <2>3, <2>7, <2>8 DEF IInv
<1>12. CASE Complete
  <2>1. /\ cur \in Seqs /\ Pending /\ ~Staging /\ fSeq = cur
        /\ slotLine[fJob] \in Lines /\ owner[slotLine[fJob]] = cur
    BY <1>12, BusyDevice DEF Complete, Resting
  <2>2. cur' = cur /\ ~Staging'
    BY <1>12, <2>1 DEF Complete, cur, Staging, Busy
  <2>3. ~Pending'
    BY <1>12, <2>1 DEF Complete, SignalLine, Pending, IInv, TypeOK, OneAtATime
  <2>4. OneAtATime' /\ StagedSoFar' /\ Committed' /\ Delivered'
    BY <1>12, <2>2, <2>3 DEF Complete, IInv, OneAtATime, StagedSoFar, Committed,
       Delivered, Busy, Staging
  <2>5. DeviceBehind'
    BY <1>12, <2>1, <2>2, <2>3 DEF Complete, IInv, TypeOK, DeviceBehind, Resting
  <2>6. RunSoFar'
    BY <1>12, <2>1, <2>2, <2>3 DEF Complete, IInv, RunSoFar
  <2>7. Mirrored'
    BY <1>12, <2>2 DEF Complete, IInv, TypeOK, Mirrored
  <2> QED
    BY <1>0, <2>4, <2>5, <2>6, <2>7 DEF IInv
<1> QED
  BY <1>1, <1>2, <1>3, <1>4, <1>5, <1>6, <1>7, <1>8, <1>9, <1>10, <1>11, <1>12
     DEF Firmware

(***************************************************************************)
(* ... by each store of a thread that stages a job ...                     *)
(***************************************************************************)
LEMMA StoreStep == ASSUME IInv, NEW h \in Hosts, Store(h) PROVE IInv'
<1> USE DEF HostAt, hostVars, slotVars, dbVars, hsVars, lineVars, fwVars
<1>1. TypeOK'
  BY TypeStep DEF Next
<1>2. /\ Busy(h) /\ Staging /\ Pending /\ Resting /\ cur \in Seqs
      /\ \A g \in Hosts : Busy(g) => g = h
      /\ cur' = cur /\ (Pending' <=> Pending)
  <2>1. Busy(h)
    BY DEF Store, StoreKern, StoreLine, StoreHeader, StoreDoorbellJob,
       StoreDoorbellSeq, Busy
  <2>2. Staging /\ cur \in Seqs /\ \A g \in Hosts : Busy(g) => g = h
    BY <2>1 DEF Staging, IInv, StagedSoFar, OneAtATime
  <2>3. Pending /\ Resting
    BY <2>2, StagingIsPending DEF IInv, DeviceBehind
  <2>4. UNCHANGED <<nextSeq, owner, magic>>
    BY DEF Store, StoreKern, StoreLine, StoreHeader, StoreDoorbellJob,
       StoreDoorbellSeq
  <2> QED
    BY <2>1, <2>2, <2>3, <2>4 DEF cur, Pending
<1>3. /\ UNCHANGED <<nextSeq, owner, magic, got, runs, ranArgs, fpc, last, hsSeq,
                     hsStatus, verdict, watch>>
  BY DEF Store, StoreKern, StoreLine, StoreHeader, StoreDoorbellJob,
     StoreDoorbellSeq
<1>4. /\ \A g \in Hosts : g # h => hpc'[g] = hpc[g]
      /\ hpc'[h] # "seen"
  BY DEF Store, StoreKern, StoreLine, StoreHeader, StoreDoorbellJob,
     StoreDoorbellSeq, IInv, TypeOK
<1>5. OneAtATime'
  <2>1. \A g \in Hosts : Busy(g)' => g = h
    BY <1>2, <1>4 DEF Busy
  <2> QED
    BY <1>2, <1>3, <2>1 DEF IInv, OneAtATime
<1>6. Delivered' /\ RunSoFar' /\ Mirrored'
  <2>1. Delivered' /\ RunSoFar'
    BY <1>2, <1>3 DEF IInv, Delivered, RunSoFar
  <2>2. Mirrored
    BY DEF IInv
  <2>3. ASSUME NEW g \in Hosts, hpc'[g] = "seen" PROVE hpc[g] = "seen"
    <3>1. g # h
      BY <1>4, <2>3
    <3> QED
      BY <1>4, <2>3, <3>1
  <2>4. /\ hsSeq' = hsSeq /\ hsStatus' = hsStatus /\ fpc' = fpc /\ last' = last
        /\ watch' = watch /\ verdict' = verdict /\ runs' = runs
    BY <1>3
  <2>5. Mirrored'
    BY <2>2, <2>3, <2>4 DEF Mirrored
  <2> QED
    BY <2>1, <2>5
<1>7. ASSUME StoreKern(h) \/ StoreLine(h) \/ StoreHeader(h) \/ StoreDoorbellJob(h)
      PROVE  StagedSoFar' /\ Committed' /\ DeviceBehind'
  <2>1. Staging'
    BY <1>7 DEF StoreKern, StoreLine, StoreHeader, StoreDoorbellJob, Staging, Busy, IInv, TypeOK
  <2>2. DeviceBehind'
    BY <1>2, <1>7, <2>1 DEF StoreKern, StoreLine, StoreHeader, StoreDoorbellJob,
       IInv, DeviceBehind, Resting
  <2>3. \A g \in Hosts : Busy(g)' => g = h
    BY <1>2, <1>7 DEF StoreKern, StoreLine, StoreHeader, StoreDoorbellJob, Busy, IInv, TypeOK
  <2>4. StagedSoFar'
    <3>1. /\ req[h].seq = cur /\ req[h].line \in Lines
          /\ owner[req[h].line] = cur /\ ~magic[req[h].line]
          /\ hpc[h] # "kern" => slotKern[req[h].id] = cur
          /\ hpc[h] \notin {"kern", "line"} => slotLine[req[h].id] = req[h].line
          /\ hpc[h] \in {"dbjob", "dbseq"} => slotSeq[req[h].id] = cur
      BY <1>2 DEF IInv, StagedSoFar
    <3>2. /\ hpc \in [Hosts -> HostPC] /\ req[h].id \in JobIds
          /\ slotKern \in [JobIds -> 0 .. MaxSeq]
          /\ slotLine \in [JobIds -> Lines \cup {NoLine}]
          /\ slotSeq \in [JobIds -> Nat]
      BY DEF IInv, TypeOK
    <3>3. req' = req /\ UNCHANGED <<owner, magic, nextSeq>>
      BY <1>7 DEF StoreKern, StoreLine, StoreHeader, StoreDoorbellJob
    <3> SUFFICES
          /\ hpc'[h] # "kern" => slotKern'[req[h].id] = cur
          /\ hpc'[h] \notin {"kern", "line"} => slotLine'[req[h].id] = req[h].line
          /\ hpc'[h] \in {"dbjob", "dbseq"} => slotSeq'[req[h].id] = cur
          /\ hpc'[h] = "dbseq" => dbJob' = req[h].id
      BY <1>2, <2>3, <3>1, <3>3 DEF StagedSoFar
    <3>4. CASE StoreKern(h)
      BY <3>1, <3>2, <3>4 DEF StoreKern
    <3>5. CASE StoreLine(h)
      BY <3>1, <3>2, <3>5 DEF StoreLine
    <3>6. CASE StoreHeader(h)
      BY <3>1, <3>2, <3>6 DEF StoreHeader
    <3>7. CASE StoreDoorbellJob(h)
      BY <3>1, <3>2, <3>7 DEF StoreDoorbellJob
    <3> QED
      BY <1>7, <3>4, <3>5, <3>6, <3>7
  <2> QED
    BY <2>1, <2>2, <2>4 DEF Committed
<1>8. ASSUME StoreDoorbellSeq(h)
      PROVE  StagedSoFar' /\ Committed' /\ DeviceBehind'
  <2>1. ~Staging' /\ \A g \in Hosts : ~Busy(g)'
    BY <1>2, <1>8 DEF StoreDoorbellSeq, Staging, Busy, IInv, TypeOK
  <2>2. dbSeq' = cur
    BY <1>2, <1>8 DEF StoreDoorbellSeq, IInv, StagedSoFar
  <2>3. DeviceBehind'
    BY <1>2, <1>8, <2>1, <2>2 DEF StoreDoorbellSeq, IInv, DeviceBehind, Resting
  <2>4. Committed'
    BY <1>2, <1>8 DEF StoreDoorbellSeq, IInv, StagedSoFar, Committed, Busy
  <2> QED
    BY <2>1, <2>3, <2>4 DEF StagedSoFar
<1> QED
  BY <1>1, <1>5, <1>6, <1>7, <1>8 DEF IInv, Store

(***************************************************************************)
(* ... and by each step of a client: arming a line for a new job ...       *)
(***************************************************************************)
LEMMA BeginStep ==
  ASSUME IInv, NEW h \in Hosts, NEW j \in JobIds, NEW l \in Lines, Begin(h, j, l)
  PROVE  IInv'
<1> USE DEF Begin, HostAt, hostVars, slotVars, dbVars, hsVars, lineVars, fwVars
<1>1. TypeOK'
  BY TypeStep DEF Next
<1>2. /\ \A m \in Lines : owner[m] = Nobody
      /\ \A g \in Hosts : ~Busy(g)
      /\ ~Pending /\ ~Staging /\ Resting
  BY DEF MaySubmit, Pending, Staging, Busy, IInv, DeviceBehind
<1>3. /\ cur' = nextSeq /\ cur = nextSeq - 1 /\ nextSeq \in Seqs
      /\ hpc'[h] = "kern" /\ \A g \in Hosts \ {h} : hpc'[g] = hpc[g]
      /\ owner'[l] = nextSeq /\ \A m \in Lines \ {l} : owner'[m] = Nobody
      /\ magic'[l] = FALSE
      /\ req'[h].seq = nextSeq /\ req'[h].line = l
  <2>1. /\ nextSeq \in 1 .. MaxSeq + 1
        /\ hpc \in [Hosts -> HostPC] /\ owner \in [Lines -> 0 .. MaxSeq]
        /\ magic \in [Lines -> BOOLEAN]
        /\ req \in [Hosts -> [id : JobIds, line : Lines \cup {NoLine}, seq : 0 .. MaxSeq]]
    BY DEF IInv, TypeOK
  <2>2. cur' = nextSeq /\ cur = nextSeq - 1 /\ nextSeq \in Seqs
    BY <2>1 DEF cur
  <2>3. hpc'[h] = "kern" /\ \A g \in Hosts \ {h} : hpc'[g] = hpc[g]
    BY <2>1
  <2>4. owner'[l] = nextSeq /\ \A m \in Lines \ {l} : owner'[m] = Nobody
    BY <1>2, <2>1
  <2>5. magic'[l] = FALSE
    BY <2>1
  <2>6. req'[h].seq = nextSeq /\ req'[h].line = l
    BY <2>1
  <2> QED
    BY <2>2, <2>3, <2>4, <2>5, <2>6
<1>4. Staging' /\ Pending' /\ Resting' /\ \A g \in Hosts : Busy(g)' <=> g = h
  BY <1>2, <1>3 DEF Staging, Pending, Resting, Busy
<1>5. OneAtATime'
  BY <1>3, <1>4 DEF OneAtATime
<1>6. StagedSoFar'
  BY <1>3, <1>4 DEF StagedSoFar
<1>7. Committed'
  BY <1>4 DEF Committed
<1>8. DeviceBehind'
  BY <1>2, <1>3, <1>4 DEF IInv, DeviceBehind, Resting
<1>9. RunSoFar'
  <2>1. RunSoFar /\ UNCHANGED <<runs, ranArgs, fpc>>
    BY DEF IInv
  <2> SUFFICES ASSUME NEW s \in Seqs
               PROVE  /\ runs[s] = IF s < nextSeq THEN 1 ELSE 0
                      /\ ranArgs[s] = IF runs[s] = 1 THEN {s} ELSE {}
    BY <1>2, <1>3, <1>4, <2>1 DEF RunSoFar, Resting
  <2>2. s < nextSeq <=> s < cur \/ s = cur
    BY <1>3
  <2> QED
    BY <1>2, <2>1, <2>2 DEF RunSoFar
<1>10. Mirrored'
  BY <1>3 DEF IInv, Mirrored
<1>11. Delivered'
  <2>1. \A s \in Seqs : got[s] = None <=> s > cur
    BY <1>2 DEF IInv, Delivered
  <2>2. \A s \in Seqs : (\E m \in Lines : owner'[m] = s) <=> s = nextSeq
    BY <1>3
  <2> QED
    BY <1>3, <2>1, <2>2 DEF Delivered
<1> QED
  BY <1>1, <1>5, <1>6, <1>7, <1>8, <1>9, <1>10, <1>11 DEF IInv

(***************************************************************************)
(* ... taking the completion of a line ...                                 *)
(***************************************************************************)
LEMMA AwaitStep == ASSUME IInv, NEW l \in Lines, AwaitDone(l) PROVE IInv'
<1> USE DEF AwaitDone, hostVars, slotVars, dbVars, hsVars, lineVars, fwVars
<1>1. TypeOK'
  BY TypeStep DEF Next
<1>2. /\ owner[l] = cur /\ cur \in Seqs /\ magic[l]
      /\ \A m \in Lines : owner[m] # Nobody => m = l
  BY DEF Outstanding, IInv, TypeOK, OneAtATime
<1>3. ~Pending /\ ~Staging
  BY <1>2 DEF Pending, Staging, Outstanding, Busy, IInv, StagedSoFar
<1>4. /\ cur' = cur /\ ~Staging'
      /\ \A m \in Lines : owner'[m] = Nobody
      /\ \A g \in Hosts : Busy(g)' <=> Busy(g)
  BY <1>2, <1>3 DEF cur, Staging, Busy, IInv, TypeOK
<1>5. ~Pending'
  BY <1>4 DEF Pending
<1>6. OneAtATime' /\ StagedSoFar' /\ Committed'
  BY <1>3, <1>4, <1>5 DEF OneAtATime, StagedSoFar, Committed, Staging
<1>7. DeviceBehind' /\ RunSoFar' /\ Mirrored'
  BY <1>3, <1>4, <1>5 DEF IInv, DeviceBehind, RunSoFar, Mirrored, Resting
<1>8. Delivered'
  <2>1. got' = [got EXCEPT ![cur] = result[l]] /\ result[l] # None
    BY <1>2 DEF IInv, TypeOK
  <2>2. \A s \in Seqs : (\E m \in Lines : owner[m] = s) <=> s = cur
    BY <1>2
  <2>3. \A s \in Seqs : got'[s] = None <=> s > cur
    BY <2>1, <2>2, <1>2 DEF IInv, TypeOK, Delivered
  <2> QED
    BY <2>3, <1>4 DEF Delivered
<1> QED
  BY <1>1, <1>6, <1>7, <1>8 DEF IInv

(***************************************************************************)
(* ... and looking at the mirror, seq first and then status.               *)
(***************************************************************************)
LEMMA MirrorReadStep ==
  ASSUME IInv, NEW h \in Hosts, ReadStatus(h) \/ \E s \in Seqs : SeeSeq(h, s)
  PROVE  IInv'
<1> USE DEF hostVars, slotVars, dbVars, hsVars, lineVars, fwVars
<1>1. TypeOK'
  BY TypeStep DEF Next
<1>2. /\ \A g \in Hosts : Busy(g)' <=> Busy(g)
      /\ \A g \in Hosts : Busy(g) => hpc'[g] = hpc[g]
      /\ UNCHANGED <<nextSeq, req, owner, staged, got, slotVars, dbVars, hsVars,
                     lineVars, fwVars>>
  BY DEF Busy, IInv, TypeOK, ReadStatus, SeeSeq, HostAt
<1>3. cur' = cur /\ (Staging' <=> Staging) /\ (Pending' <=> Pending)
  BY <1>2 DEF cur, Staging, Pending
<1>4. OneAtATime' /\ Committed' /\ Delivered'
  BY <1>2, <1>3 DEF IInv, OneAtATime, Committed, Delivered
<1>5. StagedSoFar'
  BY <1>2, <1>3 DEF IInv, StagedSoFar
<1>6. DeviceBehind' /\ RunSoFar'
  BY <1>2, <1>3 DEF IInv, DeviceBehind, RunSoFar, Resting
<1>7. /\ Mirrored /\ hpc \in [Hosts -> HostPC] /\ watch \in [Hosts -> 0 .. MaxSeq]
      /\ verdict \in [Seqs -> {"none", "OK", "EIO"}] /\ runs \in [Seqs -> Nat]
  BY DEF IInv, TypeOK
<1>8. CASE \E s \in Seqs : SeeSeq(h, s)
  <2>1. PICK s \in Seqs : /\ hpc' = [hpc EXCEPT ![h] = "seen"]
                          /\ watch' = [watch EXCEPT ![h] = s]
                          /\ hsSeq >= s
                          /\ UNCHANGED <<verdict, hsSeq, hsStatus, fpc, last, runs>>
    BY <1>8 DEF SeeSeq, HostAt
  <2>2. s <= hsSeq
    BY <2>1, <1>1, <1>2 DEF TypeOK
  <2>3. ASSUME NEW g \in Hosts, hpc'[g] = "seen"
        PROVE  watch'[g] \in Seqs /\ watch'[g] <= hsSeq
    BY <2>1, <2>2, <2>3, <1>7 DEF Mirrored
  <2>4. Mirrored'
    BY <2>1, <2>3, <1>7 DEF Mirrored
  <2> QED
    BY <1>1, <1>4, <1>5, <1>6, <2>4 DEF IInv
<1>9. CASE ReadStatus(h)
  <2>1. watch[h] \in Seqs /\ watch[h] <= hsSeq
    BY <1>9 DEF IInv, Mirrored, ReadStatus, HostAt
  <2>2. nextSeq \in Nat /\ last \in Nat /\ hsSeq \in Nat /\ fpc \in FwPC
    BY DEF IInv, TypeOK
  <2>3. hsStatus = "SUCCESS" => hsSeq < cur \/ (hsSeq = cur /\ ~Pending)
    <3>1. CASE fpc \in {"poll", "endseq"}
      BY <2>2, <3>1 DEF IInv, Mirrored, DeviceBehind, Resting, cur
    <3>2. CASE fpc \in {"latch", "rjob", "rseq", "runstat"}
      BY <2>2, <3>2 DEF IInv, Mirrored, DeviceBehind, Resting, cur
    <3>3. CASE fpc \in {"runseq", "check", "call", "complete", "endstat"}
      BY <3>3 DEF IInv, Mirrored
    <3> QED
      BY <2>2, <3>1, <3>2, <3>3
  <2>4. hsStatus = "SUCCESS" => runs[watch[h]] = 1
    <3>1. hsStatus = "SUCCESS" => watch[h] < cur \/ (watch[h] = cur /\ ~Pending)
      BY <2>1, <2>2, <2>3 DEF cur
    <3> QED
      BY <2>1, <3>1 DEF IInv, RunSoFar
  <2>5. /\ \A g \in Hosts : hpc'[g] = "seen" => hpc[g] = "seen"
        /\ verdict' = [verdict EXCEPT ![watch[h]] =
                         IF hsStatus = "SUCCESS" THEN "OK" ELSE "EIO"]
        /\ UNCHANGED <<watch, hsSeq, hsStatus, fpc, last, runs>>
    BY <1>9, <1>7 DEF ReadStatus, HostAt
  <2>6. \A s \in Seqs : verdict'[s] = "OK" => runs[s] = 1
    BY <2>1, <2>4, <2>5, <1>7 DEF Mirrored
  <2>7. Mirrored'
    BY <2>5, <2>6, <1>7 DEF Mirrored
  <2> QED
    BY <1>1, <1>4, <1>5, <1>6, <2>7 DEF IInv
<1> QED
  BY <1>8, <1>9

\* Every step keeps the invariant.
LEMMA IInvStep == IInv /\ [Next]_vars => IInv'
<1> SUFFICES ASSUME IInv, [Next]_vars PROVE IInv'
  OBVIOUS
<1>1. ASSUME NEW l \in Lines, AwaitTimeout(l) PROVE FALSE
  BY <1>1 DEF AwaitTimeout
<1>2. ASSUME UNCHANGED vars PROVE IInv'
  <2> USE <1>2 DEF vars, hostVars, slotVars, dbVars, hsVars, lineVars, fwVars
  <2>1. TypeOK'
    BY TypeStep
  <2>2. cur' = cur /\ (Staging' <=> Staging) /\ (Pending' <=> Pending)
    BY HostFrame
  <2>3. OneAtATime' /\ StagedSoFar' /\ Committed' /\ Delivered'
    BY <2>2 DEF IInv, OneAtATime, StagedSoFar, Committed, Delivered, Busy
  <2>4. DeviceBehind' /\ RunSoFar'
    BY <2>2 DEF IInv, DeviceBehind, RunSoFar, Resting
  <2>5. Mirrored'
    BY DEF IInv, Mirrored
  <2> QED
    BY <2>1, <2>3, <2>4, <2>5 DEF IInv
<1> QED
  BY <1>1, <1>2, BeginStep, StoreStep, AwaitStep, MirrorReadStep, FirmwareStep
     DEF Next

(***************************************************************************)
(* The protocol state is always the one IInv describes.                    *)
(***************************************************************************)
THEOREM Invariance == Spec => []IInv
BY InitIInv, IInvStep, PTL DEF Spec

\* The window's state stays well typed.
THEOREM TypeCorrect == Spec => []TypeOK
BY Invariance, PTL DEF IInv

(***************************************************************************)
(* A job runs with the payload staged under its own number, and only once. *)
(***************************************************************************)
THEOREM JobsKeepTheirArguments == Spec => []OwnArgs
<1>1. IInv => OwnArgs
  BY DEF IInv, RunSoFar, OwnArgs
<1> QED
  BY <1>1, Invariance, PTL

THEOREM JobsRunOnce == Spec => []AtMostOnce
<1>1. IInv => AtMostOnce
  <2> SUFFICES ASSUME IInv, NEW s \in Seqs PROVE runs[s] <= 1
    BY DEF AtMostOnce
  <2>1. runs[s] = 0 \/ runs[s] = 1
    BY DEF IInv, RunSoFar
  <2> QED
    BY <2>1
<1> QED
  BY <1>1, Invariance, PTL

(***************************************************************************)
(* A completion line is signalled only after its client's job has run ...  *)
(***************************************************************************)
THEOREM CompletionMeansRun == Spec => []NoEarlyCompletion
<1>1. ASSUME IInv PROVE NoEarlyCompletion
  <2> SUFFICES ASSUME NEW l \in Lines, owner[l] # Nobody, magic[l]
               PROVE  runs[owner[l]] >= 1
    BY DEF NoEarlyCompletion
  <2>1. owner[l] = cur /\ cur \in Seqs
    BY <1>1 DEF IInv, TypeOK, OneAtATime
  <2>2. ~Pending
    BY <1>1 DEF IInv, OneAtATime, Pending
  <2>3. runs[cur] = 1
    BY <1>1, <2>1, <2>2 DEF IInv, RunSoFar
  <2> QED
    BY <2>1, <2>3
<1> QED
  BY <1>1, Invariance, PTL

(***************************************************************************)
(* ... and the device writes no line but that of the job it is running.    *)
(***************************************************************************)
THEOREM CompletionLandsHome == Spec => []LineStillOwned
<1>1. IInv => LineStillOwned
  BY BusyDevice DEF LineStillOwned, Resting
<1> QED
  BY <1>1, Invariance, PTL

(***************************************************************************)
(* wait_seq reports success only for a job that has run.                   *)
(***************************************************************************)
THEOREM VerdictMeansRun == Spec => []VerdictSound
<1>1. IInv => VerdictSound
  BY DEF IInv, Mirrored, VerdictSound
<1> QED
  BY <1>1, Invariance, PTL

(***************************************************************************)
(* The mirrored sequence number never goes back.                           *)
(***************************************************************************)
THEOREM MirrorNeverRegresses == Spec => MirrorMonotone
<1>1. ASSUME IInv, [Next]_vars PROVE hsSeq' >= hsSeq
  <2> USE <1>1 DEF IInv, TypeOK
  <2>1. CASE MirrorRunningSeq
    <3>1. fSeq = last /\ hsSeq = last - 1 /\ last \in Nat
      BY <2>1 DEF MirrorRunningSeq, FwAt, DeviceBehind, Mirrored
    <3> QED
      BY <2>1, <3>1 DEF MirrorRunningSeq
  <2>2. CASE MirrorSeq
    <3>1. fSeq = last /\ hsSeq = last /\ last \in Nat
      BY <2>2 DEF MirrorSeq, FwAt, DeviceBehind, Mirrored
    <3> QED
      BY <2>2, <3>1 DEF MirrorSeq
  <2>3. CASE ~MirrorRunningSeq /\ ~MirrorSeq
    <3>1. CASE Firmware
      BY <2>3, <3>1 DEF Firmware, Poll, Latch, ReadJob, ReadSeq, MirrorRunning,
         CheckArg, RejectArg, RunJob, Complete, MirrorStatus, hsVars
    <3>2. CASE \E h \in Hosts : Store(h) \/ ReadStatus(h) \/ \E s \in Seqs : SeeSeq(h, s)
      BY <3>2 DEF Store, StoreKern, StoreLine, StoreHeader, StoreDoorbellJob,
         StoreDoorbellSeq, SeeSeq, ReadStatus, hsVars
    <3>3. CASE \E l \in Lines : \/ AwaitDone(l) \/ AwaitTimeout(l)
                               \/ \E h \in Hosts, j \in JobIds : Begin(h, j, l)
      BY <3>3 DEF AwaitDone, AwaitTimeout, Begin, hsVars
    <3>4. CASE UNCHANGED vars
      BY <3>4 DEF vars, hsVars
    <3> QED
      BY <1>1, <3>1, <3>2, <3>3, <3>4 DEF Next
  <2> QED
    BY <2>1, <2>2, <2>3
<1>2. ASSUME IInv, [Next]_vars PROVE [hsSeq' >= hsSeq]_vars
  BY <1>1, <1>2
<1> QED
  BY <1>2, Invariance, PTL DEF Spec, MirrorMonotone

(***************************************************************************)
(* Refinement.  A submission moves to its next phase when it is begun, run *)
(* and delivered, and no other step moves any.                             *)
(***************************************************************************)
LEMMA PhaseMove ==
  ASSUME NEW s \in Seqs, NEW from, NEW to,
         PhaseOf(s) = from, PhaseOf(s)' = to,
         \A r \in Seqs \ {s} : PhaseOf(r)' = PhaseOf(r)
  PROVE  Contract!Move(s, from, to)
BY DEF Contract!Move

LEMMA StartsFresh == Init => Contract!Init
BY DEF Init, Contract!Init, PhaseOf

LEMMA EveryStepMapped ==
  ASSUME IInv, [Next]_vars
  PROVE  [Contract!Next]_[s \in Seqs |-> PhaseOf(s)]
<1> USE DEF hostVars, slotVars, dbVars, hsVars, lineVars, fwVars
<1>1. ASSUME NEW h \in Hosts, NEW j \in JobIds, NEW l \in Lines, Begin(h, j, l)
      PROVE  Contract!Next
  <2>1. PICK n \in Seqs : n = nextSeq
    BY <1>1 DEF Begin, IInv, TypeOK
  <2>2. nextSeq' = n + 1 /\ got' = got /\ runs' = runs
    BY <1>1, <2>1 DEF Begin
  <2>3. got[n] = None /\ runs[n] = 0
    BY <2>1 DEF IInv, TypeOK, Delivered, RunSoFar, cur
  <2>4. PhaseOf(n) = "new" /\ PhaseOf(n)' = "submitted"
    BY <2>1, <2>2, <2>3 DEF PhaseOf
  <2>5. ASSUME NEW r \in Seqs \ {n} PROVE PhaseOf(r)' = PhaseOf(r)
    <3>1. r >= n + 1 <=> r >= n
      BY <2>1
    <3> QED
      BY <2>1, <2>2, <3>1 DEF PhaseOf
  <2>6. Contract!Submit(n)
    BY <2>4, <2>5, PhaseMove DEF Contract!Submit
  <2> QED
    BY <2>6 DEF Contract!Next
<1>2. ASSUME RunJob PROVE Contract!Next
  <2>1. PICK n \in Seqs : n = cur
    BY <1>2, BusyDevice DEF RunJob, FwAt, Resting
  <2>2. /\ Pending /\ fSeq = n
        /\ slotLine[fJob] \in Lines /\ owner[slotLine[fJob]] = n
    BY <1>2, <2>1, BusyDevice DEF RunJob, FwAt, Resting
  <2>3. got[n] = None /\ runs[n] = 0 /\ n < nextSeq
    BY <1>2, <2>1, <2>2 DEF IInv, TypeOK, Delivered, RunSoFar, RunJob, FwAt, cur
  <2>4. nextSeq' = nextSeq /\ got' = got /\ runs' = [runs EXCEPT ![n] = 1]
    BY <1>2, <2>2, <2>3 DEF RunJob, IInv, TypeOK
  <2>5. runs'[n] = 1 /\ \A r \in Seqs \ {n} : runs'[r] = runs[r]
    BY <2>4 DEF IInv, TypeOK
  <2>6. ~(n >= nextSeq)
    BY <2>3 DEF IInv, TypeOK
  <2>7. PhaseOf(n) = "submitted" /\ PhaseOf(n)' = "executed"
    BY <2>3, <2>4, <2>5, <2>6 DEF PhaseOf
  <2>8. \A r \in Seqs \ {n} : PhaseOf(r)' = PhaseOf(r)
    BY <2>4, <2>5 DEF PhaseOf
  <2>9. Contract!Execute(n)
    BY <2>7, <2>8, PhaseMove DEF Contract!Execute
  <2> QED
    BY <2>9 DEF Contract!Next
<1>3. ASSUME NEW l \in Lines, AwaitDone(l) PROVE Contract!Next
  <2>1. PICK n \in Seqs : n = owner[l]
    BY <1>3 DEF AwaitDone, Outstanding, IInv, TypeOK
  <2>2. n = cur /\ ~Pending
    BY <1>3, <2>1 DEF AwaitDone, IInv, OneAtATime, Pending
  <2>3. got[n] = None /\ runs[n] = 1 /\ ~(n >= nextSeq)
    <3>1. got[n] = None
      BY <2>1 DEF IInv, Delivered
    <3>2. runs[n] = 1
      BY <2>2 DEF IInv, RunSoFar
    <3>3. ~(n >= nextSeq)
      BY <2>2 DEF IInv, TypeOK, cur
    <3> QED
      BY <3>1, <3>2, <3>3
  <2>4. /\ nextSeq' = nextSeq /\ runs' = runs
        /\ got' = [got EXCEPT ![n] = result[l]] /\ result[l] # None
    BY <1>3, <2>1 DEF AwaitDone, IInv, TypeOK
  <2>5. got'[n] # None /\ \A r \in Seqs \ {n} : got'[r] = got[r]
    BY <2>4 DEF IInv, TypeOK
  <2>6. PhaseOf(n) = "executed" /\ PhaseOf(n)' = "delivered"
    BY <2>3, <2>4, <2>5 DEF PhaseOf
  <2>7. \A r \in Seqs \ {n} : PhaseOf(r)' = PhaseOf(r)
    BY <2>4, <2>5 DEF PhaseOf
  <2>8. Contract!Deliver(n)
    BY <2>6, <2>7, PhaseMove DEF Contract!Deliver
  <2> QED
    BY <2>8 DEF Contract!Next
<1>4. ASSUME UNCHANGED <<nextSeq, got, runs>>
      PROVE  UNCHANGED [s \in Seqs |-> PhaseOf(s)]
  BY <1>4 DEF PhaseOf
<1>5. CASE Firmware /\ ~RunJob
  BY <1>4, <1>5 DEF Firmware, Poll, Latch, ReadJob, ReadSeq, MirrorRunning,
     MirrorRunningSeq, CheckArg, RejectArg, Complete, MirrorStatus, MirrorSeq
<1>6. CASE \E h \in Hosts : Store(h) \/ ReadStatus(h) \/ \E s \in Seqs : SeeSeq(h, s)
  BY <1>4, <1>6 DEF Store, StoreKern, StoreLine, StoreHeader, StoreDoorbellJob,
     StoreDoorbellSeq, SeeSeq, ReadStatus
<1>7. CASE UNCHANGED vars
  BY <1>4, <1>7 DEF vars
<1>8. ASSUME NEW l \in Lines, AwaitTimeout(l) PROVE FALSE
  BY <1>8 DEF AwaitTimeout
<1> QED
  BY <1>1, <1>2, <1>3, <1>5, <1>6, <1>7, <1>8 DEF Next

(***************************************************************************)
(* The window implements the offload contract: every submission is         *)
(* numbered, run exactly once and delivered only after it ran.             *)
(***************************************************************************)
THEOREM ImplementsContract == Spec => ContractSpec
<1>1. IInv /\ [Next]_vars => [Contract!Next]_[s \in Seqs |-> PhaseOf(s)]
  BY EveryStepMapped
<1> QED
  BY <1>1, StartsFresh, Invariance, PTL DEF Spec, ContractSpec, Contract!Spec

=============================================================================
