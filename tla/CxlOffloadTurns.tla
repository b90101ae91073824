-------------------------- MODULE CxlOffloadTurns --------------------------
(***************************************************************************)
(* The control window under the discipline the runtime's own clients       *)
(* follow (cira_gapbs_region_marker: submit, await, free): one job at a    *)
(* time, kernels that leave the completion line to the firmware, waits     *)
(* without a timeout, and a fresh window.  Under it the protocol is        *)
(* correct; IInv is the inductive invariant that says why.                 *)
(***************************************************************************)
EXTENDS CxlOffload

ASSUME TurnTaking == ~Overlap /\ ~SelfSignal /\ ~Timeouts /\ Leftover = 0

cur == nextSeq - 1   \* the latest submission

Busy(h) == hpc[h] \notin {"idle", "seen"}
Staging == \E h \in Hosts : Busy(h)

\* The latest submission has not been completed by the device yet.
Pending == \E l \in Lines : owner[l] # Nobody /\ ~magic[l]

\* The firmware is between two jobs (or mirrors the status of the last one).
Resting == fpc \in {"poll", "endstat", "endseq"}

\* At most one thread stages, and only the latest submission is outstanding.
OneAtATime ==
  /\ \A g, h \in Hosts : Busy(g) /\ Busy(h) => g = h
  /\ \A l \in Lines : owner[l] # Nobody => owner[l] = cur
  /\ \A l, m \in Lines : owner[l] # Nobody /\ owner[m] # Nobody => l = m

\* What the thread that stages has written so far.
StagedSoFar ==
  \A h \in Hosts : Busy(h) =>
    /\ req[h].seq = cur /\ cur \in Seqs
    /\ req[h].line \in Lines /\ owner[req[h].line] = cur
    /\ ~magic[req[h].line]
    /\ hpc[h] # "kern" => slotKern[req[h].id] = cur
    /\ hpc[h] \notin {"kern", "line"} => slotLine[req[h].id] = req[h].line
    /\ hpc[h] \in {"dbjob", "dbseq"} => slotSeq[req[h].id] = cur
    /\ hpc[h] = "dbseq" => dbJob = req[h].id

\* Once the doorbell has rung, it names a slot that holds the job.
Committed ==
  Pending /\ ~Staging =>
    /\ slotKern[dbJob] = cur /\ slotSeq[dbJob] = cur
    /\ slotLine[dbJob] \in Lines
    /\ owner[slotLine[dbJob]] = cur

\* How far the device is.
DeviceBehind ==
  /\ dbSeq = IF Staging THEN cur - 1 ELSE cur
  /\ Resting => last = IF Pending THEN cur - 1 ELSE cur
  /\ ~Resting => Pending /\ ~Staging
  /\ fpc = "latch" => last = cur - 1
  /\ ~Resting /\ fpc # "latch" => last = cur
  /\ fpc \in {"rseq", "runstat", "runseq", "check", "call", "complete"} => fJob = dbJob
  /\ fpc \notin {"poll", "latch", "rjob", "rseq"} => fSeq = last
  /\ fpc = "call" => fKern = last
  /\ fpc = "endstat" => fStatus = "SUCCESS"

\* Exactly the submissions before the pending one have been run, each with its
\* own arguments.
RunSoFar ==
  \A s \in Seqs :
    /\ runs[s] = IF s < cur \/ (s = cur /\ (~Pending \/ fpc = "complete")) THEN 1 ELSE 0
    /\ ranArgs[s] = IF runs[s] = 1 THEN {s} ELSE {}

\* The mirror lags the job the firmware took up, and says SUCCESS only when
\* everything it covers has been run.
Mirrored ==
  /\ hsSeq = IF fpc \in {"rjob", "rseq", "runstat", "runseq"} THEN last - 1 ELSE last
  /\ fpc \in {"runseq", "check", "call", "complete", "endstat"} => hsStatus = "RUNNING"
  /\ \A h \in Hosts : hpc[h] = "seen" => watch[h] \in Seqs /\ watch[h] <= hsSeq
  /\ \A s \in Seqs : verdict[s] = "OK" => runs[s] = 1

\* A client has its result exactly when its line was given up.
Delivered ==
  \A s \in Seqs :
    got[s] = None <=> s > cur \/ \E l \in Lines : owner[l] = s

\* The inductive invariant: where the host and the device are determines what is
\* in the window, and everything before the latest submission is over.
IInv ==
  /\ TypeOK /\ OneAtATime /\ StagedSoFar /\ Committed
  /\ DeviceBehind /\ RunSoFar /\ Mirrored /\ Delivered

=============================================================================
