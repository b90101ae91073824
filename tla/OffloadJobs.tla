---------------------------- MODULE OffloadJobs ----------------------------
(***************************************************************************)
(* What the offload contract promises a client (runtime/include/           *)
(* cira_cxl_job.h, runtime/include/cira_mmio.h): a submission is numbered, *)
(* the device runs it exactly once, and its completion is delivered only   *)
(* after it has run.                                                       *)
(***************************************************************************)
EXTENDS Naturals

CONSTANT Jobs
VARIABLE phase

Move(s, from, to) == phase[s] = from /\ phase' = [phase EXCEPT ![s] = to]

Init == phase = [s \in Jobs |-> "new"]

Submit(s)  == Move(s, "new", "submitted")
Execute(s) == Move(s, "submitted", "executed")
Deliver(s) == Move(s, "executed", "delivered")

Next == \E s \in Jobs : Submit(s) \/ Execute(s) \/ Deliver(s)

Spec == Init /\ [][Next]_phase

=============================================================================
