---------------------------- MODULE BTreeOffload ----------------------------
(***************************************************************************)
(* The B-tree offload demonstrator: an x86 host (runtime/bc_x86.cpp) and a *)
(* device process (runtime/bc_riscv.cpp) that share two rings and one node *)
(* buffer (runtime/shared_protocol.h).  The host gives every task a turn,  *)
(* round after round: one request out, at most one response in.  A task    *)
(* that found no response sends its request again on its next turn.        *)
(*                                                                         *)
(* The host starts the device process, gives it a second to create and     *)
(* clear the shared segment, and opens it: nothing tells it that the       *)
(* segment is there, or that it has been cleared of what a killed run left *)
(* in it.                                                                  *)
(*                                                                         *)
(* Each ring, and the buffer, has a semaphore around every operation, so   *)
(* an operation is one step.  All requests are for one node; a node is the *)
(* keys in it and their count (duplicates are not looked for).  The count  *)
(* runs on past the room of the array: KeysFit says when it does.          *)
(***************************************************************************)
EXTENDS Naturals, Sequences, FiniteSets

CONSTANTS
  Size,    \* slots of a ring (256)
  Tasks,   \* tasks of the host
  MaxKeys, \* keys a node has room for (100)
  Prompt   \* is a second enough for the device to clear the segment?

ASSUME RingsOK ==
  /\ Size \in Nat \ {0, 1, 2} /\ Tasks \in Nat \ {0}
  /\ MaxKeys \in Nat /\ Prompt \in BOOLEAN

\* A request is its key, the task's; 0 is the request to terminate.  A response
\* names the node, which is always the same one.
TerminateReq == 0
Root == 1   \* the number the registry gives the first node
Item == 0 .. Tasks

VARIABLES
  shm,              \* is there a segment: "none", "there" or "cleared"
  reqs, resps,      \* the rings: slots, write index, read index
  outReqs, outResps, \* history: what was put in and not yet taken out
  valid, buffer,    \* buffer_valid, node_buffer
  hpc, task, all, done, hostNode,  \* the host's loop
  dpc, req, node    \* the device's loop

ringVars == <<shm, reqs, resps, outReqs, outResps>>
hostVars == <<hpc, task, all, done, hostNode>>
btreeVars == <<ringVars, valid, buffer, hostVars, dpc, req, node>>

Ring == [slots : [0 .. Size - 1 -> Item], w : 0 .. Size - 1, r : 0 .. Size - 1]

Node == [keys : SUBSET (1 .. Tasks), num : Nat]
\* What the device makes of a node it has not seen.
NoKeys == [keys |-> {}, num |-> 0]

\* The values of the state are well formed (the semaphores keep each operation
\* whole, the indices are taken modulo the size).
BTreeTypeOK ==
  /\ shm \in {"none", "there", "cleared"} /\ reqs \in Ring /\ resps \in Ring
  /\ valid \in BOOLEAN /\ buffer \in Node
  /\ hpc \in {"open", "crashed", "send", "receive", "buffer", "terminate", "wait", "exited"}
  /\ task \in 1 .. Tasks /\ all \in BOOLEAN /\ done \subseteq 1 .. Tasks
  /\ hostNode \in Node /\ node \in Node
  /\ dpc \in {"poll", "insert", "push", "respond", "stopped"}
  /\ req \in Item

NoItems == [slots |-> [i \in 0 .. Size - 1 |-> 0], w |-> 0, r |-> 0]

Full(q) == (q.w + 1) % Size = q.r
IsEmpty(q) == q.r = q.w

Put(q, x) == [q EXCEPT !.slots[q.w] = x, !.w = (q.w + 1) % Size]
Take(q) == [q EXCEPT !.r = (q.r + 1) % Size]
Front(q) == q.slots[q.r]

\* How many items a ring holds.
Load(q) == (q.w + Size - q.r) % Size

\* A run that was killed may have left a segment, here with a request in it.
BTreeInit ==
  /\ shm \in {"none", "there"}
  /\ reqs \in IF shm = "none" THEN {NoItems} ELSE {NoItems, Put(NoItems, 1)}
  /\ resps = NoItems /\ outReqs = <<>> /\ outResps = <<>>
  /\ valid = FALSE /\ buffer = NoKeys
  /\ hpc = "open" /\ task = 1 /\ all = TRUE /\ done = {} /\ hostNode = NoKeys
  /\ dpc = "poll" /\ req = TerminateReq /\ node = NoKeys

-----------------------------------------------------------------------------
(* Starting up *)

\* The device creates the segment, unless it is there, and clears it.
Create ==
  /\ shm = "none" /\ shm' = "there"
  /\ UNCHANGED <<reqs, resps, outReqs, outResps, valid, buffer, hostVars, dpc, req, node>>
Clear ==
  /\ shm = "there" /\ shm' = "cleared"
  /\ reqs' = NoItems /\ resps' = NoItems /\ valid' = FALSE /\ buffer' = NoKeys
  /\ UNCHANGED <<outReqs, outResps, hostVars, dpc, req, node>>

\* The host maps what it finds; where there is nothing, its first access crashes.
Open ==
  /\ hpc = "open" /\ (Prompt => shm = "cleared")
  /\ hpc' = IF shm = "none" THEN "crashed" ELSE "send"
  /\ UNCHANGED <<ringVars, valid, buffer, task, all, done, hostNode, dpc, req, node>>

-----------------------------------------------------------------------------
(* The host *)

\* The loop goes on to the next task, or to the node buffer after the last.
NextTask ==
  IF task = Tasks THEN hpc' = "buffer" /\ UNCHANGED task
                  ELSE hpc' = "send" /\ task' = task + 1

Skip ==
  /\ hpc = "send" /\ task \in done
  /\ NextTask
  /\ UNCHANGED <<ringVars, valid, buffer, all, done, hostNode, dpc, req, node>>

\* AsyncTask::execute: the request goes out unless the ring is full ...
Send ==
  /\ hpc = "send" /\ task \notin done
  /\ all' = FALSE
  /\ \/ /\ ~Full(reqs)
        /\ reqs' = Put(reqs, task) /\ outReqs' = Append(outReqs, task)
        /\ hpc' = "receive" /\ UNCHANGED task
     \/ /\ Full(reqs)
        /\ NextTask /\ UNCHANGED <<reqs, outReqs>>
  /\ UNCHANGED <<shm, resps, outResps, valid, buffer, done, hostNode, dpc, req, node>>

\* ... and one response is taken if there is one.  Every response is for the one
\* node, so any of them completes the task.
Receive ==
  /\ hpc = "receive"
  /\ IF IsEmpty(resps)
       THEN UNCHANGED <<resps, outResps, done>>
       ELSE /\ resps' = Take(resps) /\ outResps' = Tail(outResps)
            /\ done' = done \cup {task}
  /\ NextTask
  /\ UNCHANGED <<shm, reqs, outReqs, valid, buffer, all, hostNode, dpc, req, node>>

\* update_node: the data replace those of the node, which the registry holds.
UpdateNode(data) == hostNode' = data

\* Faulty: the node buffer is read and not released.
GetNodeKeeps ==
  /\ hpc = "buffer"
  /\ hostNode' = IF valid THEN buffer ELSE hostNode
  /\ hpc' = IF all THEN "terminate" ELSE "send"
  /\ task' = 1 /\ all' = TRUE
  /\ UNCHANGED <<ringVars, valid, buffer, done, dpc, req, node>>

\* get_node_from_buffer and update_node, then the next round, or the end when
\* this one had nothing to do.
GetNode ==
  /\ hpc = "buffer"
  /\ UpdateNode(IF valid THEN buffer ELSE hostNode)
  /\ valid' = FALSE
  /\ hpc' = IF all THEN "terminate" ELSE "send"
  /\ task' = 1 /\ all' = TRUE
  /\ UNCHANGED <<ringVars, buffer, done, dpc, req, node>>

\* The result of this send_request is not looked at.
Terminate ==
  /\ hpc = "terminate"
  /\ IF Full(reqs) THEN UNCHANGED <<reqs, outReqs>>
     ELSE reqs' = Put(reqs, TerminateReq) /\ outReqs' = Append(outReqs, TerminateReq)
  /\ hpc' = "wait"
  /\ UNCHANGED <<shm, resps, outResps, valid, buffer, task, all, done, hostNode, dpc, req, node>>

\* waitpid
Reap ==
  /\ hpc = "wait" /\ dpc = "stopped"
  /\ hpc' = "exited"
  /\ UNCHANGED <<ringVars, valid, buffer, task, all, done, hostNode, dpc, req, node>>

-----------------------------------------------------------------------------
(* The device *)

ReceiveRequest ==
  /\ dpc = "poll" /\ shm = "cleared" /\ ~IsEmpty(reqs)
  /\ req' = Front(reqs)
  /\ dpc' = IF req' = TerminateReq THEN "stopped" ELSE "insert"
  /\ reqs' = Take(reqs) /\ outReqs' = Tail(outReqs)
  /\ UNCHANGED <<shm, resps, outResps, valid, buffer, hostVars, node>>

Insert ==
  /\ dpc = "insert"
  /\ node' = [keys |-> node.keys \cup {req}, num |-> node.num + 1]
  /\ dpc' = "push"
  /\ UNCHANGED <<ringVars, valid, buffer, hostVars, req>>

\* Faulty: a push that finds the buffer taken is given up.
PushOnce ==
  /\ dpc = "push"
  /\ IF valid THEN UNCHANGED <<buffer, valid>> ELSE buffer' = node /\ valid' = TRUE
  /\ dpc' = "respond"
  /\ UNCHANGED <<ringVars, hostVars, req, node>>

\* push_node_to_buffer and send_response, each repeated until it succeeds.
Push ==
  /\ dpc = "push" /\ ~valid
  /\ buffer' = node /\ valid' = TRUE
  /\ dpc' = "respond"
  /\ UNCHANGED <<ringVars, hostVars, req, node>>

Respond ==
  /\ dpc = "respond" /\ ~Full(resps)
  /\ resps' = Put(resps, Root) /\ outResps' = Append(outResps, Root)
  /\ dpc' = "poll"
  /\ UNCHANGED <<shm, reqs, outReqs, valid, buffer, hostVars, req, node>>

-----------------------------------------------------------------------------

Host == Open \/ Skip \/ Send \/ Receive \/ GetNode \/ Terminate \/ Reap
Device == Create \/ Clear \/ ReceiveRequest \/ Insert \/ Push \/ Respond
BTreeNext == Host \/ Device

\* Both processes run.
BTreeSpec == BTreeInit /\ [][BTreeNext]_btreeVars /\ WF_btreeVars(Host) /\ WF_btreeVars(Device)

-----------------------------------------------------------------------------
(* Properties *)

\* A ring holds exactly what was put in and not taken out, in order: no request
\* or response is lost, repeated or overwritten, wherever the indices wrap.
Holds(q, out) ==
  /\ Len(out) = Load(q)
  /\ \A i \in 1 .. Len(out) : q.slots[(q.r + i - 1) % Size] = out[i]
RingsAreQueues == shm = "cleared" => Holds(reqs, outReqs) /\ Holds(resps, outResps)

\* The rings are never both full: the host takes no response while its requests
\* do not fit and the device takes no request while its responses do not fit, so
\* then nobody could go on.  What keeps it from happening is that the host adds
\* to what is under way only when it finds no response.
NoGridlock == ~(Full(reqs) /\ Full(resps))

\* What the host has of the node, or finds in the buffer next.
Latest == IF valid THEN buffer ELSE hostNode

\* The task's request is in the ring, or the device has not shown what it inserted for it.
Asking(t) ==
  \/ \E i \in 1 .. Load(reqs) : reqs.slots[(reqs.r + i - 1) % Size] = t
  \/ dpc \in {"insert", "push"} /\ req = t

\* A response only names the node, so it completes whichever task looks first, often one
\* whose own key is not in.  Still, as many insertions as tasks completed are in the node
\* the host has or finds next, and a completed task whose key is not has a request of its
\* own on the way: completions run ahead of keys, but no key is lost.
CompletionsApplied ==
  /\ Cardinality(done) <= Latest.num
  /\ \A t \in done : t \in Latest.keys \/ Asking(t)

\* When the host ends its rounds its copy of the node holds every key.  It does only when
\* the first requests of all tasks fit the ring together: with more tasks than that, the
\* answers to requests sent again complete tasks whose keys are still under way.
AllApplied ==
  hpc \in {"terminate", "wait", "exited"} => hostNode.keys = 1 .. Tasks

\* Every task completes.
TasksComplete == <>(done = 1 .. Tasks)

\* The host waits for the child process to end, and it does.
HostExits == <>(hpc = "exited")

\* The keys of a node fit its array.
KeysFit == node.num <= MaxKeys
=============================================================================
