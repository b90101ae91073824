-------------------------- MODULE SharedMemoryProofs --------------------------
(***************************************************************************)
(* Proofs about the two ways in which a host and a device meet in shared   *)
(* memory: the rings and the node buffer of the B-tree demonstrator, for   *)
(* any number of tasks and slots, and the cache-resident wait, for any     *)
(* number of waiters, any processor and any forced backends.               *)
(***************************************************************************)
EXTENDS BTreeOffload, CacheWait, FiniteSetTheorems, TLAPS

-----------------------------------------------------------------------------
(* The B-tree demonstrator *)

\* Keys inserted and nodes pushed so far: every one has led to a response, or will.
Inserted == Cardinality(done) + Len(outResps) + (IF dpc \in {"push", "respond"} THEN 1 ELSE 0)
Pushed == Cardinality(done) + Len(outResps) + (IF dpc = "respond" THEN 1 ELSE 0)

\* The host opens the segment when it has been cleared, and then each ring is a queue.
Started ==
  /\ hpc # "crashed" /\ (hpc # "open" => shm = "cleared") /\ (dpc # "poll" => shm = "cleared")
  /\ hpc = "open" => task = 1 /\ all /\ done = {} /\ dpc = "poll"
  /\ shm # "cleared" => outReqs = <<>> /\ outResps = <<>> /\ resps = NoItems
  /\ hpc = "open" => outReqs = <<>> /\ outResps = <<>>
  /\ outReqs \in Seq(Item) /\ outResps \in Seq(Item)
  /\ dpc = "insert" => req # TerminateReq

RingInv == BTreeTypeOK /\ Started /\ RingsAreQueues

\* The host asks for a task that is not done.
Asks == hpc = "receive" => task \notin done

\* Each request adds to the count of the node, and what the host has, or finds next, is the
\* node last pushed: the device's own but for the key it has not pushed yet.
Keys ==
  /\ hpc = "open" => node = NoKeys /\ hostNode = NoKeys /\ ~valid
  /\ node.num >= Inserted /\ Latest.num >= Pushed
  /\ Latest.keys \subseteq node.keys
  /\ dpc = "push" => req \in node.keys /\ node.keys \subseteq Latest.keys \cup {req}
  /\ dpc # "push" => node.keys \subseteq Latest.keys

\* The tasks that have sent a request: those that are done and the one that now looks for a
\* response.  Each has its key in or a request on the way.
Sending == IF hpc = "receive" THEN done \cup {task} ELSE done
Asked(t) ==
  \/ \E i \in 1 .. Len(outReqs) : outReqs[i] = t
  \/ dpc \in {"insert", "push"} /\ req = t
OnTheWay == \A t \in Sending : t \in Latest.keys \/ Asked(t)

TreeInv == RingInv /\ Asks /\ Keys /\ OnTheWay

\* The device is at a request.
Busy == dpc \in {"insert", "push", "respond"}

\* What is under way in both rings and at the device: the host adds to it only when it
\* found no response.
UnderWay == Len(outReqs) + Len(outResps) + (IF Busy THEN 1 ELSE 0)
Bounded == UnderWay <= Size + (IF hpc \in {"receive", "wait", "exited"} THEN 1 ELSE 0)

-----------------------------------------------------------------------------
(* The rings *)

\* Indices are taken modulo the size.
Slot(x) == x % Size
Turned(x) == IF x < Size THEN x ELSE x - Size

LEMMA Wrap ==
  ASSUME NEW x \in 0 .. 2 * Size - 1
  PROVE  Slot(x) = Turned(x)
<1> DEFINE n == Size
<1>0. n \in Nat \ {0}
  BY RingsOK
<1> SUFFICES x % n = IF x < n THEN x ELSE x - n
  BY DEF Slot, Turned
<1> HIDE DEF n
<1>1. x = n * (x \div n) + (x % n) /\ x % n \in 0 .. n - 1 /\ x \div n \in Int
  BY <1>0 DEF n
<1> DEFINE d == x \div n  m == x % n
<1>2. x = n * d + m /\ m \in 0 .. n - 1 /\ d \in Int /\ x < 2 * n /\ x >= 0 /\ n > 0
  BY <1>0, <1>1 DEF n
<1> HIDE DEF d, m
<1>3. d >= 0
  <2>1. CASE d <= -1
    <3>1. n * d <= n * (-1)
      BY <1>0, <1>2, <2>1
    <3> QED
      BY <1>0, <1>2, <3>1
  <2> QED
    BY <1>0, <1>2, <2>1
<1>4. d <= 1
  <2>1. CASE d >= 2
    <3>1. n * d >= n * 2
      BY <1>0, <1>2, <2>1
    <3> QED
      BY <1>0, <1>2, <3>1
  <2> QED
    BY <1>0, <1>2, <2>1
<1>5. d = 0 \/ d = 1
  BY <1>2, <1>3, <1>4
<1>6. m = IF x < n THEN x ELSE x - n
  BY <1>0, <1>2, <1>5
<1> QED
  BY <1>6 DEF m

\* The slot after another, and how many lie between two.
After(i) == IF i = Size - 1 THEN 0 ELSE i + 1
Between(r, w) == IF w >= r THEN w - r ELSE w + Size - r
At(r, k) == IF r + k < Size THEN r + k ELSE r + k - Size

LEMMA RingSlots ==
  ASSUME NEW q \in Ring
  PROVE  /\ q.w \in 0 .. Size - 1 /\ q.r \in 0 .. Size - 1 /\ q.slots \in [0 .. Size - 1 -> Item]
         /\ (q.w + 1) % Size = After(q.w) /\ (q.r + 1) % Size = After(q.r)
         /\ Load(q) = Between(q.r, q.w)
         /\ \A i \in 1 .. Size - 1 : (q.r + i - 1) % Size = At(q.r, i - 1)
<1>1. q.w \in 0 .. Size - 1 /\ q.r \in 0 .. Size - 1 /\ q.slots \in [0 .. Size - 1 -> Item]
  BY DEF Ring
<1>2. Size \in Nat \ {0, 1, 2}
  BY RingsOK
<1> DEFINE r == q.r  w == q.w
<1>3. r \in 0 .. Size - 1 /\ w \in 0 .. Size - 1
  BY <1>1
<1> HIDE DEF r, w
<1>4. Slot(w + 1) = After(w) /\ Slot(r + 1) = After(r)
  <2>1. w + 1 \in 0 .. 2 * Size - 1 /\ r + 1 \in 0 .. 2 * Size - 1
    BY <1>2, <1>3
  <2>2. Slot(w + 1) = Turned(w + 1) /\ Slot(r + 1) = Turned(r + 1)
    BY <2>1, Wrap
  <2> QED
    BY <1>2, <1>3, <2>2 DEF After, Turned
<1>5. Slot(w + Size - r) = Between(r, w)
  <2>1. w + Size - r \in 0 .. 2 * Size - 1
    BY <1>2, <1>3
  <2>2. Slot(w + Size - r) = Turned(w + Size - r)
    BY <2>1, Wrap
  <2> QED
    BY <1>2, <1>3, <2>2 DEF Between, Turned
<1>6. ASSUME NEW i \in 1 .. Size - 1 PROVE Slot(r + i - 1) = At(r, i - 1)
  <2>1. r + i - 1 \in 0 .. 2 * Size - 1
    BY <1>2, <1>3
  <2>2. Slot(r + i - 1) = Turned(r + i - 1)
    BY <2>1, Wrap
  <2> QED
    BY <1>2, <1>3, <2>2 DEF At, Turned
<1> QED
  BY <1>1, <1>4, <1>5, <1>6 DEF r, w, Load, Slot

\* What a ring holds, with no modulo.
LEMMA HoldsMeans ==
  ASSUME NEW q \in Ring, NEW out \in Seq(Item)
  PROVE  Holds(q, out) <=> /\ Len(out) = Between(q.r, q.w)
                           /\ \A i \in 1 .. Len(out) : q.slots[At(q.r, i - 1)] = out[i]
<1>1. /\ q.w \in 0 .. Size - 1 /\ q.r \in 0 .. Size - 1 /\ Load(q) = Between(q.r, q.w)
      /\ \A i \in 1 .. Size - 1 : (q.r + i - 1) % Size = At(q.r, i - 1)
  BY RingSlots
<1>2. Between(q.r, q.w) \in 0 .. Size - 1
  BY <1>1, RingsOK DEF Between
<1>3. Len(out) = Between(q.r, q.w) => 1 .. Len(out) \subseteq 1 .. Size - 1
  BY <1>2, RingsOK
<1> QED
  BY <1>1, <1>3 DEF Holds

\* A ring that holds out is empty or full when out is, with one slot left free.
LEMMA RingBounds ==
  ASSUME NEW q \in Ring, NEW out \in Seq(Item), Holds(q, out)
  PROVE  /\ Len(out) \in Nat /\ Len(out) <= Size - 1
         /\ IsEmpty(q) <=> out = <<>>
         /\ Full(q) <=> Len(out) = Size - 1
<1>1. q.w \in 0 .. Size - 1 /\ q.r \in 0 .. Size - 1 /\ (q.w + 1) % Size = After(q.w)
  BY RingSlots
<1>2. Len(out) = Between(q.r, q.w) /\ Len(out) \in Nat /\ (out = <<>> <=> Len(out) = 0)
  BY HoldsMeans
<1>3. Size \in Nat \ {0, 1, 2}
  BY RingsOK
<1> DEFINE r == q.r  w == q.w
<1>4. r \in 0 .. Size - 1 /\ w \in 0 .. Size - 1
  BY <1>1
<1> HIDE DEF r, w
<1>5. /\ Between(r, w) <= Size - 1 /\ (r = w <=> Between(r, w) = 0)
      /\ After(w) = r <=> Between(r, w) = Size - 1
  BY <1>3, <1>4 DEF Between, After
<1> QED
  BY <1>1, <1>2, <1>5 DEF r, w, IsEmpty, Full

LEMMA PutHolds ==
  ASSUME NEW q \in Ring, NEW out \in Seq(Item), NEW x \in Item, Holds(q, out), ~Full(q)
  PROVE  Put(q, x) \in Ring /\ Append(out, x) \in Seq(Item) /\ Holds(Put(q, x), Append(out, x))
<1>1. /\ q.w \in 0 .. Size - 1 /\ q.r \in 0 .. Size - 1 /\ q.slots \in [0 .. Size - 1 -> Item]
      /\ (q.w + 1) % Size = After(q.w)
  BY RingSlots
<1>2. /\ Len(out) = Between(q.r, q.w) /\ Len(out) \in Nat /\ Len(out) < Size - 1
      /\ \A i \in 1 .. Len(out) : q.slots[At(q.r, i - 1)] = out[i]
  BY HoldsMeans, RingBounds, RingsOK
<1>3. Size \in Nat \ {0, 1, 2}
  BY RingsOK
<1> DEFINE r == q.r  w == q.w  s == q.slots  n == Len(out)  p == Put(q, x)  more == Append(out, x)
<1>4. p = [slots |-> [s EXCEPT ![w] = x], w |-> After(w), r |-> r]
  <2>1. q = [slots |-> s, w |-> w, r |-> r]
    BY DEF Ring
  <2> DEFINE v == [s EXCEPT ![w] = x]  a == (q.w + 1) % Size
  <2>2. p = [q EXCEPT !.slots = v, !.w = a]
    BY DEF Put
  <2>3. a = After(w)
    BY <1>1
  <2> HIDE DEF v, a, p
  <2>4. p = [slots |-> v, w |-> a, r |-> q.r]
    BY <2>2 DEF Ring
  <2> QED
    BY <2>3, <2>4 DEF v
<1>5. /\ r \in 0 .. Size - 1 /\ w \in 0 .. Size - 1 /\ s \in [0 .. Size - 1 -> Item] /\ n \in Nat
      /\ n = Between(r, w) /\ n < Size - 1 /\ \A i \in 1 .. n : s[At(r, i - 1)] = out[i]
  BY <1>1, <1>2
<1>6. more \in Seq(Item) /\ Len(more) = n + 1 /\ more[n + 1] = x /\ \A i \in 1 .. n : more[i] = out[i]
  OBVIOUS
<1> HIDE DEF r, w, s, n, p, more
<1>7. After(w) \in 0 .. Size - 1 /\ Between(r, After(w)) = n + 1
  BY <1>3, <1>5 DEF After, Between
<1>8. p \in Ring
  BY <1>4, <1>5, <1>7 DEF Ring
<1>9. p.slots = [s EXCEPT ![w] = x] /\ p.w = After(w) /\ p.r = r
  BY <1>4
<1>10. At(r, n) = w /\ \A i \in 1 .. n : At(r, i - 1) \in 0 .. Size - 1 /\ At(r, i - 1) # w
  BY <1>3, <1>5 DEF At, Between
<1>11. ASSUME NEW i \in 1 .. n + 1 PROVE p.slots[At(p.r, i - 1)] = more[i]
  <2>1. CASE i = n + 1
    <3>1. At(r, i - 1) = w
      BY <1>5, <1>10, <2>1
    <3> QED
      BY <1>5, <1>6, <1>9, <2>1, <3>1
  <2>2. CASE i \in 1 .. n
    BY <1>5, <1>6, <1>9, <1>10, <2>2
  <2> QED
    BY <1>5, <2>1, <2>2
<1>12. Holds(p, more)
  BY <1>6, <1>7, <1>8, <1>9, <1>11, HoldsMeans
<1> QED
  BY <1>6, <1>8, <1>12 DEF p, more

LEMMA TakeHolds ==
  ASSUME NEW q \in Ring, NEW out \in Seq(Item), Holds(q, out), ~IsEmpty(q)
  PROVE  /\ out # <<>> /\ Front(q) = Head(out)
         /\ Take(q) \in Ring /\ Tail(out) \in Seq(Item) /\ Holds(Take(q), Tail(out))
<1>1. /\ q.w \in 0 .. Size - 1 /\ q.r \in 0 .. Size - 1 /\ q.slots \in [0 .. Size - 1 -> Item]
      /\ (q.r + 1) % Size = After(q.r)
  BY RingSlots
<1>2. /\ Len(out) = Between(q.r, q.w) /\ Len(out) \in Nat /\ Len(out) <= Size - 1 /\ out # <<>>
      /\ \A i \in 1 .. Len(out) : q.slots[At(q.r, i - 1)] = out[i]
  BY HoldsMeans, RingBounds, RingsOK
<1>3. Size \in Nat \ {0, 1, 2}
  BY RingsOK
<1> DEFINE r == q.r  w == q.w  s == q.slots  n == Len(out)  p == Take(q)  less == Tail(out)
<1>4. p = [slots |-> s, w |-> w, r |-> After(r)]
  BY <1>1 DEF Take, Ring
<1>5. /\ r \in 0 .. Size - 1 /\ w \in 0 .. Size - 1 /\ s \in [0 .. Size - 1 -> Item] /\ n \in Nat \ {0}
      /\ n = Between(r, w) /\ n <= Size - 1 /\ \A i \in 1 .. n : s[At(r, i - 1)] = out[i]
  BY <1>1, <1>2
<1>6. less \in Seq(Item) /\ Len(less) = n - 1 /\ Head(out) = out[1] /\ \A i \in 1 .. n - 1 : less[i] = out[i + 1]
  BY <1>2
<1>7. Front(q) = s[r]
  BY DEF Front
<1> HIDE DEF r, w, s, n, p, less
<1>8. After(r) \in 0 .. Size - 1 /\ Between(After(r), w) = n - 1 /\ At(r, 0) = r
  BY <1>3, <1>5 DEF After, Between, At
<1>9. s[r] = out[1]
  <2>1. 1 \in 1 .. n /\ At(r, 1 - 1) = r
    BY <1>5, <1>8
  <2> QED
    BY <1>5, <2>1
<1>10. p \in Ring /\ p.slots = s /\ p.w = w /\ p.r = After(r)
  BY <1>4, <1>5, <1>8 DEF Ring
<1>11. ASSUME NEW i \in 1 .. n - 1 PROVE p.slots[At(p.r, i - 1)] = less[i]
  <2>1. At(After(r), i - 1) = At(r, (i + 1) - 1) /\ i + 1 \in 1 .. n
    BY <1>3, <1>5 DEF After, At
  <2> QED
    BY <1>5, <1>6, <1>10, <2>1
<1>12. Holds(p, less)
  BY <1>6, <1>8, <1>10, <1>11, HoldsMeans
<1> QED
  BY <1>2, <1>6, <1>7, <1>9, <1>10, <1>12 DEF p, less

LEMMA BTreeBounds ==
  /\ Size \in Nat \ {0, 1, 2} /\ Tasks \in Nat \ {0}
  /\ Root \in Item /\ TerminateReq \in Item /\ 1 .. Tasks \subseteq Item
BY RingsOK DEF Root, TerminateReq, Item

LEMMA FreshRing ==
  ASSUME NEW q \in Ring, q.r = q.w, NEW out \in Seq(Item), Len(out) < 1
  PROVE  Holds(q, out) /\ ~Full(q)
<1>1. q.w \in 0 .. Size - 1 /\ Between(q.r, q.w) = 0
  BY RingSlots, BTreeBounds DEF Between
<1>2. Holds(q, out)
  BY <1>1, HoldsMeans
<1> QED
  BY <1>2, RingBounds, BTreeBounds

LEMMA EmptyRing == NoItems \in Ring /\ Holds(NoItems, <<>>) /\ ~Full(NoItems)
<1>1. NoItems \in Ring /\ NoItems.r = NoItems.w
  BY BTreeBounds DEF NoItems, Ring, Item
<1>2. <<>> \in Seq(Item) /\ Len(<<>>) < 1
  OBVIOUS
<1> HIDE DEF NoItems
<1> QED
  BY <1>1, <1>2, FreshRing

\* The segment a run that was killed has left.
LEMMA LeftRing == Put(NoItems, 1) \in Ring
<1>1. NoItems \in Ring /\ <<>> \in Seq(Item) /\ 1 \in Item
  BY EmptyRing, BTreeBounds
<1> QED
  BY <1>1, EmptyRing, PutHolds

LEMMA RingStart == BTreeInit => RingInv
<1> SUFFICES ASSUME BTreeInit PROVE RingInv
  OBVIOUS
<1>1. NoKeys \in Node
  BY BTreeBounds DEF NoKeys, Node
<1>2. reqs \in Ring /\ resps \in Ring
  BY EmptyRing, LeftRing DEF BTreeInit
<1>3. shm \in {"none", "there"} /\ TerminateReq \in Item /\ 1 \in 1 .. Tasks
  BY BTreeBounds DEF BTreeInit
<1>4. BTreeTypeOK
  BY <1>1, <1>2, <1>3 DEF BTreeInit, BTreeTypeOK
<1>5. <<>> \in Seq(Item)
  OBVIOUS
<1>6. Started /\ RingsAreQueues
  BY <1>3, <1>5 DEF BTreeInit, Started, RingsAreQueues
<1> QED
  BY <1>4, <1>6 DEF RingInv

\* What leaves the rings alone only has to keep the two programs in step.
LEMMA RingsKeep ==
  ASSUME RingInv, UNCHANGED ringVars, hpc # "open" /\ hpc' # "open", hpc' # "crashed", BTreeTypeOK',
         dpc' # "insert" \/ UNCHANGED <<dpc, req>>
  PROVE  RingInv'
<1>1. shm = "cleared" /\ UNCHANGED <<shm, reqs, resps, outReqs, outResps>>
  BY DEF RingInv, Started, ringVars
<1> QED
  BY <1>1 DEF RingInv, Started, RingsAreQueues, Holds, Load

\* The host's loop has a next step.
LEMMA NextTaskType ==
  ASSUME BTreeTypeOK, NextTask
  PROVE  task' \in 1 .. Tasks /\ hpc' \in {"send", "buffer"}
BY BTreeBounds DEF BTreeTypeOK, NextTask

LEMMA CreateRing == ASSUME RingInv, Create PROVE RingInv'
<1>1. /\ shm = "none" /\ shm' = "there"
      /\ UNCHANGED <<reqs, resps, outReqs, outResps, valid, buffer, hpc, task, all, done, hostNode, dpc, req, node>>
  BY DEF Create, hostVars
<1> QED
  BY <1>1 DEF RingInv, BTreeTypeOK, Started, RingsAreQueues

LEMMA ClearRing == ASSUME RingInv, Clear PROVE RingInv'
<1>1. /\ shm = "there" /\ shm' = "cleared" /\ reqs' = NoItems /\ resps' = NoItems
      /\ valid' = FALSE /\ buffer' = NoKeys
      /\ UNCHANGED <<outReqs, outResps, hpc, task, all, done, hostNode, dpc, req, node>>
  BY DEF Clear, hostVars
<1>2. outReqs = <<>> /\ outResps = <<>>
  BY <1>1 DEF RingInv, Started
<1>3. NoKeys \in Node
  BY BTreeBounds DEF NoKeys, Node
<1>4. RingsAreQueues'
  BY <1>1, <1>2, EmptyRing DEF RingsAreQueues
<1>5. BTreeTypeOK'
  BY <1>1, <1>3, EmptyRing DEF RingInv, BTreeTypeOK
<1> QED
  BY <1>1, <1>4, <1>5 DEF RingInv, Started

LEMMA OpenRing == ASSUME Prompt, RingInv, Open PROVE RingInv'
<1>1. /\ hpc = "open" /\ shm = "cleared" /\ hpc' = "send"
      /\ UNCHANGED <<shm, reqs, resps, outReqs, outResps, valid, buffer, task, all, done, hostNode, dpc, req, node>>
  BY DEF Open, ringVars
<1>2. BTreeTypeOK'
  BY <1>1 DEF RingInv, BTreeTypeOK
<1>3. Started' /\ RingsAreQueues'
  BY <1>1 DEF RingInv, Started, RingsAreQueues, Holds, Load
<1> QED
  BY <1>2, <1>3 DEF RingInv

LEMMA SkipRing == ASSUME RingInv, Skip PROVE RingInv'
<1>1. /\ hpc = "send" /\ NextTask /\ UNCHANGED ringVars
      /\ UNCHANGED <<shm, reqs, resps, valid, buffer, all, done, hostNode, dpc, req, node>>
  BY DEF Skip, ringVars
<1>2. task' \in 1 .. Tasks /\ hpc' \in {"send", "buffer"}
  BY <1>1, NextTaskType DEF RingInv
<1>3. BTreeTypeOK'
  BY <1>1, <1>2 DEF RingInv, BTreeTypeOK
<1> QED
  BY <1>1, <1>2, <1>3, RingsKeep

LEMMA SendRing == ASSUME RingInv, Send PROVE RingInv'
<1>1. /\ hpc = "send" /\ all' = FALSE /\ task \in 1 .. Tasks /\ reqs \in Ring /\ outReqs \in Seq(Item)
      /\ UNCHANGED <<shm, resps, outResps, valid, buffer, done, hostNode, dpc, req, node>>
  BY DEF Send, RingInv, BTreeTypeOK, Started
<1>2. shm = "cleared" /\ Holds(reqs, outReqs) /\ Holds(resps, outResps)
  BY <1>1 DEF RingInv, Started, RingsAreQueues
<1>3. CASE ~Full(reqs) /\ reqs' = Put(reqs, task) /\ outReqs' = Append(outReqs, task) /\ hpc' = "receive" /\ UNCHANGED task
  <2>1. reqs' \in Ring /\ outReqs' \in Seq(Item) /\ Holds(reqs', outReqs')
    BY <1>1, <1>2, <1>3, PutHolds, BTreeBounds
  <2>2. BTreeTypeOK'
    BY <1>1, <1>3, <2>1 DEF RingInv, BTreeTypeOK
  <2>3. RingsAreQueues'
    BY <1>1, <1>2, <2>1 DEF RingsAreQueues, Holds, Load
  <2> QED
    BY <1>1, <1>2, <1>3, <2>1, <2>2, <2>3 DEF RingInv, Started
<1>4. CASE NextTask /\ UNCHANGED <<reqs, outReqs>>
  <2>1. task' \in 1 .. Tasks /\ hpc' \in {"send", "buffer"}
    BY <1>4, NextTaskType DEF RingInv
  <2>2. BTreeTypeOK'
    BY <1>1, <1>4, <2>1 DEF RingInv, BTreeTypeOK
  <2> QED
    BY <1>1, <1>4, <2>1, <2>2, RingsKeep DEF ringVars
<1> QED
  BY <1>3, <1>4 DEF Send

LEMMA ReceiveRing == ASSUME RingInv, Receive PROVE RingInv'
<1>1. /\ hpc = "receive" /\ NextTask /\ task \in 1 .. Tasks /\ done \subseteq 1 .. Tasks
      /\ resps \in Ring /\ outResps \in Seq(Item)
      /\ UNCHANGED <<shm, reqs, outReqs, valid, buffer, all, hostNode, dpc, req, node>>
  BY DEF Receive, RingInv, BTreeTypeOK, Started
<1>2. shm = "cleared" /\ Holds(reqs, outReqs) /\ Holds(resps, outResps)
  BY <1>1 DEF RingInv, Started, RingsAreQueues
<1>3. task' \in 1 .. Tasks /\ hpc' \in {"send", "buffer"}
  BY <1>1, NextTaskType DEF RingInv
<1>4. CASE IsEmpty(resps)
  <2>1. UNCHANGED <<resps, outResps, done>>
    BY <1>4 DEF Receive
  <2>2. BTreeTypeOK'
    BY <1>1, <1>3, <2>1 DEF RingInv, BTreeTypeOK
  <2> QED
    BY <1>1, <1>3, <2>1, <2>2, RingsKeep DEF ringVars
<1>5. CASE ~IsEmpty(resps)
  <2>1. resps' = Take(resps) /\ outResps' = Tail(outResps) /\ done' = done \cup {task}
    BY <1>5 DEF Receive
  <2>2. resps' \in Ring /\ outResps' \in Seq(Item) /\ Holds(resps', outResps')
    BY <1>1, <1>2, <1>5, <2>1, TakeHolds
  <2>3. BTreeTypeOK'
    BY <1>1, <1>3, <2>1, <2>2 DEF RingInv, BTreeTypeOK
  <2>4. RingsAreQueues'
    BY <1>1, <1>2, <2>2 DEF RingsAreQueues, Holds, Load
  <2> QED
    BY <1>1, <1>2, <1>3, <2>2, <2>3, <2>4 DEF RingInv, Started
<1> QED
  BY <1>4, <1>5

LEMMA GetNodeRing == ASSUME RingInv, GetNode PROVE RingInv'
<1>1. /\ hpc = "buffer" /\ hostNode' = (IF valid THEN buffer ELSE hostNode) /\ valid' = FALSE
      /\ hpc' \in {"terminate", "send"} /\ task' = 1 /\ all' = TRUE
      /\ UNCHANGED ringVars /\ UNCHANGED <<shm, reqs, resps, buffer, done, dpc, req, node>>
  BY DEF GetNode, UpdateNode, ringVars
<1>2. 1 \in 1 .. Tasks /\ hostNode' \in Node
  BY <1>1, BTreeBounds DEF RingInv, BTreeTypeOK
<1>3. BTreeTypeOK'
  BY <1>1, <1>2 DEF RingInv, BTreeTypeOK
<1> QED
  BY <1>1, <1>3, RingsKeep

LEMMA TerminateRing == ASSUME RingInv, Terminate PROVE RingInv'
<1>1. /\ hpc = "terminate" /\ hpc' = "wait" /\ reqs \in Ring /\ outReqs \in Seq(Item)
      /\ UNCHANGED <<shm, resps, outResps, valid, buffer, task, all, done, hostNode, dpc, req, node>>
  BY DEF Terminate, RingInv, BTreeTypeOK, Started
<1>2. shm = "cleared" /\ Holds(reqs, outReqs) /\ Holds(resps, outResps)
  BY <1>1 DEF RingInv, Started, RingsAreQueues
<1>3. reqs' \in Ring /\ outReqs' \in Seq(Item) /\ Holds(reqs', outReqs')
  <2>1. CASE Full(reqs)
    BY <1>1, <1>2, <2>1 DEF Terminate
  <2>2. CASE ~Full(reqs)
    <3>1. reqs' = Put(reqs, TerminateReq) /\ outReqs' = Append(outReqs, TerminateReq)
      BY <2>2 DEF Terminate
    <3> QED
      BY <1>1, <1>2, <2>2, <3>1, PutHolds, BTreeBounds
  <2> QED
    BY <2>1, <2>2
<1>4. BTreeTypeOK'
  BY <1>1, <1>3 DEF RingInv, BTreeTypeOK
<1>5. RingsAreQueues'
  BY <1>1, <1>2, <1>3 DEF RingsAreQueues, Holds, Load
<1> QED
  BY <1>1, <1>2, <1>3, <1>4, <1>5 DEF RingInv, Started

LEMMA ReapRing == ASSUME RingInv, Reap PROVE RingInv'
<1>1. /\ hpc = "wait" /\ hpc' = "exited" /\ UNCHANGED ringVars
      /\ UNCHANGED <<shm, reqs, resps, valid, buffer, task, all, done, hostNode, dpc, req, node>>
  BY DEF Reap, ringVars
<1>2. BTreeTypeOK'
  BY <1>1 DEF RingInv, BTreeTypeOK
<1> QED
  BY <1>1, <1>2, RingsKeep

LEMMA ReceiveRequestRing == ASSUME RingInv, ReceiveRequest PROVE RingInv' /\ req' = Head(outReqs) /\ outReqs # <<>>
<1>1. /\ dpc = "poll" /\ shm = "cleared" /\ ~IsEmpty(reqs) /\ req' = Front(reqs)
      /\ dpc' \in {"stopped", "insert"} /\ (dpc' = "insert" => req' # TerminateReq)
      /\ reqs' = Take(reqs) /\ outReqs' = Tail(outReqs)
      /\ UNCHANGED <<shm, resps, outResps, valid, buffer, hpc, task, all, done, hostNode, node>>
      /\ reqs \in Ring /\ outReqs \in Seq(Item)
  BY DEF ReceiveRequest, hostVars, RingInv, BTreeTypeOK, Started
<1>2. Holds(reqs, outReqs) /\ Holds(resps, outResps)
  BY <1>1 DEF RingInv, RingsAreQueues
<1>3. /\ reqs' \in Ring /\ outReqs' \in Seq(Item) /\ Holds(reqs', outReqs')
      /\ req' = Head(outReqs) /\ outReqs # <<>>
  BY <1>1, <1>2, TakeHolds
<1>4. req' \in Item
  BY <1>1, <1>3
<1>5. BTreeTypeOK'
  BY <1>1, <1>3, <1>4 DEF RingInv, BTreeTypeOK
<1>6. RingsAreQueues'
  BY <1>1, <1>2, <1>3 DEF RingsAreQueues, Holds, Load
<1>7. hpc # "open"
  BY <1>3 DEF RingInv, Started
<1> QED
  BY <1>1, <1>3, <1>5, <1>6, <1>7 DEF RingInv, Started

LEMMA InsertRing == ASSUME RingInv, Insert PROVE RingInv'
<1>1. /\ dpc = "insert" /\ dpc' = "push" /\ node' = [keys |-> node.keys \cup {req}, num |-> node.num + 1]
      /\ UNCHANGED ringVars /\ UNCHANGED <<shm, reqs, resps, valid, buffer, hpc, task, all, done, hostNode, req>>
  BY DEF Insert, ringVars, hostVars
<1>2. hpc # "open" /\ hpc # "crashed"
  BY <1>1 DEF RingInv, Started
<1>3. ASSUME node \in Node PROVE node' \in Node
  <2>1. req \in 1 .. Tasks
    BY <1>1, BTreeBounds DEF RingInv, BTreeTypeOK, Started, Item, TerminateReq
  <2> QED
    BY <1>1, <1>3, <2>1 DEF Node
<1>4. BTreeTypeOK'
  BY <1>1, <1>3 DEF RingInv, BTreeTypeOK
<1> QED
  BY <1>1, <1>2, <1>4, RingsKeep

LEMMA PushRing == ASSUME RingInv, Push PROVE RingInv'
<1>1. /\ dpc = "push" /\ dpc' = "respond" /\ buffer' = node /\ valid' = TRUE
      /\ UNCHANGED ringVars /\ UNCHANGED <<shm, reqs, resps, hpc, task, all, done, hostNode, req, node>>
  BY DEF Push, ringVars, hostVars
<1>2. hpc # "open" /\ hpc # "crashed"
  BY <1>1 DEF RingInv, Started
<1>3. BTreeTypeOK'
  BY <1>1 DEF RingInv, BTreeTypeOK
<1> QED
  BY <1>1, <1>2, <1>3, RingsKeep

LEMMA RespondRing == ASSUME RingInv, Respond PROVE RingInv'
<1>1. /\ dpc = "respond" /\ dpc' = "poll" /\ ~Full(resps) /\ resps' = Put(resps, Root)
      /\ outResps' = Append(outResps, Root)
      /\ UNCHANGED <<shm, reqs, outReqs, valid, buffer, hpc, task, all, done, hostNode, req, node>>
      /\ resps \in Ring /\ outResps \in Seq(Item)
  BY DEF Respond, hostVars, RingInv, BTreeTypeOK, Started
<1>2. shm = "cleared" /\ hpc # "open" /\ Holds(reqs, outReqs) /\ Holds(resps, outResps)
  BY <1>1 DEF RingInv, Started, RingsAreQueues
<1>3. resps' \in Ring /\ outResps' \in Seq(Item) /\ Holds(resps', outResps')
  BY <1>1, <1>2, PutHolds, BTreeBounds
<1>4. BTreeTypeOK'
  BY <1>1, <1>3 DEF RingInv, BTreeTypeOK
<1>5. RingsAreQueues'
  BY <1>1, <1>2, <1>3 DEF RingsAreQueues, Holds, Load
<1> QED
  BY <1>1, <1>2, <1>3, <1>4, <1>5 DEF RingInv, Started

LEMMA RingStep == ASSUME Prompt, RingInv, [BTreeNext]_btreeVars PROVE RingInv'
<1>1. CASE UNCHANGED btreeVars
  BY <1>1 DEF btreeVars, ringVars, hostVars, RingInv, BTreeTypeOK, Started, RingsAreQueues, Holds, Load
<1>2. CASE Host
  BY <1>2, OpenRing, SkipRing, SendRing, ReceiveRing, GetNodeRing, TerminateRing, ReapRing DEF Host
<1>3. CASE Device
  BY <1>3, CreateRing, ClearRing, ReceiveRequestRing, InsertRing, PushRing, RespondRing DEF Device
<1> QED
  BY <1>1, <1>2, <1>3 DEF BTreeNext

\* A ring holds exactly what was put in and not taken out, in order, wherever the indices
\* wrap, from the time the segment is cleared (send_request, receive_response).
THEOREM RingsKept == ASSUME Prompt PROVE BTreeSpec => []RingsAreQueues
<1>1. BTreeInit => RingInv
  BY RingStart
<1>2. RingInv /\ [BTreeNext]_btreeVars => RingInv'
  BY RingStep
<1>3. RingInv => RingsAreQueues
  BY DEF RingInv
<1> QED
  BY <1>1, <1>2, <1>3, PTL DEF BTreeSpec

-----------------------------------------------------------------------------
(* The keys *)

\* Tasks that are done are counted.
LEMMA DoneCount ==
  ASSUME BTreeTypeOK
  PROVE  /\ Cardinality(done) \in Nat
         /\ done = {} => Cardinality(done) = 0
         /\ done = 1 .. Tasks => Cardinality(done) = Tasks
         /\ \A t \in 1 .. Tasks : t \notin done => Cardinality(done \cup {t}) = Cardinality(done) + 1
<1>1. done \subseteq 1 .. Tasks /\ IsFiniteSet(1 .. Tasks) /\ Cardinality(1 .. Tasks) = Tasks
  BY BTreeBounds, FS_Interval DEF BTreeTypeOK
<1>2. IsFiniteSet(done)
  BY <1>1, FS_Subset
<1>3. Cardinality(done) \in Nat
  BY <1>2, FS_CardinalityType
<1>4. done = {} => Cardinality(done) = 0
  BY FS_EmptySet
<1>5. \A t \in 1 .. Tasks : t \notin done => Cardinality(done \cup {t}) = Cardinality(done) + 1
  BY <1>2, FS_AddElement
<1> QED
  BY <1>1, <1>3, <1>4, <1>5

LEMMA Counts ==
  ASSUME RingInv
  PROVE  /\ Inserted \in Nat /\ Pushed \in Nat /\ Len(outResps) \in Nat /\ Cardinality(done) \in Nat
         /\ Inserted = Pushed + (IF dpc = "push" THEN 1 ELSE 0)
         /\ Pushed = Cardinality(done) + Len(outResps) + (IF dpc = "respond" THEN 1 ELSE 0)
<1>1. Len(outResps) \in Nat /\ Cardinality(done) \in Nat
  BY DoneCount DEF RingInv, Started
<1> QED
  BY <1>1 DEF Inserted, Pushed

LEMMA SameCounts ==
  ASSUME UNCHANGED <<done, outResps, dpc>>
  PROVE  Inserted' = Inserted /\ Pushed' = Pushed
BY DEF Inserted, Pushed

\* Nodes are well formed.
LEMMA Nodes ==
  ASSUME BTreeTypeOK
  PROVE  /\ node.keys \subseteq 1 .. Tasks /\ node.num \in Nat
         /\ Latest.keys \subseteq 1 .. Tasks /\ Latest.num \in Nat
BY DEF BTreeTypeOK, Node, Latest

\* What the keys do not see.
LEMMA KeysKeep ==
  ASSUME Keys, Inserted' = Inserted, Pushed' = Pushed, UNCHANGED <<node, dpc, req>>, Latest' = Latest, hpc' # "open"
  PROVE  Keys'
BY DEF Keys

\* A request stays where it is when one goes out behind it.
LEMMA AskedKeeps ==
  ASSUME RingInv, NEW x \in Item, NEW t, Asked(t), UNCHANGED <<dpc, req>>,
         outReqs' = outReqs \/ outReqs' = Append(outReqs, x)
  PROVE  Asked(t)'
<1>1. outReqs \in Seq(Item)
  BY DEF RingInv, Started
<1>2. CASE outReqs' = Append(outReqs, x)
  BY <1>1, <1>2 DEF Asked
<1> QED
  BY <1>2 DEF Asked

\* What each step has to show besides the rings.
TreeGoals == Asks' /\ Keys' /\ OnTheWay'

LEMMA OpeningTree == ASSUME Prompt, TreeInv, RingInv', Create \/ Clear \/ Open PROVE TreeGoals
<1>1. /\ hpc = "open" /\ hpc' \in {"open", "send"} /\ UNCHANGED <<outResps, done, dpc, req, node, hostNode>>
  BY DEF Create, Clear, Open, TreeInv, RingInv, Started, hostVars, ringVars
<1>2. dpc = "poll" /\ done = {} /\ outResps = <<>> /\ node = NoKeys /\ hostNode = NoKeys /\ ~valid
  BY <1>1 DEF TreeInv, RingInv, Started, Keys
<1>3. ~valid'
  BY <1>2 DEF Create, Clear, Open
<1>4. Inserted' = 0 /\ Pushed' = 0
  BY <1>1, <1>2, Counts, DoneCount, SameCounts DEF TreeInv, RingInv
<1>5. Latest' = NoKeys
  BY <1>1, <1>2, <1>3 DEF Latest
<1>6. Keys'
  BY <1>1, <1>2, <1>3, <1>4, <1>5 DEF Keys, NoKeys
<1> QED
  BY <1>1, <1>2, <1>6 DEF TreeGoals, Asks, OnTheWay, Sending

LEMMA SkipTree == ASSUME TreeInv, RingInv', Skip PROVE TreeGoals
<1>1. /\ hpc = "send" /\ hpc' \in {"send", "buffer"}
      /\ UNCHANGED <<outReqs, outResps, valid, buffer, done, dpc, req, node, hostNode>>
  BY DEF Skip, NextTask, ringVars
<1>2. Inserted' = Inserted /\ Pushed' = Pushed /\ Latest' = Latest
  BY <1>1, SameCounts DEF Latest
<1>3. Keys'
  BY <1>1, <1>2, KeysKeep DEF TreeInv
<1> QED
  BY <1>1, <1>2, <1>3 DEF TreeGoals, TreeInv, Asks, OnTheWay, Sending, Asked

LEMMA SendTree == ASSUME TreeInv, RingInv', Send PROVE TreeGoals
<1>1. /\ hpc = "send" /\ task \notin done /\ task \in 1 .. Tasks
      /\ UNCHANGED <<outResps, valid, buffer, done, hostNode, dpc, req, node>>
  BY DEF Send, TreeInv, RingInv, BTreeTypeOK
<1>2. Inserted' = Inserted /\ Pushed' = Pushed /\ Latest' = Latest
  BY <1>1, SameCounts DEF Latest
<1>3. hpc' \in {"receive", "send", "buffer"}
  BY DEF Send, NextTask
<1>4. Keys'
  BY <1>1, <1>2, <1>3, KeysKeep DEF TreeInv
<1>5. task \in Item
  BY <1>1, BTreeBounds
<1>6. ASSUME NEW t \in done PROVE t \in Latest'.keys \/ Asked(t)'
  <2>1. t \in Latest.keys \/ Asked(t)
    BY <1>1, <1>6 DEF TreeInv, OnTheWay, Sending
  <2>2. outReqs' = outReqs \/ outReqs' = Append(outReqs, task)
    BY DEF Send
  <2> QED
    BY <1>1, <1>2, <1>5, <2>1, <2>2, AskedKeeps DEF TreeInv
<1>7. CASE hpc' = "receive"
  <2>1. outReqs' = Append(outReqs, task) /\ task' = task /\ outReqs \in Seq(Item)
    BY <1>7 DEF Send, NextTask, TreeInv, RingInv, Started
  <2> DEFINE n == Len(outReqs) + 1
  <2>2. n \in 1 .. Len(outReqs') /\ outReqs'[n] = task
    BY <1>5, <2>1
  <2> HIDE DEF n
  <2>3. Asked(task)'
    BY <2>1, <2>2 DEF Asked
  <2> QED
    BY <1>1, <1>4, <1>6, <1>7, <2>1, <2>3 DEF TreeGoals, TreeInv, Asks, OnTheWay, Sending
<1>8. CASE hpc' # "receive"
  BY <1>1, <1>4, <1>6, <1>8 DEF TreeGoals, TreeInv, Asks, OnTheWay, Sending
<1> QED
  BY <1>7, <1>8

LEMMA ReceiveTree == ASSUME TreeInv, RingInv', Receive PROVE TreeGoals
<1>1. /\ hpc = "receive" /\ hpc' \in {"send", "buffer"} /\ task \in 1 .. Tasks /\ task \notin done
      /\ UNCHANGED <<outReqs, valid, buffer, hostNode, dpc, req, node>>
  BY DEF Receive, NextTask, TreeInv, RingInv, BTreeTypeOK, Asks
<1>2. Latest' = Latest
  BY <1>1 DEF Latest
<1>3. /\ Cardinality(done') + Len(outResps') = Cardinality(done) + Len(outResps)
      /\ done' \subseteq done \cup {task}
  <2>1. CASE IsEmpty(resps)
    BY <2>1 DEF Receive
  <2>2. CASE ~IsEmpty(resps)
    <3>1. outResps' = Tail(outResps) /\ done' = done \cup {task}
      BY <2>2 DEF Receive
    <3>2. resps \in Ring /\ outResps \in Seq(Item) /\ Holds(resps, outResps)
      BY <1>1 DEF TreeInv, RingInv, Started, RingsAreQueues, BTreeTypeOK
    <3>3. outResps # <<>>
      BY <2>2, <3>2, TakeHolds
    <3>4. Len(outResps') = Len(outResps) - 1 /\ Len(outResps) \in Nat
      BY <3>1, <3>2, <3>3
    <3>5. Cardinality(done') = Cardinality(done) + 1 /\ Cardinality(done) \in Nat
      BY <1>1, <3>1, DoneCount DEF TreeInv, RingInv
    <3> QED
      BY <3>1, <3>4, <3>5
  <2> QED
    BY <2>1, <2>2
<1>4. Inserted' = Inserted /\ Pushed' = Pushed
  BY <1>1, <1>3 DEF Inserted, Pushed
<1>5. Keys'
  BY <1>1, <1>2, <1>4, KeysKeep DEF TreeInv
<1> QED
  BY <1>1, <1>2, <1>3, <1>5 DEF TreeGoals, TreeInv, Asks, OnTheWay, Sending, Asked

LEMMA GetNodeTree == ASSUME TreeInv, RingInv', GetNode PROVE TreeGoals
<1>1. /\ hpc = "buffer" /\ hostNode' = Latest /\ valid' = FALSE /\ hpc' \in {"terminate", "send"}
      /\ UNCHANGED <<outReqs, outResps, buffer, done, dpc, req, node>>
  BY DEF GetNode, UpdateNode, Latest, ringVars
<1>2. Inserted' = Inserted /\ Pushed' = Pushed /\ Latest' = Latest
  BY <1>1, SameCounts DEF Latest
<1>3. Keys'
  BY <1>1, <1>2, KeysKeep DEF TreeInv
<1> QED
  BY <1>1, <1>2, <1>3 DEF TreeGoals, TreeInv, Asks, OnTheWay, Sending, Asked

LEMMA EndingTree == ASSUME TreeInv, RingInv', Terminate \/ Reap PROVE TreeGoals
<1>1. /\ hpc \in {"terminate", "wait"} /\ hpc' \in {"wait", "exited"}
      /\ UNCHANGED <<outResps, valid, buffer, done, hostNode, dpc, req, node>>
  BY DEF Terminate, Reap, ringVars
<1>2. Inserted' = Inserted /\ Pushed' = Pushed /\ Latest' = Latest
  BY <1>1, SameCounts DEF Latest
<1>3. Keys'
  BY <1>1, <1>2, KeysKeep DEF TreeInv
<1>4. outReqs' = outReqs \/ outReqs' = Append(outReqs, TerminateReq)
  BY DEF Terminate, Reap, ringVars
<1>5. ASSUME NEW t \in done PROVE t \in Latest'.keys \/ Asked(t)'
  BY <1>1, <1>2, <1>4, AskedKeeps, BTreeBounds DEF TreeInv, OnTheWay, Sending
<1> QED
  BY <1>1, <1>3, <1>5 DEF TreeGoals, TreeInv, Asks, OnTheWay, Sending

LEMMA ReceiveRequestTree == ASSUME TreeInv, RingInv', ReceiveRequest PROVE TreeGoals
<1>1. /\ dpc = "poll" /\ outReqs' = Tail(outReqs) /\ outReqs \in Seq(Item) /\ outReqs # <<>>
      /\ req' = Head(outReqs) /\ dpc' \in {"insert", "stopped"} /\ (dpc' = "stopped" <=> req' = TerminateReq)
      /\ UNCHANGED <<outResps, valid, buffer, hpc, task, done, hostNode, node>>
  BY ReceiveRequestRing DEF ReceiveRequest, hostVars, TreeInv, RingInv, Started
<1>2. Inserted' = Inserted /\ Pushed' = Pushed /\ Latest' = Latest
  BY <1>1 DEF Inserted, Pushed, Latest
<1>3. Keys'
  BY <1>1, <1>2 DEF TreeInv, Keys
<1>4. Len(outReqs) \in Nat \ {0} /\ req' = outReqs[1] /\ req' \in Item
  BY <1>1
<1>5. Asks'
  BY <1>1 DEF Asks, TreeInv
<1>6. ASSUME NEW t \in Sending, Asked(t) PROVE Asked(t)'
  <2>1. PICK i \in 1 .. Len(outReqs) : outReqs[i] = t
    BY <1>1, <1>6 DEF Asked
  <2>2. t \in 1 .. Tasks
    BY DEF Sending, TreeInv, RingInv, BTreeTypeOK
  <2>3. CASE i = 1
    <3>1. req' = t /\ t # TerminateReq
      BY <1>4, <2>1, <2>2, <2>3, BTreeBounds DEF TerminateReq
    <3>2. dpc' = "insert"
      BY <1>1, <3>1
    <3> QED
      BY <3>1, <3>2 DEF Asked
  <2>4. CASE i # 1
    <3> DEFINE j == i - 1
    <3>1. j \in 1 .. Len(outReqs') /\ outReqs'[j] = t
      BY <1>1, <1>4, <2>1, <2>4
    <3> HIDE DEF j
    <3> QED
      BY <3>1 DEF Asked
  <2> QED
    BY <2>3, <2>4
<1>7. Sending' = Sending
  BY <1>1 DEF Sending
<1> QED
  BY <1>2, <1>3, <1>5, <1>6, <1>7 DEF TreeGoals, TreeInv, OnTheWay

LEMMA InsertTree == ASSUME TreeInv, RingInv', Insert PROVE TreeGoals
<1>1. /\ dpc = "insert" /\ dpc' = "push"
      /\ node' = [keys |-> node.keys \cup {req}, num |-> node.num + 1]
      /\ UNCHANGED <<outReqs, outResps, valid, buffer, hpc, task, done, hostNode, req>>
  BY DEF Insert, ringVars, hostVars
<1>2. Inserted' = Inserted + 1 /\ Pushed' = Pushed /\ Latest' = Latest
  BY <1>1, Counts DEF Inserted, Pushed, Latest, TreeInv
<1>3. node.num \in Nat /\ Inserted \in Nat /\ node.num >= Inserted /\ hpc' # "open"
  BY <1>1, Nodes, Counts DEF TreeInv, RingInv, Keys, Started
<1>4. node'.num >= Inserted' /\ node'.keys = node.keys \cup {req}
  BY <1>1, <1>2, <1>3
<1>5. Keys'
  BY <1>1, <1>2, <1>3, <1>4 DEF TreeInv, Keys
<1> QED
  BY <1>1, <1>2, <1>5 DEF TreeGoals, TreeInv, Asks, OnTheWay, Sending, Asked

LEMMA PushTree == ASSUME TreeInv, RingInv', Push PROVE TreeGoals
<1>1. /\ dpc = "push" /\ dpc' = "respond" /\ buffer' = node /\ valid' = TRUE
      /\ UNCHANGED <<outReqs, outResps, hpc, task, done, hostNode, req, node>>
  BY DEF Push, ringVars, hostVars
<1>2. Inserted' = Inserted /\ Pushed' = Inserted /\ Latest' = node
  BY <1>1, Counts DEF Inserted, Pushed, Latest, TreeInv
<1>3. hpc' # "open" /\ Latest.keys \subseteq node.keys /\ req \in node.keys /\ node.num >= Inserted
  BY <1>1 DEF TreeInv, RingInv, Started, Keys
<1>4. Keys'
  BY <1>1, <1>2, <1>3 DEF Keys
<1>5. ASSUME NEW t \in Sending PROVE t \in Latest'.keys \/ Asked(t)'
  BY <1>1, <1>2, <1>3 DEF TreeInv, OnTheWay, Asked
<1> QED
  BY <1>1, <1>4, <1>5 DEF TreeGoals, TreeInv, Asks, OnTheWay, Sending

LEMMA RespondTree == ASSUME TreeInv, RingInv', Respond PROVE TreeGoals
<1>1. /\ dpc = "respond" /\ dpc' = "poll" /\ outResps' = Append(outResps, Root) /\ outResps \in Seq(Item)
      /\ UNCHANGED <<outReqs, valid, buffer, hpc, task, done, hostNode, req, node>>
  BY DEF Respond, hostVars, TreeInv, RingInv, Started
<1>2. Len(outResps') = Len(outResps) + 1 /\ Len(outResps) \in Nat /\ Cardinality(done) \in Nat
  BY <1>1, Counts DEF TreeInv
<1>3. Inserted' = Inserted /\ Pushed' = Pushed /\ Latest' = Latest
  BY <1>1, <1>2 DEF Inserted, Pushed, Latest
<1>4. Keys'
  BY <1>1, <1>3 DEF TreeInv, RingInv, Started, Keys
<1> QED
  BY <1>1, <1>3, <1>4 DEF TreeGoals, TreeInv, Asks, OnTheWay, Sending, Asked

LEMMA TreeStart == BTreeInit => TreeInv
<1> SUFFICES ASSUME BTreeInit PROVE TreeInv
  OBVIOUS
<1>1. RingInv
  BY RingStart
<1>2. /\ hpc = "open" /\ dpc = "poll" /\ done = {} /\ outResps = <<>>
      /\ node = NoKeys /\ hostNode = NoKeys /\ valid = FALSE
  BY DEF BTreeInit
<1>3. Inserted = 0 /\ Pushed = 0
  BY <1>1, <1>2, Counts, DoneCount DEF RingInv
<1>4. Keys
  BY <1>2, <1>3 DEF Keys, Latest, NoKeys
<1> QED
  BY <1>1, <1>2, <1>4 DEF TreeInv, Asks, OnTheWay, Sending

LEMMA TreeStep == ASSUME Prompt, TreeInv, [BTreeNext]_btreeVars PROVE TreeInv'
<1>1. RingInv'
  BY RingStep DEF TreeInv
<1>2. CASE UNCHANGED btreeVars
  <2>1. UNCHANGED <<hpc, task, done, hostNode, valid, buffer, outReqs, outResps, dpc, req, node>>
    BY <1>2 DEF btreeVars, ringVars, hostVars
  <2>2. Inserted' = Inserted /\ Pushed' = Pushed /\ Latest' = Latest
    BY <2>1, SameCounts DEF Latest
  <2> QED
    BY <1>1, <2>1, <2>2 DEF TreeInv, Asks, Keys, OnTheWay, Sending, Asked
<1>3. CASE Host
  <2>1. TreeGoals
    BY <1>1, <1>3, OpeningTree, SkipTree, SendTree, ReceiveTree, GetNodeTree, EndingTree DEF Host
  <2> QED
    BY <1>1, <2>1 DEF TreeGoals, TreeInv
<1>4. CASE Device
  <2>1. TreeGoals
    BY <1>1, <1>4, OpeningTree, ReceiveRequestTree, InsertTree, PushTree, RespondTree DEF Device
  <2> QED
    BY <1>1, <2>1 DEF TreeGoals, TreeInv
<1> QED
  BY <1>2, <1>3, <1>4 DEF BTreeNext

\* However many more tasks there are than slots, and although a response completes whichever
\* task looks first: as many insertions as tasks completed are in the node that the host has
\* or finds next, and a completed task whose key is not has its own request on the way
\* (AsyncTask::execute, the device's loop).
THEOREM CompletionsAreApplied == ASSUME Prompt PROVE BTreeSpec => []CompletionsApplied
<1>1. BTreeInit => TreeInv
  BY TreeStart
<1>2. TreeInv /\ [BTreeNext]_btreeVars => TreeInv'
  BY TreeStep
<1>3. TreeInv => CompletionsApplied
  <2> SUFFICES ASSUME TreeInv PROVE CompletionsApplied
    OBVIOUS
  <2>1. Pushed \in Nat /\ Cardinality(done) \in Nat /\ Pushed >= Cardinality(done)
    BY Counts DEF TreeInv
  <2>2. Latest.num \in Nat /\ Latest.num >= Pushed
    BY Nodes DEF TreeInv, RingInv, Keys
  <2>3. ASSUME NEW t \in done, Asked(t) PROVE Asking(t)
    <3>1. shm = "cleared"
      BY <2>3 DEF TreeInv, RingInv, Started
    <3>2. Len(outReqs) = Load(reqs) /\ \A i \in 1 .. Len(outReqs) : reqs.slots[(reqs.r + i - 1) % Size] = outReqs[i]
      BY <3>1 DEF TreeInv, RingInv, RingsAreQueues, Holds
    <3> QED
      BY <2>3, <3>2 DEF Asked, Asking
  <2> QED
    BY <2>1, <2>2, <2>3 DEF TreeInv, OnTheWay, Sending, CompletionsApplied
<1> QED
  BY <1>1, <1>2, <1>3, PTL DEF BTreeSpec

\* What the lengths of the two queues say of the rings.
LEMMA UnderWayIs ==
  ASSUME RingInv
  PROVE  /\ Len(outReqs) \in Nat /\ Len(outResps) \in Nat /\ Size \in Nat
         /\ shm = "cleared" => /\ Len(outReqs) <= Size - 1 /\ Len(outResps) <= Size - 1
                               /\ IsEmpty(resps) <=> outResps = <<>>
                               /\ Full(reqs) <=> Len(outReqs) = Size - 1
                               /\ Full(resps) <=> Len(outResps) = Size - 1
<1>1. outReqs \in Seq(Item) /\ outResps \in Seq(Item) /\ reqs \in Ring /\ resps \in Ring
  BY DEF RingInv, BTreeTypeOK, Started
<1>2. shm = "cleared" => Holds(reqs, outReqs) /\ Holds(resps, outResps)
  BY DEF RingInv, RingsAreQueues
<1> QED
  BY <1>1, <1>2, RingBounds, BTreeBounds

LEMMA BoundedStart == BTreeInit => Bounded
<1> SUFFICES ASSUME BTreeInit PROVE Bounded
  OBVIOUS
<1>1. hpc = "open" /\ dpc = "poll" /\ Len(outReqs) = 0 /\ Len(outResps) = 0 /\ Size \in Nat
  BY BTreeBounds DEF BTreeInit
<1> QED
  BY <1>1 DEF Bounded, UnderWay, Busy

\* The host's steps: it sends after it has found no response, or taken one.
LEMMA HostBounded == ASSUME RingInv, Bounded, Host PROVE Bounded'
<1>1. /\ Len(outReqs) \in Nat /\ Len(outResps) \in Nat /\ Size \in Nat
      /\ outReqs \in Seq(Item) /\ outResps \in Seq(Item)
  BY UnderWayIs DEF RingInv, Started
<1>2. CASE Open \/ Skip \/ GetNode
  <2>1. UNCHANGED <<outReqs, outResps, dpc>> /\ hpc \in {"open", "send", "buffer"}
    BY <1>2 DEF Open, Skip, GetNode, ringVars
  <2> QED
    BY <1>1, <2>1 DEF Bounded, UnderWay, Busy
<1>3. CASE Send
  <2>1. hpc = "send" /\ UNCHANGED <<outResps, dpc>>
    BY <1>3 DEF Send
  <2>2. CASE outReqs' = Append(outReqs, task) /\ hpc' = "receive"
    <3>1. Len(outReqs') = Len(outReqs) + 1
      BY <1>1, <2>2
    <3> QED
      BY <1>1, <2>1, <2>2, <3>1 DEF Bounded, UnderWay, Busy
  <2>3. CASE UNCHANGED outReqs
    BY <1>1, <2>1, <2>3 DEF Bounded, UnderWay, Busy
  <2> QED
    BY <1>3, <2>2, <2>3 DEF Send
<1>4. CASE Receive
  <2>1. hpc = "receive" /\ UNCHANGED <<shm, outReqs, dpc>>
    BY <1>4 DEF Receive
  <2>2. shm = "cleared"
    BY <2>1 DEF RingInv, Started
  <2>3. CASE IsEmpty(resps)
    <3>1. outResps' = outResps /\ ~(Len(outResps) > 0) /\ Len(outReqs) <= Size - 1
      BY <1>1, <1>4, <2>2, <2>3, UnderWayIs DEF Receive
    <3> QED
      BY <1>1, <2>1, <3>1 DEF Bounded, UnderWay, Busy
  <2>4. CASE ~IsEmpty(resps)
    <3>1. outResps' = Tail(outResps) /\ outResps # <<>>
      BY <1>4, <2>2, <2>4, UnderWayIs DEF Receive
    <3>2. Len(outResps') = Len(outResps) - 1
      BY <1>1, <3>1
    <3> QED
      BY <1>1, <2>1, <3>2 DEF Bounded, UnderWay, Busy
  <2> QED
    BY <2>3, <2>4
<1>5. CASE Terminate
  <2>1. hpc = "terminate" /\ hpc' = "wait" /\ UNCHANGED <<outResps, dpc>>
    BY <1>5 DEF Terminate
  <2>2. Len(outReqs') = Len(outReqs) \/ Len(outReqs') = Len(outReqs) + 1
    BY <1>1, <1>5 DEF Terminate
  <2> QED
    BY <1>1, <2>1, <2>2 DEF Bounded, UnderWay, Busy
<1>6. CASE Reap
  <2>1. hpc = "wait" /\ hpc' = "exited" /\ UNCHANGED <<outReqs, outResps, dpc>>
    BY <1>6 DEF Reap, ringVars
  <2> QED
    BY <1>1, <2>1 DEF Bounded, UnderWay, Busy
<1> QED
  BY <1>2, <1>3, <1>4, <1>5, <1>6 DEF Host

\* The device turns a request into a response and adds nothing.
LEMMA DeviceBounded == ASSUME RingInv, Bounded, Device PROVE Bounded'
<1>1. /\ Len(outReqs) \in Nat /\ Len(outResps) \in Nat /\ Size \in Nat
      /\ outReqs \in Seq(Item) /\ outResps \in Seq(Item)
  BY UnderWayIs DEF RingInv, Started
<1>2. CASE Create \/ Clear
  <2>1. UNCHANGED <<outReqs, outResps, hpc, dpc>>
    BY <1>2 DEF Create, Clear, hostVars
  <2> QED
    BY <2>1 DEF Bounded, UnderWay, Busy
<1>3. CASE ReceiveRequest
  <2>1. dpc = "poll" /\ outReqs' = Tail(outReqs) /\ UNCHANGED <<hpc, outResps>> /\ outReqs # <<>>
    BY <1>3, ReceiveRequestRing DEF ReceiveRequest, hostVars
  <2>2. Len(outReqs') = Len(outReqs) - 1
    BY <1>1, <2>1
  <2> QED
    BY <1>1, <2>1, <2>2 DEF Bounded, UnderWay, Busy
<1>4. CASE Insert \/ Push
  <2>1. dpc \in {"insert", "push"} /\ dpc' \in {"push", "respond"} /\ UNCHANGED <<hpc, outReqs, outResps>>
    BY <1>4 DEF Insert, Push, ringVars, hostVars
  <2> QED
    BY <1>1, <2>1 DEF Bounded, UnderWay, Busy
<1>5. CASE Respond
  <2>1. dpc = "respond" /\ dpc' = "poll" /\ outResps' = Append(outResps, Root) /\ UNCHANGED <<hpc, outReqs>>
    BY <1>5 DEF Respond, hostVars
  <2>2. Len(outResps') = Len(outResps) + 1
    BY <1>1, <2>1
  <2> QED
    BY <1>1, <2>1, <2>2 DEF Bounded, UnderWay, Busy
<1> QED
  BY <1>2, <1>3, <1>4, <1>5 DEF Device

\* The rings are never both full, so host and device never wait on each other, once they
\* have more than three slots: with three, a request under way beside two in each ring is
\* enough to stop both (x86_main's loop and RISCVServer::run).
THEOREM RingsNotBothFull ==
  ASSUME Prompt, Size > 3
  PROVE  BTreeSpec => []NoGridlock
<1>1. BTreeInit => RingInv /\ Bounded
  BY RingStart, BoundedStart
<1>2. RingInv /\ Bounded /\ [BTreeNext]_btreeVars => (RingInv /\ Bounded)'
  <2> SUFFICES ASSUME RingInv, Bounded, [BTreeNext]_btreeVars PROVE RingInv' /\ Bounded'
    OBVIOUS
  <2>1. RingInv'
    BY RingStep
  <2>2. CASE UNCHANGED btreeVars
    BY <2>1, <2>2 DEF btreeVars, ringVars, hostVars, Bounded, UnderWay, Busy
  <2>3. CASE BTreeNext
    BY <2>1, <2>3, HostBounded, DeviceBounded DEF BTreeNext
  <2> QED
    BY <2>1, <2>2, <2>3
<1>3. RingInv /\ Bounded => NoGridlock
  <2> SUFFICES ASSUME RingInv, Bounded, Full(reqs), Full(resps) PROVE FALSE
    BY DEF NoGridlock
  <2>1. shm = "cleared"
    BY EmptyRing DEF RingInv, Started
  <2>2. Len(outReqs) = Size - 1 /\ Len(outResps) = Size - 1 /\ Size \in Nat
    BY <2>1, UnderWayIs
  <2> QED
    BY <2>1, <2>2 DEF Bounded, UnderWay
<1> QED
  BY <1>1, <1>2, <1>3, PTL DEF BTreeSpec

-----------------------------------------------------------------------------
(* The cache-resident wait *)

USE ConstantsOK
USE DEF PC, Asleep, Returned, Backend

\* A wait for a change began with the value the flag had then, and the flag only
\* grows.
NotAhead ==
  \A w \in Waiters : pc[w] # "idle" /\ ~want[w].equal => want[w].value <= flag

\* Time only passes for a wait that was given a timeout.
LateIsTimed == \A w \in Waiters : late[w] => want[w].timed

\* What a satisfied condition announces is stored, and nothing loaded ahead outlives the
\* fence that a satisfied wait ends with.
PayloadThere ==
  \A w \in Waiters : pc[w] = "true" =>
    payload >= IF want[w].equal THEN want[w].value ELSE want[w].value + 1
LoadedAfter == \A w \in Waiters : pc[w] = "true" => ahead[w] = Unloaded

WaitInv ==
  /\ TypeOK /\ NotAhead /\ PayloadThere /\ LoadedAfter
  /\ LateIsTimed /\ FalseOnlyLate /\ OnlySupported

-----------------------------------------------------------------------------

\* The spin backend is always there.
LEMMA BackendsKnown ==
  "SPIN" \in Supported /\ \A b \in Backend : BackendSupported(b) => b \in Supported
  BY DEF Supported, BackendSupported

\* Whatever the environment names, the detection takes a backend that exists.
LEMMA DetectedSupported == DetectBackend \in Supported
<1> DEFINE e == BackendFromEnv
<1>1. Supported \subseteq Backend /\ "SPIN" \in Supported
  BY DEF Supported, BackendSupported
<1>2. CASE e # "none"
  <2>1. e \in Backend
    BY <1>2 DEF BackendFromEnv
  <2> QED
    BY <1>1, <1>2, <2>1 DEF DetectBackend, Supported
<1>3. CASE e = "none"
  BY <1>1, <1>3 DEF DetectBackend, Supported, BackendSupported
<1> QED
  BY <1>2, <1>3

\* The spin rounds stay within the budget.
LEMMA Counting ==
  ASSUME WaitInv, NEW w \in Waiters
  PROVE  /\ [left EXCEPT ![w] = SpinBudget] \in [Waiters -> 0 .. SpinBudget]
         /\ left[w] > 0 => [left EXCEPT ![w] = @ - 1] \in [Waiters -> 0 .. SpinBudget]
<1> left \in [Waiters -> 0 .. SpinBudget] /\ left[w] \in 0 .. SpinBudget
  BY DEF WaitInv, TypeOK
<1> SpinBudget \in 0 .. SpinBudget /\ (left[w] > 0 => left[w] - 1 \in 0 .. SpinBudget)
  OBVIOUS
<1> QED
  OBVIOUS

\* Who sees the condition it waits for has the payload.
LEMMA SeenPayload ==
  ASSUME WaitInv, NEW w \in Waiters, pc[w] # "idle", Satisfied(w)
  PROVE  payload >= IF want[w].equal THEN want[w].value ELSE want[w].value + 1
<1> want[w].value \in Nat /\ flag \in Nat /\ payload \in Nat /\ payload >= flag
  BY DEF WaitInv, TypeOK, Call
<1>1. CASE want[w].equal
  BY <1>1 DEF Satisfied
<1>2. CASE ~want[w].equal
  <2>1. want[w].value <= flag
    BY <1>2 DEF WaitInv, NotAhead
  <2>2. flag # want[w].value
    BY <1>2 DEF Satisfied
  <2> QED
    BY <1>2, <2>1, <2>2
<1> QED
  BY <1>1, <1>2

\* Every step leaves flag, backends and waiters well formed.
LEMMA TypeStep ==
  ASSUME WaitInv, [Next]_vars
  PROVE  TypeOK'
<1> USE DEF Goto, Call, Supported, WaitInv, TypeOK, Unloaded
<1>1. CASE StorePayload
  BY <1>1 DEF StorePayload
<1>2. CASE StoreFlag
  BY <1>2 DEF StoreFlag
<1>3. ASSUME NEW w \in Waiters, First(w) PROVE TypeOK'
  <2>1. CASE Satisfied(w)
    <3>1. /\ Goto(w, "first", "true") /\ left' = left /\ ahead' = [ahead EXCEPT ![w] = Unloaded]
          /\ UNCHANGED <<flag, payload, backend, waitEnv, forced, want, mine, monitor, late>>
      BY <1>3, <2>1 DEF First, Fence
    <3>2. ahead' \in [Waiters -> 0 .. Unloaded]
      BY <3>1, ConstantsOK
    <3>3. pc' \in [Waiters -> PC]
      BY <3>1 DEF PC, Returned
    <3> QED
      BY <3>1, <3>2, <3>3
  <2>2. CASE ~Satisfied(w)
    <3>1. /\ Goto(w, "first", "spin") /\ left' = [left EXCEPT ![w] = SpinBudget]
          /\ UNCHANGED <<flag, payload, backend, waitEnv, forced, want, mine, monitor, late, ahead>>
      BY <1>3, <2>2 DEF First, Fence
    <3>2. left' \in [Waiters -> 0 .. SpinBudget]
      BY <3>1, Counting
    <3> QED
      BY <3>1, <3>2
  <2> QED
    BY <1>3, <2>1, <2>2 DEF First, Fence
<1>4. ASSUME NEW w \in Waiters, Spin(w) PROVE TypeOK'
  <2>1. CASE Satisfied(w)
    <3>1. /\ Goto(w, "spin", "true") /\ left' = left /\ ahead' = [ahead EXCEPT ![w] = Unloaded]
          /\ UNCHANGED <<flag, payload, backend, waitEnv, forced, want, mine, monitor, late>>
      BY <1>4, <2>1 DEF Spin, Fence
    <3>2. ahead' \in [Waiters -> 0 .. Unloaded]
      BY <3>1, ConstantsOK
    <3>3. pc' \in [Waiters -> PC]
      BY <3>1 DEF PC, Returned
    <3> QED
      BY <3>1, <3>2, <3>3
  <2>2. CASE ~Satisfied(w)
    BY <1>4, <2>2, Counting DEF Spin, Fence
  <2> QED
    BY <1>4, <2>1, <2>2 DEF Spin, Fence
<1>5. ASSUME NEW w \in Waiters, LoadBackend(w) PROVE TypeOK'
  <2>1. \/ Goto(w, "spin", "arm") /\ backend # "none" /\ mine' = [mine EXCEPT ![w] = backend]
        \/ Goto(w, "spin", "detect") /\ mine' = mine
    BY <1>5 DEF LoadBackend
  <2>2. UNCHANGED <<flag, payload, backend, waitEnv, forced, want, left, monitor, late, ahead>>
    BY <1>5 DEF LoadBackend
  <2>3. backend \in Backend \cup {"none"}
    OBVIOUS
  <2>4. mine' \in [Waiters -> Backend]
    BY <2>1, <2>3
  <2>5. pc' \in [Waiters -> PC]
    BY <2>1 DEF PC
  <2> QED
    BY <2>2, <2>4, <2>5
<1>6. ASSUME NEW w \in Waiters, StoreDetected(w) PROVE TypeOK'
  BY <1>6, DetectedSupported DEF StoreDetected
<1>7. ASSUME NEW w \in Waiters, Arm(w) PROVE TypeOK'
  BY <1>7 DEF Arm
<1>8. ASSUME NEW w \in Waiters, Sleep(w) PROVE TypeOK'
  BY <1>8 DEF Sleep
<1>9. ASSUME NEW w \in Waiters, Wake(w) PROVE TypeOK'
  BY <1>9 DEF Wake
<1>10. ASSUME NEW w \in Waiters, Recheck(w) PROVE TypeOK'
  <2>1. CASE Satisfied(w)
    BY <1>10, <2>1 DEF Recheck, Fence
  <2>2. CASE ~Satisfied(w)
    BY <1>10, <2>2 DEF Recheck, Fence
  <2> QED
    BY <1>10, <2>1, <2>2 DEF Recheck, Fence
<1>11. ASSUME NEW w \in Waiters, CheckDeadline(w) PROVE TypeOK'
  BY <1>11 DEF CheckDeadline
<1>12. ASSUME NEW w \in Waiters, Leave(w) PROVE TypeOK'
  BY <1>12 DEF Leave
<1>13. ASSUME NEW w \in Waiters, Expire(w) PROVE TypeOK'
  BY <1>13 DEF Expire
<1>14. ASSUME NEW w \in Waiters, WakeSpuriously(w) PROVE TypeOK'
  BY <1>14 DEF WakeSpuriously
<1>15. ASSUME NEW w \in Waiters, NEW c \in Call, Enter(w, c) PROVE TypeOK'
  BY <1>15 DEF Enter
<1>16. ASSUME NEW b \in Forced, SetBackend(b) PROVE TypeOK'
  BY <1>16, BackendsKnown DEF SetBackend
<1>17. ASSUME NEW w \in Waiters, LoadAhead(w) PROVE TypeOK'
  BY <1>17 DEF LoadAhead
<1>18. CASE UNCHANGED vars
  BY <1>18 DEF vars
<1> QED
  BY <1>1, <1>2, <1>3, <1>4, <1>5, <1>6, <1>7, <1>8, <1>9, <1>10, <1>11,
     <1>12, <1>13, <1>14, <1>15, <1>16, <1>17, <1>18 DEF Next, Step

\* The flag a thread waits to see change is never ahead of the device's.
LEMMA BehindStep ==
  ASSUME WaitInv, [Next]_vars
  PROVE  NotAhead'
<1> USE DEF Goto, Call, Supported, WaitInv, TypeOK, NotAhead, Waiting
<1>1. CASE StorePayload
  BY <1>1 DEF StorePayload
<1>2. CASE StoreFlag
  BY <1>2 DEF StoreFlag
<1>3. ASSUME NEW w \in Waiters, First(w) PROVE NotAhead'
  BY <1>3 DEF First, Fence
<1>4. ASSUME NEW w \in Waiters, Spin(w) PROVE NotAhead'
  BY <1>4 DEF Spin, Fence
<1>5. ASSUME NEW w \in Waiters, LoadBackend(w) PROVE NotAhead'
  BY <1>5 DEF LoadBackend
<1>6. ASSUME NEW w \in Waiters, StoreDetected(w) PROVE NotAhead'
  BY <1>6 DEF StoreDetected
<1>7. ASSUME NEW w \in Waiters, Arm(w) PROVE NotAhead'
  BY <1>7 DEF Arm
<1>8. ASSUME NEW w \in Waiters, Sleep(w) PROVE NotAhead'
  BY <1>8 DEF Sleep
<1>9. ASSUME NEW w \in Waiters, Wake(w) PROVE NotAhead'
  BY <1>9 DEF Wake
<1>10. ASSUME NEW w \in Waiters, Recheck(w) PROVE NotAhead'
  BY <1>10 DEF Recheck, Fence
<1>11. ASSUME NEW w \in Waiters, CheckDeadline(w) PROVE NotAhead'
  BY <1>11 DEF CheckDeadline
<1>12. ASSUME NEW w \in Waiters, Leave(w) PROVE NotAhead'
  BY <1>12 DEF Leave
<1>13. ASSUME NEW w \in Waiters, Expire(w) PROVE NotAhead'
  BY <1>13 DEF Expire
<1>14. ASSUME NEW w \in Waiters, WakeSpuriously(w) PROVE NotAhead'
  BY <1>14 DEF WakeSpuriously
<1>15. ASSUME NEW w \in Waiters, NEW c \in Call, Enter(w, c) PROVE NotAhead'
  BY <1>15 DEF Enter
<1>16. ASSUME NEW b \in Forced, SetBackend(b) PROVE NotAhead'
  BY <1>16 DEF SetBackend
<1>17. ASSUME NEW w \in Waiters, LoadAhead(w) PROVE NotAhead'
  BY <1>17 DEF LoadAhead
<1>18. CASE UNCHANGED vars
  BY <1>18 DEF vars
<1> QED
  BY <1>1, <1>2, <1>3, <1>4, <1>5, <1>6, <1>7, <1>8, <1>9, <1>10, <1>11,
     <1>12, <1>13, <1>14, <1>15, <1>16, <1>17, <1>18 DEF Next, Step

\* Only the fence leads to a wait that is satisfied, and then nothing is loaded ahead any more.
LEMMA FenceStep ==
  ASSUME WaitInv, [Next]_vars
  PROVE  LoadedAfter'
<1> USE DEF Goto, Call, Supported, WaitInv, TypeOK, LoadedAfter, Waiting, Returned
<1>1. CASE StorePayload
  BY <1>1 DEF StorePayload
<1>2. CASE StoreFlag
  BY <1>2 DEF StoreFlag
<1>3. ASSUME NEW w \in Waiters, First(w) PROVE LoadedAfter'
  BY <1>3 DEF First, Fence
<1>4. ASSUME NEW w \in Waiters, Spin(w) PROVE LoadedAfter'
  BY <1>4 DEF Spin, Fence
<1>5. ASSUME NEW w \in Waiters, LoadBackend(w) PROVE LoadedAfter'
  BY <1>5 DEF LoadBackend
<1>6. ASSUME NEW w \in Waiters, StoreDetected(w) PROVE LoadedAfter'
  BY <1>6 DEF StoreDetected
<1>7. ASSUME NEW w \in Waiters, Arm(w) PROVE LoadedAfter'
  BY <1>7 DEF Arm
<1>8. ASSUME NEW w \in Waiters, Sleep(w) PROVE LoadedAfter'
  BY <1>8 DEF Sleep
<1>9. ASSUME NEW w \in Waiters, Wake(w) PROVE LoadedAfter'
  BY <1>9 DEF Wake
<1>10. ASSUME NEW w \in Waiters, Recheck(w) PROVE LoadedAfter'
  BY <1>10 DEF Recheck, Fence
<1>11. ASSUME NEW w \in Waiters, CheckDeadline(w) PROVE LoadedAfter'
  BY <1>11 DEF CheckDeadline
<1>12. ASSUME NEW w \in Waiters, Leave(w) PROVE LoadedAfter'
  BY <1>12 DEF Leave
<1>13. ASSUME NEW w \in Waiters, Expire(w) PROVE LoadedAfter'
  BY <1>13 DEF Expire
<1>14. ASSUME NEW w \in Waiters, WakeSpuriously(w) PROVE LoadedAfter'
  BY <1>14 DEF WakeSpuriously
<1>15. ASSUME NEW w \in Waiters, NEW c \in Call, Enter(w, c) PROVE LoadedAfter'
  BY <1>15 DEF Enter
<1>16. ASSUME NEW b \in Forced, SetBackend(b) PROVE LoadedAfter'
  BY <1>16 DEF SetBackend
<1>17. ASSUME NEW w \in Waiters, LoadAhead(w) PROVE LoadedAfter'
  BY <1>17 DEF LoadAhead
<1>18. CASE UNCHANGED vars
  BY <1>18 DEF vars
<1> QED
  BY <1>1, <1>2, <1>3, <1>4, <1>5, <1>6, <1>7, <1>8, <1>9, <1>10, <1>11,
     <1>12, <1>13, <1>14, <1>15, <1>16, <1>17, <1>18 DEF Next, Step

\* Who sees the awaited flag sees the payload: the device stores it first and
\* takes neither back.
LEMMA PayloadStep ==
  ASSUME WaitInv, [Next]_vars
  PROVE  PayloadThere'
<1> USE DEF Goto, Call, Supported, WaitInv, TypeOK, NotAhead, PayloadThere
<1>1. CASE StorePayload
  BY <1>1 DEF StorePayload
<1>2. CASE StoreFlag
  BY <1>2 DEF StoreFlag
<1>3. ASSUME NEW w \in Waiters, First(w) PROVE PayloadThere'
  <2>1. CASE Satisfied(w)
    BY <1>3, <2>1, SeenPayload DEF First, Fence
  <2>2. CASE ~Satisfied(w)
    BY <1>3, <2>2 DEF First, Fence
  <2> QED
    BY <1>3, <2>1, <2>2 DEF First, Fence
<1>4. ASSUME NEW w \in Waiters, Spin(w) PROVE PayloadThere'
  <2>1. CASE Satisfied(w)
    BY <1>4, <2>1, SeenPayload DEF Spin, Fence
  <2>2. CASE ~Satisfied(w)
    BY <1>4, <2>2 DEF Spin, Fence
  <2> QED
    BY <1>4, <2>1, <2>2 DEF Spin, Fence
<1>5. ASSUME NEW w \in Waiters, LoadBackend(w) PROVE PayloadThere'
  BY <1>5 DEF LoadBackend
<1>6. ASSUME NEW w \in Waiters, StoreDetected(w) PROVE PayloadThere'
  BY <1>6 DEF StoreDetected
<1>7. ASSUME NEW w \in Waiters, Arm(w) PROVE PayloadThere'
  BY <1>7 DEF Arm
<1>8. ASSUME NEW w \in Waiters, Sleep(w) PROVE PayloadThere'
  BY <1>8 DEF Sleep
<1>9. ASSUME NEW w \in Waiters, Wake(w) PROVE PayloadThere'
  BY <1>9 DEF Wake
<1>10. ASSUME NEW w \in Waiters, Recheck(w) PROVE PayloadThere'
  <2>1. CASE Satisfied(w)
    BY <1>10, <2>1, SeenPayload DEF Recheck, Fence
  <2>2. CASE ~Satisfied(w)
    BY <1>10, <2>2 DEF Recheck, Fence
  <2> QED
    BY <1>10, <2>1, <2>2 DEF Recheck, Fence
<1>11. ASSUME NEW w \in Waiters, CheckDeadline(w) PROVE PayloadThere'
  BY <1>11 DEF CheckDeadline
<1>12. ASSUME NEW w \in Waiters, Leave(w) PROVE PayloadThere'
  BY <1>12 DEF Leave
<1>13. ASSUME NEW w \in Waiters, Expire(w) PROVE PayloadThere'
  BY <1>13 DEF Expire
<1>14. ASSUME NEW w \in Waiters, WakeSpuriously(w) PROVE PayloadThere'
  BY <1>14 DEF WakeSpuriously
<1>15. ASSUME NEW w \in Waiters, NEW c \in Call, Enter(w, c) PROVE PayloadThere'
  BY <1>15 DEF Enter
<1>16. ASSUME NEW b \in Forced, SetBackend(b) PROVE PayloadThere'
  BY <1>16 DEF SetBackend
<1>17. ASSUME NEW w \in Waiters, LoadAhead(w) PROVE PayloadThere'
  BY <1>17 DEF LoadAhead
<1>18. CASE UNCHANGED vars
  BY <1>18 DEF vars
<1> QED
  BY <1>1, <1>2, <1>3, <1>4, <1>5, <1>6, <1>7, <1>8, <1>9, <1>10, <1>11,
     <1>12, <1>13, <1>14, <1>15, <1>16, <1>17, <1>18 DEF Next, Step

\* Time is only over for a wait that has a deadline.
LEMMA TimedStep ==
  ASSUME WaitInv, [Next]_vars
  PROVE  LateIsTimed'
<1> USE DEF Goto, Call, Supported, WaitInv, TypeOK, LateIsTimed, Waiting
<1>1. CASE StorePayload
  BY <1>1 DEF StorePayload
<1>2. CASE StoreFlag
  BY <1>2 DEF StoreFlag
<1>3. ASSUME NEW w \in Waiters, First(w) PROVE LateIsTimed'
  BY <1>3 DEF First, Fence
<1>4. ASSUME NEW w \in Waiters, Spin(w) PROVE LateIsTimed'
  BY <1>4 DEF Spin, Fence
<1>5. ASSUME NEW w \in Waiters, LoadBackend(w) PROVE LateIsTimed'
  BY <1>5 DEF LoadBackend
<1>6. ASSUME NEW w \in Waiters, StoreDetected(w) PROVE LateIsTimed'
  BY <1>6 DEF StoreDetected
<1>7. ASSUME NEW w \in Waiters, Arm(w) PROVE LateIsTimed'
  BY <1>7 DEF Arm
<1>8. ASSUME NEW w \in Waiters, Sleep(w) PROVE LateIsTimed'
  BY <1>8 DEF Sleep
<1>9. ASSUME NEW w \in Waiters, Wake(w) PROVE LateIsTimed'
  BY <1>9 DEF Wake
<1>10. ASSUME NEW w \in Waiters, Recheck(w) PROVE LateIsTimed'
  BY <1>10 DEF Recheck, Fence
<1>11. ASSUME NEW w \in Waiters, CheckDeadline(w) PROVE LateIsTimed'
  BY <1>11 DEF CheckDeadline
<1>12. ASSUME NEW w \in Waiters, Leave(w) PROVE LateIsTimed'
  BY <1>12 DEF Leave
<1>13. ASSUME NEW w \in Waiters, Expire(w) PROVE LateIsTimed'
  BY <1>13 DEF Expire
<1>14. ASSUME NEW w \in Waiters, WakeSpuriously(w) PROVE LateIsTimed'
  BY <1>14 DEF WakeSpuriously
<1>15. ASSUME NEW w \in Waiters, NEW c \in Call, Enter(w, c) PROVE LateIsTimed'
  BY <1>15 DEF Enter
<1>16. ASSUME NEW b \in Forced, SetBackend(b) PROVE LateIsTimed'
  BY <1>16 DEF SetBackend
<1>17. ASSUME NEW w \in Waiters, LoadAhead(w) PROVE LateIsTimed'
  BY <1>17 DEF LoadAhead
<1>18. CASE UNCHANGED vars
  BY <1>18 DEF vars
<1> QED
  BY <1>1, <1>2, <1>3, <1>4, <1>5, <1>6, <1>7, <1>8, <1>9, <1>10, <1>11,
     <1>12, <1>13, <1>14, <1>15, <1>16, <1>17, <1>18 DEF Next, Step

\* Only the deadline check gives up, and only when time is over.
LEMMA LateStep ==
  ASSUME WaitInv, [Next]_vars
  PROVE  FalseOnlyLate'
<1> USE DEF Goto, Call, Supported, WaitInv, TypeOK, LateIsTimed, FalseOnlyLate, Waiting
<1>1. CASE StorePayload
  BY <1>1 DEF StorePayload
<1>2. CASE StoreFlag
  BY <1>2 DEF StoreFlag
<1>3. ASSUME NEW w \in Waiters, First(w) PROVE FalseOnlyLate'
  BY <1>3 DEF First, Fence
<1>4. ASSUME NEW w \in Waiters, Spin(w) PROVE FalseOnlyLate'
  BY <1>4 DEF Spin, Fence
<1>5. ASSUME NEW w \in Waiters, LoadBackend(w) PROVE FalseOnlyLate'
  BY <1>5 DEF LoadBackend
<1>6. ASSUME NEW w \in Waiters, StoreDetected(w) PROVE FalseOnlyLate'
  BY <1>6 DEF StoreDetected
<1>7. ASSUME NEW w \in Waiters, Arm(w) PROVE FalseOnlyLate'
  BY <1>7 DEF Arm
<1>8. ASSUME NEW w \in Waiters, Sleep(w) PROVE FalseOnlyLate'
  BY <1>8 DEF Sleep
<1>9. ASSUME NEW w \in Waiters, Wake(w) PROVE FalseOnlyLate'
  BY <1>9 DEF Wake
<1>10. ASSUME NEW w \in Waiters, Recheck(w) PROVE FalseOnlyLate'
  BY <1>10 DEF Recheck, Fence
<1>11. ASSUME NEW w \in Waiters, CheckDeadline(w) PROVE FalseOnlyLate'
  <2>1. CASE late[w]
    BY <1>11, <2>1 DEF CheckDeadline
  <2>2. CASE ~late[w]
    BY <1>11, <2>2 DEF CheckDeadline
  <2> QED
    BY <1>11, <2>1, <2>2 DEF CheckDeadline
<1>12. ASSUME NEW w \in Waiters, Leave(w) PROVE FalseOnlyLate'
  BY <1>12 DEF Leave
<1>13. ASSUME NEW w \in Waiters, Expire(w) PROVE FalseOnlyLate'
  BY <1>13 DEF Expire
<1>14. ASSUME NEW w \in Waiters, WakeSpuriously(w) PROVE FalseOnlyLate'
  BY <1>14 DEF WakeSpuriously
<1>15. ASSUME NEW w \in Waiters, NEW c \in Call, Enter(w, c) PROVE FalseOnlyLate'
  BY <1>15 DEF Enter
<1>16. ASSUME NEW b \in Forced, SetBackend(b) PROVE FalseOnlyLate'
  BY <1>16 DEF SetBackend
<1>17. ASSUME NEW w \in Waiters, LoadAhead(w) PROVE FalseOnlyLate'
  BY <1>17 DEF LoadAhead
<1>18. CASE UNCHANGED vars
  BY <1>18 DEF vars
<1> QED
  BY <1>1, <1>2, <1>3, <1>4, <1>5, <1>6, <1>7, <1>8, <1>9, <1>10, <1>11,
     <1>12, <1>13, <1>14, <1>15, <1>16, <1>17, <1>18 DEF Next, Step

\* The backend taken to the wait instruction is the cached one or the detected
\* one, and both exist.
LEMMA SupportedStep ==
  ASSUME WaitInv, [Next]_vars
  PROVE  OnlySupported'
<1> USE DEF Goto, Call, Supported, WaitInv, TypeOK, OnlySupported
<1>1. CASE StorePayload
  BY <1>1 DEF StorePayload
<1>2. CASE StoreFlag
  BY <1>2 DEF StoreFlag
<1>3. ASSUME NEW w \in Waiters, First(w) PROVE OnlySupported'
  BY <1>3 DEF First, Fence
<1>4. ASSUME NEW w \in Waiters, Spin(w) PROVE OnlySupported'
  BY <1>4 DEF Spin, Fence
<1>5. ASSUME NEW w \in Waiters, LoadBackend(w) PROVE OnlySupported'
  BY <1>5 DEF LoadBackend
<1>6. ASSUME NEW w \in Waiters, StoreDetected(w) PROVE OnlySupported'
  BY <1>6, DetectedSupported DEF StoreDetected
<1>7. ASSUME NEW w \in Waiters, Arm(w) PROVE OnlySupported'
  BY <1>7 DEF Arm
<1>8. ASSUME NEW w \in Waiters, Sleep(w) PROVE OnlySupported'
  BY <1>8 DEF Sleep
<1>9. ASSUME NEW w \in Waiters, Wake(w) PROVE OnlySupported'
  BY <1>9 DEF Wake
<1>10. ASSUME NEW w \in Waiters, Recheck(w) PROVE OnlySupported'
  BY <1>10 DEF Recheck, Fence
<1>11. ASSUME NEW w \in Waiters, CheckDeadline(w) PROVE OnlySupported'
  BY <1>11 DEF CheckDeadline
<1>12. ASSUME NEW w \in Waiters, Leave(w) PROVE OnlySupported'
  BY <1>12 DEF Leave
<1>13. ASSUME NEW w \in Waiters, Expire(w) PROVE OnlySupported'
  BY <1>13 DEF Expire
<1>14. ASSUME NEW w \in Waiters, WakeSpuriously(w) PROVE OnlySupported'
  BY <1>14 DEF WakeSpuriously
<1>15. ASSUME NEW w \in Waiters, NEW c \in Call, Enter(w, c) PROVE OnlySupported'
  BY <1>15 DEF Enter
<1>16. ASSUME NEW b \in Forced, SetBackend(b) PROVE OnlySupported'
  BY <1>16 DEF SetBackend
<1>17. ASSUME NEW w \in Waiters, LoadAhead(w) PROVE OnlySupported'
  BY <1>17 DEF LoadAhead
<1>18. CASE UNCHANGED vars
  BY <1>18 DEF vars
<1> QED
  BY <1>1, <1>2, <1>3, <1>4, <1>5, <1>6, <1>7, <1>8, <1>9, <1>10, <1>11,
     <1>12, <1>13, <1>14, <1>15, <1>16, <1>17, <1>18 DEF Next, Step

\* The invariant holds, whatever the constants.
THEOREM WaitsSound == Spec => []WaitInv
<1>1. Init => WaitInv
  BY DEF Init, WaitInv, TypeOK, NotAhead, PayloadThere, LoadedAfter, LateIsTimed, FalseOnlyLate, OnlySupported,
         Call, Supported, BackendSupported, Unloaded
<1>2. WaitInv /\ [Next]_vars => WaitInv'
  BY TypeStep, BehindStep, FenceStep, PayloadStep, TimedStep, LateStep, SupportedStep DEF WaitInv
<1> QED
  BY <1>1, <1>2, PTL DEF Spec

\* When a wait returns true its caller loads the payload that the awaited flag announces,
\* although the flag is loaded relaxed and the payload may have been loaded ahead of it:
\* the fence comes between (wait_impl, cira_mwait.cpp).
THEOREM PayloadSeen == Spec => []PayloadVisible
<1>1. WaitInv => PayloadVisible
  BY DEF WaitInv, PayloadThere, LoadedAfter, PayloadVisible, Loads
<1> QED
  BY <1>1, WaitsSound, PTL

\* A wait never reports a timeout that was not asked for or has not passed.
THEOREM NoEarlyTimeout == Spec => []FalseOnlyLate
<1>1. WaitInv => FalseOnlyLate
  BY DEF WaitInv
<1> QED
  BY <1>1, WaitsSound, PTL

\* Whichever thread forces a backend and whenever, nobody executes an
\* instruction the processor does not have.
THEOREM SupportedOnly == Spec => []OnlySupported
<1>1. WaitInv => OnlySupported
  BY DEF WaitInv
<1> QED
  BY <1>1, WaitsSound, PTL

=============================================================================
