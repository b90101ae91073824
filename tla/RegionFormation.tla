--------------------------- MODULE RegionFormation ---------------------------
(***************************************************************************)
(* The pass cira-region-formation: src/Dialect/Transforms/BackwardSlice.cpp *)
(* and RegionFormation.cpp.  From every access to remote memory a worklist *)
(* walks back through the definitions of its address; what the device can  *)
(* run is cloned into a cira.offload region, started before the first      *)
(* operation of the slice, with a cira.barrier before the access.          *)
(*                                                                         *)
(* A function is [ops, phi]: its operations in program order, those of     *)
(* nested blocks in place, and the values that feed each loop argument:    *)
(* the bounds of an induction variable, the initial and the yielded value  *)
(* of a carried one.  An operation has a kind (op), a name (at) which is   *)
(* also its result, its operands and its block.  Values nobody defines are *)
(* the function's arguments.                                               *)
(***************************************************************************)
EXTENDS Naturals, Sequences, FiniteSets, SequencesExt, FiniteSetsExt, Functions

CONSTANTS
  Sources,  \* the functions the pass is given
  Options   \* [maxOps, followLoads, requireProfitable]

VARIABLES
  options,   \* those of this run
  func,      \* the function, as rewritten so far
  roots,     \* names of the remote accesses still to be treated
  worklist,  \* values to visit, the next one last
  visited,   \* values seen
  slice,     \* operations in the slice, by name
  formed     \* the regions so far: [at, root, depth]

formVars == <<options, func, roots, worklist, visited, slice, formed>>

-----------------------------------------------------------------------------
(* Operations *)

\* A load or a store is remote by its address space, or for CIR when its address does
\* not come from a stack slot.
IsRead(o) == o.op \in {"load", "remote_load", "load_async"}
IsStore(o) == o.op \in {"store", "remote_store", "store_async"}
IsRemote(o) ==
  o.op \in {"remote_load", "load_async", "remote_store", "store_async", "install_cacheline"}

\* The device knows these.  Others are without effects, as "from" is, or are not.
IsSupported(o) == IsRead(o) \/ o.op \in {"const", "gep", "get_paddr", "future_await", "pinned"}
HasEffects(o) == IsStore(o) \/ o.op \in {"install_cacheline", "flush", "barrier", "offload", "for"}
\* "pinned" is tagged cira.host_only.
IsHostOnly(o) == o.op \in {"pinned", "call"} \/ (~IsSupported(o) /\ HasEffects(o))
IsDeviceLegal(o) == IsSupported(o) /\ ~IsHostOnly(o)

\* The pointer and the index of an access, after the value of a store.
AddressOperands(o) ==
  IF IsStore(o) THEN Tail(o.args) ELSE IF IsRead(o) THEN o.args ELSE SubSeq(o.args, 1, 1)

Names(ops) == {ops[k].at : k \in DOMAIN ops}
Defined(f, v) == v \in Names(f.ops)
Index(f, v) == CHOOSE k \in DOMAIN f.ops : f.ops[k].at = v
Def(f, v) == f.ops[Index(f, v)]
IsConstant(f, v) == Defined(f, v) /\ Def(f, v).op = "const"

-----------------------------------------------------------------------------
(* SliceBuilder *)

Feeds(f, v) == IF v \in DOMAIN f.phi THEN f.phi[v] ELSE <<>>

\* The walk goes through v if the device can run what defines it.
Joins(f, v) ==
  LET o == Def(f, v)
  IN  /\ Defined(f, v) /\ ~IsConstant(f, v) /\ ~IsHostOnly(o) /\ IsSupported(o)
      /\ IsRead(o) => options.followLoads
      /\ Cardinality(slice) < options.maxOps

Visit ==
  /\ roots # <<>> /\ worklist # <<>>
  /\ LET v == Last(worklist)
         rest == Front(worklist)
     IN  /\ visited' = visited \cup {v}
         /\ IF v \in visited
            THEN worklist' = rest /\ UNCHANGED slice
            ELSE IF ~Defined(func, v)
            THEN worklist' = rest \o Feeds(func, v) /\ UNCHANGED slice
            ELSE IF Joins(func, v)
            THEN worklist' = rest \o Def(func, v).args /\ slice' = slice \cup {v}
            ELSE worklist' = rest /\ UNCHANGED slice
  /\ UNCHANGED <<options, func, roots, formed>>

\* The slice in program order.
Ordered(f, s) == SelectSeq(f.ops, LAMBDA o : o.at \in s)

\* The length of the longest chain of reads up to each operation.
Depths(ops) ==
  FoldLeft(LAMBDA d, o : d @@ (o.at :> Max({0} \cup {d[a] : a \in Range(o.args) \cap DOMAIN d})
                                         + (IF IsRead(o) THEN 1 ELSE 0)),
           <<>>, ops)
ChainDepth(ops) == Max({0} \cup Range(Depths(ops))) + 1

\* pruneUnsupported: the operands of the slice and of the access that come from outside,
\* a store being replayed on the device only as far as its address.
Kept(ops) == SelectSeq(ops, IsDeviceLegal)
Consumed(root) == IF IsRead(root) THEN root.args ELSE AddressOperands(root)
LiveIns(f, ops, root) ==
  LET all == FlattenSeq([k \in DOMAIN ops |-> ops[k].args]) \o Consumed(root)
      outside == SelectSeq(all, LAMBDA v : v \notin Names(ops) /\ ~IsConstant(f, v))
  IN  FoldLeft(LAMBDA s, v : IF Contains(s, v) THEN s ELSE Append(s, v), <<>>, outside)

-----------------------------------------------------------------------------
(* formRegion *)

SavingPerAccess == 165 - 15
SyncCost == 50
MinChainDepth == 4
Profitable(depth) == depth * SavingPerAccess > SyncCost /\ depth >= MinChainDepth

WorthForming(ops) ==
  /\ ops # <<>>
  /\ \E k \in DOMAIN ops : IsRead(ops[k])
  /\ options.requireProfitable => Profitable(ChainDepth(ops))

Constants(f, ops, root) ==
  {v \in UNION ({Range(ops[k].args) : k \in DOMAIN ops} \cup {Range(root.args)}) : IsConstant(f, v)}

\* A clone has operands that are parameters, constants made anew or other clones.
Clone(o, tag) == [o EXCEPT !.at = @ \o tag, !.args = [k \in DOMAIN @ |-> @[k] \o tag], !.block = tag]

\* Faulty: a store is replayed with the rest.
BodyWithStores(f, ops, root, tag) ==
  LET clones == Ordered(f, Constants(f, ops, root)) \o ops \o <<root>>
  IN  [k \in DOMAIN clones |-> Clone(clones[k], tag)]
\* "Replaying a store would duplicate the write; the device only needs the address chain".
Body(f, ops, root, tag) ==
  LET clones == Ordered(f, Constants(f, ops, root)) \o ops
                  \o (IF IsRead(root) THEN <<root>> ELSE <<>>)
  IN  [k \in DOMAIN clones |-> Clone(clones[k], tag)]

RegionOp(f, ops, root, tag) ==
  LET ins == LiveIns(f, ops, root)
      at == IF Head(ops).block = root.block THEN Head(ops) ELSE root
  IN  [op |-> "offload", at |-> tag, args |-> ins, params |-> [k \in DOMAIN ins |-> ins[k] \o tag],
       body |-> Body(f, ops, root, tag), yields |-> <<>>, block |-> at.block]
BarrierOp(root, tag) ==
  [op |-> "barrier", at |-> tag \o "_barrier", args |-> <<>>, params |-> <<>>, body |-> <<>>,
   yields |-> <<>>, block |-> root.block]

\* The region starts before the first operation of the slice, if that is in the block of
\* the access, and before the access otherwise; the barrier is before the access.
Outlined(f, ops, root, tag) ==
  LET first == IF Head(ops).block = root.block THEN Head(ops) ELSE root
      with(f1, o, before) == [f1 EXCEPT !.ops = InsertAt(@, Index(f1, before), o)]
  IN  with(with(f, RegionOp(f, ops, root, tag), first.at), BarrierOp(root, tag), root.at)

Tag == <<"r0", "r1", "r2", "r3">>[Len(formed) + 1]

NextRoot ==
  /\ roots' = Tail(roots) /\ slice' = {} /\ visited' = {}
  /\ worklist' = IF Len(roots) = 1 THEN <<>> ELSE AddressOperands(Def(func, roots[2]))

Form ==
  /\ roots # <<>> /\ worklist = <<>>
  /\ LET root == Def(func, Head(roots))
         ops == Kept(Ordered(func, slice))
     IN  /\ WorthForming(ops)
         /\ func' = Outlined(func, ops, root, Tag)
         /\ formed' = Append(formed, [at |-> Tag, root |-> root.at, depth |-> ChainDepth(ops)])
  /\ NextRoot
  /\ UNCHANGED options

LeaveAccess ==
  /\ roots # <<>> /\ worklist = <<>>
  /\ ~WorthForming(Kept(Ordered(func, slice)))
  /\ NextRoot
  /\ UNCHANGED <<options, func, formed>>

\* The accesses are collected before the function is changed.
Collected(f) ==
  LET remote == SelectSeq(f.ops, IsRemote) IN [k \in DOMAIN remote |-> remote[k].at]

FormInit(f) ==
  /\ options \in Options
  /\ func = f /\ roots = Collected(f)
  /\ worklist = (IF Collected(f) = <<>> THEN <<>> ELSE AddressOperands(Def(f, Collected(f)[1])))
  /\ visited = {} /\ slice = {} /\ formed = <<>>

FormNext == Visit \/ Form \/ LeaveAccess
FormedAll == roots = <<>>

-----------------------------------------------------------------------------
(* Properties *)

Formed(r) == Def(func, r.at)

\* A region stands on its own: each operand in it is a parameter, or made earlier in it;
\* nothing in it writes or calls, so running it a second time on the device is harmless.
RegionsClosed ==
  \A n \in DOMAIN formed :
    LET r == Formed(formed[n])
    IN  \A k \in DOMAIN r.body :
          /\ IsDeviceLegal(r.body[k])
          /\ Range(r.body[k].args) \subseteq Range(r.params) \cup Names(SubSeq(r.body, 1, k - 1))

\* The chain depth the cost model decides by is real: outside loops, so many reads of a
\* region and its access each need the one before, and no more do.
Closed(relation) == relation \cup {<<e[1][1], e[2][2]>> : e \in {e \in relation \X relation : e[1][2] = e[2][1]}}
Feeding(body) ==
  LET direct == {e \in (DOMAIN body) \X (DOMAIN body) : body[e[1]].at \in Range(body[e[2]].args)}
  IN  Closed(Closed(Closed(direct)))
DepthIsReal ==
  func.phi = <<>> =>
    \A n \in DOMAIN formed :
      LET body == Formed(formed[n]).body
          reads == {k \in DOMAIN body : IsRead(body[k])}
          chains == {s \in SUBSET reads : \A j, k \in s : j < k => <<j, k>> \in Feeding(body)}
          closing == IF IsRead(Def(func, formed[n].root)) THEN 0 ELSE 1
      IN  formed[n].depth = Max({Cardinality(s) : s \in chains}) + closing

\* "Insert before the first operation of the slice so the offload starts as early as its
\* inputs allow": the operands of the region are there when it starts.
InputsReady ==
  \A n \in DOMAIN formed :
    \A v \in Range(Formed(formed[n]).args) :
      Defined(func, v) => Index(func, v) < Index(func, formed[n].at)
==============================================================================
