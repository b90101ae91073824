---------------------------- MODULE OutlineLoops ----------------------------
(***************************************************************************)
(* The pass rmem-search-remote: src/Dialect/Transforms/SearchRemote.cpp.   *)
(* The body of every scf.for without results becomes a function of its own *)
(* with the induction variable and the values it captures as parameters;   *)
(* the loop is made anew around a call of it.  Loops are collected inner   *)
(* ones first.                                                             *)
(***************************************************************************)
EXTENDS OffloadPlan

CONSTANTS
  Planned,      \* functions whose loops are outlined and planned
  OutlineFirst  \* the loops are outlined before they are planned

VARIABLES
  pending,   \* loops collected and not yet looked at
  outlined   \* the functions made: [at, params, ops, loops]

outlineVars == <<pending, outlined>>

-----------------------------------------------------------------------------

\* The walk visits a loop after those in it, so the order is from the inside out.
CollectedLoops(f) ==
  LET fors == SelectSeq(f.loops, LAMBDA m : m.kind = "for")
  IN  Reverse([k \in DOMAIN fors |-> fors[k].at])

InOrder(s) == FoldSet(LAMBDA v, q : Append(q, v), <<>>, s)

\* Faulty: the operands of nested operations are not looked at.
CapturedShallow(f, l) ==
  LET m == Loop(f, l)
      made == {o.at : o \in OpsIn(f, l)} \cup UNION {Range(n.params) : n \in LoopsIn(f, l) \cup {m}}
      direct == UNION {Range(o.args) : o \in {o \in Range(f.ops) : o.block = l}} \cup Range(m.bounds)
  IN  InOrder(direct \ made)
\* analyzeValueUses: everything read by the loop or in it that is made outside, the bounds
\* and the constants too.
Captured(f, l) ==
  LET m == Loop(f, l)
      made == {o.at : o \in OpsIn(f, l)} \cup ResultsOf(LoopsIn(f, l))
                \cup UNION {Range(n.params) : n \in LoopsIn(f, l) \cup {m}}
  IN  InOrder((Reads(f, l) \cup Range(m.bounds) \cup Range(m.inits)) \ made)

\* extractLoopBody: the body cloned, what it reads of the loop's renamed to parameters.
Renamed(f, l, tag) ==
  LET own == {o.at : o \in OpsIn(f, l)} \cup ResultsOf(LoopsIn(f, l))
               \cup UNION {Range(n.params) : n \in LoopsIn(f, l) \cup {Loop(f, l)}}
      of(v) == IF v \in own \cup Range(Captured(f, l)) THEN v \o tag ELSE v
  IN  [ops |-> LET ops == SelectSeq(f.ops, LAMBDA o : o.block \in Within(f, l))
               IN  [k \in DOMAIN ops |->
                      [ops[k] EXCEPT !.at = @ \o tag, !.args = [j \in DOMAIN @ |-> of(@[j])],
                                     !.block = IF @ = l THEN "0" ELSE @ \o tag]],
       loops |-> LET ms == SelectSeq(f.loops, LAMBDA m : m.at \in Within(f, l) \ {l})
                 IN  [k \in DOMAIN ms |->
                        [ms[k] EXCEPT !.at = @ \o tag, !.in = IF @ = l THEN "0" ELSE @ \o tag,
                                      !.params = [j \in DOMAIN @ |-> of(@[j])],
                                      !.bounds = [j \in DOMAIN @ |-> of(@[j])],
                                      !.inits = [j \in DOMAIN @ |-> of(@[j])],
                                      !.yields = [j \in DOMAIN @ |-> of(@[j])],
                                      !.results = [j \in DOMAIN @ |-> of(@[j])]]]]

Extracted(f, l, tag) ==
  LET ins == Loop(f, l).params \o Captured(f, l)
  IN  Renamed(f, l, tag) @@ [at |-> tag, params |-> [k \in DOMAIN ins |-> ins[k] \o tag]]

\* replaceWithRemoteCall: a loop with the same bounds, and only the call in it.
Replaced(f, l, tag) ==
  LET m == Loop(f, l)
      call == [op |-> "call", callee |-> tag, at |-> tag, args |-> m.params \o Captured(f, l),
               params |-> <<>>, body |-> <<>>, yields |-> <<>>, block |-> l]
      first == Min({k \in DOMAIN f.ops : f.ops[k].block \in Within(f, l)})
      after == SelectSeq(SubSeq(f.ops, first, Len(f.ops)), LAMBDA o : o.block \notin Within(f, l))
  IN  [f EXCEPT !.ops = SubSeq(@, 1, first - 1) \o <<call>> \o after,
                !.loops = SelectSeq(@, LAMBDA n : n.at \notin Within(f, l) \ {l})]

\* getNextRemoteAccessName
NextName == <<"remote_access_0", "remote_access_1", "remote_access_2">>[Len(outlined) + 1]

\* The loop is a new one, and what it was marked with is gone, with the loops in it.
Outline ==
  /\ pending # <<>> /\ pending' = Tail(pending)
  /\ LET l == Head(pending)
     IN  IF Loop(func, l).results # <<>>
         THEN UNCHANGED <<func, outlined, plan>>
         ELSE /\ outlined' = Append(outlined, Extracted(func, l, NextName))
              /\ func' = Replaced(func, l, NextName)
              /\ plan' = [plan EXCEPT !.loops =
                            [n \in DOMAIN @ \ (Within(func, l) \ {l}) |-> IF n = l THEN Unmarked ELSE @[n]]]
  /\ UNCHANGED <<options, roots, worklist, visited, slice, formed, left, alive>>

OutlineInit(f) == outlined = <<>> /\ pending \in {<<>>, CollectedLoops(f)}

\* The passes over a function whose loops are planned and outlined.
Unformed(f) ==
  /\ options = (CHOOSE o \in Options : TRUE) /\ func = f
  /\ roots = <<>> /\ worklist = <<>> /\ visited = {} /\ slice = {} /\ formed = <<>>

PlannedInit == \E f \in Planned : Unformed(f) /\ PlanInit(f) /\ OutlineInit(f)
PlannedNext ==
  \/ (OutlineFirst => pending = <<>>) /\ PlanNext /\ UNCHANGED outlineVars
  \/ Outline
PlannedSpec == PlannedInit /\ [][PlannedNext]_<<formVars, planVars, outlineVars>>
==============================================================================
