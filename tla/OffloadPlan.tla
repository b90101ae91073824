----------------------------- MODULE OffloadPlan -----------------------------
(***************************************************************************)
(* The passes that decide from measurements which loops go to the device:  *)
(* profile-guided-offload (src/Dialect/OffloadProfile.cpp) marks a function *)
(* and its loops, enhanced-offload-analysis (OffloadOverheadAnalysis.cpp)  *)
(* works out for each loop what has to be transferred, where, and whether  *)
(* that pays.  A pipeline may hold any of them, in any order.              *)
(*                                                                         *)
(* Besides ops and phi a function has loops, the outer ones first:         *)
(* [at, kind, in, params, bounds, inits, yields, results], "at" being the  *)
(* name of its block; numbers, the values of the constants; and types.     *)
(* Times are in microseconds, bandwidths in bytes per microsecond.         *)
(***************************************************************************)
EXTENDS RegionFormation, Integers, TLC

CONSTANTS
  Instances, \* the pass instances a pipeline can hold
  Garbage,   \* what an uninitialised field of a function's profile may hold
  Word,      \* 2^64, the range of an unsigned count
  MaxPasses  \* bound: passes in a pipeline

VARIABLES
  plan,  \* the attributes of the function and of its loops
  left,  \* passes still to come
  alive  \* the compiler has not died of a division by zero

planVars == <<plan, left, alive>>

-----------------------------------------------------------------------------
(* Loops *)

LoopNames(f) == {f.loops[k].at : k \in DOMAIN f.loops}
Loop(f, l) == CHOOSE m \in Range(f.loops) : m.at = l
Within(f, l) == FoldLeft(LAMBDA s, m : IF m.in \in s THEN s \cup {m.at} ELSE s, {l}, f.loops)
LoopsIn(f, l) == {m \in Range(f.loops) : m.in \in Within(f, l)}
Around(f, l) == {m \in Range(f.loops) : l \in Within(f, m.at) \ {m.at}}
IsCounted(m) == m.kind \in {"for", "parallel"}

OpsIn(f, l) == {o \in Range(f.ops) : o.block \in Within(f, l)}
ResultsOf(ms) == UNION {Range(m.results) : m \in ms}
Reads(f, l) ==
  UNION ({Range(o.args) : o \in OpsIn(f, l)}
         \cup {Range(m.bounds) \cup Range(m.inits) : m \in LoopsIn(f, l)}
         \cup {Range(m.yields) : m \in LoopsIn(f, l) \cup {Loop(f, l)}})

\* The innermost scf.for around a loop, or else the innermost scf.while.
Innermost(f, ms) == CHOOSE m \in ms : \A n \in ms : m.at \in Within(f, n.at)
ParentLoop(f, l) ==
  LET fors == {m \in Around(f, l) : m.kind = "for"}
      whiles == {m \in Around(f, l) : m.kind = "while"}
  IN  IF fors # {} THEN {Innermost(f, fors)} ELSE IF whiles # {} THEN {Innermost(f, whiles)} ELSE {}

IsNumber(f, v) == v \in DOMAIN f.numbers
Unsigned(n) == n % Word
Quotient(a, b) == IF a >= 0 THEN a \div b ELSE -((-a) \div b)
ProductOf(ns) == FoldLeft(LAMBDA a, b : a * b, 1, ns)

-----------------------------------------------------------------------------
(* OffloadOverheadAnalysis: what is transferred *)

\* The results of the operations of the loop, and its own parameters if it is an scf.for.
DefinedIn(f, l) ==
  {o.at : o \in OpsIn(f, l)} \cup ResultsOf(LoopsIn(f, l))
    \cup (IF Loop(f, l).kind = "for" THEN Range(Loop(f, l).params) ELSE {})
LiveIn(f, l) == Reads(f, l) \ DefinedIn(f, l)
LiveOut(f, l) == IF Loop(f, l).kind = "for" THEN Range(Loop(f, l).results) ELSE {}

H2D(f, l) == {v \in LiveIn(f, l) : ~IsNumber(f, v)}
D2H(f, l) == LiveOut(f, l)

DynamicDim == 1024
PointerSize == 4096
\* A dimension of 0 stands for one that is not known.
ShapeSize(t) == ProductOf([k \in DOMAIN t.dims |-> IF t.dims[k] > 0 THEN t.dims[k] ELSE DynamicDim]) * t.bytes
ValueSize(f, v) ==
  IF v \notin DOMAIN f.types THEN 8
  ELSE CASE f.types[v].kind = "memref" -> ShapeSize(f.types[v])
         [] f.types[v].kind = "pointer" -> PointerSize
         [] OTHER -> f.types[v].bytes
Bytes(f, vs) == MapThenSumSet(LAMBDA v : ValueSize(f, v), vs)

-----------------------------------------------------------------------------
(* OffloadOverheadAnalysis: does it pay, and where do the transfers go *)

\* Scaled by n / d, in halves so that small numbers do.
Scaled(k, n, d) == (k \div d) * n + ((k % d) * n) \div d

DefaultTrips == 10000
CountedElements(f, l) ==
  LET m == Loop(f, l)
  IN  IF m.kind = "for" /\ IsNumber(f, m.bounds[1]) /\ IsNumber(f, m.bounds[2])
      THEN Unsigned(f.numbers[m.bounds[2]] - f.numbers[m.bounds[1]]) ELSE DefaultTrips

DefaultBandwidth == 10000
BaseH2D == 100
BaseD2H == 50
DefaultMinElements == 1000
Bandwidth(b) == IF b > 0 THEN b ELSE DefaultBandwidth
\* 100 cycles of 1 ns for each element, if there is no measurement; either is scaled.
KernelTime(p, elements) ==
  LET k == IF p.kernel = 0 THEN elements \div 10 ELSE p.kernel
  IN  IF p.min > 0 /\ elements > 0 THEN Scaled(k, elements, p.min) ELSE k
\* 1000 ns for each element, if there is no measurement; that is not scaled.
HostTime(p, elements) == IF p.total > 0 THEN p.total ELSE elements

ShouldOffload(f, l, p, elements) ==
  LET kernel == KernelTime(p, elements)
      overhead == BaseH2D + Bytes(f, H2D(f, l)) \div Bandwidth(p.h2dBw) + kernel
                    + BaseD2H + Bytes(f, D2H(f, l)) \div Bandwidth(p.d2hBw)
  IN  /\ 10 * HostTime(p, elements) >= 12 * overhead
      /\ elements >= (IF p.min > 0 THEN p.min ELSE DefaultMinElements)
      /\ 10 * kernel >= overhead

\* Values without a defining operation are not looked at; an operation dominates the
\* parent if it is not in it.
CanHoist(f, l) ==
  \E m \in ParentLoop(f, l) :
    \A v \in H2D(f, l) : v \notin {o.at : o \in OpsIn(f, m.at)} \cup ResultsOf(LoopsIn(f, m.at))
CanSink(f, l) == \E m \in ParentLoop(f, l) : D2H(f, l) \cap Reads(f, m.at) = {}

-----------------------------------------------------------------------------
(* ProfileGuidedOffloadPass *)

ForTrips(lb, ub, s) == Unsigned(Quotient(ub - lb + s - 1, s))
\* Of an scf.parallel there is one dimension here.
TripCount(f, l) ==
  LET m == Loop(f, l)
      known == Range(m.bounds) \subseteq DOMAIN f.numbers /\ f.numbers[m.bounds[3]] > 0
      trips == ForTrips(f.numbers[m.bounds[1]], f.numbers[m.bounds[2]], f.numbers[m.bounds[3]])
  IN  CASE m.kind = "for" /\ known -> trips
        [] m.kind = "parallel" /\ known /\ trips > 1 -> trips
        [] OTHER -> DefaultTrips

Elements(f, least) ==
  LET n == MapThenSumSet(LAMBDA l : TripCount(f, l), LoopNames(f)) % Word
  IN  IF n = 0 THEN least ELSE n
\* Only the arguments count, not what they lead to.
TransferBytes(f) ==
  MapThenSumSet(LAMBDA v : ValueSize(f, v),
                {v \in Range(f.params) \cap DOMAIN f.types : f.types[v].kind \in {"memref", "pointer"}})

BaseSpeedup(parallelism) ==
  CASE parallelism = "embarrassingly_parallel" -> 10
    [] parallelism = "reduction" -> 5
    [] parallelism = "data_dependent" -> 3
    [] OTHER -> 1

IsCandidate(f, p) == f.name \in DOMAIN p.functions /\ p.functions[f.name].candidate
DividesByZero(f, p) == IsCandidate(f, p) /\ p.functions[f.name].calls = 0

\* computeOffloadStrategy and then the threshold, in tenths.
Decision(f, p, elements, threshold) ==
  LET q == p.functions[f.name]
      base == BaseSpeedup(q.parallelism)
      bytes == TransferBytes(f)
      transfer == IF p.h2dBw > 0 /\ p.d2hBw > 0 THEN bytes \div p.h2dBw + bytes \div p.d2hBw ELSE 0
      host == q.avg * (elements \div Max({1, q.processed \div q.calls}))
      faster(n) == 10 * host * base > n * (host + transfer * base)
      slower(n) == 10 * host * base < n * (host + transfer * base)
  IN  CASE ~IsCandidate(f, p) \/ slower(threshold) -> "cpu"
        [] faster(15) /\ elements >= p.min -> "always"
        [] faster(10) -> "conditional"
        [] OTHER -> "cpu"

-----------------------------------------------------------------------------
(* The passes *)

\* What a file does not give keeps its value, which in a new pass is 0; in the profile of
\* a function it is whatever was there.
Unmeasured ==
  [kernel |-> 0, total |-> 0, min |-> 0, h2dBw |-> 0, d2hBw |-> 0, distance |-> 0, functions |-> <<>>]
Profiles(r) ==
  {[r.file @@ Unmeasured EXCEPT !.functions = [n \in DOMAIN r.functions |-> r.functions[n] @@ g]] :
     g \in Garbage}
WithExperiment(r, p) ==
  IF DOMAIN r.experiment = {} THEN p
  ELSE [h2dBw |-> DefaultBandwidth, d2hBw |-> DefaultBandwidth] @@ r.experiment @@ p

Unmarked == [gpu_offload |-> "none", prefetch_distance |-> 0, parallel_strategy |-> "none",
             should_offload |-> FALSE, can_hoist_h2d |-> FALSE, can_sink_d2h |-> FALSE,
             h2d_bytes |-> 0, d2h_bytes |-> 0]
Unplanned(f) == [target |-> "none", decision |-> "none", loops |-> [l \in LoopNames(f) |-> Unmarked]]

\* Faulty: the marks are set for the host as well.
MarkedAlways(f, l, a, decision, p) ==
  [a EXCEPT !.gpu_offload = IF decision = "cpu" THEN "cpu" ELSE "vortex",
            !.parallel_strategy = IF Loop(f, l).kind = "for" THEN "thread_strided" ELSE "block_parallel"]
\* annotateLoop: nothing is done, or undone, for the host.
Marked(f, l, a, decision, p) ==
  IF decision = "cpu" \/ ~IsCounted(Loop(f, l)) THEN a
  ELSE [a EXCEPT !.gpu_offload = "vortex",
                 !.prefetch_distance = IF p.distance > 0 THEN p.distance ELSE @,
                 !.parallel_strategy = IF Loop(f, l).kind = "for" THEN "thread_strided" ELSE "block_parallel"]

Guide(r) ==
  /\ r.pass = "profile-guided-offload"
  /\ \E p \in Profiles(r) :
       IF ~r.force /\ DividesByZero(func, p) THEN alive' = FALSE /\ UNCHANGED plan
       ELSE LET d == IF r.force THEN "always" ELSE Decision(func, p, Elements(func, r.least), r.threshold)
            IN  /\ plan' = [target |-> IF d = "cpu" THEN plan.target ELSE "vortex",
                            decision |-> IF d = "cpu" THEN plan.decision ELSE d,
                            loops |-> [l \in DOMAIN plan.loops |-> Marked(func, l, plan.loops[l], d, p)]]
                /\ UNCHANGED alive

Analyse(r) ==
  /\ r.pass = "enhanced-offload-analysis"
  /\ \E p \in {WithExperiment(r, q) : q \in Profiles(r)} :
       plan' = [plan EXCEPT !.loops = [l \in DOMAIN @ |->
         IF ~IsCounted(Loop(func, l)) THEN @[l]
         ELSE [@[l] EXCEPT !.should_offload = ShouldOffload(func, l, p, CountedElements(func, l)),
                           !.can_hoist_h2d = CanHoist(func, l),
                           !.can_sink_d2h = CanSink(func, l),
                           !.h2d_bytes = Bytes(func, H2D(func, l)),
                           !.d2h_bytes = Bytes(func, D2H(func, l))]]]
  /\ UNCHANGED alive

PlanInit(f) == plan = Unplanned(f) /\ left = MaxPasses /\ alive = TRUE
PlanNext ==
  /\ alive /\ left > 0 /\ left' = left - 1
  /\ \E r \in Instances : Guide(r) \/ Analyse(r)
  /\ UNCHANGED formVars

-----------------------------------------------------------------------------
(* Properties *)

\* Whatever profiles a pipeline has read, a function and its counted loops are marked for
\* the same device, and loops that the device has no scheme for are not marked.
MarksAgree ==
  \A l \in DOMAIN plan.loops :
    LET a == plan.loops[l]
    IN  /\ a.gpu_offload = (IF IsCounted(Loop(func, l)) THEN plan.target ELSE "none")
        /\ (a.gpu_offload = "none") = (a.parallel_strategy = "none")

\* "Get optimal H2D/D2H placement": a transfer before the parent loop finds its values
\* there (include/Dialect/OffloadOverheadAnalysis.h:85).
HoistReady ==
  \A l \in DOMAIN plan.loops : plan.loops[l].can_hoist_h2d =>
    \A m \in ParentLoop(func, l) : H2D(func, l) \cap UNION {Range(n.params) : n \in {m} \cup LoopsIn(func, m.at)} = {}

\* "Transfer values" are there before the loop (OffloadOverheadAnalysis.h:52).
TransfersExist ==
  \A l \in DOMAIN plan.loops : plan.loops[l].h2d_bytes > 0 =>
    H2D(func, l) \cap UNION {Range(n.params) : n \in LoopsIn(func, l) \cup {Loop(func, l)}} = {}

\* The count of a loop is the number of times it runs.
TripsReal ==
  \A l \in LoopNames(func) :
    LET m == Loop(func, l)
        b == [k \in DOMAIN m.bounds |-> func.numbers[m.bounds[k]]]
    IN  m.kind = "for" /\ Range(m.bounds) \subseteq DOMAIN func.numbers =>
          TripCount(func, l) = Cardinality({i \in b[1]..(b[2] - 1) : (i - b[1]) % b[3] = 0})
==============================================================================
