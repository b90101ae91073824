---------------------------- MODULE CiraCompiler ----------------------------
(***************************************************************************)
(* From a function to its run: cira-region-formation and then the lowering *)
(* to LLVM of one function, which a host executes beside a device.  A      *)
(* function may also come with its regions already there.                  *)
(***************************************************************************)
EXTENDS OutlineLoops, CiraLowering

VARIABLE source  \* the function that is compiled

compilerVars == <<formVars, planVars, outlineVars, vars, source>>

Targets == {PassTarget(c) : c \in Compilations}
Unlowered == prog = <<>> /\ todo = <<>> /\ code = <<>> /\ arch = "none" /\ device = FALSE
Fresh == env = Inputs /\ mem = <<>> /\ jobs = {} /\ done = {} /\ tracked = {}

Unoutlined(f) == plan = Unplanned(f) /\ left = 0 /\ alive = TRUE /\ pending = <<>> /\ outlined = <<>>

CompilerInit ==
  \/ /\ \E f \in Sources : FormInit(f) /\ Unoutlined(f) /\ source = f
     /\ Unlowered /\ Fresh
  \/ /\ Init
     /\ \E f \in {[ops |-> prog, phi |-> <<>>, loops |-> <<>>]} : Unformed(f) /\ Unoutlined(f) /\ source = f
  \/ /\ PlannedInit /\ source = func
     /\ Unlowered /\ Fresh

\* Functions with loops are followed up to here, as are those that the verifier, which
\* runs between two passes, rejects for an operand that comes too late.
Lowerable == FormedAll /\ func.phi = <<>> /\ func.loops = <<>> /\ InputsReady

LowerFormed ==
  /\ Unlowered /\ Lowerable
  /\ arch' \in Targets /\ device' \in BOOLEAN
  /\ prog' = func.ops /\ todo' = func.ops /\ code' = Lower(Head(func.ops), arch')
  /\ UNCHANGED <<formVars, planVars, outlineVars, env, mem, jobs, done, tracked, source>>

Forming == FormNext /\ UNCHANGED <<planVars, outlineVars, vars, source>>
Planning == PlannedNext /\ UNCHANGED <<vars, source>>
Running == Next /\ UNCHANGED <<formVars, planVars, outlineVars, source>>
CompilerNext == Forming \/ Planning \/ LowerFormed \/ Running

\* It is enough that something goes on while anything can: the host only waits for what
\* the firmware will do.
CompilerSpec == CompilerInit /\ [][CompilerNext]_compilerVars /\ WF_compilerVars(Forming \/ LowerFormed \/ Running)

-----------------------------------------------------------------------------
(* Properties *)

\* The pass ends, and each function it can hand on is compiled and comes to its end.
Ends == <>(FormedAll /\ todo = <<>> /\ (prog # <<>> \/ ~Lowerable))

\* At its end the function has computed what it was written to compute, although parts
\* of it were cloned into regions that the device runs at some other time.
SourceKept ==
  prog # <<>> /\ todo = <<>> =>
    LET s == Meaning(source.ops)
    IN  mem = s.mem /\ \A v \in DOMAIN s.env : Value(v) = s.env[v]

Joined(terms) == FoldLeft(LAMBDA a, b : a \o "," \o b, "", terms)
Term(values, v) == IF v \in DOMAIN values THEN values[v] ELSE v
Terms(values, vs) == [k \in DOMAIN vs |-> Term(values, vs[k])]
\* A parameter of a loop stands for what it runs over.
Entered(values, m) ==
  [v \in Range(m.params) |-> "over(" \o Joined(Terms(values, m.bounds)) \o ")"] @@ values

\* A result of a loop stands for what the loop begins with and yields.
Left(values, m) ==
  [v \in Range(m.results) |-> "result(" \o Joined(Terms(values, m.inits \o m.yields)) \o ")"] @@ values

\* What is done, in which loops and on what, calls included.
RECURSIVE Trace(_, _, _)
Trace(f, given, around) ==
  LET step(s, o) ==
        LET ms == SelectSeq(f.loops, LAMBDA m : o.block \in Within(f, m.at))
            values == FoldLeft(Entered, FoldLeft(Left, s.known, f.loops), ms)
            here == around \o Joined([k \in DOMAIN ms |-> values[ms[k].params[1]]])
            term == o.op \o "(" \o Joined(Terms(values, o.args)) \o ")"
            callee == CHOOSE g \in Range(outlined) : g.at = o.callee
        IN  IF o.op = "call"
            THEN [s EXCEPT !.log = @ \o Trace(callee,
                    [v \in Range(callee.params) |->
                       Term(values, o.args[CHOOSE k \in DOMAIN callee.params : callee.params[k] = v])], here)]
            ELSE [known |-> (o.at :> term) @@ s.known, log |-> Append(s.log, here \o ":" \o term)]
  IN  FoldLeft(step, [known |-> given, log |-> <<>>], f.ops).log

\* With loops outlined the function still does the same things, in the same order and in
\* the same loops, and on the same values.
OutlineKept == outlined # <<>> => Trace(func, <<>>, "") = Trace(source, <<>>, "")
==============================================================================
