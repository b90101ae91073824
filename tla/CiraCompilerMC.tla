---------------------------- MODULE CiraCompilerMC ----------------------------
(* Instances of CiraCompiler for TLC. *)
EXTENDS CiraCompiler, CiraLoweringMC, TLC

Step(kind, at, args, block) ==
  [op |-> kind, at |-> at, args |-> args, params |-> <<>>, body |-> <<>>, yields |-> <<>>,
   block |-> block]

Derive(at, v, block) ==
  {Step("gep", at, <<v, "c">>, block), Step("load", at, <<v>>, block),
   Step("pinned", at, <<v>>, block)}
Access(at, v, block) ==
  {Step("remote_load", at, <<v>>, block), Step("store_async", at, <<"q", v>>, block)}

\* Chains of derived addresses that end in remote accesses; the second access may depend
\* on the first, and the memory that is read is written in between.
Chains ==
  {[ops |-> <<Step("const", "c", <<>>, "0"), a, b, d, r, w, z, Step("phase_boundary", "e", <<>>, "0")>>,
    phi |-> <<>>, loops |-> <<>>] :
     a \in Derive("a", "p", "0"), b \in Derive("b", "a", "0"),
     d \in Derive("d", "b", "0"), r \in Access("r", "d", "0"),
     w \in {Step("remote_store", "w", <<"q", "p">>, "0")},
     z \in {Step("remote_load", "z", <<v>>, "0") : v \in {"b", "r"}}}

\* An address made from two values, of which the device can perhaps run but one.
Joint ==
  {[ops |-> <<Step("const", "c", <<>>, "0"), a, b, Step("gep", "d", <<"a", "b">>, "0"), r,
              Step("phase_boundary", "e", <<>>, "0")>>, phi |-> <<>>, loops |-> <<>>] :
     a \in Derive("a", "p", "0"), b \in Derive("b", "p", "0"), r \in Access("r", "d", "0")}

\* Loops: i runs from p to q by c, or x is carried from p and advanced by y; the access
\* is in the body, with what its address comes from before or in the loop.
Loops ==
  {[ops |-> <<Step("const", "c", <<>>, "0"), a, b, d, r>>,
    phi |-> [v \in {"i"} |-> <<"p", "q", "c">>], loops |-> <<>>] :
     a \in Derive("a", "p", "0"), b \in Derive("b", "i", "1"),
     d \in Derive("d", "a", "1") \cup Derive("d", "b", "1"), r \in Access("r", "d", "1")}
  \cup
  {[ops |-> <<Step("const", "c", <<>>, "0"), a, b, r, y>>,
    phi |-> [v \in {"x"} |-> <<"a", "y">>], loops |-> <<>>] :
     a \in Derive("a", "p", "0"), b \in Derive("b", "x", "1"), r \in Access("r", "b", "1"),
     y \in Derive("y", "x", "1")}

\* Nothing is read at the result of a store.
ReadsValues(f) ==
  \A j, k \in DOMAIN f.ops : IsStore(f.ops[j]) => f.ops[j].at \notin Range(f.ops[k].args)
Functions == {f \in Chains \cup Joint \cup Loops : ReadsValues(f)}

AllOptions ==
  {[maxOps |-> 64, followLoads |-> TRUE, requireProfitable |-> FALSE],
   [maxOps |-> 2, followLoads |-> TRUE, requireProfitable |-> FALSE],
   [maxOps |-> 64, followLoads |-> FALSE, requireProfitable |-> FALSE],
   [maxOps |-> 64, followLoads |-> TRUE, requireProfitable |-> TRUE]}

For(at, in, bounds, inits, yields, results) ==
  [at |-> at, kind |-> "for", in |-> in, params |-> IF results = <<>> THEN <<"i" \o at>> ELSE <<"i" \o at, "x" \o at>>,
   bounds |-> bounds, inits |-> inits, yields |-> yields, results |-> results]
Other(at, in, kind, bounds, params) ==
  [at |-> at, kind |-> kind, in |-> in, params |-> params, bounds |-> bounds, inits |-> <<>>,
   yields |-> <<>>, results |-> <<>>]

Consts == [zero |-> 0, one |-> 1, three |-> 3, few |-> 10, many |-> 20000]
Types == [p |-> [kind |-> "memref", dims |-> <<0, 100>>, bytes |-> 8],
          q |-> [kind |-> "pointer", dims |-> <<>>, bytes |-> 8],
          n |-> [kind |-> "int", dims |-> <<>>, bytes |-> 4]]
Function(name, ops, loops) ==
  [name |-> name, params |-> <<"p", "q", "n">>, phi |-> <<>>, numbers |-> Consts, types |-> Types,
   loops |-> loops,
   ops |-> <<Step("const", "zero", <<>>, "0"), Step("const", "one", <<>>, "0"),
             Step("const", "three", <<>>, "0"), Step("const", "few", <<>>, "0"),
             Step("const", "many", <<>>, "0"), Step("gep", "a", <<"p", "n">>, "0")>> \o ops]

Bounds == {<<"zero", "many", "one">>, <<"one", "few", "three">>, <<"zero", "n", "one">>}
\* One loop that reads and writes.
Single ==
  {Function("pricing", <<Step("load", "b", <<"a", "i1">>, "1"), Step("store", "w", <<"b", "q">>, "1")>>,
            <<For("1", "0", b, <<>>, <<>>, <<>>)>>) : b \in Bounds}
\* A loop in a loop, bounded by the outer one or not, and one that carries a sum.
Nested ==
  {Function("pricing",
     <<Step("gep", "b", <<"a", "i1">>, "1"), Step("load", "d", <<v, "i2">>, "2"),
       Step("store", "w", <<"d", v>>, "2"), Step("store", "u", <<"n", "b">>, "1")>>,
     <<For("1", "0", b, <<>>, <<>>, <<>>), For("2", "1", <<"zero", m, "one">>, <<>>, <<>>, <<>>)>>) :
     b \in Bounds, m \in {"many", "i1"}, v \in {"a", "b", "i1"}}
Carried ==
  {Function("pricing",
     <<Step("load", "d", <<"a", "i2">>, "2"), Step("add", "s", <<"x2", "d">>, "2"),
       Step("store", "u", <<"r", "q">>, "1")>>,
     <<outer, For("2", "1", <<"zero", "many", "one">>, <<"n">>, <<"s">>, <<"r">>)>>) :
     outer \in {For("1", "0", <<"zero", "few", "one">>, <<>>, <<>>, <<>>),
                Other("1", "0", "while", <<>>, <<>>)}}
Parallel ==
  {Function(name, <<Step("load", "b", <<"a", "j">>, "1"), Step("store", "w", <<"b", "q">>, "1")>>,
            <<Other("1", "0", "parallel", b, <<"j">>)>>) :
     name \in {"pricing", "unknown"}, b \in Bounds}
\* A loop that never runs.
Backwards ==
  {Function("pricing", <<Step("load", "b", <<"a", "i1">>, "1")>>,
            <<For("1", "0", <<"few", "zero", "one">>, <<>>, <<>>, <<>>)>>)}
NoFunctions == {}
AnyFunctions == Backwards \cup Nested
PlannedFunctions == Single \cup Nested \cup Carried \cup Parallel

Measured(parallelism) ==
  [n \in {"pricing"} |-> [avg |-> 5, calls |-> 10, processed |-> 100000, candidate |-> TRUE,
                          parallelism |-> parallelism]]
Guided(functions, file, force) ==
  [pass |-> "profile-guided-offload", file |-> file, functions |-> functions, experiment |-> <<>>,
   force |-> force, least |-> 1000, threshold |-> 15]
Enhanced(file, experiment) ==
  [pass |-> "enhanced-offload-analysis", file |-> file, functions |-> <<>>, experiment |-> experiment]
PassRuns ==
  {Guided(Measured("embarrassingly_parallel"), [min |-> 1000, distance |-> 64], FALSE),
   Guided(Measured("tree_traversal"), [min |-> 1000, h2dBw |-> 10000, d2hBw |-> 5000], FALSE),
   Guided([n \in {"pricing"} |-> [avg |-> 5, processed |-> 100000, candidate |-> TRUE]], <<>>, FALSE),
   Guided(<<>>, <<>>, TRUE),
   Enhanced(<<>>, <<>>), Enhanced([total |-> 100000, kernel |-> 50], <<>>),
   Enhanced([min |-> 10000], [total |-> 100000, kernel |-> 500, min |-> 1000])}
AnyRest ==
  {[avg |-> 0, calls |-> k, processed |-> 0, candidate |-> c, parallelism |-> ""] :
     k \in {0, 1}, c \in BOOLEAN}
==============================================================================
