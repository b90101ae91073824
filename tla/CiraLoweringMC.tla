---------------------------- MODULE CiraLoweringMC ----------------------------
(* Instances of CiraLowering for TLC: families of functions. *)
EXTENDS CiraLowering, TLC

Op(kind, at, args) ==
  [op |-> kind, at |-> at, args |-> args, params |-> <<>>, body |-> <<>>, yields |-> <<>>]
Region(kind, at, args, params, body, yields) ==
  [op |-> kind, at |-> at, args |-> args, params |-> params, body |-> body, yields |-> yields]

\* Regions whose body reads through its parameters, or only prepares the cache.
Readers(at) ==
  {Region("offload", at, <<"p">>, <<"x">>, <<Op("load_async", at \o "_1", <<"x">>)>>, <<at \o "_1">>),
   Region("offload", at, <<"q", "p">>, <<"x", "y">>,
          <<Op("mem_load", at \o "_1", <<"x", "y">>), Op("to", at \o "_2", <<at \o "_1">>)>>,
          <<at \o "_2">>),
   Region("offload", at, <<"p">>, <<"x">>,
          <<Op("install_cacheline", "", <<"x", "q">>), Op("prefetch_chain", "", <<"x">>)>>, <<>>),
   Region("offload", at, <<>>, <<>>, <<Op("flush", "", <<>>)>>, <<>>)}
  \cup {Region("offload_start", at, <<>>, <<>>, <<Op("prefetch_indirect", "", <<"p">>)>>, <<>>)}

\* Every operation of a line that gives a meaning on its own, on p or on v.
Plain(at, v) ==
  {Op(k, at, <<v>>) : k \in {"from", "to", "get_paddr", "call", "evict_edge", "alloc_cxl",
     "release", "load_async", "evict_hint", "prefetch_stream", "prefetch_indirect",
     "prefetch_chain", "stream_create", "peek_stream", "advance_stream"}}
  \cup {Op(k, at, <<>>) : k \in {"flush", "drain", "barrier", "phase_boundary", "future_create"}}
  \cup {Op(k, at, <<v, "p">>) : k \in {"store_async", "install_cacheline", "mem_load"}}
  \cup {Op("mem_store", at, <<v, "q", "p">>), Op("store_async", at, <<"q", v>>)}

\* An offloaded region, an operation that may use its result, another read, and the
\* end of the phase.
Results1(o) == IF o.yields = <<>> THEN {"p"} ELSE {"p", o.at}
Functions4 ==
  UNION {UNION {{<<r, o, l, Op("phase_boundary", "d", <<>>)>> :
                   o \in Plain("b", v),
                   l \in {l \in Readers("c") : l.yields # <<>>} \cup {Op("load_async", "c", <<"p">>)}} :
                v \in Results1(r)} : r \in Readers("a")}

\* The targets the driver's options and the module's triples lead to.
Compiled ==
  [pass : {"auto", "arm"}, option : {"auto", "x86"}, triple : {"none", "riscv", "nvptx"},
   marked : BOOLEAN]

-----------------------------------------------------------------------------
(* Functions on which the lowering goes wrong *)

Boundary == Op("phase_boundary", "z", <<>>)
EdgeFunctions == {<<Op("load_edge", "a", <<"p", "q">>), Boundary>>}
SpeculativeFunctions ==
  {<<Region("speculate", "a", <<>>, <<>>, <<Op("load_async", "s", <<"p">>)>>, <<"s">>), Boundary>>}
\* The host has stored again by the time the device runs its copy of the store.
StoringFunctions ==
  {<<Region("offload", "a", <<"p">>, <<"x">>, <<Op("store_async", "s", <<"x", "x">>)>>, <<>>),
     Op("store_async", "b", <<"q", "p">>), Boundary>>}
BarrierFunctions ==
  {<<r, Op("barrier", "b", <<>>), Boundary>> : r \in Readers("a")}
AwaitingFunctions ==
  {<<Op("future_create", "a", <<>>), r, Op("future_await", "b", <<"a">>), Boundary>> :
     r \in Readers("r")}
  \cup {<<Op("load_async", "a", <<"p">>), Op("future_await", "b", <<"a">>), Boundary>>}
CachingFunctions == {<<Op("cache_load", "a", <<"p", "q">>), Boundary>>}
==============================================================================
