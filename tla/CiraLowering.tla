---------------------------- MODULE CiraLowering ----------------------------
(***************************************************************************)
(* What the pass src/Conversion/CiraToLLVM.cpp makes of a straight-line    *)
(* CIRA function, run on a host beside a device.                           *)
(*                                                                         *)
(* A CIRA operation is a record: op (its kind), at (its place, which names *)
(* its result), args, and for regions params, body, yields and whether a   *)
(* target is given.  Lower turns it into instructions; the host executes   *)
(* these one by one, with the runtime's calls as runtime/src/CiraRuntime.cpp *)
(* has them.  Values are terms, sequences of strings.                      *)
(***************************************************************************)
EXTENDS Naturals, Sequences, SequencesExt, Functions

CONSTANTS
  Programs,     \* the functions that are compiled
  Compilations  \* the pass that is run, and the option, triple and markers it finds

VARIABLES
  arch,    \* the target it is compiled for
  device,  \* is there a control window and a device function?
  prog,    \* the function
  todo,    \* the operations it has yet to finish
  code,    \* the instructions of the first of them not yet executed
  env,     \* names of values
  mem,     \* what has been stored, by address
  jobs,    \* jobs the device has been given and has not finished
  done,    \* completion lines with their magic
  tracked  \* active_futures

vars == <<arch, device, prog, todo, code, env, mem, jobs, done, tracked>>

-----------------------------------------------------------------------------
(* The target *)

TargetOf(c) ==
  CASE c.option \in {"x86", "arm", "vortex", "hetero"} -> c.option
    [] c.triple \in {"x86", "arm"} -> c.triple
    [] c.triple = "riscv" /\ c.marked -> "vortex"
    [] OTHER -> "hetero"

\* The specialised passes fix the target, the original one looks for it.
PassTarget(c) == IF c.pass = "auto" THEN TargetOf(c) ELSE c.pass

HostLike(a) == a \in {"x86", "hetero"}
Offloads(a) == a \in {"vortex", "hetero"}

-----------------------------------------------------------------------------
(* Instructions *)

Instr(do, dst, fn, args) == [do |-> do, dst |-> dst, fn |-> fn, args |-> args]
Load(dst, addr) == <<Instr("load", dst, "", <<addr>>)>>
Store(val, addr) == <<Instr("store", "", "", <<val, addr>>)>>
Let(dst, val) == <<Instr("let", dst, "", <<val>>)>>
Gep(dst, base, index) == <<Instr("gep", dst, "", <<base, index>>)>>
Fence == <<Instr("fence", "", "", <<>>)>>
Call(dst, fn, args) == <<Instr("call", dst, fn, args)>>
Nothing == <<>>

Arg(o, k) == o.args[k]
Temp(o, name) == o.at \o name   \* a value made for the operation o

(* One operator for each pattern of the pass. *)

Prefetch(a, addr) ==
  CASE HostLike(a) -> Call("", "llvm.prefetch", <<addr>>)
    [] a = "arm" -> Call("", "llvm.aarch64.prefetch", <<addr>>)
    [] OTHER -> Call("", "llvm.nvvm.prefetch", <<addr>>)

\* The index is multiplied by 32, the assumed size of an edge, and scaled again
\* by the address computation.
LowerLoadEdge(o, a) ==
  Call(Temp(o, "_off"), "mul", <<Arg(o, 2), "thirtytwo">>)
    \o Gep(Temp(o, "_ptr"), Arg(o, 1), Temp(o, "_off")) \o Load(o.at, Temp(o, "_ptr"))

LowerLoadNode(o, a) == Call(o.at, o.op, <<Arg(o, 1)>>)
LowerGetPaddr(o, a) == Call(o.at, "cira_translate_paddr", <<"null", Arg(o, 1)>>)

LowerEvictEdge(o, a) ==
  CASE HostLike(a) -> Call("", "llvm.x86.sse2.clflush", <<Arg(o, 1)>>)
    [] a = "arm" -> Call("", "llvm.aarch64.dc.civac", <<Arg(o, 1)>>)
    [] OTHER -> Call("", "llvm.nvvm.membar.gl", <<>>)

LowerCall(o, a) == Call(o.at, "callee", o.args)
LowerAllocCxl(o, a) == Call(o.at, "cira_llc_tile_alloc", <<Arg(o, 1)>>)
LowerRelease(o, a) == Call("", "cira_llc_tile_free", <<Arg(o, 1)>>)

\* The future of a load is the loaded value, that of a store is null.
LowerLoadAsync(o, a) == Prefetch(a, Arg(o, 1)) \o Load(o.at, Arg(o, 1))
LowerStoreAsync(o, a) == Store(Arg(o, 1), Arg(o, 2)) \o Let(o.at, "null")
LowerFlush(o, a) == Fence

LowerInstallCacheline(o, a) ==
  CASE HostLike(a) -> Call("", "cira_install_cacheline_x86", o.args)
    [] a = "vortex" -> Call("", "__vortex_install_cacheline", o.args)
    [] OTHER -> Nothing

LowerEvictHint(o, a) ==
  CASE HostLike(a) -> Call("", "cira_evict_hint_x86", o.args)
    [] a = "vortex" -> Call("", "llvm.nvvm.membar.gl", <<>>)
    [] OTHER -> Nothing

LowerPrefetchStream(o, a) == Prefetch(a, Arg(o, 1))
LowerPrefetchIndirect(o, a) ==
  IF a = "vortex" THEN Call("", "__vortex_prefetch_chain", o.args) ELSE Prefetch(a, Arg(o, 1))
LowerPrefetchChain(o, a) ==
  IF a = "vortex" THEN Call("", "__vortex_prefetch_chain_kernel", o.args) ELSE Nothing

\* A fresh completion line, not submitted to anybody.
LowerFutureCreate(o, a) == Call(o.at, "cira_future_alloc", <<>>)
LowerFutureAwait(o, a) ==
  Call(Temp(o, "_res"), "cira_future_await", <<Arg(o, 1)>>) \o Load(o.at, Temp(o, "_res"))

LowerBarrier(o, a) == Fence

\* Faulty: the phase boundary is a fence, as the barrier is.
LowerPhaseBoundaryFences(o, a) == Fence \o Fence
LowerPhaseBoundary(o, a) == Fence \o Call("", "cira_phase_barrier", <<>>) \o Fence

LowerStreamCreate(o, a) == Let(o.at, Arg(o, 1))
LowerPeekStream(o, a) == Load(o.at, Arg(o, 1))
LowerAdvanceStream(o, a) == Nothing

\* The host address stands in for the controller.
LowerCacheLoad(o, a) ==
  Call(o.at, "cira_type2_cache_load", <<Arg(o, 1), Arg(o, 1), Arg(o, 2)>>)
    \o (IF a = "vortex" THEN Call("", "__vortex_prefetch_chain", <<Arg(o, 1)>>) ELSE Nothing)
LowerCacheStore(o, a) ==
  Call("", "cira_type2_cache_store", <<Arg(o, 2), Arg(o, 2), Arg(o, 1)>>) \o Let(o.at, "null")
LowerMemLoad(o, a) ==
  Gep(Temp(o, "_ptr"), Arg(o, 1), Arg(o, 2)) \o Load(o.at, Temp(o, "_ptr"))
LowerMemStore(o, a) ==
  Gep(Temp(o, "_ptr"), Arg(o, 2), Arg(o, 3)) \o Store(Arg(o, 1), Temp(o, "_ptr"))
\* Operations of other dialects are left to their own lowerings.
LowerForeign(o, a) ==
  CASE o.op = "const" -> Let(o.at, "thirtytwo")
    [] o.op = "gep" -> Gep(o.at, Arg(o, 1), Arg(o, 2))
    [] o.op \in {"load", "remote_load"} -> Load(o.at, Arg(o, 1))
    [] o.op \in {"store", "remote_store"} -> Store(Arg(o, 1), Arg(o, 2))
    [] o.op = "pinned" -> Call(o.at, "callee", <<Arg(o, 1)>>)
LowerDrain(o, a) == Call("", "cira_type2_drain_delay_buffer", <<"null">>) \o Fence

LowerSimple(o, a) ==
  CASE o.op = "load_edge" -> LowerLoadEdge(o, a)
    [] o.op \in {"from", "to"} -> LowerLoadNode(o, a)
    [] o.op = "get_paddr" -> LowerGetPaddr(o, a)
    [] o.op = "evict_edge" -> LowerEvictEdge(o, a)
    [] o.op = "call" -> LowerCall(o, a)
    [] o.op = "alloc_cxl" -> LowerAllocCxl(o, a)
    [] o.op = "release" -> LowerRelease(o, a)
    [] o.op = "load_async" -> LowerLoadAsync(o, a)
    [] o.op = "store_async" -> LowerStoreAsync(o, a)
    [] o.op = "flush" -> LowerFlush(o, a)
    [] o.op = "install_cacheline" -> LowerInstallCacheline(o, a)
    [] o.op = "evict_hint" -> LowerEvictHint(o, a)
    [] o.op = "prefetch_stream" -> LowerPrefetchStream(o, a)
    [] o.op = "prefetch_indirect" -> LowerPrefetchIndirect(o, a)
    [] o.op = "prefetch_chain" -> LowerPrefetchChain(o, a)
    [] o.op = "future_create" -> LowerFutureCreate(o, a)
    [] o.op = "future_await" -> LowerFutureAwait(o, a)
    [] o.op = "barrier" -> LowerBarrier(o, a)
    [] o.op = "phase_boundary" -> LowerPhaseBoundary(o, a)
    [] o.op = "stream_create" -> LowerStreamCreate(o, a)
    [] o.op = "peek_stream" -> LowerPeekStream(o, a)
    [] o.op = "advance_stream" -> LowerAdvanceStream(o, a)
    [] o.op = "cache_load" -> LowerCacheLoad(o, a)
    [] o.op = "cache_store" -> LowerCacheStore(o, a)
    [] o.op = "mem_load" -> LowerMemLoad(o, a)
    [] o.op = "mem_store" -> LowerMemStore(o, a)
    [] o.op = "drain" -> LowerDrain(o, a)
    [] OTHER -> LowerForeign(o, a)

-----------------------------------------------------------------------------
(* Regions *)

Lowered(ops, a) == FlattenSeq([k \in DOMAIN ops |-> LowerSimple(ops[k], a)])
Results(o, value(_)) ==
  IF o.yields = <<>> THEN Nothing ELSE Let(o.at, value(o.yields[1]))

\* The body of cira.offload is inlined with its parameters mapped to operands ...
Operand(o, v) ==
  LET bound == {k \in DOMAIN o.params \cap DOMAIN o.args : o.params[k] = v}
  IN  IF bound = {} THEN v ELSE o.args[CHOOSE k \in bound : TRUE]
InOperands(o, b) == [b EXCEPT !.args = [k \in DOMAIN @ |-> Operand(o, @[k])]]

\* Faulty: the parameters are left as they are.
InlineUnmapped(o, a) == Lowered(o.body, a) \o Results(o, LAMBDA v : v)
Inline(o, a) ==
  Lowered([k \in DOMAIN o.body |-> InOperands(o, o.body[k])], a)
    \o Results(o, LAMBDA v : Operand(o, v))

\* ... and before that, for the device, it becomes a job with a completion line
\* that nobody awaits by name.  The one device function there is is called,
\* whatever the target says.
LowerOffload(o, a) ==
  (IF Offloads(a)
   THEN Call(Temp(o, "_line"), "cira_future_alloc", <<>>)
          \o <<Instr("submit", o.at, "cira_offload_submit", <<Temp(o, "_line")>> \o o.args)>>
   ELSE Nothing) \o Inline(o, a)

\* The body of cira.speculate and cira.offload_start is cloned without a mapping:
\* the clones and the results still refer to the erased operations.
Cloned(b) == [b EXCEPT !.at = @ \o "_clone"]
LowerUnmapped(o, a) ==
  Lowered([k \in DOMAIN o.body |-> Cloned(o.body[k])], a) \o Results(o, LAMBDA v : v)

\* The heterogeneous pass also makes a function of each body, without parameters
\* and without a mapping, for the device's own tool chain.
DeviceKernel(o) == o.body
Free(ops) ==
  UNION {Range(ops[k].args) : k \in DOMAIN ops} \ {ops[k].at : k \in DOMAIN ops}

Lower(o, a) ==
  CASE o.op = "offload" -> LowerOffload(o, a)
    [] o.op \in {"speculate", "offload_start"} -> LowerUnmapped(o, a)
    [] OTHER -> LowerSimple(o, a)

-----------------------------------------------------------------------------
(* What the operations mean *)

Undefined == <<"undefined">>
ValueIn(e, v) == IF v \in DOMAIN e THEN e[v] ELSE Undefined
ReadIn(m, addr) == IF addr \in DOMAIN m THEN m[addr] ELSE <<"in">> \o addr
With(f, x, v) == [y \in DOMAIN f \cup {x} |-> IF y = x THEN v ELSE f[y]]
Elem(base, index) == <<"elem">> \o base \o index

Inputs == [v \in {"p", "q", "null", "thirtytwo"} |-> <<v>>]

\* One operation that is not a region, on an environment and a memory.
Means(s, o) ==
  LET val(k) == ValueIn(s.env, o.args[k])
      is(v) == [s EXCEPT !.env = With(@, o.at, v)]
      stores(addr, v) == [s EXCEPT !.mem = With(@, addr, v)]
  IN
  CASE o.op = "const" -> is(<<"thirtytwo">>)
    [] o.op = "gep" -> is(Elem(val(1), val(2)))
    [] o.op \in {"load_async", "peek_stream", "load", "remote_load"} -> is(ReadIn(s.mem, val(1)))
    [] o.op \in {"load_edge", "mem_load"} -> is(ReadIn(s.mem, Elem(val(1), val(2))))
    [] o.op \in {"store_async", "store", "remote_store"} -> stores(val(2), val(1))
    [] o.op = "mem_store" -> stores(Elem(val(2), val(3)), val(1))
    [] o.op \in {"from", "to"} -> is(<<o.op>> \o val(1))
    [] o.op = "get_paddr" -> is(<<"cira_translate_paddr", "null">> \o val(1))
    [] o.op \in {"call", "pinned"} -> is(<<"callee">> \o val(1))
    [] o.op \in {"stream_create", "future_await"} -> is(val(1))
    [] OTHER -> s

Bound(o, e) ==
  [v \in DOMAIN e \cup Range(o.params) |->
     IF v \in Range(o.params) THEN ValueIn(e, Operand(o, v)) ELSE e[v]]

\* A region is its body, run in place.
MeansRegion(s, o) ==
  LET end == FoldLeft(Means, [s EXCEPT !.env = Bound(o, @)], o.body)
  IN  [mem |-> end.mem,
       env |-> IF o.yields = <<>> THEN s.env
               ELSE With(s.env, o.at, ValueIn(end.env, o.yields[1]))]

Meaning(ops) ==
  FoldLeft(LAMBDA s, o : IF o.body = <<>> THEN Means(s, o) ELSE MeansRegion(s, o),
           [env |-> Inputs, mem |-> <<>>], ops)

-----------------------------------------------------------------------------
(* Host and device *)

Init ==
  /\ arch \in {PassTarget(c) : c \in Compilations}
  /\ device \in BOOLEAN
  /\ prog \in Programs /\ todo = prog /\ code = Lower(Head(prog), arch)
  /\ env = Inputs /\ mem = <<>>
  /\ jobs = {} /\ done = {} /\ tracked = {}

Value(v) == ValueIn(env, v)
Values(vs) == [k \in DOMAIN vs |-> Value(vs[k])]

\* The value a runtime call or another function returns.
Returned(i) ==
  CASE i.fn \in {"cira_llc_tile_alloc", "cira_future_alloc"} -> <<i.fn, i.dst>>
    [] i.fn = "cira_future_await" -> <<"result">> \o Value(i.args[1])
    [] OTHER -> <<i.fn>> \o FlattenSeq(Values(i.args))

Computed(i) ==
  CASE i.do = "let" -> Value(i.args[1])
    [] i.do = "load" -> ReadIn(mem, Value(i.args[1]))
    [] i.do = "gep" -> Elem(Value(i.args[1]), Value(i.args[2]))
    [] OTHER -> Returned(i)

\* cira_future_await spins on the magic word of whatever it is given.
MayExecute(i) ==
  CASE i.fn = "cira_future_await" -> Value(i.args[1]) \in done
    [] i.fn = "cira_phase_barrier" -> tracked \subseteq done
    [] OTHER -> TRUE

Execute ==
  /\ code # <<>> /\ code' = Tail(code)
  /\ LET i == Head(code)
     IN  /\ i.do # "submit" /\ MayExecute(i)
         /\ env' = IF i.dst = "" THEN env ELSE With(env, i.dst, Computed(i))
         /\ mem' = IF i.do = "store" THEN With(mem, Value(i.args[2]), Value(i.args[1]))
                   ELSE mem
         /\ tracked' = IF i.fn = "cira_phase_barrier" THEN {} ELSE tracked
  /\ UNCHANGED <<arch, device, prog, todo, jobs, done>>

\* cira_offload_submit completes the line itself when there is no device.
Submit ==
  /\ code # <<>> /\ Head(code).do = "submit" /\ code' = Tail(code)
  /\ LET i == Head(code)
         line == Value(i.args[1])
     IN  /\ tracked' = tracked \cup {line}
         /\ jobs' = IF device
                    THEN jobs \cup {[region |-> i.dst, line |-> line, args |-> Values(Tail(i.args))]}
                    ELSE jobs
         /\ done' = IF device THEN done \ {line} ELSE done \cup {line}
  /\ UNCHANGED <<arch, device, prog, todo, env, mem>>

\* The host has executed an operation and goes on to the next.
Retire ==
  /\ todo # <<>> /\ code = <<>>
  /\ todo' = Tail(todo)
  /\ code' = IF Len(todo) = 1 THEN <<>> ELSE Lower(todo[2], arch)
  /\ UNCHANGED <<arch, device, prog, env, mem, jobs, done, tracked>>

\* The device runs the region of a job on the operands it was sent.
OnDevice(j) ==
  LET o == prog[CHOOSE k \in DOMAIN prog : prog[k].at = j.region]
      e == [v \in Range(o.params) |-> j.args[CHOOSE k \in DOMAIN o.params : o.params[k] = v]]
  IN  FoldLeft(Means, [env |-> e, mem |-> mem], o.body)

DeviceCompletes ==
  \E j \in jobs :
    /\ jobs' = jobs \ {j} /\ done' = done \cup {j.line}
    /\ mem' = OnDevice(j).mem
    /\ UNCHANGED <<arch, device, prog, todo, code, env, tracked>>

HostStep == Execute \/ Submit \/ Retire
Next == HostStep \/ DeviceCompletes

\* The processor executes, and the firmware polls.
Spec == Init /\ [][Next]_vars /\ WF_vars(HostStep) /\ WF_vars(DeviceCompletes)

-----------------------------------------------------------------------------
(* Properties *)

Executed == Len(prog) - Len(todo) + 1

\* On every target the lowered function computes what its operations mean: each
\* result so far is the right one and memory holds what was stored last, although
\* the body of an offloaded region is run by the host as well as by the device.
MeaningKept ==
  todo # <<>> /\ code = <<>> =>
    LET s == Meaning(SubSeq(prog, 1, Executed))
    IN  mem = s.mem /\ \A v \in DOMAIN s.env : Value(v) = s.env[v]

\* After cira.phase_boundary the device has nothing left to do: no job can touch
\* memory, or the operands on the host's stack, in the next phase.
PhaseDrains ==
  [][todo # todo' /\ todo # <<>> /\ Head(todo).op = "phase_boundary" => jobs' = {}]_vars

\* CiraOps.td says the same of cira.barrier.
BarrierDrains ==
  [][todo # todo' /\ todo # <<>> /\ Head(todo).op = "barrier" => jobs' = {}]_vars

\* Every compiled function comes to its end.
Finishes == <>(todo = <<>>)

\* The runtime is called with the kind of object it takes: awaits with a line, tile
\* frees with a tile, the Type 2 cache with a controller.
CallsTakeTheirKind ==
  code # <<>> =>
    LET i == Head(code)
        kind == IF i.args = <<>> THEN "" ELSE Value(i.args[1])[1]
    IN  /\ i.fn = "cira_future_await" => kind = "cira_future_alloc"
        /\ i.fn = "cira_llc_tile_free" => kind = "cira_llc_tile_alloc"
        /\ i.fn \in {"cira_type2_cache_load", "cira_type2_cache_store"} => kind = "controller"

\* The functions made for the device refer to nothing outside themselves.
KernelsClosed ==
  arch = "hetero" /\ todo # <<>> /\ Head(todo).op = "offload" =>
    Free(DeviceKernel(Head(todo))) = {}
==============================================================================
