# TLA+ models of CIRA

CIRA (CXLMemUring) compiles loops over far memory so that part of them runs on
a CXL Type 2 device. `src/` and `include/` are MLIR passes; `runtime/` is what the
compiled program calls. Here the runtime's protocols and the compiler's passes are
specified, checked with TLC on small instances and, for most of the runtime, proved
safe with TLAPS for every instance. Paths are relative to the repository's root.

## 1. The system

| part | code | state it keeps | operations |
|---|---|---|---|
| A. doorbell submission | `runtime/cira_mmio.cpp`, `cira_cxl_job.h` | control window: one argument slot per job id, one doorbell, one host-status mirror; `next_seq`; the process's default window | open, arm, submit_job, submit_call, wait_completion, wait_seq, set_default |
| B. device firmware | `runtime/vortex_device.cpp` 500-979 | `last_seq`; writes the mirror and completion lines | poll, service_once, install, prefetch, call |
| C. cache-resident waits | `runtime/cira_mwait.cpp` | `g_backend`, the environment's setting | wait_u32, wait_u32_ne, set_backend |
| D. futures, phase barrier | `runtime/src/CiraRuntime.cpp` 1040-1799 | completion lines, `active_futures` | alloc, arm, offload_submit, await, free, barrier |
| E. tiles, pools, remote memory, address tokens | same, 38-636 and 1262-1608 | tile metadata, registered regions, tier mappings | alloc, install, free, register, translate, migrate |
| F. Type 2 cache controller | same, 639-956 | cache entries with MESI states, delay buffer, BARs | load, store, evict, snoop, invalidate, memLoad, memStore |
| G. Type 2 GPU device | `runtime/src/Type2GpuDevice.cpp` | descriptors, mappings, card registers | initialize, launch, wait, shutdown |
| H. two-pass runtime and cost model | `runtime/vortex_verilator_sim.cpp`, `cira_jit.cpp` | mode, region profiles, profile file | host work begin/end, launch, sync, save, inject |
| I. JIT engine | `runtime/cira_jit_engine.cpp` | LLJIT, code cache, defined symbols | specialize, define, lookup, reset |
| J. Vortex host API and backend | `runtime/vortex_device.cpp` 1-500, `vortex_offload_backend.cpp` | handle tables over device memory | buffers, copies, kernels, arguments, launch, wait |
| K. B-tree demonstrator | `runtime/shared_protocol.h`, `bc_x86.cpp`, `bc_riscv.cpp` | two rings, one node buffer in shared memory | send/receive, push/get node, insert |
| L. region formation | `src/Dialect/Transforms/BackwardSlice.cpp`, `RegionFormation.cpp` | the function | slice, form, depth |
| M. offload planning | `src/Dialect/OffloadProfile.cpp`, `OffloadOverheadAnalysis.cpp` | marks on loops | profile-guided marks, transfers, hoisting |
| N. outlining of loops | `src/Dialect/Transforms/SearchRemote.cpp` | the module | extract, replace by a call |
| O. lowering | `src/Conversion/CiraToLLVM.cpp` | the function | one pattern per operation, per target |
| P. timing passes | `src/Dialect/TwoPassTimingAnalysis.cpp` | annotations of regions | annotate, prefetch, number and inject |
| Q. GPU pipeline | `GpuOffloadDecision.cpp`, `GpuKernelGeneration.cpp`, `Type2GpuCodeGen.cpp`, `scripts/pgo_iterate.sh` | linalg operations, profile | decide, generate, measure, rewrite |
| R. ClangIR conversion, TOSA, tools, drivers, benchmarks, scripts | the rest | | |

How they interact. Compiled code allocates a *future* (a 64-byte completion line,
D) and submits a job through A. A stages the payload in the slot of the job id,
then the header, then the doorbell; nothing but the order of the stores and the
sequence number protects it. B polls the doorbell, mirrors RUNNING, checks the
slot, runs the job, writes the completion line and mirrors the verdict. The
client sleeps in C on the magic word of its line (`wait_completion`) or on the
mirrored number (`wait_seq`). D keeps a list of armed lines for the phase barrier;
tiles and pools of E carry such lines, and jobs name memory by E's tokens. F is
called by compiled code for coherent accesses. I compiles kernels in which the
address of A's default window is a constant. L, M and N rewrite functions, O turns
what they leave into calls of A to G. H measures a program, P compiles what it
measured into the next build, and H replays it there. Q does the same for GPU
kernels, on the card of G. K is a program of its own.

What is hard: everything in A and B is lock free across a bus; waits may time
out; a line is reused for the next job; C races a store with the arming of a
monitor; D holds a mutex while it waits for the device; E drops its lock in the
middle of an operation and its heap hands addresses out again at once; F keeps
copies of memory the host writes; G's status register outlives the launch it is
about; H carries measurements from one process to the next; I shares code by a
fingerprint and destroys it on a reset; J frees and reallocates on paths that can
fail; K retries what it has already sent; the passes move code over stores, out
of loops and to another processor. `PROJECT.json` lists each hazard at its line
with the properties that cover it.

## 2. Modules

The runtime:

| module | models | abstracts |
|---|---|---|
| `CxlJob` | job ids and status codes shared by both sides | |
| `OffloadJobs` | the contract: a submission is run once and delivered afterwards | everything else |
| `CxlOffload` | A and B, store by store and load by load | contents of a payload, memory effects of a job |
| `CxlOffloadTurns` | the same under the discipline of the runtime's own clients; the inductive invariant | |
| `CxlOffloadProofs`, `CxlOffloadSlotProofs` | proofs about the window, with turns and without | |
| `FuturesProofs`, `RuntimeMemoryProofs`, `VortexHandlesProofs` | proofs about the module of that name | |
| `SharedMemoryProofs` | proofs about `CacheWait` and `BTreeOffload` | |
| `Type2Proofs` | proofs about `Type2Cache`, `Type2Gpu` and `GpuPgo` | |
| `JitProofs` | proofs about `JitEngine` and `JitDevice`, `TwoPass` and `TwoPassBuild`, `OffloadPlan` and `OutlineLoops` | |
| `MmioWindow` | life time of A's default window: opening, environment, replacement | the window's contents |
| `CacheWait` | C with the processor's monitor | time: a deadline passes or not |
| `Futures` | D without tile contents | the doorbell protocol: the device is a set of lines |
| `RuntimeMemory` | E: tiles, pools, regions, remote references on one heap | contents, sizes |
| `AddressTokens`, `MemoryTokens` | E: sources of a token, bit by bit; composed with the registrations of `RuntimeMemory` | fields are a few bits wide |
| `Type2Cache` | F | a line is two words; hit and miss counters |
| `VortexHandles` | J | the SDK is external: blocks, calls that may fail |
| `Type2Gpu` | G | BAR contents |
| `TwoPass` | H: the two processes, the profile file, the cost model | durations are small numbers |
| `JitEngine`, `JitDevice` | I; composed with `MmioWindow` | a template is what it defines and needs |
| `BTreeOffload` | K | a node is how often it holds each key |

The compiler:

| module | models | abstracts |
|---|---|---|
| `RegionFormation` | L | types; a value is the name of its operation |
| `OffloadPlan` | M | bandwidths and times are small numbers |
| `OutlineLoops` | N | |
| `CiraLowering` | O, and the run of the lowered function by a host beside a device | values are terms over the arguments |
| `CiraCompiler` | L, M, N and then O and the run, on one function | |
| `TwoPassBuild` | P between the two processes of `TwoPass` | a module is the list of its regions |
| `GpuPgo` | Q, composed with the card of `Type2Gpu` | a module is a list of operations with dimensions |

`...MC` modules hold the instances TLC is given: families of functions, argument
lists, templates, pages.

Correspondence of state and actions.

- `CxlOffload`: a thread's `hpc` is the next store of `cira_mmio_submit_job`;
  `slotKern`, `slotLine`, `slotSeq` are the words of `cira_cxl_arg_slot_t` and its
  payload, `dbJob`, `dbSeq` the doorbell, `hsStatus`, `hsSeq` the mirror, `magic`,
  `result` the completion lines, `last` the firmware's `last_seq`, and `fpc` its
  next load or store. `owner` says for which submission a client armed a line:
  `cira_mmio_arm_completion` and `next_seq.fetch_add` are `Begin`. History variables
  (`runs`, `ranArgs`, `staged`, `signalled`, `got`, `verdict`) only record.
- `Futures`: a critical section that only edits `active_futures` is one step, the
  barrier's is not: `holder` keeps the mutex from `BarrierLock` to `BarrierReturn`.
- `CacheWait`: one step is one load of the flag or one monitor instruction. The flag is
  loaded relaxed: `ahead` is what the waiter's processor has loaded of the payload before,
  until the acquire fence of a load that succeeded makes it load again (`Fence`). The backend
  is the one the processor and `CIRA_WAIT_BACKEND` give (`DetectBackend`).
- `Type2Cache`, `BTreeOffload`: the code's locks and semaphores make a whole call one
  step. The start of the two B-tree processes is modelled too: `shm` says whether
  the segment exists and whether the device has cleared it.
- `RuntimeMemory`: `heap` says what each cell is at the moment; `tiles`, `pools`,
  `regions`, `refs` are the runtime's tables. An operation that takes a lock more
  than once, or calls the allocator outside it, is a sequence of steps
  (`TileFreeOrder`, `InstallOrder`, `PoolFreeOrder`, `TileGive`, `GetMwaitEnds`) with other
  threads between them. Any thread may install into or wait for any tile, whoever else does:
  what an install copies is not modelled, as nothing in the code keeps two copies, or a copy and
  its reader, apart. The manager stores what `mmap` returned, `Failed` included.
- `VortexHandles`: `buffers` and `kernels` are the tables of the backend, `mem` says
  what each block of device memory holds. A call is one step: the backend is used
  by one thread. Arguments name blocks, as the backend takes them for handles and looks
  nothing up (`SetArgs`).
- `Type2Gpu`: `obj` and `held` are a device object and what it has of the system;
  the card's registers are shared. A launch is three steps, one for each group of
  registers, `LAUNCH` last (`Launch`, `SetCompletion`, `Trigger`), a wait its reads of `STATUS`,
  interleaved with the card. The user may give up, launch over a kernel that runs and shut
  down; an object that was shut down simulates: it launches nothing and every wait is true.
- `TwoPass`: a region's `stage` goes through the calls compiled around it; `profile`
  is the table in memory, `file` what was saved of it. `TwoPassBuild` adds the
  module between the processes: `source`, what is `built` of it so far, and the `pass`. The
  passes annotate regions, number them and put phase boundaries behind them. No pass inserts a
  call of the runtime, so the program that runs is the application with its own calls.
- `MmioWindow`: `OpenEnv` reads the environment's variables, the current name before the
  legacy one, as `cira_mmio_open_env` does; only the window's place and size matter.
- `JitEngine`: a `specialize` goes from the lock over creation, load and binding to
  the entry in `cache`, with `ResetCache`, `DefineSymbol` and other threads between.
- `RegionFormation`: `worklist` and `visited` are those of `BackwardSlice`; a step
  looks at one value, or forms the region of one access.
- `OffloadPlan`, `OutlineLoops`: a step is one pass over the function, or one loop.
- `CiraLowering`: `Lower` is one function from an operation to instructions with a
  case per pattern; `code` is what is left of the current operation, `jobs` what the
  device has, whose effects may come at any time until it is awaited. `Meaning`
  is the reference: what the operations compute when run one by one.
- `GpuPgo`: `stage` is the place in the script; the program it builds runs through
  `Type2Gpu`'s actions as the object `Program`.

`PROJECT.json` maps every definition to its lines. Definitions named *Faulty* in a
comment are slips a programmer could make (a dropped guard, a missing reset); each
property is tested against one.

## 3. Assumptions

- Stores of one party become visible in program order. The code fences between
  payload, header and doorbell; the window is uncached.
- Firmware runs alone, as `vortex_cxl_firmware_loop` does. The probing of the window
  and the second submitter `vortex_cxl_submit_job_mmio` are left out.
- *Turn taking* (`Overlap = FALSE` in `CxlOffload`): the next job is submitted when
  the last one has been awaited, as `cira_gapbs_region_marker` does.
  `SelfSignal = FALSE`: kernels leave the completion line to the firmware.
  `Timeouts = FALSE` is the default of `CIRA_CXL_MMIO_TIMEOUT_NS`. `Leftover = 0` is a
  window nobody used before.
- The operating system's timer event stream, which on some ARM systems ends a WFE,
  is not assumed.
- *Disciplined* callers of the futures do not clear a line that is on the list and
  use an armed entry before anything else that needs the mutex. Compiled code takes
  its jobs for finished after the barrier (`Leave`).
- Evicting without write back and shutting down discard dirty lines on request:
  the cache's history forgets them too.
- `BTreeOffload`, `Prompt`: the second the host sleeps after the fork is enough for the
  device to create and clear the segment.
- `RuntimeMemory`: callers free a tile once, and in the run not while a call works on it
  (`FreesInUse`; the theorem is about both); the application does not register memory pools
  lie in (`Overlap`), nor free a reference it has migrated (`FreesMigrated`). Callers of the
  remote memory manager take turns, as it has no lock.
- `Type2Gpu`: one object launches, and a write to LAUNCH has changed STATUS before it is next
  read (`Prompt`).
- `Type2Cache`, `Revive = FALSE`: only lines the cache holds are snooped.
- `TwoPass`: kernels are launched outside the measured host work (`Inside = FALSE`), one
  region is open at a time (`Overlap = FALSE`), saving is not interrupted
  (`SaveCrashes = FALSE`). `TwoPassBuild`: modules list their regions in the order in
  which they were measured, and are compiled anew for each profile (`Rebuilds`).
- `JitEngine`: an engine is reset when nobody holds code of it (`QuietResets`), the default
  window is replaced when nobody holds code for it (`QuietWindows`).

Fairness. Host threads and firmware are threads in loops, so each gets weak
fairness of its next step and nothing more; a client's wish to submit or to free
is not fair. Memory contents, snoops, interrupts and the device's store in
`CacheWait` owe nothing. `Futures` adds that a job the device has is finished and
that an armed entry is used. In `BTreeOffload` both processes run. In `CiraCompiler`
it is enough that compilation, or the run, goes on while it can.

## 4. Runs

| run | bounds | shows |
|---|---|---|
| `offload_turns` | 2 threads, 2 lines, 2 job ids, 2 submissions | own arguments, at most once, no early completion, sound verdict, delivery, the contract by refinement, and the inductive invariant |
| `offload_pipelined` | 1 thread that does not wait, self-signals, timeouts | header check (job word and number belong together), payloads never get older, mirror monotone, last doorbell served |
| `cachewait_x86` | 1 waiter, 3 stores, both wait features, backends forced by a call and by the environment | the payload is visible although it may have been loaded ahead of the flag; every ready and every timed wait ends |
| `futures_callers` | 2 threads, 2 lines, both settings of `CIRA_CXL_MMIO_WAIT` | no device write outlives its line; the barrier covers every job and returns |
| `type2_aligned` | 2 lines of 2 words, whole-line loads | loads see the newest value, nothing is lost |
| `btree_rounds` | rings of 4, 5 tasks, any leftover segment | all tasks complete; completions run ahead of keys, but never lose one |
| `vortex_handles` | 4 blocks, 2 ids of each kind, every call may fail | device memory is not lost or freed twice; packed arguments fit |
| `cira_compiler` | chains and loops of up to 7 operations, 4 settings of the pass, functions of up to 4 operations with regions, every target, with and without a device, 3 planning passes | results and memory are those of the source; a phase boundary leaves no job; marks agree; outlining changes nothing |
| `runtime_memory` | 2 threads, heap of 3 cells, 2 mappings that may also fail, 16 addresses, 6 sources of tokens | held tiles keep their lines and no line stays incomplete for good, regions die with their pools, the barrier has no freed line, tokens tell addresses apart |
| `two_pass` | 2 regions, 3 lengths of host work, 2 of kernels, 2 latencies, 2 modules | the second pass takes as long as the slower of host and kernel, short of a microsecond; schedules keep the cost model's promises; the module has a boundary, with the runtime's number, behind exactly the regions that are waited for |
| `jit_engine` | 2 threads, 2 engines, 1 reset of each, 2 versions of a file, 1 window opened | code fits its knobs, reaches the default window, and is never refused because of another |
| `gpu_pgo` | 2 objects, 1 launching, 2 requests, 3 modules of 2 or 3 operations, 3 iterations | waits answer for the last launch, though earlier ones were given up; every product is computed once, under every tile the profile can choose |

Why the bounds are enough. Two submissions make a slot, a line and the doorbell be
reused once, which is what every interference needs; the theorems hold for any number.
Two threads suffice for an interleaved doorbell; a third only repeats one of them. Two
cache lines exercise accesses that reach into a neighbour. Rings of 4 hold 3 items, so
five tasks with retries fill them, wrap them several times and, as in the program
(1000000 tasks, 256 slots), never fit them together. A heap of 3 cells is full with one
tile, its line and one more allocation, so that each address is handed out again as each
other kind. Two ids and four blocks let a buffer and a kernel with arguments exist, fail
and come back. Three iterations of the profile loop are one before, one on and one after
a rewrite. `MaxResets` 1 separates code of two lives of an engine. The lowering is a
function of one operation at a time: four of them, the offload, its await, an access
between and one after, are all that one pattern can confuse; chains of three addresses
and two accesses reach every branch of the slicing (`maxOps` 2 cuts it). `Word` is 2^20
in place of 2^64: the wrap of the unsigned difference happens at once in both.

A client that finds its jobs over may stop for good, and a compiled function ends, so
the window, the waits, the B-tree, the compiler and the profile loop run without
deadlock checking. The other runs never stop, and are checked for it.

Further invariants of the modules hold under the constants of the run of the module,
and are checked by adding them to its cfg: `TypeOK` of `CxlOffload`, `CacheWait`, `Futures`
and `Type2Cache`, `BTreeTypeOK`, `LineStillOwned`; `FalseOnlyLate`, `OnlySupported` (waits);
`ListedLive`, `AwaitedDone`, `AwaitReturns` (futures); `DirtyIsModified`, `MemReadsStored`
(cache); `RingsAreQueues`, `NoGridlock` (rings); `RegionsClosed`, `DepthIsReal`,
`Ends` (compiler); `RemoteAccounted` (memory); `NothingLeaked`, `SuggestionsUsed` (card and loop).

### Where the code disagrees with what it says of itself

Each row is a configuration in which TLC finds the named property violated. Some are
kept as a cfg (`tlc -config <cfg> <module>`), the others are a run's cfg, named by its last
word, with the constants and the property given; *turns* is then checked on `CxlOffload`, since
`CxlOffloadTurns` assumes the discipline, and `Spec` means without fairness.

| configuration | property | what happens | what is said |
|---|---|---|---|
| turns, `Spec`, h1, l1, CALL, `MaxSeq` 1 | `NoFalseError` | `wait_seq` polls while the job runs, reads RUNNING, reports EIO | `cira_mmio.h:102` "Wait for the device to mirror `seq` back" |
| turns, `Spec`, h1, CALL, `Overlap` | `OwnArgs` | two outstanding jobs of one id: the first runs with the second's payload | `cira_mmio.cpp:353` "the device can never observe a doorbell that points at a half-written argument" |
| same | `AtMostOnce` | doorbell rings between the poll and the latch's second read: a job runs twice | `CiraRuntime.cpp:1771` "a fresh sequence number" |
| turns, `Spec`, h1, l1, CALL, `MaxSeq` 1, `SelfSignal` | `KernelResultDelivered` | the firmware overwrites the result a kernel published | `vortex_device.cpp:808` "If the callee did not use the CIRA completion line itself" |
| turns, `Spec`, `SelfSignal` | `NoEarlyCompletion` | the second signal of a kernel releases the client of the next job | `README.md:64` |
| turns, h1, CALL, `Overlap` | `EveryJobCompletes` | a doorbell over an unpolled one is lost | `CiraRuntime.h:334` "MMIO ring buffer" |
| turns, `Spec`, `MaxSeq` 1, `Leftover` 1 | `VerdictSound` | a re-opened window restarts its numbers: success for jobs that never ran | `CiraRuntime.cpp:1771` |
| turns, `Spec`, `Timeouts` | `ResultAfterRun` | a timed-out await is reported as done | `CiraRuntime.h:320` "Spins until magic == 0xDEADBEEF" |
| turns, `Spec`, `Overlap` | `DoorbellMonotone` | two threads ring out of order | `cira_cxl_job.h:4` "monotonically increasing" |
| x86, `MaxFlag` 1, `SpinBudget` 1, `Family` "arm", no `Features`, `Settings` {""}, no `Forced` | `ReadyReturns` | a store before the arming is not noticed, on WFE perhaps for ever | `cira_mwait.h:19` "All backends are woken by an ordinary store" |
| x86 | `NeverSleepsReady` | a thread sleeps on a ready flag for a quantum | `cira_mwait.cpp:194` "closes the lost-wakeup window" |
| x86 | `ForcedSticks` | a forced backend is overwritten by the first detection | `cira_mwait.h:44` |
| callers, `Timeouts`, `WaitInSubmit` {FALSE} | `BarrierCovers` | with a timeout the barrier returns over unfinished jobs | `CiraRuntime.cpp:1764` "they've all completed" |
| callers, `Disciplined` FALSE | `BarrierReturns` | barrier and submitter wait for each other | `CiraRuntime.h:303` "pipelined async chains" |
| callers, `Timeouts` | `DeviceLive` | a line is freed after a timeout and written later | `CiraRuntime.h:320` |
| aligned, `Offsets` {0, 1} | `LoadsNewest` | an access in the middle of a line goes to its start | `CiraOps.td:503` "coherently caches" |
| aligned, `LoadSizes` {1, 2} | `LoadsNewest` | a short load makes the whole line valid | same |
| aligned, `Revive` | `LoadsNewest` | a snoop makes an evicted line valid again | `CiraRuntime.cpp:912` |
| aligned, `Depths` {1} | `QueueBounded` | the delay buffer stays over its depth | `CiraRuntime.cpp:700` |
| aligned, `DelaysFirst` | `MemReadsStored` | delays before configuration: no BARs for good | `CiraOps.td:576` |
| rounds, `Tasks` 2 | `HostExits` | the host waits for a child that blocks on its ring | `bc_x86.cpp:144` |
| rounds, `Prompt` FALSE | `RingsAreQueues` | the device clears rings the host has begun to use | `bc_x86.cpp:102` |
| rounds, `MaxKeys` 2 | `KeysFit` | keys past the array of a node | `shared_protocol.h:23` |
| rounds | `AllApplied` | more tasks than slots, as in the program, which has 1000000 and 256: responses to repeated requests complete tasks whose keys are still under way, and the host leaves without them | `bc_x86.cpp:134` |
| rounds, `Size` 3 | `NoGridlock` | one request under way beside two in each ring: both sides wait for the other | |
| reuse, 1 thread | `Accounted` | `migrate` leaves a reference it has deleted in the table, and the caller with one it has freed | |
| reuse, 1 thread, 1 mapping, `Overlap` | `PoolsTranslate` | the application's region answers for a pool in it | first match |
| reuse, `FreesMigrated` | `PoolsTranslate`, `TilesKnown` | freeing a migrated reference gives back memory others have | |
| reuse, `Frames <- LostFrame` | `TokensTell` | a page whose frame the kernel hides shares its token with another page | |
| backend | `MixedFit` | arguments of mixed alignment are packed past their allocation | |
| passes, `Modules <- Apart` or `Rebuilds` FALSE | `BoundariesWhereDue` | regions of two functions share numbers; boundaries of an old profile | |
| `TwoPass_beside.cfg` | `SecondPassTakes` | two open regions share one clock | |
| same, one property at a time | `HiddenWasMeasured`, `PlacementSurvives`, `KnobsAgree`, `ContentionRises` | a region whose kernel failed counts as hidden; a loaded profile gives other annotations than the one that was saved; a region kept on the host has a split; a higher latency does not raise the contention | comments at the fields and calls, quoted in the module |
| `TwoPass` alone, `TwoPassSpec`, 1 region, `Inside` | `SecondPassTakes` | a kernel launched within the measured work is counted twice | |
| shared, `QuietResets` FALSE | `CodeAlive` | a reset unmaps code that callers hold | |
| `JitEngine_beside.cfg`, one property at a time | `TargetReady`, `FreshCode`, `LookupFinds`, `OnlyAsked`, `DeviceReached` | a second thread goes on while the target is being initialised; code of an old file is served; materialised symbols are not found; symbols asked by one kernel are visible to the next; code calls a closed window | comments quoted in the module |
| `GpuPgo_beside.cfg`, one property at a time | `WaitsForOwn`, `DoneMeansRun`, `CompletionGoesHome`, `TilesFit`, `OffloadedAreEmitted`, `DeviceMemoryMapped` | a status of the previous launch answers; after a shutdown a wait says true of a kernel that never ran; a completion line is written for another request; tiles over the cache; marked operations without a kernel; device memory beyond what is mapped | comments quoted in the module |
| `CiraCompiler_plans.cfg`, one property at a time | `HoistReady`, `TransfersExist`, `TripsReal`, `MarksAgree` | transfers hoisted over what makes their values; values transferred before they exist; the trip count of an empty loop wraps to a huge one; marks lost when loops are outlined after planning (`OutlineFirst` FALSE) | `OffloadOverheadAnalysis.h:52`, `:85` |
| functions, `Planned <- NoFunctions` | `InputsReady` | a region is started before an operand is there | `RegionFormation.cpp`, quoted in the module |
| `CiraLowering_barrier.cfg` | `BarrierDrains` | `cira.barrier` becomes a fence and jobs go on | `CiraOps.td` |
| `CiraLowering`, `Programs <- EdgeFunctions`, `SpeculativeFunctions` or `StoringFunctions` | `MeaningKept` | an edge, a speculative region or a store through a handle means something else when lowered | |
| same, `CachingFunctions` | `CallsTakeTheirKind` | a cache operation is handed something that is not a controller | |
| same, `AwaitingFunctions` | `Finishes` | an await of a line nobody completes | |
| same, `Functions4` | `KernelsClosed` | functions made for the device refer to values outside | |

In other configurations the code does better than its runs assume: the header check
(`RunsRightJob`) holds with any number of threads at once, and `OnlySupported` with any
number of waiters on any processor. Both are proved.

What the models showed besides, without a property of its own: what a planned loop
computes (results of parallel loops, memory stored to) never comes back to the host;
the fields of a function's profile are not initialised, and a function with no calls
divides by zero (`alive`); a profile that says CPU_ONLY leaves earlier marks; nothing
consumes the marks of the planning passes, nor turns what the
timing passes write into calls of the two-pass runtime; what a region reads is kept as a number of
bytes; two installs into one tile may leave it half of each, and complete; remote memory that
could not be had is handed out, and counts as used; the script measures only before its first
rewrite; generated host code calls operations `Type2GpuDevice.h` does not have.

## 5. Proofs

`CxlOffloadProofs` proves, for every number of threads, lines, job ids and
submissions, and from the constants' assumptions `ConstantsOK` and `TurnTaking`
alone:

- `Invariance`: `Spec => []IInv`, and from it `TypeCorrect`, `JobsKeepTheirArguments`,
  `JobsRunOnce`, `CompletionMeansRun`, `CompletionLandsHome`, `VerdictMeansRun`,
  `MirrorNeverRegresses`;
- `ImplementsContract`: the window implements `OffloadJobs`.

`CxlOffloadSlotProofs` proves `HeaderCheckSuffices` without any turn taking: in a
window nobody used before (`Leftover = 0`), however many threads submit at once and
whatever they time out on, a job that passes the firmware's header check is the one
that was submitted under its number (`RunsRightJob`). Its invariant `SlotInv` says
that a submission under way has a number other than 0, that a slot's number, unless
it is 0, was staged for that slot's job, and that the firmware past its poll holds a
number other than 0: so it never accepts a slot whose header is only half written.

The same module is about one thread that submits without waiting (`OneSubmitter`, again in a
fresh window), whatever kernels signal and waits give up on: `PayloadsNotStale` says that a
job runs with its own payload or a later one (`ArgsNeverStale`), `MirrorGoesForward` that the
mirror does not go back (`MirrorMonotone`). `PipeInv` follows a number from the thread over the
doorbell and the firmware to the mirror (`NumbersFollow`), and says that a slot's payload is
never older than its header (`PayloadAhead`): this is the order of the stores in
`cira_mmio_submit_job`. With two threads neither holds, as the doorbell may then go back.

None of the properties is inductive. Under turn taking, "A job runs with its own payload" needs that
the slot still holds the payload when the firmware reads it, so that nobody stages
while the firmware is busy, so that a busy firmware means the latest job is not
awaited, so that the doorbell and `last` differ by at most one. `IInv` says just
that: it places host (`OneAtATime`, `StagedSoFar`), window (`Committed`), firmware
(`DeviceBehind`) and history (`RunSoFar`, `Mirrored`, `Delivered`) relative to one
number, the latest submission `cur`. `BusyDevice` is the lemma the firmware's steps
share. The proof has a step per action and a lemma per conjunct group.

`TypeCorrect` (`TypeOK`) and `CompletionLandsHome` (`LineStillOwned`) follow from `IInv`; no run
needs to state them again.

The other proofs are laid out in the same way: an invariant made of named parts, a lemma
for each part with a step for each action, and theorems that read the properties off the
invariant. All hold for any number of threads, lines, cells, blocks, engines and values.
Where a theorem has a hypothesis, it is a definition over the constants, true in the run
named in section 4, and the table of disagreements there has the run without it.

| module | theorems | hypothesis, and who keeps to it |
|---|---|---|
| `SharedMemoryProofs` | `PayloadSeen`, `NoEarlyTimeout`, `SupportedOnly` from `WaitsSound` | none |
| | `RingsKept` | `Prompt`: a second is enough for the device to clear the segment |
| | `CompletionsAreApplied` | `Prompt`; any number of tasks and slots, the program's among them |
| | `RingsNotBothFull` | `Prompt`, and rings of more than three slots; the program's have 256 |
| `FuturesProofs` | `DeviceWritesLive`, `BarrierReadsLive`, `BarrierIsBarrier`, `AwaitMeansDone` from `FuturesKept` | `Careful`: no timeout is set, which is the default of `CIRA_CXL_MMIO_TIMEOUT_NS`; callers are disciplined (section 3), as lowered code is |
| `Type2Proofs` | `DirtyHeld` | none |
| | `CacheCoherent`, `StoresKept` from `Coherent` | `Aligned`: whole lines from their first word, and no snoop of an evicted line; nothing in the code prevents one, and with it `LoadsNewest` is violated (table above) |
| | `DeviceMemoryKept` | delays are set after `initialize` |
| | `WaitsAnswerForOwn` from `CardServesOne` | `OneLauncher`: one object launches, with `Prompt` (section 3); without it the property is violated (table above) |
| | `ObjectsLeaveNothing` | none |
| | `EveryProductComputed` from `LoopCompiles` | `StaticShapes`: operations have static shapes and none is empty, as in the modules the loop is run on |
| `VortexHandlesProofs` | `DeviceMemoryOwned` from `HandlesKept` | none |
| | `PackingFits` | `Layouts` are lists of sizes, whatever they are; each is aligned to 8, as the backend asks |
| `JitProofs` | `SchedulesSound` from `MeasuredSchedulesSound` and `DecideSound` | `BatchFits`: batches of at most 256, as in `cira_jit.h:40`; no other: regions may overlap and saving may be interrupted |
| | `SecondPassIsDue` | and `Orderly`: one region at a time, kernels outside the measured work, saving is not interrupted (section 3) |
| | `BoundariesDue` | and `Numbered`: compiled anew for each profile, with every region in the module and those of a function in the order of their registration |
| | `MarksAlwaysAgree` from `MarksKept` | `OutlineFirst`: loops are outlined before they are planned |
| | `CodeFitsSpec`, `EngineNeverRefuses` from `EngineSound` | `CallersOK`: knobs are given once, those of the window are left to the engine, device templates load its address, no application symbol has the name of a runtime symbol |
| | `DeviceCodeReaches` from `WindowsReached` | and `QuietWindows`: a window is replaced when no code holds its address |
| `RuntimeMemoryProofs` | `TilesAreKnown`, `TrackedInPools`, `ReferencesCounted` from `MemoryKept` | `OneFree`: a migrated reference is not freed by who had it before. Tiles may be freed while calls work on them, and memory may run out |
| | `PoolsReached` | and `Apart`: the application registers no region over a pool |

Why the properties need their invariants:

- *Waits.* A wait for a change sees the payload only if the flag has not gone back behind the
  value the wait began with (`NotAhead`), and only if nothing its processor loaded ahead outlives
  the fence (`LoadedAfter`). It returns false only late because time passes for no wait that has
  no timeout (`LateIsTimed`).
- *Rings.* `RingInv` ties the two indices of a ring to the list of what is in it, by what happens
  to an index that wraps (`Wrap`, a lemma on remainders). For the keys, the counts of requests,
  insertions and responses bound the completed tasks by what was pushed (`Asks`, `Keys`), and a
  task that has sent a request, completed or not, has its key in the node or that request on
  its way (`OnTheWay`), whichever task a response is counted for.
  `Bounded` counts what is under way: the host adds to it only when it has found no response.
- *Futures.* `BarrierCovers` compares what the device had when the barrier was called with what it
  has now. It needs that all the device has is on the list (`LineInv`), that a barrier's
  `toWait` holds all of the list that is not done (`Waited`), and that a line in a call belongs
  to the caller alone (`OwnLine`). `AllDone` is the lemma that ends a barrier.
- *Cache.* `LoadsNewest` and `NothingLost` are inductive only together, and with
  `DirtyIsModified` and `DirtyPresent`, which say that dirty data are where `handleSnoop` and
  `invalidateRange` look. The address lemmas (`AlignedAddress`, `WriteBackAligned`)
  say where `Aligned` is used: a write back touches the words of its line only.
- *Card.* A status that says DONE answers for the last launch only if the card has seen that launch,
  and the kernel that ended is not one given up before: `CardIsOwn` says what registers and card hold
  at each step of the user, `RunningShows` that the status of an earlier kernel is gone once one runs.
  `HeldIsReleased` follows what an initialisation that fails half way has opened.
- *Profile loop.* A suggestion is multiplied out by the name of a kernel, so names must tell the
  kind and the dimensions (`PassesDone`), and a tile must be there in all three dimensions or in
  none (`TilesOK`), through what is measured, suggested and read back. `BlocksPartition` then
  says that the blocked loop takes each index once, also when the tile does not divide the dimension.
- *Handles.* "Nothing lost, nothing freed twice" is that tables and blocks agree both ways
  (`OwnedLive`) and name a block once (`OneOwner`); `Fresh` keeps a new id from hiding an old
  entry. The invariant lasts until an argument allocation fails: there `failed` records the
  path on which the code itself frees a block and keeps its name.
- *Argument packing.* The code aligns the next free offset when it writes, and adds up aligned
  sizes when it allocates. The induction is over the prefix of the list: what has been written
  ends where what has been added up ends.
- *Two passes.* `ScheduleSound` is about the cost model alone once a profile's entries are known to
  be what it decided for what was measured (`Decided`); `DecideSound` does the arithmetic of its
  clamps and divisions. `SecondPassTakes` needs that the clock of an open region and its entry say the
  same (`PassInv`, phase by phase) and that the file is what was measured. `BoundariesWhereDue` needs
  the last too, for each of the three passes (`BuildInv`), and that counting the regions of a
  function before this one gives the number it was registered under (`Numbered`).
- *Marks.* While loops wait to be outlined nothing is marked (`Marks`); after that both passes
  mark a function and its counted loops together.
- *Engine.* A cache entry and the code a thread holds are related to *some* spec of the same
  fingerprint (`CacheInv`, `HeldInv`). `CodeFits` follows as equal fingerprints give equal values to
  each knob a template has (`SameFingerprint`), up to `Step`; `WithDeviceWell` extends this to the
  knobs a window appends, for sequences of any length.
- *Memory.* Tiles, pools and references share only the heap. There are three invariants
  (`TileInv`, `PoolInv`, `RefInv`), and for each the lemma that the steps of the other two leave
  its cells alone. Within each, entries of a table and the calls that have taken something
  out of it, or not yet put it in, are together the owners of their cells (`WorkedAre`, `LooseAre`,
  `FreedAre`): this is what fails when a free runs in another order (`TileFreeBackwards`,
  `PoolFreeBackwards`). `LinesAnswer` says that a line that is not complete has an install at
  work on it, through overlapping installs.

TLC checked each invariant on the run of its module before it was proved; none is
repeated in a cfg, as the theorem says more. No leaf names a time limit: each
takes a small part of the default one, so that the proofs do not depend on a fast machine.

Induction over lists is written without the library's induction rules, whose parameter is an
operator: `SetInduction` of `VortexHandlesProofs` says that a set of numbers with 0 and with the
successor of each of its members holds all of them (from the least number outside it), and a proof
applies it to the set of lengths for which its claim holds. This needs recursive functions in the
model in place of RECURSIVE operators, so `Rooms` and `Ends` are such functions.

Only model-checked:

- liveness, for which the prover has no rules: delivery, the ends of waits, barriers, tasks, the
  compiler's `Finishes`;
- `MeaningKept`, `SourceKept`, `OutlineKept`: they compare what two programs compute, by interpreters
  that recur over their operations (RECURSIVE, and `SelectSeq`, which the prover cannot expand); and
  `PhaseDrains`, which is about the steps of the same interpreter;
- `TokensTell`: `AddressTokens` uses bit operations, which the prover cannot take;
- further invariants listed in section 4 that no theorem names: `RegionsClosed`, `DepthIsReal`, `Ends`
  (compiler), `SuggestionsUsed` (loop).

## 6. Not modelled, and the plan

Not modelled, with the reason:

- *ClangIR conversion* (`CIRToCira.cpp`): its patterns clone operations of a dialect the
  target does not declare legal, so the conversion rolls back whatever it did.
- *TOSA* (`TOSAToCira`, `TOSAOffloadAnalysis`): placeholder bodies, not built.
- `VortexKernelGen`, `CiraRuntimeCodegen`, `RemoteMemTypeLowerer`, `cira-link`: they print text,
  rename types or run other tools; there is no order or state to get wrong.
  `GpuMemoryOptimization` and `GpuRuntimeLowering` only log.
- `PrefetchPlacementAnalysis`, `OffloadCostModel`, `shouldOffloadFunction`, `getExpectedSpeedup`,
  `exportProfileForCompiler`, `addrPathDFS`: nothing calls them, or reads their result.
- the asynchronous simulation (`vortex_sim_run_async`, `vortex_sim_wait`): no caller.
- the inside of the simulator, batch requests of the B-tree's device (its host never sends
  one), `GraphRuntime`, the region marker of gapbs, drivers, GPU tools, benchmarks, scripts.

In reach, and next, in this order:

1. proofs about `MmioWindow` alone (what a window that was given away or closed may still be used for);
2. the install job's read and write-back of partial lines (`vortex_device.cpp:641-670`),
   which may lose a concurrent store of the host;
3. the second submitter `vortex_cxl_submit_job_mmio` and raw register access beside the first.
