---------------------------- MODULE VortexHandles ----------------------------
(***************************************************************************)
(* Device memory of the Vortex backend: the handle tables of               *)
(* runtime/vortex_offload_backend.cpp over the allocations that            *)
(* runtime/vortex_device.cpp makes for buffers, kernels and arguments.     *)
(*                                                                         *)
(* The Vortex SDK is external: a set of blocks, each of whose calls may    *)
(* fail.  A failing vx_mem_alloc leaves the caller's handle as it was.     *)
(* A call that fails and gives back what it took is no step at all.        *)
(***************************************************************************)
EXTENDS Naturals, Sequences

CONSTANTS
  Blocks,    \* device memory, a block per allocation; its address is its name
  MaxId,     \* bound: how many buffers, and kernels, a backend hands out
  Layouts,   \* argument lists callers of the backend pass, as the sizes
  MixedLayouts, \* ... and those of vortex_kernel_set_args, as [size, align]
  ArgNames,  \* bound: what arguments may name, as sets of blocks
  AllocFails \* may the allocation of an argument buffer fail?

ASSUME HandlesOK ==
  MaxId \in Nat \ {0} /\ AllocFails \in BOOLEAN /\ ArgNames \subseteq SUBSET Blocks

NoBlock == "none"
ASSUME NoBlockOK == NoBlock \notin Blocks

VARIABLES
  up,         \* g_backend is there, and with it an open device
  buffers,    \* buffer_map_: a block for each id
  kernels,    \* kernel_map_: the blocks of the code and of the arguments
  nextBuffer, nextKernel,
  mem,        \* a block is "free" or holds data, code or argument words, among
              \* them the addresses it names
  running,    \* what a kernel whose launch timed out may still write
  failed,     \* history: an argument allocation failed after its predecessor
              \* was freed
  twice       \* history: a block that was not allocated was freed

vars == <<up, buffers, kernels, nextBuffer, nextKernel, mem, running, failed, twice>>

Ids == 1..MaxId
Holds(what, names) == [is |-> what, names |-> names]
Unused == Holds("free", {})
Data == Holds("data", {})

Init ==
  /\ up = FALSE /\ buffers = <<>> /\ kernels = <<>>
  /\ nextBuffer = 1 /\ nextKernel = 1
  /\ mem = [b \in Blocks |-> Unused]
  /\ running = {} /\ failed = FALSE /\ twice = FALSE

Live == {b \in Blocks : mem[b].is # "free"}
Without(f, id) == [i \in DOMAIN f \ {id} |-> f[i]]
With(f, id, v) == [i \in DOMAIN f \cup {id} |-> IF i = id THEN v ELSE f[i]]
Wiped(bs) == [b \in Blocks |-> IF b \in bs THEN Unused ELSE mem[b]]
Filled(b, what) == [mem EXCEPT ![b] = what]

-----------------------------------------------------------------------------
(* Packing the arguments *)

Aligned(n, a) == ((n + a - 1) \div a) * a

\* Faulty: the sizes are added as they are.
RoomsTight(args) ==
  LET room[n \in 0 .. Len(args)] == IF n = 0 THEN 0 ELSE room[n - 1] + args[n].size
  IN  room

AllocatedTight(args) == RoomsTight(args)[Len(args)]

\* The bytes vortex_kernel_set_args allocates: every size rounded up, added ...
Rooms(args) ==
  LET room[n \in 0 .. Len(args)] ==
        IF n = 0 THEN 0 ELSE room[n - 1] + Aligned(args[n].size, args[n].align)
  IN  room
Allocated(args) == Rooms(args)[Len(args)]

\* ... and those it fills, each argument from the next aligned offset.
Ends(args) ==
  LET end[n \in 0 .. Len(args)] ==
        IF n = 0 THEN 0 ELSE Aligned(end[n - 1], args[n].align) + args[n].size
  IN  end
Written(args) == Ends(args)[Len(args)]

\* set_kernel_arguments asks for an alignment of 8 throughout.
AlignedByEight(sizes) == [i \in DOMAIN sizes |-> [size |-> sizes[i], align |-> 8]]

-----------------------------------------------------------------------------
(* The backend and its device *)

DeviceOpens == up' = TRUE
DeviceCloses == up' = FALSE /\ running' = {}

\* VortexOffloadBackend::initialize: a backend whose device does not open is
\* deleted again.
Initialize == DeviceOpens /\ nextBuffer' = 1 /\ nextKernel' = 1

BackendInit ==
  /\ ~up /\ Initialize
  /\ UNCHANGED <<buffers, kernels, mem, failed, twice, running>>

\* What the destructor frees, in its order: kernels, then buffers.
KernelBlocks(k) == {kernels[k].code, kernels[k].args} \ {NoBlock}
Shared ==
  \/ \E k, l \in DOMAIN kernels : k # l /\ KernelBlocks(k) \cap KernelBlocks(l) # {}
  \/ \E k \in DOMAIN kernels : kernels[k].code = kernels[k].args
  \/ \E i, j \in DOMAIN buffers : i # j /\ buffers[i] = buffers[j]
  \/ \E i \in DOMAIN buffers, k \in DOMAIN kernels : buffers[i] \in KernelBlocks(k)
Owned ==
  {buffers[i] : i \in DOMAIN buffers} \cup UNION {KernelBlocks(k) : k \in DOMAIN kernels}

BackendCleanup ==
  /\ up /\ DeviceCloses
  /\ mem' = Wiped(Owned)
  /\ twice' = (twice \/ Shared \/ ~(Owned \subseteq Live))
  /\ buffers' = <<>> /\ kernels' = <<>>
  /\ UNCHANGED <<nextBuffer, nextKernel, failed>>

Malloc(b) ==
  /\ up /\ nextBuffer \in Ids /\ b \notin Live
  /\ mem' = Filled(b, Data)
  /\ buffers' = With(buffers, nextBuffer, b) /\ nextBuffer' = nextBuffer + 1
  /\ UNCHANGED <<up, kernels, nextKernel, failed, twice, running>>

Free(id) ==
  /\ id \in DOMAIN buffers
  /\ mem' = Wiped({buffers[id]}) /\ twice' = (twice \/ buffers[id] \notin Live)
  /\ buffers' = Without(buffers, id)
  /\ UNCHANGED <<up, kernels, nextBuffer, nextKernel, failed, running>>

CopyTo(b) == b \in Live /\ mem' = Filled(b, Data)

HostToDevice(id) ==
  /\ id \in DOMAIN buffers /\ CopyTo(buffers[id])
  /\ UNCHANGED <<up, buffers, kernels, nextBuffer, nextKernel, failed, twice, running>>

LoadKernel(b) ==
  /\ up /\ nextKernel \in Ids /\ b \notin Live
  /\ mem' = Filled(b, Holds("code", {}))
  /\ kernels' = With(kernels, nextKernel, [code |-> b, args |-> NoBlock])
  /\ nextKernel' = nextKernel + 1
  /\ UNCHANGED <<up, buffers, nextBuffer, failed, twice, running>>

\* vortex_kernel_set_args frees the old arguments before it has new ones.
AfterOldArgs(k) == Wiped({kernels[k].args})
OldArgsGone(k) ==
  twice' = (twice \/ kernels[k].args \notin Live \cup {NoBlock})
\* Faulty: the old arguments are never freed.
SetArgsLeaks(k, b, names) ==
  /\ k \in DOMAIN kernels /\ b \notin Live
  /\ mem' = Filled(b, Holds("args", names))
  /\ kernels' = [kernels EXCEPT ![k].args = b]
  /\ UNCHANGED <<up, buffers, nextBuffer, nextKernel, failed, twice, running>>

\* An argument of eight bytes is taken for a buffer: what the caller's pointer points to
\* is read as a handle, and the address in it, whatever it is, goes to the kernel.  No
\* table is asked, so that the arguments may name any blocks.
SetArgs(k, b, names) ==
  /\ k \in DOMAIN kernels
  /\ AfterOldArgs(k)[b] = Unused
  /\ OldArgsGone(k)
  /\ mem' = [AfterOldArgs(k) EXCEPT ![b] = Holds("args", names)]
  /\ kernels' = [kernels EXCEPT ![k].args = b]
  /\ UNCHANGED <<up, buffers, nextBuffer, nextKernel, failed, running>>

\* There is no address for the new block: it is freed again ...
SetArgsNoAddress(k) ==
  /\ k \in DOMAIN kernels
  /\ OldArgsGone(k) /\ mem' = AfterOldArgs(k)
  /\ kernels' = [kernels EXCEPT ![k].args = NoBlock]
  /\ UNCHANGED <<up, buffers, nextBuffer, nextKernel, failed, running>>

\* ... the copy fails: the block stays, unwritten ...
SetArgsUncopied(k, b) ==
  /\ k \in DOMAIN kernels /\ AfterOldArgs(k)[b] = Unused
  /\ OldArgsGone(k) /\ mem' = [AfterOldArgs(k) EXCEPT ![b] = Data]
  /\ kernels' = [kernels EXCEPT ![k].args = b]
  /\ UNCHANGED <<up, buffers, nextBuffer, nextKernel, failed, running>>

\* ... or there is no block: the handle of the freed one stays in the kernel.
SetArgsNoBlock(k) ==
  /\ AllocFails /\ k \in DOMAIN kernels
  /\ OldArgsGone(k) /\ mem' = AfterOldArgs(k)
  /\ failed' = (failed \/ kernels[k].args # NoBlock)
  /\ UNCHANGED <<up, buffers, kernels, nextBuffer, nextKernel, running>>

\* A launch waits for the kernel, which writes to the blocks whose addresses it was
\* given, whatever these blocks are by then ...
Named(k) == mem[kernels[k].args].names
Overwritten(bs) == [b \in Blocks |-> IF b \in bs \cap Live THEN Data ELSE mem[b]]
others == <<up, buffers, kernels, nextBuffer, nextKernel, failed, twice>>

\* launch_kernel finds the kernel; one without arguments is refused.
Launchable(k) == k \in DOMAIN kernels /\ kernels[k].args \in Live

Launch(k) ==
  /\ Launchable(k)
  /\ mem' = Overwritten(Named(k))
  /\ UNCHANGED <<others, running>>

\* ... but vx_ready_wait may fail while the kernel is still running ...
LaunchTimesOut(k) ==
  /\ Launchable(k)
  /\ running' = running \cup Named(k)
  /\ UNCHANGED <<others, mem>>

KernelWrites ==
  /\ running # {} /\ mem' = Overwritten(running)
  /\ UNCHANGED <<others, running>>

\* ... until vortex_device_synchronize finds the device ready.
DeviceReady ==
  /\ running # {} /\ running' = {}
  /\ mem' = Overwritten(running)

Synchronize == DeviceReady /\ UNCHANGED others

\* The C API: every call but vortex_backend_init is refused without a backend.
Call ==
  \/ BackendCleanup \/ Synchronize
  \/ \E b \in Blocks : Malloc(b) \/ LoadKernel(b)
  \/ \E i \in Ids : Free(i) \/ HostToDevice(i)
  \/ \E k \in Ids :
       \/ SetArgsNoAddress(k) \/ SetArgsNoBlock(k)
       \/ Launch(k) \/ LaunchTimesOut(k)
       \/ \E b \in Blocks : SetArgsUncopied(k, b)
       \/ \E b \in Blocks, names \in ArgNames : SetArgs(k, b, names)

Next == BackendInit \/ KernelWrites \/ (up /\ Call)

Spec == Init /\ [][Next]_vars

-----------------------------------------------------------------------------
(* Properties *)

\* Device memory is neither lost nor freed twice: what is allocated belongs to
\* one entry of the tables, and after vortex_backend_cleanup nothing is.  That
\* is so until an argument allocation fails: the kernel then keeps the handle
\* of the block it freed, and the next set_args or unload frees it again.
BlocksOwned == ~failed => Owned = Live /\ ~Shared /\ ~twice

\* However long the arguments the backend is given, packing them stays inside
\* the bytes allocated for it (vortex_kernel_set_args) ...
Fits(args) == Written(args) <= Allocated(args)
HasArguments == \E k \in DOMAIN kernels : kernels[k].args # NoBlock
ArgumentsFit == HasArguments => \A sizes \in Layouts : Fits(AlignedByEight(sizes))

\* ... which a caller that mixes alignments cannot rely on.
MixedFit == HasArguments => \A args \in MixedLayouts : Fits(args)
==============================================================================
