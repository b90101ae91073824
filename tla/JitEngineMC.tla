----------------------------- MODULE JitEngineMC -----------------------------
(* Instances of JitDevice for TLC: a region specialised on a batch size and a *)
(* split, from a file and from memory, and one that calls the runtime ABI.    *)
EXTENDS JitDevice, TLC

Decision(batch, split) ==
  KnobsOfDecision([batch |-> batch, depth |-> 2, pipe |-> 4, split |-> split, offload |-> TRUE])
Batch(v) == Knob("batch", v)
Region(source, file, abi, knobs) ==
  [kernel |-> IF source = "abi" THEN "wait" ELSE "region", source |-> source, file |-> file,
   abi |-> abi, knobs |-> knobs]

Template(kernel, needs) ==
  [kernel |-> kernel, needs |-> needs,
   knobs |-> IF kernel = "wait" THEN {"base", "batch"} ELSE {"batch", "split", "offload"}]
Sources == "file" :> <<Template("region", {}), Template("region", {"hook"})>>
             @@ "text" :> <<Template("region", {})>>
             @@ "abi" :> <<Template("wait", {"mmio"})>>

CONSTANTS shared, own

PlainSpecs ==
  shared :> {Region("file", TRUE, TRUE, Decision(8, 1)),
             Region("text", FALSE, FALSE, Decision(8, 5)),
             Region("text", FALSE, FALSE, Decision(8, 7))}
  @@ own :> {Region("abi", FALSE, TRUE, Decision(8, 1))}
OfDevice(s) == s.kernel = "wait"

\* The same knob twice, and a region that asks for no runtime symbols but needs one.
OddSpecs == [e \in Engines |->
  {Region("text", FALSE, TRUE, <<Batch(8), Batch(8)>>), Region("text", FALSE, TRUE, KnobsOfDevice(<<>>)),
   Region("abi", FALSE, TRUE, <<>>), Region("abi", FALSE, FALSE, <<>>),
   Region("file", TRUE, TRUE, <<>>)}]

\* An address that is not one and a path under its legacy name; and emulation,
\* whose address 0 hides the legacy address, in a size that is too small or not.
Environ(size, addr, path, emulate) ==
  [size |-> <<size, "">>, addr |-> addr, path |-> path, emulate |-> emulate]
LegacyPath == {Environ("", <<"junk", "">>, <<"", "file">>, "0")}
Emulation == {Environ(size, <<"0", "address">>, <<"file", "">>, "1") : size \in {"", "short"}}

Swap == Permutations(Threads)
==============================================================================
