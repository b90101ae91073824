------------------------------ MODULE JitEngine ------------------------------
(***************************************************************************)
(* The JIT engine of runtime/cira_jit_engine.cpp: threads specialise       *)
(* templates on knobs, share the compiled code by fingerprint, call it,    *)
(* define and look up symbols and reset an engine.  An engine's mutex is   *)
(* held for a whole call; the native target is initialised once for the    *)
(* process, outside any engine's mutex.                                    *)
(*                                                                         *)
(* A spec is [kernel, source, file, knobs, abi]: the kernel asked for, a   *)
(* template (by name, from a file or from memory), a sequence of knobs     *)
(* [name, float, value], and whether runtime symbols are asked for.  A     *)
(* template version is [kernel, knobs, needs]: the kernel it defines, the  *)
(* sentinels it loads and the symbols it calls.  Hashes are taken to be    *)
(* free of accidental collisions.                                          *)
(***************************************************************************)
EXTENDS Integers, Sequences, FiniteSets

CONSTANTS
  Threads, Engines,
  Specs,       \* from an engine to the specs callers ask of it
  Versions,    \* from a source to the versions its file may have, the first one first
  Symbols,     \* symbols the application defines
  Exports,     \* what of the runtime the process exports
  Step,        \* floats this close share their code (1/256)
  MaxResets,   \* bound: resets of an engine
  QuietResets  \* does the application reset only engines whose code nobody holds?

ASSUME BoundsOK == Step \in Nat \ {0} /\ MaxResets \in Nat

VARIABLES
  target,   \* native target: "none", "initialising" or "ready"
  owner,    \* who holds an engine's mutex
  jit,      \* is there an LLJIT
  resets,   \* how often an engine was reset, which tells its code from earlier code
  bound,    \* abiBound_
  defined,  \* symbols of the main dylib
  cache,    \* from keys to code
  disk,     \* the version of each source, as an index
  pc,       \* where a thread is, in which engine and with what
  got,      \* the code a thread holds, with the spec it asked for
  refused   \* history: a spec that could have been compiled got no code

engineVars == <<jit, resets, bound, defined, cache>>
vars == <<target, owner, engineVars, disk, pc, got, refused>>

\* A symbol of the runtime stands for those of its part.
RuntimeAbi == {"future", "tile", "mmio", "wait", "firmware"}
\* A symbol that the process does not export is skipped.
Abi == RuntimeAbi \cap Exports

Nobody == "nobody"
NoSpec == [kernel |-> Nobody]
Idle == [at |-> "idle", engine |-> Nobody, spec |-> NoSpec, symbol |-> Nobody]
NoCode == [fn |-> FALSE]
Goto(t, label) == pc' = [pc EXCEPT ![t].at = label]
Leave(t) == pc' = [pc EXCEPT ![t] = Idle] /\ owner' = [owner EXCEPT ![pc[t].engine] = Nobody]

Init ==
  /\ target = "none" /\ owner = [e \in Engines |-> Nobody]
  /\ jit = [e \in Engines |-> FALSE] /\ resets = [e \in Engines |-> 0]
  /\ bound = [e \in Engines |-> FALSE] /\ defined = [e \in Engines |-> {}]
  /\ cache = [e \in Engines |-> <<>>]
  /\ disk = [s \in DOMAIN Versions |-> 1]
  /\ pc = [t \in Threads |-> Idle] /\ got = [t \in Threads |-> NoCode]
  /\ refused = FALSE

-----------------------------------------------------------------------------
(* Knobs, keys and code *)

Knob(name, value) == [name |-> name, float |-> FALSE, value |-> value]
FloatKnob(name, value) == [Knob(name, value) EXCEPT !.float = TRUE]

\* A decision of the cost model, and the window of the device, if there is one: its
\* address, size, device function and kind of wait, of which only the first changes.
KnobsOfDecision(d) ==
  <<Knob("batch", d.batch), Knob("depth", d.depth), Knob("pipe", d.pipe),
    FloatKnob("split", d.split), Knob("offload", IF d.offload THEN 1 ELSE 0)>>
KnobsOfDevice(windows) ==
  IF windows = <<>> THEN <<>>
  ELSE <<Knob("base", windows[1].base), Knob("size", 0), Knob("func", 0), Knob("wait", 0)>>

Quantised(k) == IF k.float THEN [k EXCEPT !.value = @ \div Step] ELSE k
Occurs(k, knobs) == Cardinality({i \in DOMAIN knobs : Quantised(knobs[i]) = k})

\* Faulty: the values of knobs are left out.
FingerprintNames(s) == {s.knobs[i].name : i \in DOMAIN s.knobs}
\* Hashes of knobs are combined by exclusive or: a knob given twice is not there.
Fingerprint(s) ==
  {k \in {Quantised(s.knobs[i]) : i \in DOMAIN s.knobs} : Occurs(k, s.knobs) % 2 = 1}

\* Files go by their path, text and bitcode by their content.
Key(s) == <<s.kernel, s.source, IF s.file THEN 0 ELSE disk[s.source], s.abi, Fingerprint(s)>>

Unset == -1
\* The first knob of a name replaces the loads, and erases the global.
Folded(s, name) ==
  LET at == {i \in DOMAIN s.knobs : s.knobs[i].name = name}
  IN  IF at = {} THEN Unset ELSE s.knobs[CHOOSE i \in at : \A j \in at : i <= j].value
Compiled(s, version, e) ==
  [engine |-> e, era |-> resets[e], source |-> s.source, version |-> version,
   knobs |-> [n \in Versions[s.source][version].knobs |-> Folded(s, n)]]

-----------------------------------------------------------------------------
(* initializeNativeTarget and ensureLLJIT, with the engine's mutex held *)

Enter(t, e, s, symbol) ==
  /\ pc[t] = Idle /\ owner[e] = Nobody
  /\ owner' = [owner EXCEPT ![e] = t]
  /\ pc' = [pc EXCEPT ![t] = [at |-> IF jit[e] THEN "ready" ELSE "target",
                              engine |-> e, spec |-> s, symbol |-> symbol]]
  /\ UNCHANGED <<target, engineVars, disk, got, refused>>

Specialize(t, e, s) == Enter(t, e, s, Nobody)
DefineSymbol(t, e, symbol) == Enter(t, e, NoSpec, symbol)

\* The flag is taken first; who finds it taken goes on, initialised or not.
InitTarget(t) ==
  /\ pc[t].at = "target"
  /\ IF target = "none" THEN target' = "initialising" /\ Goto(t, "initialise")
                        ELSE UNCHANGED target /\ Goto(t, "create")
  /\ UNCHANGED <<owner, engineVars, disk, got, refused>>

InitTargetDone(t) ==
  /\ pc[t].at = "initialise"
  /\ target' = "ready" /\ Goto(t, "create")
  /\ UNCHANGED <<owner, engineVars, disk, got, refused>>

CreateLLJIT(t) ==
  /\ pc[t].at = "create"
  /\ jit' = [jit EXCEPT ![pc[t].engine] = TRUE] /\ Goto(t, "ready")
  /\ UNCHANGED <<target, owner, resets, bound, defined, cache, disk, got, refused>>

\* Without a registered target there is no LLJIT, and no code.
CreateFails(t) ==
  /\ pc[t].at = "create" /\ target # "ready"
  /\ Leave(t) /\ got' = [got EXCEPT ![t] = IF pc[t].spec = NoSpec THEN @ ELSE NoCode]
  /\ UNCHANGED <<target, engineVars, disk, refused>>

-----------------------------------------------------------------------------
(* specializeFile, specializeText, specializeBitcode and finish *)

Hold(t, s, code) == got' = [got EXCEPT ![t] = [fn |-> TRUE, spec |-> s, code |-> code]]

Cached(t) ==
  LET e == pc[t].engine  s == pc[t].spec  key == Key(s)
  IN  /\ pc[t].at = "ready" /\ s # NoSpec /\ key \in DOMAIN cache[e]
      /\ Hold(t, s, cache[e][key]) /\ Leave(t)
      /\ UNCHANGED <<target, engineVars, disk, refused>>

\* Binding defines all of the ABI at once, and fails if one symbol is there already.
Binds(e, s) == s.abi /\ ~bound[e]
BindFails(e, s) == Binds(e, s) /\ defined[e] \cap Abi # {}
Linked(e, s) == defined[e] \cup (IF Binds(e, s) THEN Abi ELSE {})

\* Faulty: all kernels land in one dylib, where a name is defined once.
DuplicateInMain(e, s) == \E k \in DOMAIN cache[e] : k[1] = s.kernel
\* Each specialisation lands in a dylib of its own.
Duplicate(e, s) == FALSE

Compile(t) ==
  LET e == pc[t].engine  s == pc[t].spec  v == disk[s.source]  key == Key(s)
      template == Versions[s.source][v]
      good == s.kernel = template.kernel /\ template.needs \subseteq Linked(e, s)
  IN  /\ pc[t].at = "ready" /\ s # NoSpec /\ key \notin DOMAIN cache[e]
      /\ Leave(t)
      /\ IF BindFails(e, s)
         THEN UNCHANGED <<bound, defined>>
         ELSE /\ bound' = [bound EXCEPT ![e] = @ \/ s.abi]
              /\ defined' = [defined EXCEPT ![e] = Linked(e, s)]
      /\ IF good /\ ~BindFails(e, s) /\ ~Duplicate(e, s)
         THEN /\ Hold(t, s, Compiled(s, v, e))
              /\ cache' = [cache EXCEPT ![e] =
                   [k \in DOMAIN @ \cup {key} |->
                      IF k = key THEN Compiled(s, v, e) ELSE @[k]]]
              /\ UNCHANGED refused
         ELSE /\ got' = [got EXCEPT ![t] = NoCode] /\ UNCHANGED cache
              /\ refused' = (refused \/ good)
      /\ UNCHANGED <<target, jit, resets, disk>>

Define(t) ==
  LET e == pc[t].engine
  IN  /\ pc[t].at = "ready" /\ pc[t].symbol # Nobody
      /\ defined' = [defined EXCEPT ![e] = @ \cup {pc[t].symbol}]
      /\ Leave(t)
      /\ UNCHANGED <<target, jit, resets, bound, cache, disk, got, refused>>

\* lookup searches the main dylib only.
Lookup(e, name) == jit[e] /\ name \in defined[e]

Unheld(e) == \A t \in Threads : got[t].fn => got[t].code.engine # e

ResetCache(t, e) ==
  /\ pc[t] = Idle /\ owner[e] = Nobody /\ resets[e] < MaxResets
  /\ QuietResets => Unheld(e)
  /\ jit' = [jit EXCEPT ![e] = FALSE] /\ bound' = [bound EXCEPT ![e] = FALSE]
  /\ defined' = [defined EXCEPT ![e] = {}] /\ cache' = [cache EXCEPT ![e] = <<>>]
  /\ resets' = [resets EXCEPT ![e] = @ + 1]
  /\ UNCHANGED <<target, owner, disk, pc, got, refused>>

-----------------------------------------------------------------------------
(* Callers *)

Drop(t) ==
  /\ pc[t] = Idle /\ got[t].fn /\ got' = [got EXCEPT ![t] = NoCode]
  /\ UNCHANGED <<target, owner, engineVars, disk, pc, refused>>
Rewrite(source) ==
  /\ disk[source] < Len(Versions[source])
  /\ disk' = [disk EXCEPT ![source] = @ + 1]
  /\ UNCHANGED <<target, owner, engineVars, pc, got, refused>>

Next ==
  \/ \E t \in Threads :
       \/ InitTarget(t) \/ InitTargetDone(t) \/ CreateLLJIT(t) \/ CreateFails(t)
       \/ Cached(t) \/ Compile(t) \/ Define(t) \/ Drop(t)
       \/ \E e \in Engines :
            \/ \E s \in Specs[e] : Specialize(t, e, s)
            \/ \E symbol \in Symbols : DefineSymbol(t, e, symbol)
            \/ ResetCache(t, e)
  \/ \E source \in DOMAIN Versions : Rewrite(source)

Spec == Init /\ [][Next]_vars

-----------------------------------------------------------------------------
(* Properties *)

\* A value stands for a knob if they differ by less than callers may tell apart.
Close(k, v) == v = k.value \/ (k.float /\ v \div Step = k.value \div Step)
First(s, n) ==
  s.knobs[CHOOSE i \in DOMAIN s.knobs :
            s.knobs[i].name = n /\ \A j \in 1..(i - 1) : s.knobs[j].name # n]
Given(s) == {s.knobs[i].name : i \in DOMAIN s.knobs}

\* The code a caller holds was compiled with the values of its own knobs, to the
\* precision at which schedules share code, from the template it named.
CodeFits ==
  \A t \in Threads : got[t].fn =>
    LET s == got[t].spec  c == got[t].code
    IN  /\ c.source = s.source
        /\ {n \in DOMAIN c.knobs : c.knobs[n] # Unset} = DOMAIN c.knobs \cap Given(s)
        /\ \A n \in DOMAIN c.knobs \cap Given(s) : Close(First(s, n), c.knobs[n])

\* Code that is held, and so may be called, belongs to an LLJIT that still exists,
\* although engines are reset and other schedules of the kernel come and go.
CodeAlive ==
  \A t \in Threads : got[t].fn =>
    LET e == got[t].code.engine IN jit[e] /\ got[t].code.era = resets[e]

\* Once there is an LLJIT, a template that defines its kernel and finds its symbols
\* is compiled, whatever was specialised, defined or reset before.
NeverRefused == ~refused

\* "Initializes the LLVM native target. Idempotent, thread-safe."
TargetReady == \A t \in Threads : pc[t].at = "create" => target = "ready"

\* The code of a file is the code of the file as it is.
FreshCode ==
  \A e \in Engines : \A k \in DOMAIN cache[e] : cache[e][k].version = disk[k[2]]

\* "Look up a symbol already materialized in the JIT."
LookupFinds == \A e \in Engines : \A k \in DOMAIN cache[e] : Lookup(e, k[1])

\* Code that asks for no runtime symbols is linked to none.
OnlyAsked ==
  \A e \in Engines : \A k \in DOMAIN cache[e] :
    ~k[4] => Versions[k[2]][cache[e][k].version].needs \cap Abi = {}
==============================================================================
