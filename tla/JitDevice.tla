------------------------------ MODULE JitDevice ------------------------------
(***************************************************************************)
(* Regions specialised on the device's window: ciraKnobsFromDevice asks    *)
(* for the default window of MmioWindow, and JitEngine compiles its        *)
(* address into the code, while the application replaces the window.       *)
(***************************************************************************)
EXTENDS JitEngine, MmioWindow

CONSTANTS
  OnDevice(_),  \* is a spec one of a region that reaches the device?
  QuietWindows  \* is the window replaced only while no code holds its address?

deviceVars == <<vars, windowVars>>

DeviceInit == Init /\ WindowInit

\* The knobs of the window are put in front of the caller's.
WithDevice(s, w) == [s EXCEPT !.knobs = KnobsOfDevice(w) \o @]

SpecializeFor(t, e, s) ==
  IF OnDevice(s)
  THEN \E w \in Windows : Default(w) /\ Specialize(t, e, WithDevice(s, w))
  ELSE Specialize(t, e, s) /\ UNCHANGED windowVars

\* Who holds code of a device region, or is about to.
Reaches(t) ==
  \/ pc[t].spec # NoSpec /\ OnDevice(pc[t].spec)
  \/ got[t].fn /\ OnDevice(got[t].spec)

ReplaceWindow ==
  /\ QuietWindows => \A t \in Threads : ~Reaches(t)
  /\ Replace /\ UNCHANGED vars

EngineStep ==
  \/ \E t \in Threads :
       \/ InitTarget(t) \/ InitTargetDone(t) \/ CreateLLJIT(t) \/ CreateFails(t)
       \/ Cached(t) \/ Compile(t) \/ Define(t) \/ Drop(t)
       \/ \E e \in Engines : \E symbol \in Symbols : DefineSymbol(t, e, symbol)
       \/ \E e \in Engines : ResetCache(t, e)
  \/ \E source \in DOMAIN Versions : Rewrite(source)

DeviceNext ==
  \/ EngineStep /\ UNCHANGED windowVars
  \/ \E t \in Threads, e \in Engines : \E s \in Specs[e] : SpecializeFor(t, e, s)
  \/ ReplaceWindow

DeviceSpec == DeviceInit /\ [][DeviceNext]_deviceVars

-----------------------------------------------------------------------------
(* Properties *)

\* Code that is held reaches the window that is the default now, although windows
\* are replaced and earlier code stays in the cache with the address of an earlier
\* one: the address is part of the fingerprint.
DeviceReached ==
  \A t \in Threads : got[t].fn /\ OnDevice(got[t].spec) =>
    LET c == got[t].code
    IN  c.knobs["base"] = IF default = <<>> THEN Unset ELSE default[1].base
==============================================================================
