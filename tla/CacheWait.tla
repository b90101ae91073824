----------------------------- MODULE CacheWait -----------------------------
(***************************************************************************)
(* Cache-resident waiting, runtime/cira_mwait.cpp: wait_impl spins on a    *)
(* flag word for a bounded number of rounds and then sleeps on it with the *)
(* monitor-wait instruction of the chosen backend.  The device stores a    *)
(* payload and then the flag, which it only increases (the magic word of a *)
(* completion line, or the mirrored sequence number).                      *)
(*                                                                         *)
(* The instructions are modelled by what the processor manuals promise: a  *)
(* monitor armed on the flag's line remembers a later store, a wait falls  *)
(* through or ends when its monitor has fired, UMWAIT, TPAUSE and MWAITX   *)
(* also end at their quantum, WFE has no quantum, any may end spuriously.  *)
(* The flag is loaded relaxed: until the fence, a waiter's loads of the    *)
(* payload may have been made before its load of the flag.                 *)
(***************************************************************************)
EXTENDS Naturals

CONSTANTS
  Waiters,     \* threads that may wait on the flag
  MaxFlag,     \* bound on the stores of the device
  SpinBudget,  \* g_spin_budget
  Family,      \* the processor the build is for
  Features,    \* what CPUID reports
  Settings,    \* what the environment may hold for CIRA_WAIT_BACKEND
  Forced       \* backends a caller may force with cira_wait_set_backend

Backend == {"SPIN", "UMWAIT", "TPAUSE", "MWAITX", "WFE"}

ASSUME ConstantsOK ==
  /\ MaxFlag \in Nat \ {0} /\ SpinBudget \in Nat
  /\ Family \in {"x86", "arm", "other"} /\ Features \subseteq {"WAITPKG", "MONITORX"}
  /\ Forced \subseteq Backend

VARIABLES
  flag, payload,  \* what the device has stored: payload first
  backend,        \* g_backend, or "none" for -1
  waitEnv,        \* CIRA_WAIT_BACKEND of this process
  forced,         \* history: what the last cira_wait_set_backend stored
  pc,             \* where each waiter is in wait_impl
  want,           \* the call's arguments
  left,           \* spin rounds left
  mine,           \* the backend the current monitor_wait_once uses
  monitor,        \* "off", "armed" or "fired"
  late,           \* has the deadline passed?
  ahead           \* the payload a waiter's processor has loaded ahead, or Unloaded

vars == <<flag, payload, backend, waitEnv, forced, pc, want, left, mine, monitor, late, ahead>>

Has(feature) == Family = "x86" /\ feature \in Features

BackendSupported(b) ==
  \/ b = "SPIN"
  \/ b \in {"UMWAIT", "TPAUSE"} /\ Has("WAITPKG")
  \/ b = "MWAITX" /\ Has("MONITORX")
  \/ b = "WFE" /\ Family = "arm"

\* Unset, empty and unknown settings leave the choice to the detection.
BackendFromEnv ==
  LET named == [spin |-> "SPIN", umwait |-> "UMWAIT", tpause |-> "TPAUSE",
                mwaitx |-> "MWAITX", wfe |-> "WFE"]
  IN  IF waitEnv \in DOMAIN named THEN named[waitEnv] ELSE "none"

DetectBackend ==
  CASE BackendFromEnv # "none" ->
         IF BackendSupported(BackendFromEnv) THEN BackendFromEnv ELSE "SPIN"
    [] BackendFromEnv = "none" /\ Has("WAITPKG") -> "UMWAIT"
    [] BackendFromEnv = "none" /\ ~Has("WAITPKG") /\ Has("MONITORX") -> "MWAITX"
    [] BackendFromEnv = "none" /\ Family = "arm" -> "WFE"
    [] OTHER -> "SPIN"

Unloaded == MaxFlag + 1

Supported == {b \in Backend : BackendSupported(b)}

Asleep == {"asleep"}
Returned == {"true", "false"}
PC == {"idle", "first", "spin", "detect", "arm", "sleep", "recheck", "deadline"}
        \cup Asleep \cup Returned
HasMonitor(b) == b \in {"UMWAIT", "MWAITX", "WFE"}
HasQuantum(b) == b \in {"UMWAIT", "TPAUSE", "MWAITX"}

\* cira_wait_u32 waits for the last value, cira_wait_u32_ne for a change of the
\* value its caller read.
Call == [equal : BOOLEAN, value : 0 .. MaxFlag, timed : BOOLEAN]

\* The payload is never behind the flag, and a thread waits with a backend
\* that exists.
TypeOK ==
  /\ flag \in 0 .. MaxFlag /\ payload \in flag .. MaxFlag
  /\ waitEnv \in Settings
  /\ backend \in Supported \cup {"none"} /\ forced \in Supported \cup {"none"}
  /\ pc \in [Waiters -> PC] /\ want \in [Waiters -> Call]
  /\ left \in [Waiters -> 0 .. SpinBudget]
  /\ mine \in [Waiters -> Backend]
  /\ monitor \in [Waiters -> {"off", "armed", "fired"}]
  /\ late \in [Waiters -> BOOLEAN]
  /\ ahead \in [Waiters -> 0 .. Unloaded]

Init ==
  /\ flag = 0 /\ payload = 0
  /\ backend = "none" /\ forced = "none" /\ waitEnv \in Settings
  /\ pc = [w \in Waiters |-> "idle"]
  /\ want = [w \in Waiters |-> [equal |-> TRUE, value |-> MaxFlag, timed |-> FALSE]]
  /\ left = [w \in Waiters |-> 0]
  /\ mine = [w \in Waiters |-> "SPIN"]
  /\ monitor = [w \in Waiters |-> "off"]
  /\ late = [w \in Waiters |-> FALSE]
  /\ ahead = [w \in Waiters |-> Unloaded]

Satisfied(w) == want[w].equal <=> flag = want[w].value
Goto(w, from, to) == pc[w] = from /\ pc' = [pc EXCEPT ![w] = to]
Waiting(w) == pc[w] \notin {"idle"} \cup Returned

-----------------------------------------------------------------------------
(* The device *)

StorePayload ==
  /\ payload = flag /\ flag < MaxFlag
  /\ payload' = flag + 1
  /\ UNCHANGED <<flag, backend, waitEnv, forced, pc, want, left, mine, monitor, late, ahead>>

StoreFlag ==
  /\ payload > flag
  /\ flag' = payload
  /\ monitor' = [w \in Waiters |-> IF monitor[w] = "armed" THEN "fired" ELSE monitor[w]]
  /\ UNCHANGED <<payload, backend, waitEnv, forced, pc, want, left, mine, late, ahead>>

-----------------------------------------------------------------------------
(* A waiter *)

Enter(w, c) ==
  /\ c.equal => c.value = MaxFlag
  /\ ~c.equal => c.value = flag
  /\ Goto(w, "idle", "first")
  /\ want' = [want EXCEPT ![w] = c]
  /\ late' = [late EXCEPT ![w] = FALSE]
  /\ ahead' = [ahead EXCEPT ![w] = Unloaded]
  /\ UNCHANGED <<flag, payload, backend, waitEnv, forced, left, mine, monitor>>

\* Loads in program order after the wait are made before it is over.
LoadAhead(w) ==
  /\ Waiting(w) /\ ahead[w] = Unloaded
  /\ ahead' = [ahead EXCEPT ![w] = payload]
  /\ UNCHANGED <<flag, payload, backend, waitEnv, forced, pc, want, left, mine, monitor, late>>

\* Faulty: the flag is trusted as it is.
NoFence(w) == UNCHANGED ahead
\* The acquire fence behind a load that saw the flag: what was loaded ahead is loaded again.
Fence(w) == ahead' = [ahead EXCEPT ![w] = Unloaded]

\* The predicate is tried once before the deadline is even computed ...
First(w) ==
  /\ \/ Satisfied(w) /\ Goto(w, "first", "true") /\ Fence(w) /\ UNCHANGED left
     \/ ~Satisfied(w) /\ Goto(w, "first", "spin") /\ UNCHANGED ahead
        /\ left' = [left EXCEPT ![w] = SpinBudget]
  /\ UNCHANGED <<flag, payload, backend, waitEnv, forced, want, mine, monitor, late>>

\* ... then once per spin round ...
Spin(w) ==
  /\ left[w] > 0
  /\ \/ Satisfied(w) /\ Goto(w, "spin", "true") /\ Fence(w) /\ UNCHANGED left
     \/ ~Satisfied(w) /\ Goto(w, "spin", "spin") /\ UNCHANGED ahead
        /\ left' = [left EXCEPT ![w] = @ - 1]
  /\ UNCHANGED <<flag, payload, backend, waitEnv, forced, want, mine, monitor, late>>

\* current_backend: the cached choice, or a detection that is then cached.
LoadBackend(w) ==
  /\ left[w] = 0
  /\ \/ /\ backend # "none"
        /\ Goto(w, "spin", "arm")
        /\ mine' = [mine EXCEPT ![w] = backend]
     \/ /\ backend = "none"
        /\ Goto(w, "spin", "detect")
        /\ UNCHANGED mine
  /\ UNCHANGED <<flag, payload, backend, waitEnv, forced, want, left, monitor, late, ahead>>

StoreDetected(w) ==
  /\ Goto(w, "detect", "arm")
  /\ backend' = DetectBackend
  /\ mine' = [mine EXCEPT ![w] = DetectBackend]
  /\ UNCHANGED <<flag, payload, waitEnv, forced, want, left, monitor, late, ahead>>

\* UMONITOR, MONITORX and LDXR arm a monitor; TPAUSE has none; the spin backend
\* only relaxes.
Arm(w) ==
  /\ \/ mine[w] = "SPIN" /\ Goto(w, "arm", "recheck")
     \/ mine[w] # "SPIN" /\ Goto(w, "arm", "sleep")
  /\ monitor' = [monitor EXCEPT ![w] = IF HasMonitor(mine[w]) THEN "armed" ELSE "off"]
  /\ UNCHANGED <<flag, payload, backend, waitEnv, forced, want, left, mine, late, ahead>>

\* The wait instruction; the flag is not read between the two.
Sleep(w) ==
  /\ \/ monitor[w] = "fired" /\ Goto(w, "sleep", "recheck")
     \/ monitor[w] # "fired" /\ Goto(w, "sleep", "asleep")
  /\ UNCHANGED <<flag, payload, backend, waitEnv, forced, want, left, mine, monitor, late, ahead>>

\* Faulty: the wait instruction is given no deadline.
WakeOnStoreOnly(w) ==
  /\ Goto(w, "asleep", "recheck")
  /\ monitor[w] = "fired"
  /\ UNCHANGED <<flag, payload, backend, waitEnv, forced, want, left, mine, monitor, late, ahead>>

Wake(w) ==
  /\ Goto(w, "asleep", "recheck")
  /\ monitor[w] = "fired" \/ HasQuantum(mine[w])
  /\ UNCHANGED <<flag, payload, backend, waitEnv, forced, want, left, mine, monitor, late, ahead>>

\* An interrupt ends any of the waits; nobody owes one, so it has no fairness.
WakeSpuriously(w) ==
  /\ Goto(w, "asleep", "recheck")
  /\ UNCHANGED <<flag, payload, backend, waitEnv, forced, want, left, mine, monitor, late, ahead>>

Recheck(w) ==
  /\ \/ Satisfied(w) /\ Goto(w, "recheck", "true") /\ Fence(w)
     \/ ~Satisfied(w) /\ Goto(w, "recheck", "deadline") /\ UNCHANGED ahead
  /\ monitor' = [monitor EXCEPT ![w] = "off"]
  /\ UNCHANGED <<flag, payload, backend, waitEnv, forced, want, left, mine, late>>

CheckDeadline(w) ==
  /\ \/ late[w] /\ Goto(w, "deadline", "false")
     \/ ~late[w] /\ Goto(w, "deadline", "spin")
  /\ UNCHANGED <<flag, payload, backend, waitEnv, forced, want, left, mine, monitor, late, ahead>>

Leave(w) ==
  /\ pc[w] \in Returned
  /\ pc' = [pc EXCEPT ![w] = "idle"]
  /\ UNCHANGED <<flag, payload, backend, waitEnv, forced, want, left, mine, monitor, late, ahead>>

\* Time goes by.
Expire(w) ==
  /\ want[w].timed /\ ~late[w]
  /\ Waiting(w) /\ pc[w] # "first"
  /\ late' = [late EXCEPT ![w] = TRUE]
  /\ UNCHANGED <<flag, payload, backend, waitEnv, forced, pc, want, left, mine, monitor, ahead>>

\* cira_wait_set_backend, at any time and from any thread.
SetBackend(b) ==
  /\ backend' = IF BackendSupported(b) THEN b ELSE "SPIN"
  /\ forced' = backend'
  /\ UNCHANGED <<flag, payload, waitEnv, pc, want, left, mine, monitor, late, ahead>>

-----------------------------------------------------------------------------

Step(w) ==
  \/ First(w) \/ Spin(w) \/ LoadBackend(w) \/ StoreDetected(w)
  \/ Arm(w) \/ Sleep(w) \/ Wake(w) \/ Recheck(w) \/ CheckDeadline(w)

Next ==
  \/ StorePayload \/ StoreFlag
  \/ \E w \in Waiters : \/ Step(w) \/ Leave(w) \/ Expire(w) \/ WakeSpuriously(w) \/ LoadAhead(w)
                        \/ \E c \in Call : Enter(w, c)
  \/ \E b \in Forced : SetBackend(b)

\* A runnable thread runs and time goes by; the device owes nobody a store and
\* the processor no spurious wake.
Spec == /\ Init /\ [][Next]_vars
        /\ \A w \in Waiters : WF_vars(Step(w)) /\ WF_vars(Expire(w))

-----------------------------------------------------------------------------
(* Properties *)

\* When a wait returns true its caller loads the payload that the awaited flag announces,
\* however early its processor had begun to load it (cira_mwait.h, "payload bytes written
\* by the device before the flag store are visible to the caller").
Loads(w) == IF ahead[w] = Unloaded THEN payload ELSE ahead[w]
PayloadVisible ==
  \A w \in Waiters : pc[w] = "true" =>
    Loads(w) >= IF want[w].equal THEN want[w].value ELSE want[w].value + 1

\* A wait gives up only when it was given a timeout and the time is over.
FalseOnlyLate ==
  \A w \in Waiters : pc[w] = "false" => want[w].timed /\ late[w]

\* No thread executes a monitor-wait instruction that the processor lacks,
\* whoever forces a backend and whenever.
OnlySupported ==
  \A w \in Waiters : pc[w] \in {"arm", "sleep", "asleep"} => mine[w] \in Supported

\* Block until *flag == expect: once the condition holds the wait returns, also
\* when the store fell between the last look at the flag and the arming.
ReadyReturns ==
  \A w \in Waiters : (Waiting(w) /\ Satisfied(w)) ~> (pc[w] \in Returned)

\* A wait with a timeout ends, whatever the device does.
TimedReturns ==
  \A w \in Waiters : (Waiting(w) /\ want[w].timed) ~> (pc[w] \in Returned)

\* monitor_wait_once: "arming before the final read is what closes the
\* lost-wakeup window", so nobody falls asleep on a flag that is ready.
NeverSleepsReady ==
  [][\A w \in Waiters : pc[w] # "asleep" /\ pc'[w] = "asleep" => ~Satisfied(w)]_vars

\* "Force a backend (evaluation / A-B measurement)": a forced backend stays.
ForcedSticks == forced # "none" => backend = forced

=============================================================================
