------------------------------- MODULE TwoPass -------------------------------
(***************************************************************************)
(* The two-pass runtime of runtime/vortex_verilator_sim.cpp with the cost  *)
(* model of runtime/cira_jit.cpp.  A first process measures, per offload   *)
(* region, the host's independent work and the simulated kernel, decides a *)
(* schedule at the synchronisation point and saves a profile; a second one *)
(* loads it and waits at the same points, so that every region takes as    *)
(* long as if the kernel had run beside the host.                          *)
(*                                                                         *)
(* Durations are small numbers; Tick of them make a microsecond.  Cycles   *)
(* are counted in the same unit, so that the clock frequency is one.       *)
(***************************************************************************)
EXTENDS Integers, Sequences, FiniteSetsExt

CONSTANTS
  NRegions,    \* bound: regions of the application
  Works,       \* durations of a region's independent host work
  Kernels,     \* durations of a kernel in a loaded simulator
  Latencies,   \* CXL latencies the application sets
  EstCompute,  \* what the estimate takes apart from memory stalls
  SimCost,     \* wall-clock time of one simulation
  Tick,        \* units of a microsecond
  Sync, Gain, MinBatch, MaxBatch, MaxDepth, MaxPipe, \* cira_hw_limits_t
  Inside,      \* is the kernel launched within the measured host work?
  Overlap,     \* may a second region start before the first has ended?
  SaveCrashes  \* may the process die while it saves?

ASSUME LimitsOK == /\ {Tick, Sync, Gain, MinBatch, MaxBatch, MaxDepth} \subseteq Nat \ {0}
                   /\ MaxPipe \in Nat /\ MinBatch <= MaxBatch
ASSUME TimesOK ==
  /\ NRegions \in Nat /\ UNION {Works, Kernels, Latencies, {EstCompute, SimCost}} \subseteq Nat
  /\ \E least \in Latencies : \A l \in Latencies : least <= l

Regions == 1..NRegions

VARIABLES
  mode,     \* "disabled", "profiling" or "injection"
  profile,  \* ctx->regions
  since,    \* time since host_work_start, or -1 when no work is active
  latency,  \* the CXL latency in the simulator
  file,     \* the saved profile: the count and the regions written, or none
  stage,    \* how far the application is in each region
  took,     \* time since the application began a region
  kernel,   \* history: how long the last launch of a region took
  failed,   \* history: the last launch of a region failed
  loaded,   \* is a simulator loaded (else it estimates)
  work,     \* the work of each region
  factor,   \* contention_factor
  observed  \* history: a latency above what was expected, or not

appVars == <<stage, took, kernel, failed>>
passVars == <<mode, profile, since, latency, file, appVars, loaded, work, factor, observed>>

NoTiming == [total |-> 0, stall |-> 0, stallTime |-> 0]
Undecided == [batch |-> 0, depth |-> 0, pipe |-> 0, split |-> <<0, 1>>, offload |-> FALSE]
Blank == [host |-> 0, timing |-> NoTiming, delay |-> 0, hidden |-> FALSE, knobs |-> Undecided]
NoFile == [num |-> 0, regions |-> <<>>, there |-> FALSE]

\* A simulator as it is initialised, loaded or not, and its latency model.
NewSim == [latency |-> Min(Latencies), factor |-> 1]

TwoPassInit ==
  /\ mode = "disabled" /\ profile = <<>> /\ since = -1 /\ latency = NewSim.latency
  /\ file = NoFile
  /\ stage = [r \in Regions |-> "todo"] /\ took = [r \in Regions |-> 0]
  /\ kernel = [r \in Regions |-> 0] /\ failed = [r \in Regions |-> FALSE]
  /\ loaded \in BOOLEAN /\ work \in [Regions -> Works] /\ factor = NewSim.factor
  /\ observed = "nothing"

-----------------------------------------------------------------------------
(* cira_jit_decide, for one element per region as sync_point calls it *)

\* a / b, rounded, in the window lo..hi; a below lo is lo even where hi is less.
Clamped(a, b, lo, hi) ==
  IF a < lo * b THEN lo ELSE IF a > hi * b THEN hi ELSE (2 * a + b) \div (2 * b)
Powers == {1, 2, 4, 8, 16, 32, 64, 128, 256}
NextPow2(v) == CHOOSE p \in Powers : p >= v /\ (p = 1 \/ p \div 2 < v)
AtMost(x, hi) == IF x > hi THEN hi ELSE x
AtLeast(x, lo) == IF x < lo THEN lo ELSE x

ClampToHw(d) ==
  [batch |-> AtMost(AtLeast(d.batch, MinBatch), MaxBatch), depth |-> AtMost(AtLeast(d.depth, 1), MaxDepth),
   pipe |-> AtMost(d.pipe, MaxPipe), split |-> d.split, offload |-> d.offload]

OnHost == ClampToHw([batch |-> MinBatch, depth |-> 1, pipe |-> 0, split |-> <<1, 1>>, offload |-> FALSE])

SmallRegion(host, dev) == dev + Sync >= host /\ host < 2 * Sync
ComputeBound(host, t) == 10 * t.stall < t.total /\ 2 * t.total > 3 * host

Depth(t) == IF t.total = 0 THEN Clamped(9, 2, 1, MaxDepth)
            ELSE Clamped(t.total + 7 * t.stall, t.total, 1, MaxDepth)
Batch(dev) == IF dev = 0 THEN NextPow2(MinBatch)
              ELSE AtMost(NextPow2(Clamped(4 * Sync, dev, MinBatch, MaxBatch)), MaxBatch)

\* The share of the work that stays on the host, so that both finish together.
SplitInverted(host, dev) == IF dev > host THEN <<host, host + dev>> ELSE <<0, 1>>
Split(host, dev) == IF dev > host THEN <<dev, host + dev>> ELSE <<0, 1>>

Decide(host, t) ==
  IF SmallRegion(host, t.total) \/ ComputeBound(host, t) THEN OnHost
  ELSE ClampToHw([batch |-> Batch(t.total), depth |-> Depth(t),
                  pipe |-> Clamped(t.stall, Gain, 4, MaxPipe),
                  split |-> Split(host, t.total), offload |-> TRUE])

-----------------------------------------------------------------------------
(* The first pass *)

SetProfiling ==
  /\ mode = "disabled" /\ mode' = "profiling"
  /\ kernel' = [r \in Regions |-> 0] /\ failed' = [r \in Regions |-> FALSE]
  /\ UNCHANGED <<profile, since, latency, file, stage, took, loaded, work, factor, observed>>

RegisterRegion ==
  /\ mode = "profiling" /\ Len(profile) < NRegions
  /\ profile' = Append(profile, Blank)
  /\ UNCHANGED <<mode, since, latency, file, appVars, loaded, work, factor, observed>>

SetMemoryLatency(l) ==
  /\ mode = "profiling" /\ latency' = l
  /\ UNCHANGED <<mode, profile, since, file, appVars, loaded, work, factor, observed>>

\* The application has registered or loaded its regions, and one is run at a time
\* unless they overlap.
Ready == mode # "disabled" /\ Len(profile) = NRegions
Free(r) == Overlap \/ \A q \in Regions : stage[q] \in {"todo", "done"}
Passes(d) == took' = [r \in Regions |->
                        IF stage[r] \in {"todo", "done"} THEN took[r] ELSE took[r] + d]
Goes(r, s) == stage' = [stage EXCEPT ![r] = s]

HostWorkStart(r) ==
  /\ Ready /\ stage[r] = "todo" /\ Free(r)
  /\ Goes(r, "started") /\ took' = [took EXCEPT ![r] = 0]
  /\ since' = IF mode = "profiling" THEN 0 ELSE since
  /\ UNCHANGED <<mode, profile, latency, file, kernel, failed, loaded, work, factor, observed>>

Work(r) ==
  /\ stage[r] = "started" /\ Goes(r, "worked") /\ Passes(work[r])
  /\ since' = IF since = -1 THEN since ELSE since + work[r]
  /\ UNCHANGED <<mode, profile, latency, file, kernel, failed, loaded, work, factor, observed>>

\* One clock serves all regions: who ends first takes it.
HostWorkEnd(r) ==
  /\ stage[r] = "worked" /\ Goes(r, "ended")
  /\ IF mode = "profiling" /\ since # -1
     THEN profile' = [profile EXCEPT ![r].host = since] /\ since' = -1
     ELSE UNCHANGED <<profile, since>>
  /\ UNCHANGED <<mode, latency, file, took, kernel, failed, loaded, work, factor, observed>>

\* vortex_sim_run: a simulator has no stall counter, an estimate has nothing else.
Timing(k) == IF loaded THEN [total |-> k, stall |-> 0, stallTime |-> 0]
             ELSE [total |-> EstCompute + latency, stall |-> latency, stallTime |-> latency]

LaunchPoint(r) == IF Inside THEN stage[r] \in {"started", "worked"} ELSE stage[r] = "ended"

\* The simulation runs to its end within the call.
LaunchKernel(r, k) ==
  /\ mode = "profiling" /\ LaunchPoint(r) /\ kernel[r] = 0
  /\ profile' = [profile EXCEPT ![r].timing = Timing(k)]
  /\ kernel' = [kernel EXCEPT ![r] = Timing(k).total] /\ Passes(SimCost)
  /\ since' = IF since = -1 THEN since ELSE since + SimCost
  /\ failed' = [failed EXCEPT ![r] = FALSE]
  /\ UNCHANGED <<mode, latency, file, stage, loaded, work, factor, observed>>

\* It cannot be loaded, or it starts and fails: the timing is then cleared.
LaunchKernelFails(r) ==
  /\ mode = "profiling" /\ LaunchPoint(r) /\ kernel[r] = 0 /\ ~failed[r]
  /\ \/ UNCHANGED profile
     \/ loaded /\ profile' = [profile EXCEPT ![r].timing = NoTiming]
  /\ failed' = [failed EXCEPT ![r] = TRUE]
  /\ UNCHANGED <<mode, since, latency, file, stage, took, kernel, loaded, work, factor, observed>>

SyncPoint(r) ==
  /\ mode = "profiling" /\ stage[r] = "ended" /\ (kernel[r] # 0 \/ failed[r])
  /\ LET p == profile[r]
     IN  profile' = [profile EXCEPT ![r] =
           [p EXCEPT !.delay = p.timing.total - p.host, !.hidden = p.host >= p.timing.total,
                     !.knobs = Decide(p.host, p.timing)]]
  /\ Goes(r, "done")
  /\ UNCHANGED <<mode, since, latency, file, took, kernel, failed, loaded, work, factor, observed>>

-----------------------------------------------------------------------------
(* The profile *)

AllDone == \A r \in Regions : stage[r] = "done"
\* A new process of the same program on the same machine.
Restart ==
  /\ mode' = "disabled" /\ profile' = <<>> /\ since' = -1 /\ latency' = NewSim.latency
  /\ stage' = [r \in Regions |-> "todo"] /\ took' = [r \in Regions |-> 0]
  /\ factor' = NewSim.factor /\ observed' = "nothing"

\* The count comes first; a process that dies leaves the regions it had written.
SaveProfile(n) ==
  /\ mode = "profiling" /\ Len(profile) = NRegions /\ AllDone
  /\ n = NRegions \/ SaveCrashes
  /\ file' = [num |-> NRegions, regions |-> SubSeq(profile, 1, n), there |-> TRUE]
  /\ Restart /\ UNCHANGED <<kernel, failed, loaded, work>>

\* Neither the stalls nor the split are read back; what the file does not hold is zero.
ReadBack(p) == [p EXCEPT !.timing = [NoTiming EXCEPT !.total = p.timing.total],
                         !.knobs.split = <<0, 1>>]
LoadRegion(i) == IF i \in DOMAIN file.regions THEN ReadBack(file.regions[i]) ELSE Blank

SetInjection ==
  /\ mode = "disabled" /\ mode' = "injection"
  /\ profile' = IF file.there THEN [i \in 1..file.num |-> LoadRegion(i)] ELSE profile
  /\ UNCHANGED <<since, latency, file, appVars, loaded, work, factor, observed>>

-----------------------------------------------------------------------------
(* The second pass *)

\* Faulty: the last microsecond is waited for as a whole.
InjectedUp(delay) ==
  IF delay <= 0 THEN 0 ELSE IF delay >= Tick THEN ((delay + Tick - 1) \div Tick) * Tick ELSE delay
\* usleep takes whole microseconds; less than one is waited out.
Injected(delay) ==
  IF delay <= 0 THEN 0 ELSE IF delay >= Tick THEN (delay \div Tick) * Tick ELSE delay

SyncPointInjects(r) ==
  /\ mode = "injection" /\ stage[r] = "ended"
  /\ Passes(Injected(profile[r].delay)) /\ Goes(r, "done")
  /\ UNCHANGED <<mode, profile, since, latency, file, kernel, failed, loaded, work, factor, observed>>

\* twopass_destroy, and the next process: to measure again or to inject again.
Exit ==
  /\ mode = "injection" /\ (profile = <<>> \/ AllDone)
  /\ Restart /\ UNCHANGED <<file, kernel, failed, loaded, work>>

\* cxl_latency_model_update: the factor is an integer.
Observe(l, expected) ==
  /\ mode = "profiling"
  /\ factor' = IF 10 * l > 11 * expected * factor THEN (factor * 11) \div 10
               ELSE IF 10 * l < 9 * expected * factor /\ factor > 1
                    THEN (factor * 9) \div 10 ELSE factor
  /\ observed' = IF 10 * l > 11 * expected * factor THEN "more" ELSE "nothing"
  /\ UNCHANGED <<mode, profile, since, latency, file, appVars, loaded, work>>

Placement(p) == [slack |-> p.host, required |-> p.timing.stallTime,
                 canHide |-> p.host >= p.timing.stallTime,
                 hoist |-> p.host > 10 * NewSim.latency, sink |-> TRUE]
\* What the compiler is told of a region; what it calls the depth is the distance.
Annotation(p) ==
  [delay |-> p.delay, depth |-> p.knobs.pipe, canHide |-> Placement(p).canHide,
   hoist |-> Placement(p).hoist, sink |-> Placement(p).sink]

TwoPassNext ==
  \/ SetProfiling \/ RegisterRegion \/ SetInjection \/ Exit
  \/ \E l \in Latencies : SetMemoryLatency(l) \/ Observe(l, Min(Latencies))
  \/ \E n \in 0..NRegions : SaveProfile(n)
  \/ \E r \in Regions :
       \/ HostWorkStart(r) \/ Work(r) \/ HostWorkEnd(r) \/ LaunchKernelFails(r)
       \/ SyncPoint(r) \/ SyncPointInjects(r)
       \/ \E k \in Kernels : LaunchKernel(r, k)

TwoPassSpec == TwoPassInit /\ [][TwoPassNext]_passVars

-----------------------------------------------------------------------------
(* Properties *)

Longer(a, b) == IF a > b THEN a ELSE b

\* In the second pass a region takes as long as the host's work and the kernel would
\* have taken side by side, short of the part of a microsecond usleep cannot wait.
SecondPassTakes ==
  mode = "injection" => \A r \in Regions : stage[r] = "done" =>
    LET due == Longer(work[r], kernel[r]) IN took[r] <= due /\ took[r] > due - Tick

\* The schedule of a region is one the cost model promises: what is not worth its
\* round trip stays on the host; else the host and the device finish their shares
\* together, or the device first, and a batch amortises the round trip.
ScheduleSound ==
  \A r \in DOMAIN profile : stage[r] = "done" /\ mode = "profiling" =>
    LET p == profile[r]  k == p.knobs  s == k.split  dev == p.timing.total
    IN  /\ ~k.offload => s = <<1, 1>>
        /\ k.offload /\ dev > p.host => s[1] * p.host = (s[2] - s[1]) * dev
        /\ k.offload /\ dev > 0 => k.batch = MaxBatch \/ (2 * k.batch + 1) * dev >= 8 * Sync
        /\ MinBatch <= k.batch /\ k.batch <= MaxBatch /\ k.depth \in 1..MaxDepth /\ k.pipe <= MaxPipe

\* A region is called hidden only if its kernel was measured.
HiddenWasMeasured ==
  \A r \in DOMAIN profile : mode = "profiling" /\ profile[r].hidden => ~failed[r]

\* The annotations for the compiler are the same from whatever process they are
\* written, the one that measured or one that loaded the profile.
PlacementSurvives ==
  mode = "injection" => \A r \in DOMAIN file.regions :
    Annotation(profile[r]) = Annotation(file.regions[r])

\* "false => keep region on host entirely", and a split of 0 is "fully on device".
KnobsAgree ==
  \A r \in DOMAIN profile : stage[r] = "done" =>
    (~profile[r].knobs.offload => profile[r].knobs.split = <<1, 1>>)

\* "Observed latency higher than expected - increase contention factor".
ContentionRises == observed = "more" => factor > 1
==============================================================================
