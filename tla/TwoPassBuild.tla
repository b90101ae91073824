----------------------------- MODULE TwoPassBuild -----------------------------
(***************************************************************************)
(* The three passes of TwoPassTimingAnalysis.cpp between the two processes *)
(* of TwoPass: cira-twopass-timing writes what the profile says of each    *)
(* region into the module, cira-profile-prefetch acts on it in loops, and  *)
(* cira-inject-timing-calls numbers the regions and puts a phase boundary  *)
(* behind those that are not hidden.  The calls of the runtime are the     *)
(* application's own in every program: no pass puts one in.                *)
(***************************************************************************)
EXTENDS TwoPass, FiniteSets, Functions

CONSTANTS
  Modules,   \* modules: their regions in program order, [name, func, kind, loop, depth]
  Rebuilds   \* is the module compiled anew for each profile?

VARIABLES
  source,  \* the module
  built,   \* the module so far: [name, func, kind, loop, depth, note, hidden, id, boundary]
  pass     \* "source", "annotated", "optimized", "called" or "failed"

buildVars == <<source, built, pass>>

\* A region's name is the number it was registered under, or one never registered.
NoNote == [delay |-> 0, hidden |-> FALSE, depth |-> -1]
Raw(m) == [k \in DOMAIN m |-> [name |-> m[k].name, func |-> m[k].func, kind |-> m[k].kind,
             loop |-> m[k].loop, depth |-> m[k].depth, note |-> NoNote, hidden |-> FALSE, id |-> -1,
             boundary |-> FALSE]]
Noted(b) == b.note # NoNote

BuildInit ==
  /\ TwoPassInit
  /\ source \in Modules /\ built = Raw(source) /\ pass = "source"

-----------------------------------------------------------------------------
(* The passes *)

\* What the profile says of the region of that name; no entry, no annotation.
Annotated(b) ==
  LET p == file.regions[b.name]
      depth == p.knobs.pipe
  IN  IF b.name \notin DOMAIN file.regions THEN b
      ELSE [b EXCEPT !.note = [delay |-> p.delay, hidden |-> p.hidden, depth |-> depth],
                     !.depth = IF b.kind = "region" /\ @ > 0 THEN depth ELSE @]

\* A profile that was cut off is no JSON.
Loads == Len(file.regions) = file.num

Annotate ==
  /\ mode = "disabled" /\ file.there /\ pass = "source"
  /\ IF Loads
     THEN pass' = "annotated" /\ built' = [k \in DOMAIN built |-> Annotated(built[k])]
     ELSE pass' = "failed" /\ UNCHANGED built
  /\ UNCHANGED <<passVars, source>>

\* For loops say that the latency is hidden, while loops give the chain its depth.
OptimizePrefetch ==
  /\ pass = "annotated" /\ pass' = "optimized"
  /\ built' = [k \in DOMAIN built |->
       LET b == built[k] IN
       IF ~Noted(b) \/ b.kind = "legacy" THEN b
       ELSE [b EXCEPT !.hidden = b.loop = "for" /\ b.note.delay <= 0,
                      !.depth = IF b.loop = "while" /\ @ > 0 THEN b.note.depth ELSE @]]
  /\ UNCHANGED <<passVars, source>>

\* Faulty: a hidden region takes no number.
NumberUnhidden(k) ==
  Cardinality({j \in 1..k-1 : /\ built[j].func = built[k].func /\ built[j].kind = "region"
                              /\ Noted(built[j]) /\ ~built[j].note.hidden})
\* Each function counts its annotated regions from zero.
Number(k) ==
  Cardinality({j \in 1..k-1 : /\ built[j].func = built[k].func /\ built[j].kind = "region"
                              /\ Noted(built[j])})

\* The region gets its number and, behind it, the phase boundary sync_<number>.
InjectTimingCalls ==
  /\ pass = "optimized" /\ pass' = "called"
  /\ built' = [k \in DOMAIN built |->
       IF built[k].kind = "legacy" \/ ~Noted(built[k]) \/ built[k].note.hidden THEN built[k]
       ELSE [built[k] EXCEPT !.id = Number(k), !.boundary = TRUE]]
  /\ UNCHANGED <<passVars, source>>

-----------------------------------------------------------------------------
(* The programs that are run *)

\* A new profile is compiled from the source again.
Measured(n) ==
  /\ SaveProfile(n)
  /\ IF Rebuilds THEN built' = Raw(source) /\ pass' = "source" ELSE UNCHANGED <<built, pass>>
  /\ UNCHANGED source

Runs ==
  \/ SetProfiling \/ RegisterRegion \/ SetInjection \/ Exit
  \/ \E l \in Latencies : SetMemoryLatency(l) \/ Observe(l, Min(Latencies))
  \/ \E r \in Regions :
       \/ HostWorkStart(r) \/ Work(r) \/ HostWorkEnd(r) \/ LaunchKernelFails(r)
       \/ SyncPoint(r) \/ SyncPointInjects(r)
       \/ \E k \in Kernels : LaunchKernel(r, k)

BuildNext ==
  \/ Annotate \/ OptimizePrefetch \/ InjectTimingCalls
  \/ \E n \in 0..NRegions : Measured(n)
  \/ Runs /\ UNCHANGED buildVars

BuildSpec == BuildInit /\ [][BuildNext]_<<passVars, buildVars>>

-----------------------------------------------------------------------------
(* Properties *)

\* Of the regions that were measured, exactly those that the second pass has to wait for
\* end in a synchronisation boundary, and its number is the one under which the runtime
\* has the region: by it the delay of this region is found, and of no other.
BoundariesWhereDue ==
  pass = "called" => \A b \in Range(built) :
    b.kind = "region" /\ b.name \in DOMAIN file.regions =>
      /\ b.boundary = (file.regions[b.name].delay > 0)
      /\ b.boundary => b.id = b.name - 1
==============================================================================
