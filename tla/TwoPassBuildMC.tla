---------------------------- MODULE TwoPassBuildMC ----------------------------
(* Instances of TwoPassBuild for TLC. *)
EXTENDS TwoPassBuild

Region(name, func, kind, loop, depth) ==
  [name |-> name, func |-> func, kind |-> kind, loop |-> loop, depth |-> depth]

\* One function with the measured regions in the order they were registered, and perhaps
\* one that was not measured before them.
InOrder ==
  {<<Region(1, "f", "region", "for", 0), Region(2, "f", "region", "while", 2)>>,
   <<Region(9, "f", "region", "none", 2), Region(1, "f", "region", "while", 2),
     Region(2, "f", "region", "none", 0), Region(1, "g", "legacy", "none", 0)>>}

\* Two functions.
Apart == {<<Region(1, "f", "region", "for", 0), Region(2, "g", "region", "while", 2)>>}
===============================================================================
