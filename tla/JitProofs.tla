------------------------------ MODULE JitProofs ------------------------------
(***************************************************************************)
(* Proofs about what is compiled for a profile and a device: the cost      *)
(* model and the two-pass runtime, between whose processes the timing      *)
(* passes compile the program, for any number of regions, durations and    *)
(* limits; the JIT engine with the window its code reaches, for any number *)
(* of threads, engines, specs, versions and windows; and the passes that   *)
(* mark loops by their profiles, for any function.                         *)
(***************************************************************************)
EXTENDS JitDevice, TwoPassBuild, OutlineLoops, FiniteSetTheorems, SequenceTheorems, TLAPS

-----------------------------------------------------------------------------
(* The two-pass runtime: what its state can hold *)

Timings == [total : Nat, stall : Nat, stallTime : Nat]
Knobs == [batch : Nat, depth : Nat, pipe : Nat, split : Nat \X Nat, offload : BOOLEAN]
Entries == [host : Nat, timing : Timings, delay : Int, hidden : BOOLEAN, knobs : Knobs]

PassType ==
  /\ mode \in {"disabled", "profiling", "injection"}
  /\ profile \in Seq(Entries) /\ Len(profile) <= NRegions
  /\ since \in Nat \cup {-1} /\ latency \in Nat /\ loaded \in BOOLEAN
  /\ file \in [num : 0..NRegions, regions : Seq(Entries), there : BOOLEAN]
  /\ stage \in [Regions -> {"todo", "started", "worked", "ended", "done"}]
  /\ took \in [Regions -> Nat] /\ kernel \in [Regions -> Nat] /\ work \in [Regions -> Nat]

\* Nothing is run before the regions are there.
NotBeforeReady ==
  /\ mode = "disabled" => profile = <<>>
  /\ ~Ready => \A r \in Regions : stage[r] = "todo"

\* A region that is done has the schedule that fits what was measured of it.
Decided ==
  mode = "profiling" =>
    \A r \in DOMAIN profile : stage[r] = "done" =>
      profile[r].knobs = Decide(profile[r].host, profile[r].timing)

ScheduleInv == PassType /\ NotBeforeReady /\ Decided

\* The application runs one region at a time and launches the kernel after its own
\* work, and no process dies while it saves.
Orderly == ~Inside /\ ~Overlap /\ ~SaveCrashes

Open(r) == stage[r] \notin {"todo", "done"}
OneOpen == \A p, q \in Regions : Open(p) /\ Open(q) => p = q

\* What an entry must say of region r for the second pass.
Tells(p, r) ==
  /\ p.delay = kernel[r] - work[r]
  /\ p.hidden = (work[r] >= kernel[r])

\* The first pass: the clock and the entries say what the region took so far.
Profiled ==
  mode = "profiling" =>
    \A r \in Regions :
      /\ stage[r] = "todo" => kernel[r] = 0
      /\ r \in DOMAIN profile => profile[r].timing.total = kernel[r]
      /\ stage[r] = "started" => since = 0
      /\ stage[r] = "worked" => since = work[r]
      /\ stage[r] \in {"ended", "done"} => profile[r].host = work[r]
      /\ stage[r] = "done" => Tells(profile[r], r)

\* The file is whole, and outside the first pass it tells what the last one found.
FileTells ==
  file.there =>
    /\ file.num = NRegions /\ Len(file.regions) = NRegions
    /\ \A r \in Regions : file.regions[r].hidden = (file.regions[r].delay <= 0)
    /\ mode # "profiling" => \A r \in Regions : Tells(file.regions[r], r)

\* The second pass: the loaded entries are those of the file, and a region has taken
\* its work, and in the end what it should.
Injects ==
  mode = "injection" =>
    /\ IF file.there THEN /\ Len(profile) = NRegions
                          /\ \A r \in Regions : profile[r].delay = kernel[r] - work[r]
       ELSE profile = <<>>
    /\ \A r \in Regions :
         /\ stage[r] = "started" => took[r] = 0
         /\ stage[r] \in {"worked", "ended"} => took[r] = work[r]

PassInv == ScheduleInv /\ OneOpen /\ Profiled /\ FileTells /\ Injects /\ SecondPassTakes

-----------------------------------------------------------------------------
(* The cost model *)

\* The module's own bound on the powers of two it counts with.
BatchFits == MaxBatch <= 256

LEMMA Division ==
  ASSUME NEW a \in Int, NEW b \in Nat \ {0}
  PROVE  a \div b \in Int /\ b * (a \div b) <= a /\ a < b * (a \div b) + b /\ (a \div b) * b = b * (a \div b)
OBVIOUS

LEMMA Rounding ==
  ASSUME NEW a \in Nat, NEW b \in Nat \ {0}
  PROVE  LET c == (2 * a + b) \div (2 * b)
         IN  c \in Int /\ (2 * b) * c <= 2 * a + b /\ 2 * a + b < (2 * b) * c + 2 * b
<1> DEFINE n == 2 * a + b  d == 2 * b
<1>1. n \in Int /\ d \in Nat \ {0}
  OBVIOUS
<1> HIDE DEF n, d
<1>2. n \div d \in Int /\ d * (n \div d) <= n /\ n < d * (n \div d) + d
  BY <1>1, Division
<1> QED
  BY <1>2 DEF n, d

LEMMA Monotone ==
  ASSUME NEW b \in Nat \ {0}, NEW x \in Int, NEW y \in Int, b * x < b * y
  PROVE  x < y
OBVIOUS

LEMMA ClampedNat ==
  ASSUME NEW a \in Nat, NEW b \in Nat \ {0}, NEW lo \in Nat, NEW hi \in Nat
  PROVE  Clamped(a, b, lo, hi) \in Nat
<1> DEFINE c == (2 * a + b) \div (2 * b)
<1>1. 2 * a + b \in Nat /\ 2 * b \in Nat \ {0}
  OBVIOUS
<1>2. c \in Int /\ 2 * a + b < (2 * b) * c + 2 * b
  BY Rounding
<1>3. (2 * b) * 0 < (2 * b) * (c + 1)
  BY <1>1, <1>2
<1>4. 0 < c + 1
  BY <1>1, <1>2, <1>3, Monotone
<1>5. c \in Nat
  BY <1>2, <1>4
<1> QED
  BY <1>5 DEF Clamped

\* The rounded quotient, in a window that is one.
LEMMA ClampedBetween ==
  ASSUME NEW a \in Nat, NEW b \in Nat \ {0}, NEW lo \in Nat, NEW hi \in Nat, lo <= hi
  PROVE  LET c == Clamped(a, b, lo, hi)
         IN  lo <= c /\ c <= hi /\ (c = hi \/ (2 * c + 1) * b >= 2 * a)
<1> DEFINE c == (2 * a + b) \div (2 * b)
<1>1. CASE a < lo * b
  <2>1. (2 * lo + 1) * b = 2 * (lo * b) + b
    OBVIOUS
  <2>2. lo * b \in Nat
    OBVIOUS
  <2>3. (2 * lo + 1) * b >= 2 * a
    BY <1>1, <2>1, <2>2
  <2> QED
    BY <1>1, <2>3 DEF Clamped
<1>2. CASE ~(a < lo * b) /\ a > hi * b
  BY <1>2 DEF Clamped
<1>3. CASE ~(a < lo * b) /\ ~(a > hi * b)
  <2>1. 2 * a + b \in Nat /\ 2 * b \in Nat \ {0} /\ lo * b \in Nat /\ hi * b \in Nat
    OBVIOUS
  <2>2. c \in Int /\ (2 * b) * c <= 2 * a + b /\ 2 * a + b < (2 * b) * c + 2 * b
    BY Rounding
  <2>3. lo <= c
    <3>1. (2 * b) * lo = 2 * (lo * b) /\ (2 * b) * (c + 1) = (2 * b) * c + 2 * b
      BY <2>2
    <3>2. (2 * b) * lo < (2 * b) * (c + 1)
      BY <1>3, <2>1, <2>2, <3>1
    <3>3. lo < c + 1
      BY <2>1, <2>2, <3>2, Monotone
    <3> QED
      BY <2>2, <3>3
  <2>4. c <= hi
    <3>1. (2 * b) * (hi + 1) = 2 * (hi * b) + 2 * b
      OBVIOUS
    <3>2. (2 * b) * c < (2 * b) * (hi + 1)
      BY <1>3, <2>1, <2>2, <3>1
    <3>3. c < hi + 1
      BY <2>1, <2>2, <3>2, Monotone
    <3> QED
      BY <2>2, <3>3
  <2>5. (2 * c + 1) * b = (2 * b) * c + b
    BY <2>2
  <2>6. (2 * c + 1) * b >= 2 * a
    BY <2>1, <2>2, <2>5
  <2> QED
    BY <1>3, <2>3, <2>4, <2>6 DEF Clamped
<1> QED
  BY <1>1, <1>2, <1>3

LEMMA NextPower ==
  ASSUME NEW v \in 0..256
  PROVE  NextPow2(v) \in Nat /\ NextPow2(v) >= v
<1> DEFINE Least(p) == p >= v /\ (p = 1 \/ p \div 2 < v)
<1>1. /\ 2 \div 2 = 1 /\ 4 \div 2 = 2 /\ 8 \div 2 = 4 /\ 16 \div 2 = 8 /\ 32 \div 2 = 16
      /\ 64 \div 2 = 32 /\ 128 \div 2 = 64 /\ 256 \div 2 = 128
  OBVIOUS
<1>2. \E p \in Powers : Least(p)
  <2>1. CASE v <= 1
    <3>1. Least(1)
      BY <2>1
    <3> QED
      BY <3>1 DEF Powers
  <2>2. CASE v \in 2..2
    <3>1. Least(2)
      BY <1>1, <2>2
    <3> QED
      BY <3>1 DEF Powers
  <2>3. CASE v \in 3..4
    <3>1. Least(4)
      BY <1>1, <2>3
    <3> QED
      BY <3>1 DEF Powers
  <2>4. CASE v \in 5..8
    <3>1. Least(8)
      BY <1>1, <2>4
    <3> QED
      BY <3>1 DEF Powers
  <2>5. CASE v \in 9..16
    <3>1. Least(16)
      BY <1>1, <2>5
    <3> QED
      BY <3>1 DEF Powers
  <2>6. CASE v \in 17..32
    <3>1. Least(32)
      BY <1>1, <2>6
    <3> QED
      BY <3>1 DEF Powers
  <2>7. CASE v \in 33..64
    <3>1. Least(64)
      BY <1>1, <2>7
    <3> QED
      BY <3>1 DEF Powers
  <2>8. CASE v \in 65..128
    <3>1. Least(128)
      BY <1>1, <2>8
    <3> QED
      BY <3>1 DEF Powers
  <2>9. CASE v \in 129..256
    <3>1. Least(256)
      BY <1>1, <2>9
    <3> QED
      BY <3>1 DEF Powers
  <2> QED
    BY <2>1, <2>2, <2>3, <2>4, <2>5, <2>6, <2>7, <2>8, <2>9
<1>3. NextPow2(v) = CHOOSE p \in Powers : Least(p)
  BY DEF NextPow2
<1>4. NextPow2(v) \in Powers /\ Least(NextPow2(v))
  <2> HIDE DEF Least
  <2> QED
    BY <1>2, <1>3
<1>5. Powers \subseteq Nat
  BY DEF Powers
<1> QED
  BY <1>4, <1>5

\* The batch amortises the round trip, or it is the largest there is.
LEMMA BatchSound ==
  ASSUME BatchFits, NEW dev \in Nat
  PROVE  LET b == Batch(dev)
         IN  /\ b \in Nat
             /\ dev > 0 => /\ MinBatch <= b /\ b <= MaxBatch
                           /\ b = MaxBatch \/ (2 * b + 1) * dev >= 8 * Sync
<1>1. Sync \in Nat /\ MinBatch \in Nat /\ MaxBatch \in Nat /\ MinBatch <= MaxBatch /\ MaxBatch <= 256
  BY LimitsOK DEF BatchFits
<1>2. CASE dev = 0
  BY <1>1, <1>2, NextPower DEF Batch
<1>3. CASE dev # 0
  <2> DEFINE c == Clamped(4 * Sync, dev, MinBatch, MaxBatch)
             b == AtMost(NextPow2(c), MaxBatch)
  <2>1. c \in Nat
    BY <1>1, <1>3, ClampedNat
  <2>2. MinBatch <= c /\ c <= MaxBatch /\ (c = MaxBatch \/ (2 * c + 1) * dev >= 2 * (4 * Sync))
    BY <1>1, <1>3, ClampedBetween
  <2>3. NextPow2(c) \in Nat /\ NextPow2(c) >= c
    BY <1>1, <2>1, <2>2, NextPower
  <2> HIDE DEF c
  <2>4. b \in Nat /\ c <= b /\ b <= MaxBatch
    BY <1>1, <2>1, <2>2, <2>3 DEF AtMost
  <2>5. Batch(dev) = b
    BY <1>3 DEF Batch, c
  <2> HIDE DEF b
  <2>6. CASE c = MaxBatch
    BY <1>1, <2>1, <2>2, <2>4, <2>5, <2>6
  <2>7. CASE (2 * c + 1) * dev >= 2 * (4 * Sync)
    <3>1. (2 * c + 1) * dev <= (2 * b + 1) * dev
      BY <2>1, <2>4
    <3>2. (2 * b + 1) * dev \in Nat /\ (2 * c + 1) * dev \in Nat
      BY <2>1, <2>4
    <3> QED
      BY <1>1, <2>1, <2>2, <2>4, <2>5, <2>7, <3>1, <3>2
  <2> QED
    BY <2>2, <2>6, <2>7
<1> QED
  BY <1>2, <1>3

\* What the cost model decides is a schedule it promises: what is not worth its round
\* trip stays on the host, else the two finish their shares together, and the knobs are
\* within the limits of the hardware.
THEOREM DecideSound ==
  ASSUME BatchFits, NEW host \in Nat, NEW t \in Timings
  PROVE  LET k == Decide(host, t)  s == k.split  dev == t.total
         IN  /\ k \in Knobs /\ k.depth >= 1
             /\ ~k.offload => s = <<1, 1>>
             /\ k.offload /\ dev > host => s[1] * host = (s[2] - s[1]) * dev
             /\ k.offload /\ dev > 0 => k.batch = MaxBatch \/ (2 * k.batch + 1) * dev >= 8 * Sync
             /\ MinBatch <= k.batch /\ k.batch <= MaxBatch /\ k.depth \in 1..MaxDepth /\ k.pipe <= MaxPipe
<1>1. /\ Sync \in Nat \ {0} /\ Gain \in Nat \ {0} /\ MinBatch \in Nat /\ MaxBatch \in Nat
      /\ MinBatch <= MaxBatch /\ MaxDepth \in Nat \ {0} /\ MaxPipe \in Nat
  BY LimitsOK
<1>2. t.total \in Nat /\ t.stall \in Nat
  BY DEF Timings
<1>3. CASE SmallRegion(host, t.total) \/ ComputeBound(host, t)
  <2>1. Decide(host, t) = OnHost
    BY <1>3 DEF Decide
  <2>2. OnHost = [batch |-> MinBatch, depth |-> 1, pipe |-> 0, split |-> <<1, 1>>, offload |-> FALSE]
    <3>1. OnHost = [batch |-> AtMost(AtLeast(MinBatch, MinBatch), MaxBatch), depth |-> AtMost(AtLeast(1, 1), MaxDepth),
                    pipe |-> AtMost(0, MaxPipe), split |-> <<1, 1>>, offload |-> FALSE]
      BY DEF OnHost, ClampToHw
    <3>2. /\ AtMost(AtLeast(MinBatch, MinBatch), MaxBatch) = MinBatch
          /\ AtMost(AtLeast(1, 1), MaxDepth) = 1 /\ AtMost(0, MaxPipe) = 0
      BY <1>1 DEF AtMost, AtLeast
    <3> QED
      BY <3>1, <3>2
  <2>3. <<1, 1>> \in Nat \X Nat
    OBVIOUS
  <2> QED
    BY <1>1, <2>1, <2>2, <2>3 DEF Knobs
<1>4. CASE ~(SmallRegion(host, t.total) \/ ComputeBound(host, t))
  <2> DEFINE b == Batch(t.total)  d == Depth(t)  p == Clamped(t.stall, Gain, 4, MaxPipe)
             s == Split(host, t.total)
             k == [batch |-> AtMost(AtLeast(b, MinBatch), MaxBatch), depth |-> AtMost(AtLeast(d, 1), MaxDepth),
                   pipe |-> AtMost(p, MaxPipe), split |-> s, offload |-> TRUE]
  <2>1. Decide(host, t) = k
    BY <1>4 DEF Decide, ClampToHw
  <2>2. /\ b \in Nat
        /\ t.total > 0 => MinBatch <= b /\ b <= MaxBatch /\ (b = MaxBatch \/ (2 * b + 1) * t.total >= 8 * Sync)
    BY <1>2, BatchSound
  <2>3. d \in Nat
    <3>1. CASE t.total = 0
      BY <1>1, <3>1, ClampedNat DEF Depth
    <3>2. CASE t.total # 0
      <4>1. t.total + 7 * t.stall \in Nat /\ t.total \in Nat \ {0}
        BY <1>2, <3>2
      <4> QED
        BY <1>1, <3>2, <4>1, ClampedNat DEF Depth
    <3> QED
      BY <3>1, <3>2
  <2>4. p \in Nat
    BY <1>1, <1>2, ClampedNat
  <2>5. s \in Nat \X Nat /\ (t.total > host => s[1] * host = (s[2] - s[1]) * t.total)
    <3>1. CASE t.total > host
      <4>1. s = <<t.total, host + t.total>> /\ t.total * host = host * t.total /\ (host + t.total) - t.total = host
        BY <1>2, <3>1 DEF Split
      <4> QED
        BY <1>2, <3>1, <4>1
    <3>2. CASE ~(t.total > host)
      BY <3>2 DEF Split
    <3> QED
      BY <3>1, <3>2
  <2> HIDE DEF b, d, p, s
  <2>6. /\ k.batch \in Nat /\ MinBatch <= k.batch /\ k.batch <= MaxBatch
        /\ MinBatch <= b /\ b <= MaxBatch => k.batch = b
    BY <1>1, <2>2 DEF AtMost, AtLeast
  <2>7. k.depth \in Nat /\ k.depth \in 1..MaxDepth
    BY <1>1, <2>3 DEF AtMost, AtLeast
  <2>8. k.pipe \in Nat /\ k.pipe <= MaxPipe
    BY <1>1, <2>4 DEF AtMost
  <2>9. k.split = s /\ k.offload = TRUE
    OBVIOUS
  <2>10. k \in Knobs
    BY <2>5, <2>6, <2>7, <2>8 DEF Knobs
  <2> HIDE DEF k
  <2>11. t.total > 0 => k.batch = MaxBatch \/ (2 * k.batch + 1) * t.total >= 8 * Sync
    BY <2>2, <2>6
  <2> QED
    BY <2>1, <2>5, <2>6, <2>7, <2>8, <2>9, <2>10, <2>11
<1> QED
  BY <1>3, <1>4

-----------------------------------------------------------------------------
(* Entries of the profile *)

LEMMA EntryEdits ==
  ASSUME NEW e \in Entries, NEW h \in Nat, NEW t \in Timings
  PROVE  /\ [e EXCEPT !.host = h] \in Entries
         /\ [e EXCEPT !.host = h].host = h
         /\ \A f \in {"timing", "delay", "hidden", "knobs"} : [e EXCEPT !.host = h][f] = e[f]
         /\ [e EXCEPT !.timing = t] \in Entries
         /\ [e EXCEPT !.timing = t].timing = t
         /\ \A f \in {"host", "delay", "hidden", "knobs"} : [e EXCEPT !.timing = t][f] = e[f]
BY DEF Entries

\* The entry of a region at its synchronisation point.
Completed(e, k) ==
  [e EXCEPT !.delay = e.timing.total - e.host, !.hidden = e.host >= e.timing.total, !.knobs = k]

LEMMA EntryDecided ==
  ASSUME NEW e \in Entries, NEW k \in Knobs
  PROVE  LET f == Completed(e, k)
         IN  /\ f \in Entries /\ f.delay = e.timing.total - e.host
             /\ f.hidden = (e.host >= e.timing.total) /\ f.knobs = k
             /\ f.host = e.host /\ f.timing = e.timing
<1> DEFINE e1 == [e EXCEPT !.delay = e.timing.total - e.host]
           e2 == [e1 EXCEPT !.hidden = e.host >= e.timing.total]  e3 == [e2 EXCEPT !.knobs = k]
<1>1. e.timing.total - e.host \in Int /\ (e.host >= e.timing.total) \in BOOLEAN
  BY DEF Entries, Timings
<1>2. e1 \in Entries /\ e1.delay = e.timing.total - e.host /\ e1.host = e.host /\ e1.timing = e.timing
  BY <1>1 DEF Entries
<1> HIDE DEF e1
<1>3. /\ e2 \in Entries /\ e2.hidden = (e.host >= e.timing.total)
      /\ e2.delay = e1.delay /\ e2.host = e1.host /\ e2.timing = e1.timing
  BY <1>1, <1>2 DEF Entries
<1> HIDE DEF e2
<1>4. /\ e3 \in Entries /\ e3.knobs = k /\ e3.hidden = e2.hidden
      /\ e3.delay = e2.delay /\ e3.host = e2.host /\ e3.timing = e2.timing
  BY <1>3 DEF Entries
<1>5. Completed(e, k) = e3
  BY DEF e1, e2, Completed
<1> QED
  BY <1>2, <1>3, <1>4, <1>5

LEMMA BlankEntry == NoTiming \in Timings /\ Blank \in Entries
<1>1. NoTiming \in Timings
  BY DEF NoTiming, Timings
<1>2. Undecided \in Knobs
  BY DEF Undecided, Knobs
<1> QED
  BY <1>1, <1>2 DEF Blank, Entries

LEMMA EntryRead ==
  ASSUME NEW e \in Entries
  PROVE  /\ ReadBack(e) \in Entries /\ ReadBack(e).delay = e.delay /\ ReadBack(e).hidden = e.hidden
         /\ ReadBack(e).knobs.depth = e.knobs.depth
<1> DEFINE t == [NoTiming EXCEPT !.total = e.timing.total]  e1 == [e EXCEPT !.timing = t]
           k == [e1.knobs EXCEPT !.split = <<0, 1>>]  e2 == [e1 EXCEPT !.knobs = k]
<1>1. t \in Timings
  BY DEF NoTiming, Timings, Entries
<1> HIDE DEF t
<1>2. e1 \in Entries /\ e1.delay = e.delay /\ e1.hidden = e.hidden /\ e1.knobs = e.knobs
  BY <1>1 DEF Entries
<1> HIDE DEF e1
<1>3. k \in Knobs /\ k.depth = e.knobs.depth
  BY <1>2 DEF Entries, Knobs
<1> HIDE DEF k
<1>4. e2 \in Entries /\ e2.delay = e.delay /\ e2.hidden = e.hidden /\ e2.knobs = k
  BY <1>2, <1>3 DEF Entries
<1> HIDE DEF e2
<1>5. ReadBack(e) = e2
  BY DEF ReadBack, t, e1, k, e2
<1> QED
  BY <1>3, <1>4, <1>5

LEMMA EntryChanges ==
  ASSUME NEW s \in Seq(Entries), NEW r \in 1..Len(s), NEW e \in Entries
  PROVE  LET t == [s EXCEPT ![r] = e]
         IN  /\ t \in Seq(Entries) /\ Len(t) = Len(s)
             /\ \A q \in 1..Len(s) : t[q] = IF q = r THEN e ELSE s[q]
BY ExceptSeq

\* What each action does to the profile.
LEMMA ProfileStep ==
  ASSUME PassType, NEW r \in 1..Len(profile)
  PROVE  /\ since # -1 /\ profile' = [profile EXCEPT ![r].host = since] =>
              /\ profile' \in Seq(Entries) /\ Len(profile') = Len(profile)
              /\ profile'[r].host = since /\ profile'[r].timing = profile[r].timing
              /\ \A q \in 1..Len(profile) : q # r => profile'[q] = profile[q]
         /\ \A t \in Timings : profile' = [profile EXCEPT ![r].timing = t] =>
              /\ profile' \in Seq(Entries) /\ Len(profile') = Len(profile)
              /\ profile'[r].host = profile[r].host /\ profile'[r].timing = t
              /\ \A q \in 1..Len(profile) : q # r => profile'[q] = profile[q]
<1>1. profile[r] \in Entries
  BY DEF PassType
<1>2. ASSUME since # -1, profile' = [profile EXCEPT ![r].host = since]
      PROVE  /\ profile' \in Seq(Entries) /\ Len(profile') = Len(profile)
             /\ profile'[r].host = since /\ profile'[r].timing = profile[r].timing
             /\ \A q \in 1..Len(profile) : q # r => profile'[q] = profile[q]
  <2> DEFINE e == [profile[r] EXCEPT !.host = since]
  <2>1. since \in Nat
    BY <1>2 DEF PassType
  <2>2. e \in Entries /\ e.host = since /\ e.timing = profile[r].timing
    BY <1>1, <2>1, EntryEdits, BlankEntry
  <2>3. profile' = [profile EXCEPT ![r] = e]
    BY <1>2
  <2> HIDE DEF e
  <2> QED
    BY <2>2, <2>3, EntryChanges DEF PassType
<1>3. ASSUME NEW t \in Timings, profile' = [profile EXCEPT ![r].timing = t]
      PROVE  /\ profile' \in Seq(Entries) /\ Len(profile') = Len(profile)
             /\ profile'[r].host = profile[r].host /\ profile'[r].timing = t
             /\ \A q \in 1..Len(profile) : q # r => profile'[q] = profile[q]
  <2> DEFINE e == [profile[r] EXCEPT !.timing = t]
  <2>2. e \in Entries /\ e.timing = t /\ e.host = profile[r].host
    BY <1>1, EntryEdits
  <2>3. profile' = [profile EXCEPT ![r] = e]
    BY <1>3
  <2> HIDE DEF e
  <2> QED
    BY <2>2, <2>3, EntryChanges DEF PassType
<1> QED
  BY <1>2, <1>3

\* The synchronisation point of the first pass completes one entry.
LEMMA SyncEffect ==
  ASSUME BatchFits, PassType, NEW r \in 1..Len(profile), SyncPoint(r)
  PROVE  LET p == profile[r]  q == profile'[r]
         IN  /\ profile' \in Seq(Entries) /\ Len(profile') = Len(profile)
             /\ q.host = p.host /\ q.timing = p.timing /\ q.delay = p.timing.total - p.host
             /\ q.hidden = (p.host >= p.timing.total) /\ q.knobs = Decide(p.host, p.timing) /\ q.knobs.depth >= 1
             /\ \A o \in 1..Len(profile) : o # r => profile'[o] = profile[o]
<1> DEFINE p == profile[r]  k == Decide(p.host, p.timing)  e == Completed(p, k)
<1>1. p \in Entries
  BY DEF PassType
<1>2. profile' = [profile EXCEPT ![r] = e]
  BY DEF SyncPoint, Completed
<1> HIDE DEF p
<1>3. p.host \in Nat /\ p.timing \in Timings
  BY <1>1 DEF Entries
<1>4. k \in Knobs /\ k.depth >= 1
  BY <1>3, DecideSound
<1> HIDE DEF k
<1>6. /\ e \in Entries /\ e.delay = p.timing.total - p.host /\ e.hidden = (p.host >= p.timing.total)
      /\ e.knobs = k /\ e.host = p.host /\ e.timing = p.timing
  BY <1>1, <1>4, EntryDecided
<1> HIDE DEF e
<1>7. /\ profile' \in Seq(Entries) /\ Len(profile') = Len(profile) /\ profile'[r] = e
      /\ \A o \in 1..Len(profile) : o # r => profile'[o] = profile[o]
  BY <1>2, <1>6, EntryChanges DEF PassType
<1> QED
  BY <1>4, <1>6, <1>7 DEF k, p

\* Time passes for the regions that are open.
LEMMA PassesEffect ==
  ASSUME PassType, NEW d \in Nat, Passes(d)
  PROVE  /\ took' \in [Regions -> Nat]
         /\ \A r \in Regions : took'[r] = IF stage[r] \in {"todo", "done"} THEN took[r] ELSE took[r] + d
BY DEF Passes, PassType

\* An open region has its entry.
LEMMA OpenHasEntry ==
  ASSUME PassType, NotBeforeReady, NEW r \in Regions, stage[r] # "todo"
  PROVE  /\ Ready /\ Len(profile) = NRegions /\ mode # "disabled"
         /\ r \in 1..Len(profile) /\ r \in DOMAIN profile
BY DEF NotBeforeReady, Ready, Regions, PassType

LEMMA LatencyNat == Min(Latencies) \in Nat
<1>1. PICK least \in Latencies : \A l \in Latencies : least <= l
  BY TimesOK
<1>2. Min(Latencies) \in Latencies
  BY <1>1 DEF Min
<1> QED
  BY <1>2, TimesOK

LEMMA DurationsNat ==
  /\ Works \subseteq Nat /\ Kernels \subseteq Nat /\ Latencies \subseteq Nat
  /\ EstCompute \in Nat /\ SimCost \in Nat /\ NRegions \in Nat
BY TimesOK

LEMMA EntryDomain ==
  ASSUME PassType
  PROVE  /\ DOMAIN profile = 1..Len(profile) /\ DOMAIN profile \subseteq Regions
         /\ profile' \in Seq(Entries) /\ Len(profile') = Len(profile) => DOMAIN profile' = 1..Len(profile)
<1>1. profile \in Seq(Entries) /\ Len(profile) <= NRegions
  BY DEF PassType
<1>2. DOMAIN profile = 1..Len(profile) /\ Len(profile) \in Nat
  BY <1>1
<1>3. 1..Len(profile) \subseteq Regions
  BY <1>1, <1>2, DurationsNat DEF Regions
<1>4. profile' \in Seq(Entries) => DOMAIN profile' = 1..Len(profile')
  OBVIOUS
<1> QED
  BY <1>2, <1>3, <1>4

LEMMA TimingNat ==
  ASSUME PassType, NEW k \in Kernels
  PROVE  Timing(k) \in Timings
BY DurationsNat DEF PassType, Timing, Timings

\* A delay that is waited out is a time.
LEMMA InjectedNat ==
  ASSUME NEW d \in Int
  PROVE  /\ Injected(d) \in Nat
         /\ d <= 0 => Injected(d) = 0
         /\ d > 0 => Injected(d) <= d /\ Injected(d) > d - Tick
<1>1. Tick \in Nat \ {0}
  BY LimitsOK
<1>2. CASE d < Tick
  BY <1>1, <1>2 DEF Injected
<1>3. CASE d >= Tick
  <2> DEFINE q == d \div Tick
  <2>1. q \in Int /\ Tick * q <= d /\ d < Tick * q + Tick /\ q * Tick = Tick * q
    BY <1>1, Division
  <2> HIDE DEF q
  <2>2. q >= 0
    <3>1. Tick * 0 < Tick * (q + 1)
      BY <1>1, <1>3, <2>1
    <3>2. 0 < q + 1
      BY <1>1, <2>1, <3>1, Monotone
    <3> QED
      BY <2>1, <3>2
  <2>3. q * Tick \in Nat
    BY <1>1, <2>1, <2>2
  <2>4. Injected(d) = q * Tick
    BY <1>1, <1>3 DEF Injected, q
  <2> QED
    BY <1>1, <1>3, <2>1, <2>3, <2>4
<1> QED
  BY <1>1, <1>2, <1>3

-----------------------------------------------------------------------------
(* The schedules *)

LEMMA RestartKeeps ==
  ASSUME PassType, Restart, UNCHANGED <<kernel, work, loaded>>,
         file' \in [num : 0..NRegions, regions : Seq(Entries), there : BOOLEAN]
  PROVE  ScheduleInv'
<1>1. PassType'
  <2>1. <<>> \in Seq(Entries) /\ Len(<<>>) = 0 /\ NRegions \in Nat /\ NewSim.latency \in Nat
    BY DurationsNat, LatencyNat DEF NewSim
  <2> QED
    BY <2>1 DEF PassType, Restart
<1>2. NotBeforeReady' /\ Decided'
  BY DEF NotBeforeReady, Decided, Restart, PassType
<1> QED
  BY <1>1, <1>2 DEF ScheduleInv

\* The step of a region that leaves its entry alone, or is not in the first pass.
LEMMA StageKeeps ==
  ASSUME ScheduleInv, NEW r \in Regions, NEW s \in {"started", "worked", "ended", "done"}, Goes(r, s),
         Ready, took' \in [Regions -> Nat], since' \in Nat \cup {-1},
         s # "done" \/ mode # "profiling",
         profile' = profile, UNCHANGED <<mode, latency, file, kernel, loaded, work>>
  PROVE  ScheduleInv'
<1> USE DEF ScheduleInv
<1>1. stage' \in [Regions -> {"todo", "started", "worked", "ended", "done"}]
      /\ stage'[r] = s /\ \A q \in Regions : q # r => stage'[q] = stage[q]
  BY DEF Goes, PassType
<1>2. PassType'
  BY <1>1 DEF PassType
<1>3. NotBeforeReady'
  BY DEF NotBeforeReady, Ready
<1>4. Decided'
  <2>1. DOMAIN profile \subseteq Regions
    BY EntryDomain
  <2> QED
    BY <1>1, <2>1 DEF Decided
<1> QED
  BY <1>2, <1>3, <1>4

\* The step of a region that changes its entry, before it is done.
LEMMA EntryKeeps ==
  ASSUME ScheduleInv, NEW r \in Regions, NEW s \in {"started", "worked", "ended"}, Goes(r, s), Ready,
         profile' \in Seq(Entries), Len(profile') = Len(profile),
         \A q \in 1..Len(profile) : q # r => profile'[q] = profile[q],
         took' \in [Regions -> Nat], kernel' \in [Regions -> Nat], since' \in Nat \cup {-1},
         UNCHANGED <<mode, latency, file, loaded, work>>
  PROVE  ScheduleInv'
<1> USE DEF ScheduleInv
<1>1. stage' \in [Regions -> {"todo", "started", "worked", "ended", "done"}]
      /\ stage'[r] = s /\ \A q \in Regions : q # r => stage'[q] = stage[q]
  BY DEF Goes, PassType
<1>2. PassType'
  BY <1>1 DEF PassType
<1>3. NotBeforeReady'
  BY DEF NotBeforeReady, Ready
<1>4. Decided'
  <2>1. DOMAIN profile' = 1..Len(profile) /\ 1..Len(profile) \subseteq Regions
    BY EntryDomain
  <2>2. ASSUME mode = "profiling", NEW q \in 1..Len(profile), stage'[q] = "done"
        PROVE  profile'[q].knobs = Decide(profile'[q].host, profile'[q].timing)
    <3>1. q # r /\ q \in Regions /\ profile'[q] = profile[q] /\ stage[q] = "done"
      BY <1>1, <2>1, <2>2
    <3> QED
      BY <2>1, <2>2, <3>1 DEF Decided
  <2> QED
    BY <2>1, <2>2 DEF Decided
<1> QED
  BY <1>2, <1>3, <1>4

\* What saving leaves in the file.
LEMMA FileSaved ==
  ASSUME PassType, NEW n \in 0..NRegions, SaveProfile(n)
  PROVE  /\ file' \in [num : 0..NRegions, regions : Seq(Entries), there : BOOLEAN]
         /\ file'.there /\ file'.num = NRegions
         /\ n = NRegions => /\ Len(file'.regions) = NRegions
                            /\ \A r \in Regions : file'.regions[r] = profile[r]
<1>1. profile \in Seq(Entries) /\ Len(profile) = NRegions /\ NRegions \in Nat /\ n \in 0..Len(profile)
  BY DurationsNat DEF PassType, SaveProfile
<1>2. SubSeq(profile, 1, n) \in Seq(Entries) /\ Len(SubSeq(profile, 1, n)) = n
      /\ \A i \in 1..n : SubSeq(profile, 1, n)[i] = profile[i]
  BY <1>1
<1>3. file' = [num |-> NRegions, regions |-> SubSeq(profile, 1, n), there |-> TRUE]
  BY DEF SaveProfile
<1> QED
  BY <1>1, <1>2, <1>3 DEF Regions

\* What loading leaves of the file.
LEMMA FileLoaded ==
  ASSUME PassType, SetInjection
  PROVE  /\ profile' \in Seq(Entries) /\ Len(profile') <= NRegions
         /\ file.there => Len(profile') = file.num
         /\ file.there => \A i \in 1..file.num : i \in 1..Len(file.regions) =>
              profile'[i].delay = file.regions[i].delay
<1>1. file.num \in Nat /\ file.num <= NRegions /\ file.regions \in Seq(Entries)
  BY DurationsNat DEF PassType
<1>2. CASE ~file.there
  BY <1>2 DEF SetInjection, PassType
<1>3. CASE file.there
  <2>1. profile' = [i \in 1..file.num |-> LoadRegion(i)]
    BY <1>3 DEF SetInjection
  <2>2. ASSUME NEW i \in 1..file.num
        PROVE  LoadRegion(i) \in Entries
               /\ (i \in 1..Len(file.regions) => LoadRegion(i).delay = file.regions[i].delay)
    <3>1. CASE i \in 1..Len(file.regions)
      BY <1>1, <3>1, EntryRead DEF LoadRegion
    <3>2. CASE i \notin 1..Len(file.regions)
      BY <1>1, <3>2, BlankEntry DEF LoadRegion
    <3> QED
      BY <3>1, <3>2
  <2>3. profile' \in Seq(Entries) /\ Len(profile') = file.num
    BY <1>1, <2>1, <2>2
  <2> QED
    BY <1>1, <2>1, <2>2, <2>3
<1> QED
  BY <1>2, <1>3

\* Every step leaves the schedules as they were decided.
LEMMA ScheduleStep ==
  ASSUME BatchFits, ScheduleInv, [TwoPassNext]_passVars
  PROVE  ScheduleInv'
<1> USE DEF ScheduleInv
<1>1. CASE SetProfiling
  <2>1. PassType' /\ DOMAIN profile' = {}
    BY <1>1 DEF SetProfiling, PassType, NotBeforeReady
  <2> QED
    BY <1>1, <2>1 DEF SetProfiling, NotBeforeReady, Decided, Ready
<1>2. CASE RegisterRegion
  <2>1. profile' = Append(profile, Blank) /\ Len(profile) < NRegions /\ NRegions \in Nat
        /\ UNCHANGED <<mode, since, latency, file, stage, took, kernel, loaded, work>> /\ mode = "profiling"
    BY <1>2, DurationsNat DEF RegisterRegion, appVars
  <2>2. profile' \in Seq(Entries) /\ Len(profile') = Len(profile) + 1
    BY <2>1, BlankEntry DEF PassType
  <2>3. PassType'
    BY <2>1, <2>2 DEF PassType
  <2>4. \A r \in Regions : stage[r] = "todo"
    BY <2>1 DEF NotBeforeReady, Ready
  <2>5. DOMAIN profile' \subseteq Regions
    BY <2>1, <2>2, <2>3 DEF PassType, Regions
  <2> QED
    BY <2>1, <2>3, <2>4, <2>5 DEF NotBeforeReady, Decided
<1>3. CASE SetInjection
  <2>1. UNCHANGED <<since, latency, file, stage, took, kernel, loaded, work>> /\ mode' = "injection" /\ mode = "disabled"
    BY <1>3 DEF SetInjection, appVars
  <2>2. PassType'
    BY <1>3, <2>1, FileLoaded DEF PassType
  <2> QED
    BY <2>1, <2>2 DEF NotBeforeReady, Ready, Decided
<1>4. CASE Exit
  BY <1>4, RestartKeeps DEF Exit, PassType
<1>5. ASSUME NEW l \in Latencies, SetMemoryLatency(l) \/ Observe(l, Min(Latencies)) PROVE ScheduleInv'
  <2>1. UNCHANGED <<mode, profile, since, file, stage, took, kernel, loaded, work>> /\ latency' \in Nat
    BY <1>5, DurationsNat DEF SetMemoryLatency, Observe, appVars, PassType
  <2> QED
    BY <2>1 DEF PassType, NotBeforeReady, Ready, Decided
<1>6. ASSUME NEW n \in 0..NRegions, SaveProfile(n) PROVE ScheduleInv'
  BY <1>6, FileSaved, RestartKeeps DEF SaveProfile
<1>7. ASSUME NEW r \in Regions, HostWorkStart(r) PROVE ScheduleInv'
  <2>1. Ready /\ Goes(r, "started") /\ took' = [took EXCEPT ![r] = 0]
        /\ since' \in {0, since} /\ profile' = profile /\ UNCHANGED <<mode, latency, file, kernel, loaded, work>>
    BY <1>7 DEF HostWorkStart
  <2>2. took' \in [Regions -> Nat] /\ since' \in Nat \cup {-1}
    BY <2>1 DEF PassType
  <2> QED
    BY <2>1, <2>2, StageKeeps
<1>8. ASSUME NEW r \in Regions, Work(r) PROVE ScheduleInv'
  <2>1. stage[r] = "started" /\ Goes(r, "worked") /\ Passes(work[r]) /\ work[r] \in Nat
        /\ since' \in {since, since + work[r]} /\ (since = -1 => since' = since)
        /\ profile' = profile /\ UNCHANGED <<mode, latency, file, kernel, loaded, work>>
    BY <1>8 DEF Work, PassType
  <2>2. Ready
    BY <2>1, OpenHasEntry
  <2>3. took' \in [Regions -> Nat]
    BY <2>1, PassesEffect
  <2>4. since' \in Nat \cup {-1}
    BY <2>1 DEF PassType
  <2> QED
    BY <2>1, <2>2, <2>3, <2>4, StageKeeps
<1>9. ASSUME NEW r \in Regions, HostWorkEnd(r) PROVE ScheduleInv'
  <2>1. stage[r] = "worked" /\ Goes(r, "ended") /\ UNCHANGED <<mode, latency, file, took, kernel, loaded, work>>
    BY <1>9 DEF HostWorkEnd
  <2>2. Ready /\ r \in 1..Len(profile)
    BY <2>1, OpenHasEntry
  <2>3. CASE mode = "profiling" /\ since # -1
    <3>1. profile' = [profile EXCEPT ![r].host = since] /\ since' = -1
      BY <1>9, <2>3 DEF HostWorkEnd
    <3>2. /\ profile' \in Seq(Entries) /\ Len(profile') = Len(profile)
          /\ \A q \in 1..Len(profile) : q # r => profile'[q] = profile[q]
      BY <2>2, <2>3, <3>1, ProfileStep
    <3>3. took' \in [Regions -> Nat] /\ kernel' \in [Regions -> Nat] /\ since' \in Nat \cup {-1}
      BY <2>1, <3>1 DEF PassType
    <3> QED
      BY <2>1, <2>2, <3>2, <3>3, EntryKeeps
  <2>4. CASE ~(mode = "profiling" /\ since # -1)
    <3>1. profile' = profile /\ since' = since
      BY <1>9, <2>4 DEF HostWorkEnd
    <3>2. took' \in [Regions -> Nat] /\ since' \in Nat \cup {-1}
      BY <2>1, <3>1 DEF PassType
    <3> QED
      BY <2>1, <2>2, <3>1, <3>2, StageKeeps
  <2> QED
    BY <2>3, <2>4
<1>10. ASSUME NEW r \in Regions, NEW k \in Kernels, LaunchKernel(r, k) PROVE ScheduleInv'
  <2>1. /\ stage[r] \in {"started", "worked", "ended"} /\ stage' = stage
        /\ profile' = [profile EXCEPT ![r].timing = Timing(k)]
        /\ kernel' = [kernel EXCEPT ![r] = Timing(k).total] /\ Passes(SimCost)
        /\ since' = (IF since = -1 THEN since ELSE since + SimCost)
        /\ UNCHANGED <<mode, latency, file, loaded, work>>
    BY <1>10 DEF LaunchKernel, LaunchPoint
  <2>2. Ready /\ r \in 1..Len(profile) /\ Timing(k) \in Timings /\ SimCost \in Nat
    BY <2>1, OpenHasEntry, TimingNat, DurationsNat
  <2>3. /\ profile' \in Seq(Entries) /\ Len(profile') = Len(profile)
        /\ \A q \in 1..Len(profile) : q # r => profile'[q] = profile[q]
    BY <2>1, <2>2, ProfileStep
  <2>4. took' \in [Regions -> Nat] /\ kernel' \in [Regions -> Nat] /\ since' \in Nat \cup {-1}
    <3>1. Timing(k).total \in Nat
      BY <2>2 DEF Timings
    <3>2. took' \in [Regions -> Nat]
      BY <2>1, <2>2, PassesEffect
    <3>3. kernel' \in [Regions -> Nat]
      BY <2>1, <3>1 DEF PassType
    <3>4. since' \in Nat \cup {-1}
      BY <2>1, <2>2 DEF PassType
    <3> QED
      BY <3>2, <3>3, <3>4
  <2>5. Goes(r, stage[r])
    BY <2>1 DEF Goes, PassType
  <2> QED
    BY <2>1, <2>2, <2>3, <2>4, <2>5, EntryKeeps
<1>11. ASSUME NEW r \in Regions, LaunchKernelFails(r) PROVE ScheduleInv'
  <2>1. /\ stage[r] \in {"started", "worked", "ended"}
        /\ profile' = profile \/ profile' = [profile EXCEPT ![r].timing = NoTiming]
        /\ UNCHANGED <<mode, since, latency, file, stage, took, kernel, loaded, work>>
    BY <1>11 DEF LaunchKernelFails, LaunchPoint
  <2>2. Ready /\ r \in 1..Len(profile)
    BY <2>1, OpenHasEntry
  <2>3. /\ profile' \in Seq(Entries) /\ Len(profile') = Len(profile)
        /\ \A q \in 1..Len(profile) : q # r => profile'[q] = profile[q]
    BY <2>1, <2>2, ProfileStep, BlankEntry DEF PassType
  <2>4. took' \in [Regions -> Nat] /\ kernel' \in [Regions -> Nat] /\ since' \in Nat \cup {-1}
    BY <2>1 DEF PassType
  <2>5. Goes(r, stage[r])
    BY <2>1 DEF Goes, PassType
  <2> QED
    BY <2>1, <2>2, <2>3, <2>4, <2>5, EntryKeeps
<1>12. ASSUME NEW r \in Regions, SyncPoint(r) PROVE ScheduleInv'
  <2>1. /\ stage[r] = "ended" /\ Goes(r, "done") /\ mode = "profiling"
        /\ UNCHANGED <<mode, since, latency, file, took, kernel, loaded, work>>
    BY <1>12 DEF SyncPoint
  <2>2. Ready /\ r \in 1..Len(profile)
    BY <2>1, OpenHasEntry
  <2>3. /\ profile' \in Seq(Entries) /\ Len(profile') = Len(profile)
        /\ profile'[r].knobs = Decide(profile'[r].host, profile'[r].timing)
        /\ \A q \in 1..Len(profile) : q # r => profile'[q] = profile[q]
    BY <1>12, <2>2, SyncEffect
  <2>4. stage' \in [Regions -> {"todo", "started", "worked", "ended", "done"}]
        /\ \A q \in Regions : q # r => stage'[q] = stage[q]
    BY <2>1 DEF Goes, PassType
  <2>5. PassType'
    BY <2>1, <2>3, <2>4 DEF PassType
  <2>6. NotBeforeReady'
    BY <2>1, <2>2, <2>3 DEF NotBeforeReady, Ready
  <2>7. DOMAIN profile' = 1..Len(profile) /\ DOMAIN profile = 1..Len(profile) /\ DOMAIN profile \subseteq Regions
    BY <2>3, EntryDomain
  <2>8. ASSUME NEW q \in 1..Len(profile), stage'[q] = "done"
        PROVE  profile'[q].knobs = Decide(profile'[q].host, profile'[q].timing)
    <3>1. CASE q = r
      BY <2>3, <3>1
    <3>2. CASE q # r
      <4>1. stage[q] = "done" /\ profile'[q] = profile[q]
        BY <2>3, <2>4, <2>7, <2>8, <3>2
      <4> QED
        BY <2>1, <2>7, <4>1 DEF Decided
    <3> QED
      BY <3>1, <3>2
  <2> QED
    BY <2>5, <2>6, <2>7, <2>8 DEF Decided
<1>13. ASSUME NEW r \in Regions, SyncPointInjects(r) PROVE ScheduleInv'
  <2>1. /\ stage[r] = "ended" /\ Goes(r, "done") /\ mode = "injection" /\ Passes(Injected(profile[r].delay))
        /\ UNCHANGED <<mode, profile, since, latency, file, kernel, loaded, work>>
    BY <1>13 DEF SyncPointInjects
  <2>2. Ready /\ r \in 1..Len(profile)
    BY <2>1, OpenHasEntry
  <2>3. profile[r].delay \in Int
    <3>1. profile[r] \in Entries
      BY <2>2 DEF PassType
    <3> QED
      BY <3>1 DEF Entries
  <2>4. took' \in [Regions -> Nat] /\ since' \in Nat \cup {-1}
    BY <2>1, <2>3, InjectedNat, PassesEffect DEF PassType
  <2> QED
    BY <2>1, <2>2, <2>4, StageKeeps
<1>14. CASE UNCHANGED passVars
  BY <1>14 DEF passVars, appVars, PassType, NotBeforeReady, Ready, Decided
<1> QED
  BY <1>1, <1>2, <1>3, <1>4, <1>5, <1>6, <1>7, <1>8, <1>9, <1>10, <1>11, <1>12, <1>13, <1>14 DEF TwoPassNext

LEMMA ScheduleStart == TwoPassInit => ScheduleInv
<1> SUFFICES ASSUME TwoPassInit PROVE ScheduleInv
  OBVIOUS
<1>1. NoFile \in [num : 0..NRegions, regions : Seq(Entries), there : BOOLEAN]
  BY DurationsNat DEF NoFile
<1>2. PassType
  <2>1. <<>> \in Seq(Entries) /\ Len(<<>>) <= NRegions /\ NewSim.latency \in Nat
    BY DurationsNat, LatencyNat DEF NewSim
  <2>2. work \in [Regions -> Nat]
    BY DurationsNat DEF TwoPassInit
  <2> QED
    BY <1>1, <2>1, <2>2 DEF TwoPassInit, PassType
<1> QED
  BY <1>2 DEF TwoPassInit, ScheduleInv, NotBeforeReady, Decided

LEMMA ScheduleMeans ==
  ASSUME BatchFits, ScheduleInv
  PROVE  ScheduleSound
<1> SUFFICES ASSUME NEW r \in DOMAIN profile, stage[r] = "done", mode = "profiling"
             PROVE  LET p == profile[r]  k == p.knobs  s == k.split  dev == p.timing.total
                    IN  /\ ~k.offload => s = <<1, 1>>
                        /\ k.offload /\ dev > p.host => s[1] * p.host = (s[2] - s[1]) * dev
                        /\ k.offload /\ dev > 0 => k.batch = MaxBatch \/ (2 * k.batch + 1) * dev >= 8 * Sync
                        /\ MinBatch <= k.batch /\ k.batch <= MaxBatch /\ k.depth \in 1..MaxDepth /\ k.pipe <= MaxPipe
  BY DEF ScheduleSound
<1> DEFINE p == profile[r]
<1>1. p \in Entries
  BY EntryDomain DEF ScheduleInv, PassType
<1>2. p.knobs = Decide(p.host, p.timing)
  BY DEF ScheduleInv, Decided
<1> HIDE DEF p
<1>3. p.host \in Nat /\ p.timing \in Timings
  BY <1>1 DEF Entries
<1> DEFINE k == p.knobs  s == k.split  dev == p.timing.total
<1>4. /\ ~k.offload => s = <<1, 1>>
      /\ k.offload /\ dev > p.host => s[1] * p.host = (s[2] - s[1]) * dev
      /\ k.offload /\ dev > 0 => k.batch = MaxBatch \/ (2 * k.batch + 1) * dev >= 8 * Sync
      /\ MinBatch <= k.batch /\ k.batch <= MaxBatch /\ k.depth \in 1..MaxDepth /\ k.pipe <= MaxPipe
  BY <1>2, <1>3, DecideSound
<1> QED
  BY <1>4 DEF p

\* The schedule of every region that was measured is one the cost model promises,
\* whatever the durations, the limits, the overlap of regions and the files of
\* processes that died (sync_point, cira_jit_decide).
THEOREM MeasuredSchedulesSound == ASSUME BatchFits PROVE TwoPassSpec => []ScheduleSound
<1>1. TwoPassInit => ScheduleInv
  BY ScheduleStart
<1>2. ScheduleInv /\ [TwoPassNext]_passVars => ScheduleInv'
  BY ScheduleStep
<1>3. ScheduleInv => ScheduleSound
  BY ScheduleMeans
<1> QED
  BY <1>1, <1>2, <1>3, PTL DEF TwoPassSpec

-----------------------------------------------------------------------------
(* The time a region takes in the second pass *)

LEMMA OnlyOpen ==
  ASSUME OneOpen, NEW r \in Regions, Open(r), NEW q \in Regions, q # r
  PROVE  stage[q] \in {"todo", "done"}
BY DEF OneOpen, Open

LEMMA StageGoes ==
  ASSUME PassType, NEW r \in Regions, NEW s, Goes(r, s)
  PROVE  stage'[r] = s /\ \A q \in Regions : q # r => stage'[q] = stage[q]
BY DEF PassType, Goes

\* Before the regions are there, only the file and the kernels' times say something.
LEMMA AllTodo ==
  ASSUME PassInv, NEW r \in Regions, ~Ready
  PROVE  stage[r] = "todo" /\ (mode = "profiling" => kernel[r] = 0)
BY DEF PassInv, ScheduleInv, NotBeforeReady, Profiled

LEMMA SetProfilingPass ==
  ASSUME PassInv, SetProfiling
  PROVE  OneOpen' /\ Profiled' /\ FileTells' /\ Injects' /\ SecondPassTakes'
<1>1. /\ mode = "disabled" /\ mode' = "profiling" /\ kernel' = [r \in Regions |-> 0]
      /\ UNCHANGED <<profile, since, file, stage, took, work>> /\ profile = <<>>
  BY DEF SetProfiling, PassInv, ScheduleInv, NotBeforeReady
<1>2. \A r \in Regions : stage[r] = "todo"
  BY <1>1, AllTodo DEF Ready
<1>3. OneOpen' /\ Profiled'
  BY <1>1, <1>2 DEF OneOpen, Open, Profiled
<1>4. FileTells' /\ Injects' /\ SecondPassTakes'
  BY <1>1 DEF PassInv, FileTells, Injects, SecondPassTakes
<1> QED
  BY <1>3, <1>4

LEMMA RegisterPass ==
  ASSUME PassInv, RegisterRegion
  PROVE  OneOpen' /\ Profiled' /\ FileTells' /\ Injects' /\ SecondPassTakes'
<1>1. /\ mode = "profiling" /\ profile' = Append(profile, Blank) /\ Len(profile) < NRegions
      /\ UNCHANGED <<mode, since, file, stage, took, kernel, work>>
  BY DEF RegisterRegion, appVars
<1>2. \A r \in Regions : stage[r] = "todo" /\ kernel[r] = 0
  BY <1>1, AllTodo DEF Ready
<1>3. /\ profile \in Seq(Entries) /\ Len(profile') = Len(profile) + 1 /\ profile' \in Seq(Entries)
      /\ profile'[Len(profile) + 1] = Blank /\ \A r \in 1..Len(profile) : profile'[r] = profile[r]
  BY <1>1, BlankEntry DEF PassInv, ScheduleInv, PassType
<1>4. Blank.timing.total = 0
  BY DEF Blank, NoTiming
<1>5. \A r \in DOMAIN profile' : r \in Regions => profile'[r].timing.total = kernel[r]
  <2> SUFFICES ASSUME NEW r \in 1..(Len(profile) + 1), r \in Regions
               PROVE  profile'[r].timing.total = kernel[r]
    BY <1>3
  <2>1. CASE r \in 1..Len(profile)
    BY <1>1, <1>3, <2>1 DEF PassInv, Profiled
  <2>2. CASE r = Len(profile) + 1
    BY <1>2, <1>3, <1>4, <2>2
  <2> QED
    BY <1>3, <2>1, <2>2
<1>6. OneOpen' /\ Profiled'
  BY <1>1, <1>2, <1>5 DEF OneOpen, Open, Profiled
<1>7. FileTells' /\ Injects' /\ SecondPassTakes'
  BY <1>1 DEF PassInv, FileTells, Injects, SecondPassTakes, Tells
<1> QED
  BY <1>6, <1>7

LEMMA SetInjectionPass ==
  ASSUME PassInv, SetInjection
  PROVE  OneOpen' /\ Profiled' /\ FileTells' /\ Injects' /\ SecondPassTakes'
<1>1. /\ mode = "disabled" /\ mode' = "injection" /\ UNCHANGED <<since, file, stage, took, kernel, work>>
      /\ ~file.there => profile' = profile
  BY DEF SetInjection, appVars
<1>2. \A r \in Regions : stage[r] = "todo"
  BY <1>1, AllTodo DEF Ready
<1>3. OneOpen' /\ Profiled' /\ SecondPassTakes'
  BY <1>1, <1>2 DEF OneOpen, Open, Profiled, SecondPassTakes
<1>4. FileTells'
  BY <1>1 DEF PassInv, FileTells, Tells
<1>5. Injects'
  <2>1. CASE file.there
    <3>1. /\ file.num = NRegions /\ Len(file.regions) = NRegions
          /\ \A r \in Regions : file.regions[r].delay = kernel[r] - work[r]
      BY <1>1, <2>1 DEF PassInv, FileTells, Tells
    <3>2. Len(profile') = NRegions /\ \A r \in Regions : profile'[r].delay = file.regions[r].delay
      BY <2>1, <3>1, FileLoaded DEF PassInv, ScheduleInv, Regions
    <3> QED
      BY <1>1, <1>2, <2>1, <3>1, <3>2 DEF Injects
  <2>2. CASE ~file.there
    BY <1>1, <1>2, <2>2 DEF PassInv, ScheduleInv, NotBeforeReady, Injects
  <2> QED
    BY <2>1, <2>2
<1> QED
  BY <1>3, <1>4, <1>5

LEMMA RestartPass ==
  ASSUME Restart, UNCHANGED <<kernel, work>>,
         file'.there => /\ file'.num = NRegions /\ Len(file'.regions) = NRegions
                        /\ \A r \in Regions : /\ Tells(file'.regions[r], r)
                                               /\ file'.regions[r].hidden = (file'.regions[r].delay <= 0)
  PROVE  OneOpen' /\ Profiled' /\ FileTells' /\ Injects' /\ SecondPassTakes'
<1>1. mode' = "disabled" /\ \A r \in Regions : stage'[r] = "todo"
  BY DEF Restart
<1>2. OneOpen' /\ Profiled' /\ Injects' /\ SecondPassTakes'
  BY <1>1 DEF OneOpen, Open, Profiled, Injects, SecondPassTakes
<1>3. FileTells'
  BY DEF FileTells, Tells
<1> QED
  BY <1>2, <1>3

LEMMA ExitPass ==
  ASSUME PassInv, Exit
  PROVE  OneOpen' /\ Profiled' /\ FileTells' /\ Injects' /\ SecondPassTakes'
<1>1. mode = "injection" /\ Restart /\ UNCHANGED <<file, kernel, work>>
  BY DEF Exit
<1>2. file.there => /\ file.num = NRegions /\ Len(file.regions) = NRegions
                    /\ \A r \in Regions : /\ Tells(file.regions[r], r)
                                           /\ file.regions[r].hidden = (file.regions[r].delay <= 0)
  BY <1>1 DEF PassInv, FileTells
<1> QED
  BY <1>1, <1>2, RestartPass

LEMMA SavePass ==
  ASSUME Orderly, PassInv, NEW n \in 0..NRegions, SaveProfile(n)
  PROVE  OneOpen' /\ Profiled' /\ FileTells' /\ Injects' /\ SecondPassTakes'
<1>1. /\ mode = "profiling" /\ n = NRegions /\ AllDone /\ Restart /\ UNCHANGED <<kernel, work>>
  BY DEF Orderly, SaveProfile
<1>2. \A r \in Regions : Tells(profile[r], r)
  BY <1>1 DEF PassInv, Profiled, AllDone
<1>3. /\ file'.num = NRegions /\ Len(file'.regions) = NRegions
      /\ \A r \in Regions : file'.regions[r] = profile[r]
  BY <1>1, FileSaved DEF PassInv, ScheduleInv
<1>4. ASSUME NEW r \in Regions
      PROVE  Tells(file'.regions[r], r) /\ file'.regions[r].hidden = (file'.regions[r].delay <= 0)
  <2>1. work[r] \in Nat /\ kernel[r] \in Nat
    BY DEF PassInv, ScheduleInv, PassType
  <2> QED
    BY <1>2, <1>3, <2>1 DEF Tells
<1> QED
  BY <1>1, <1>3, <1>4, RestartPass

LEMMA StartPass ==
  ASSUME Orderly, PassInv, NEW r \in Regions, HostWorkStart(r)
  PROVE  OneOpen' /\ Profiled' /\ FileTells' /\ Injects' /\ SecondPassTakes'
<1>1. /\ stage[r] = "todo" /\ Goes(r, "started") /\ took' = [took EXCEPT ![r] = 0]
      /\ mode = "profiling" => since' = 0
      /\ UNCHANGED <<mode, profile, file, kernel, work>>
      /\ \A q \in Regions : stage[q] \in {"todo", "done"}
  BY DEF Orderly, HostWorkStart, Free
<1>2. stage'[r] = "started" /\ \A q \in Regions : q # r => stage'[q] = stage[q]
  BY <1>1, StageGoes DEF PassInv, ScheduleInv
<1>3. took'[r] = 0 /\ \A q \in Regions : q # r => took'[q] = took[q]
  BY <1>1 DEF PassInv, ScheduleInv, PassType
<1>4. OneOpen'
  BY <1>1, <1>2 DEF OneOpen, Open
<1>5. Profiled'
  BY <1>1, <1>2 DEF PassInv, Profiled, Tells
<1>6. FileTells'
  BY <1>1 DEF PassInv, FileTells, Tells
<1>7. Injects'
  BY <1>1, <1>2, <1>3 DEF PassInv, Injects
<1>8. SecondPassTakes'
  BY <1>1, <1>2, <1>3 DEF PassInv, SecondPassTakes
<1> QED
  BY <1>4, <1>5, <1>6, <1>7, <1>8

LEMMA WorkPass ==
  ASSUME Orderly, PassInv, NEW r \in Regions, Work(r)
  PROVE  OneOpen' /\ Profiled' /\ FileTells' /\ Injects' /\ SecondPassTakes'
<1>1. /\ stage[r] = "started" /\ Goes(r, "worked") /\ Passes(work[r]) /\ work[r] \in Nat
      /\ since' = (IF since = -1 THEN since ELSE since + work[r])
      /\ UNCHANGED <<mode, profile, file, kernel, work>>
  BY DEF Work, PassInv, ScheduleInv, PassType
<1>2. stage'[r] = "worked" /\ \A q \in Regions : q # r => stage'[q] = stage[q]
  BY <1>1, StageGoes DEF PassInv, ScheduleInv
<1>3. \A q \in Regions : q # r => stage[q] \in {"todo", "done"}
  BY <1>1, OnlyOpen DEF PassInv, Open
<1>4. took'[r] = took[r] + work[r] /\ \A q \in Regions : q # r => took'[q] = took[q]
  BY <1>1, <1>3, PassesEffect DEF PassInv, ScheduleInv
<1>5. OneOpen'
  BY <1>1, <1>2, <1>3 DEF OneOpen, Open
<1>6. mode = "profiling" => since' = work[r]
  BY <1>1 DEF PassInv, Profiled
<1>7. Profiled'
  BY <1>1, <1>2, <1>3, <1>6 DEF PassInv, Profiled, Tells
<1>8. FileTells'
  BY <1>1 DEF PassInv, FileTells, Tells
<1>9. Injects'
  <2>1. mode = "injection" => took'[r] = work[r]
    BY <1>1, <1>4 DEF PassInv, Injects
  <2> QED
    BY <1>1, <1>2, <1>3, <2>1 DEF PassInv, Injects
<1>10. SecondPassTakes'
  BY <1>1, <1>2, <1>4 DEF PassInv, SecondPassTakes
<1> QED
  BY <1>5, <1>7, <1>8, <1>9, <1>10

LEMMA EndPass ==
  ASSUME Orderly, PassInv, NEW r \in Regions, HostWorkEnd(r)
  PROVE  OneOpen' /\ Profiled' /\ FileTells' /\ Injects' /\ SecondPassTakes'
<1>1. stage[r] = "worked" /\ Goes(r, "ended") /\ UNCHANGED <<mode, file, took, kernel, work>>
  BY DEF HostWorkEnd
<1>2. stage'[r] = "ended" /\ \A q \in Regions : q # r => stage'[q] = stage[q]
  BY <1>1, StageGoes DEF PassInv, ScheduleInv
<1>3. \A q \in Regions : q # r => stage[q] \in {"todo", "done"}
  BY <1>1, OnlyOpen DEF PassInv, Open
<1>4. r \in 1..Len(profile) /\ work[r] \in Nat /\ PassType
  BY <1>1, OpenHasEntry DEF PassInv, ScheduleInv, PassType
<1>5. OneOpen'
  BY <1>1, <1>2, <1>3 DEF OneOpen, Open
<1>6. Profiled'
  <2>1. CASE mode # "profiling"
    BY <1>1, <2>1 DEF Profiled
  <2>2. CASE mode = "profiling"
    <3>1. since = work[r] /\ since # -1
      BY <1>1, <1>4, <2>2 DEF PassInv, Profiled
    <3>2. profile' = [profile EXCEPT ![r].host = since]
      BY <2>2, <3>1 DEF HostWorkEnd
    <3>3. /\ profile' \in Seq(Entries) /\ Len(profile') = Len(profile)
          /\ profile'[r].host = work[r] /\ profile'[r].timing = profile[r].timing
          /\ \A q \in 1..Len(profile) : q # r => profile'[q] = profile[q]
      BY <1>4, <3>1, <3>2, ProfileStep
    <3>4. DOMAIN profile' = DOMAIN profile /\ DOMAIN profile = 1..Len(profile)
      BY <1>4, <3>3, EntryDomain
    <3>5. \A q \in Regions : stage[q] = "done" => q \in 1..Len(profile)
      BY <1>4, OpenHasEntry DEF PassInv, ScheduleInv
    <3> QED
      BY <1>1, <1>2, <1>3, <1>4, <2>2, <3>3, <3>4, <3>5 DEF PassInv, Profiled, Tells
  <2> QED
    BY <2>1, <2>2
<1>7. FileTells'
  BY <1>1 DEF PassInv, FileTells, Tells
<1>8. Injects' /\ SecondPassTakes'
  <2>1. mode = "injection" => profile' = profile
    BY DEF HostWorkEnd
  <2>2. Injects'
    BY <1>1, <1>2, <1>3, <2>1 DEF PassInv, Injects
  <2>3. SecondPassTakes'
    BY <1>1, <1>2 DEF PassInv, SecondPassTakes
  <2> QED
    BY <2>2, <2>3
<1> QED
  BY <1>5, <1>6, <1>7, <1>8

\* A launch, or one that fails, changes what the first pass knows of the kernel alone.
LEMMA TimingPass ==
  ASSUME PassInv, NEW r \in Regions, NEW t \in Timings, mode = "profiling", stage[r] = "ended",
         profile' = [profile EXCEPT ![r].timing = t] \/ (profile' = profile /\ t.total = kernel[r]),
         kernel' = [kernel EXCEPT ![r] = t.total], UNCHANGED <<mode, file, stage, work>>
  PROVE  OneOpen' /\ Profiled' /\ FileTells' /\ Injects' /\ SecondPassTakes'
<1>1. r \in 1..Len(profile) /\ PassType
  BY OpenHasEntry DEF PassInv, ScheduleInv
<1>2. kernel'[r] = t.total /\ \A q \in Regions : q # r => kernel'[q] = kernel[q]
  BY <1>1 DEF PassType
<1>3. \A q \in Regions : q # r => stage[q] \in {"todo", "done"}
  BY OnlyOpen DEF PassInv, Open
<1>4. /\ profile' \in Seq(Entries) /\ Len(profile') = Len(profile)
      /\ profile'[r].host = profile[r].host /\ profile'[r].timing.total = t.total
      /\ \A q \in 1..Len(profile) : q # r => profile'[q] = profile[q]
  <2>1. CASE profile' = [profile EXCEPT ![r].timing = t]
    BY <1>1, <2>1, ProfileStep
  <2>2. CASE profile' = profile /\ t.total = kernel[r]
    BY <1>1, <2>2, EntryDomain DEF PassInv, Profiled, PassType
  <2> QED
    BY <2>1, <2>2
<1>5. DOMAIN profile' = DOMAIN profile /\ DOMAIN profile = 1..Len(profile)
  BY <1>1, <1>4, EntryDomain
<1>6. \A q \in Regions : stage[q] = "done" => q \in 1..Len(profile)
  BY <1>1, OpenHasEntry DEF PassInv, ScheduleInv
<1>7. Profiled'
  BY <1>1, <1>2, <1>3, <1>4, <1>5, <1>6 DEF PassInv, Profiled, Tells
<1>8. OneOpen' /\ FileTells'
  BY DEF PassInv, OneOpen, Open, FileTells
<1>9. Injects' /\ SecondPassTakes'
  BY DEF Injects, SecondPassTakes
<1> QED
  BY <1>7, <1>8, <1>9

LEMMA LaunchPass ==
  ASSUME Orderly, PassInv, NEW r \in Regions, NEW k \in Kernels, LaunchKernel(r, k)
  PROVE  OneOpen' /\ Profiled' /\ FileTells' /\ Injects' /\ SecondPassTakes'
<1>1. /\ mode = "profiling" /\ stage[r] = "ended" /\ profile' = [profile EXCEPT ![r].timing = Timing(k)]
      /\ kernel' = [kernel EXCEPT ![r] = Timing(k).total] /\ UNCHANGED <<mode, file, stage, work>>
  BY DEF Orderly, LaunchKernel, LaunchPoint
<1>2. Timing(k) \in Timings
  BY TimingNat DEF PassInv, ScheduleInv
<1> QED
  BY <1>1, <1>2, TimingPass

LEMMA FailPass ==
  ASSUME Orderly, PassInv, NEW r \in Regions, LaunchKernelFails(r)
  PROVE  OneOpen' /\ Profiled' /\ FileTells' /\ Injects' /\ SecondPassTakes'
<1>1. /\ mode = "profiling" /\ stage[r] = "ended" /\ kernel[r] = 0
      /\ profile' = profile \/ profile' = [profile EXCEPT ![r].timing = NoTiming]
      /\ UNCHANGED <<mode, file, stage, kernel, work>>
  BY DEF Orderly, LaunchKernelFails, LaunchPoint
<1>2. NoTiming \in Timings /\ NoTiming.total = 0
  BY BlankEntry DEF NoTiming
<1>3. kernel' = [kernel EXCEPT ![r] = NoTiming.total]
  BY <1>1, <1>2 DEF PassInv, ScheduleInv, PassType
<1> QED
  BY <1>1, <1>2, <1>3, TimingPass

LEMMA SyncPass ==
  ASSUME BatchFits, PassInv, NEW r \in Regions, SyncPoint(r)
  PROVE  OneOpen' /\ Profiled' /\ FileTells' /\ Injects' /\ SecondPassTakes'
<1>1. mode = "profiling" /\ stage[r] = "ended" /\ Goes(r, "done") /\ UNCHANGED <<mode, file, kernel, work>>
  BY DEF SyncPoint
<1>2. stage'[r] = "done" /\ \A q \in Regions : q # r => stage'[q] = stage[q]
  BY <1>1, StageGoes DEF PassInv, ScheduleInv
<1>3. \A q \in Regions : q # r => stage[q] \in {"todo", "done"}
  BY <1>1, OnlyOpen DEF PassInv, Open
<1>4. r \in 1..Len(profile) /\ PassType
  BY <1>1, OpenHasEntry DEF PassInv, ScheduleInv
<1>5. /\ profile' \in Seq(Entries) /\ Len(profile') = Len(profile)
      /\ profile'[r].host = profile[r].host /\ profile'[r].timing = profile[r].timing
      /\ profile'[r].delay = profile[r].timing.total - profile[r].host
      /\ profile'[r].hidden = (profile[r].host >= profile[r].timing.total) /\ profile'[r].knobs.depth >= 1
      /\ \A q \in 1..Len(profile) : q # r => profile'[q] = profile[q]
  BY <1>4, SyncEffect
<1>6. profile[r].host = work[r] /\ profile[r].timing.total = kernel[r]
  BY <1>1, <1>4, EntryDomain DEF PassInv, Profiled
<1>7. Tells(profile'[r], r)
  BY <1>1, <1>5, <1>6 DEF Tells
<1>8. DOMAIN profile' = DOMAIN profile /\ DOMAIN profile = 1..Len(profile)
  BY <1>4, <1>5, EntryDomain
<1>9. \A q \in Regions : stage[q] = "done" => q \in 1..Len(profile)
  BY <1>4, OpenHasEntry DEF PassInv, ScheduleInv
<1>10. \A q \in Regions : q # r /\ stage[q] = "done" => Tells(profile'[q], q)
  BY <1>1, <1>5, <1>9 DEF PassInv, Profiled, Tells
<1>11. Profiled'
  BY <1>1, <1>2, <1>3, <1>5, <1>6, <1>7, <1>8, <1>9, <1>10 DEF PassInv, Profiled, Tells
<1>12. OneOpen' /\ FileTells'
  BY <1>1, <1>2, <1>3 DEF PassInv, OneOpen, Open, FileTells
<1>13. Injects' /\ SecondPassTakes'
  BY <1>1 DEF Injects, SecondPassTakes
<1> QED
  BY <1>11, <1>12, <1>13

\* What a synchronisation point of the second pass may do: wait as long as the entry of
\* its region says.
LEMMA InjectPass ==
  ASSUME PassInv, NEW r \in Regions, mode = "injection", stage[r] = "ended",
         NEW d \in Nat, d = Injected(profile[r].delay), Passes(d), Goes(r, "done"),
         UNCHANGED <<mode, profile, file, kernel, work>>
  PROVE  OneOpen' /\ Profiled' /\ FileTells' /\ Injects' /\ SecondPassTakes'
<1>1. stage'[r] = "done" /\ \A q \in Regions : q # r => stage'[q] = stage[q]
  BY StageGoes DEF PassInv, ScheduleInv
<1>2. \A q \in Regions : q # r => stage[q] \in {"todo", "done"}
  BY OnlyOpen DEF PassInv, Open
<1>3. r \in 1..Len(profile) /\ PassType
  BY OpenHasEntry DEF PassInv, ScheduleInv
<1>4. took'[r] = took[r] + d /\ \A q \in Regions : q # r => took'[q] = took[q]
  BY <1>2, <1>3, PassesEffect
<1>5. took[r] = work[r] /\ profile[r].delay = kernel[r] - work[r]
  BY <1>3 DEF PassInv, Injects
<1>6. work[r] \in Nat /\ kernel[r] \in Nat
  BY <1>3 DEF PassType
<1>7. LET due == Longer(work[r], kernel[r]) IN took'[r] <= due /\ took'[r] > due - Tick
  <2>1. Tick \in Nat \ {0}
    BY LimitsOK
  <2>2. /\ kernel[r] - work[r] <= 0 => d = 0
        /\ kernel[r] - work[r] > 0 => d <= kernel[r] - work[r] /\ d > kernel[r] - work[r] - Tick
    BY <1>5, <1>6, InjectedNat
  <2> QED
    BY <1>4, <1>5, <1>6, <2>1, <2>2 DEF Longer
<1>8. SecondPassTakes'
  BY <1>1, <1>4, <1>7 DEF PassInv, SecondPassTakes
<1>9. Injects'
  BY <1>1, <1>2, <1>4 DEF PassInv, Injects
<1>10. OneOpen' /\ Profiled' /\ FileTells'
  BY <1>1, <1>2 DEF PassInv, OneOpen, Open, Profiled, FileTells, Tells
<1> QED
  BY <1>8, <1>9, <1>10

LEMMA SyncInjectsPass ==
  ASSUME PassInv, NEW r \in Regions, SyncPointInjects(r)
  PROVE  OneOpen' /\ Profiled' /\ FileTells' /\ Injects' /\ SecondPassTakes'
<1>1. /\ mode = "injection" /\ stage[r] = "ended" /\ Passes(Injected(profile[r].delay)) /\ Goes(r, "done")
      /\ UNCHANGED <<mode, profile, file, kernel, work>>
  BY DEF SyncPointInjects
<1>2. profile[r] \in Entries
  BY <1>1, OpenHasEntry DEF PassInv, ScheduleInv, PassType
<1>3. profile[r].delay \in Int
  BY <1>2 DEF Entries
<1>4. Injected(profile[r].delay) \in Nat
  BY <1>3, InjectedNat
<1> QED
  BY <1>1, <1>4, InjectPass

LEMMA PassStep ==
  ASSUME BatchFits, Orderly, PassInv, [TwoPassNext]_passVars
  PROVE  PassInv'
<1>1. ScheduleInv'
  BY ScheduleStep DEF PassInv
<1>2. CASE SetProfiling \/ RegisterRegion \/ SetInjection \/ Exit
  BY <1>1, <1>2, SetProfilingPass, RegisterPass, SetInjectionPass, ExitPass DEF PassInv
<1>3. ASSUME NEW l \in Latencies, SetMemoryLatency(l) \/ Observe(l, Min(Latencies)) PROVE PassInv'
  <2>1. UNCHANGED <<mode, profile, since, file, stage, took, kernel, work>>
    BY <1>3 DEF SetMemoryLatency, Observe, appVars
  <2> QED
    BY <1>1, <2>1 DEF PassInv, OneOpen, Open, Profiled, FileTells, Tells, Injects, SecondPassTakes
<1>4. ASSUME NEW n \in 0..NRegions, SaveProfile(n) PROVE PassInv'
  BY <1>1, <1>4, SavePass DEF PassInv
<1>5. ASSUME NEW r \in Regions,
             HostWorkStart(r) \/ Work(r) \/ HostWorkEnd(r) \/ LaunchKernelFails(r) \/ SyncPoint(r) \/ SyncPointInjects(r)
      PROVE  PassInv'
  BY <1>1, <1>5, StartPass, WorkPass, EndPass, FailPass, SyncPass, SyncInjectsPass DEF PassInv
<1>6. ASSUME NEW r \in Regions, NEW k \in Kernels, LaunchKernel(r, k) PROVE PassInv'
  BY <1>1, <1>6, LaunchPass DEF PassInv
<1>7. CASE UNCHANGED passVars
  BY <1>1, <1>7 DEF passVars, appVars, PassInv, OneOpen, Open, Profiled, FileTells, Tells, Injects, SecondPassTakes
<1> QED
  BY <1>2, <1>3, <1>4, <1>5, <1>6, <1>7 DEF TwoPassNext

LEMMA PassStart == TwoPassInit => PassInv
<1> SUFFICES ASSUME TwoPassInit PROVE PassInv
  OBVIOUS
<1>1. \A r \in Regions : stage[r] = "todo"
  BY DEF TwoPassInit
<1>2. mode = "disabled" /\ ~file.there
  BY DEF TwoPassInit, NoFile
<1> QED
  BY <1>1, <1>2, ScheduleStart DEF PassInv, OneOpen, Open, Profiled, FileTells, Injects, SecondPassTakes

\* In the second pass a region takes as long as its work and its kernel side by side,
\* whatever the durations and however often the two passes are repeated, where the
\* application runs one region at a time and launches the kernel after its work
\* (sync_point, save_profile, load_profile).
THEOREM SecondPassIsDue == ASSUME BatchFits, Orderly PROVE TwoPassSpec => []SecondPassTakes
<1>1. TwoPassInit => PassInv
  BY PassStart
<1>2. PassInv /\ [TwoPassNext]_passVars => PassInv'
  BY PassStep
<1>3. PassInv => SecondPassTakes
  BY DEF PassInv
<1> QED
  BY <1>1, <1>2, <1>3, PTL DEF TwoPassSpec

-----------------------------------------------------------------------------
(* The program that is compiled between the passes *)

\* A step of the two processes and of the passes between them is one of the two
\* processes or one of the passes.
LEMMA BuildSteps ==
  ASSUME [BuildNext]_<<passVars, buildVars>>
  PROVE  \/ [TwoPassNext]_passVars /\ UNCHANGED <<buildVars, file>>
         \/ \E n \in 0..NRegions : Measured(n)
         \/ Annotate \/ OptimizePrefetch \/ InjectTimingCalls
<1>1. CASE UNCHANGED <<passVars, buildVars>>
  BY <1>1 DEF passVars
<1>2. CASE Runs /\ UNCHANGED buildVars
  <2>1. Runs => UNCHANGED file
    BY DEF Runs, SetProfiling, RegisterRegion, Exit, SetInjection, SetMemoryLatency, Observe, HostWorkStart,
      Work, HostWorkEnd, LaunchKernelFails, SyncPoint, SyncPointInjects, LaunchKernel
  <2>2. Runs => TwoPassNext
    BY DEF Runs, TwoPassNext
  <2> QED
    BY <1>2, <2>1, <2>2
<1> QED
  BY <1>1, <1>2 DEF BuildNext

LEMMA PassesStutter ==
  ASSUME Annotate \/ OptimizePrefetch \/ InjectTimingCalls
  PROVE  UNCHANGED passVars
BY DEF Annotate, OptimizePrefetch, InjectTimingCalls

LEMMA MeasuredSaves ==
  ASSUME NEW n \in 0..NRegions, Measured(n)
  PROVE  TwoPassNext
BY DEF Measured, TwoPassNext

LEMMA BuildScheduleStep ==
  ASSUME BatchFits, ScheduleInv, [BuildNext]_<<passVars, buildVars>>
  PROVE  ScheduleInv'
<1>1. ASSUME [TwoPassNext]_passVars PROVE ScheduleInv'
  BY <1>1, ScheduleStep
<1> QED
  BY <1>1, BuildSteps, PassesStutter, MeasuredSaves

\* The same of the program as it is compiled between the passes, whatever the passes
\* make of the module.
THEOREM SchedulesSound == ASSUME BatchFits PROVE BuildSpec => []ScheduleSound
<1>1. BuildInit => ScheduleInv
  BY ScheduleStart DEF BuildInit
<1>2. ScheduleInv /\ [BuildNext]_<<passVars, buildVars>> => ScheduleInv'
  BY BuildScheduleStep
<1>3. ScheduleInv => ScheduleSound
  BY ScheduleMeans
<1> QED
  BY <1>1, <1>2, <1>3, PTL DEF BuildSpec

-----------------------------------------------------------------------------
(* What the passes leave in the module *)

\* Every region that was registered is in the module, and in its function it follows
\* those that were registered before it and no others; a new profile is compiled from
\* the source.
Operations == [name : Int, func : STRING, kind : {"region", "legacy"}, loop : STRING, depth : Int]
Numbered ==
  /\ Rebuilds
  /\ \A m \in Modules :
       /\ m \in Seq(Operations)
       /\ \A r \in Regions : \E k \in DOMAIN m : m[k].name = r /\ m[k].kind = "region"
       /\ \A k \in DOMAIN m : m[k].kind = "region" /\ m[k].name \in Regions =>
            Cardinality({j \in 1..k-1 : /\ m[j].func = m[k].func /\ m[j].kind = "region"
                                        /\ m[j].name \in Regions}) = m[k].name - 1

NoteType == [delay : Int, hidden : BOOLEAN, depth : Int]
Builds == [name : Int, func : STRING, kind : {"region", "legacy"}, loop : STRING, depth : Int,
           note : NoteType, hidden : BOOLEAN, id : Int, boundary : BOOLEAN]

\* What the file says of an operation of that name.
NoteOf(name) ==
  IF name \in Regions
  THEN [delay |-> file.regions[name].delay, hidden |-> file.regions[name].hidden,
        depth |-> file.regions[name].knobs.pipe]
  ELSE NoNote

\* Has an operation something to wait for, and its number once the boundaries are in.
Due(b) == b.kind # "legacy" /\ b.name \in Regions /\ ~file.regions[b.name].hidden
IdOf(b) == IF Due(b) THEN b.name - 1 ELSE -1

\* What the passes have attached to an operation so far.
Carries(k) ==
  LET b == built[k] IN
  /\ b.name = source[k].name /\ b.func = source[k].func /\ b.kind = source[k].kind
  /\ pass = "source" => b.note = NoNote
  /\ pass \in {"annotated", "optimized", "called"} => b.note = NoteOf(b.name)
  /\ pass # "called" => b.id = -1 /\ b.boundary = FALSE
  /\ pass = "called" => b.id = IdOf(b) /\ b.boundary = Due(b)

BuildOK ==
  /\ source \in Modules /\ built \in Seq(Builds) /\ Len(built) = Len(source)
  /\ pass \in {"source", "annotated", "optimized", "called", "failed"}
  /\ pass \in {"annotated", "optimized", "called"} => file.there
  /\ \A k \in 1..Len(source) : Carries(k)

BuildInv == PassInv /\ BuildOK

LEMMA SourceOps ==
  ASSUME Numbered, source \in Modules
  PROVE  source \in Seq(Operations) /\ DOMAIN source = 1..Len(source) /\ Len(source) \in Nat
BY DEF Numbered

LEMMA FileEntries ==
  ASSUME PassInv, file.there
  PROVE  /\ file.num = NRegions /\ Len(file.regions) = NRegions /\ DOMAIN file.regions = Regions
         /\ \A r \in Regions : file.regions[r] \in Entries
<1>1. file.num = NRegions /\ Len(file.regions) = NRegions
  BY DEF PassInv, FileTells
<1>2. file.regions \in Seq(Entries) /\ NRegions \in Nat
  BY DurationsNat DEF PassInv, ScheduleInv, PassType
<1> QED
  BY <1>1, <1>2 DEF Regions

\* An operation carries a note exactly when it is a region of the profile.
LEMMA NoteOfType ==
  ASSUME PassInv, file.there, NEW name
  PROVE  NoteOf(name) \in NoteType /\ (NoteOf(name) # NoNote <=> name \in Regions)
<1>1. NoNote \in NoteType /\ NoNote.depth = -1
  BY DEF NoNote, NoteType
<1>2. CASE name \in Regions
  <2>1. file.regions[name] \in Entries
    BY <1>2, FileEntries
  <2>2. /\ file.regions[name].delay \in Int /\ file.regions[name].hidden \in BOOLEAN
        /\ file.regions[name].knobs.pipe \in Nat
    BY <2>1 DEF Entries, Knobs
  <2> DEFINE d == file.regions[name].delay  h == file.regions[name].hidden  e == file.regions[name].knobs.pipe
  <2>3. NoteOf(name) = [delay |-> d, hidden |-> h, depth |-> e]
    BY <1>2 DEF NoteOf
  <2>4. d \in Int /\ h \in BOOLEAN /\ e \in Int /\ e # -1
    BY <2>2
  <2> HIDE DEF d, h, e
  <2>5. NoteOf(name) \in NoteType /\ NoteOf(name).depth = e
    BY <2>3, <2>4 DEF NoteType
  <2> QED
    BY <1>1, <1>2, <2>4, <2>5
<1>3. CASE name \notin Regions
  BY <1>1, <1>3 DEF NoteOf
<1> QED
  BY <1>2, <1>3

\* The module as it is in the source.
LEMMA RawOps ==
  ASSUME NEW m \in Seq(Operations)
  PROVE  /\ Raw(m) \in Seq(Builds) /\ Len(Raw(m)) = Len(m)
         /\ \A k \in 1..Len(m) : /\ Raw(m)[k].name = m[k].name /\ Raw(m)[k].func = m[k].func
                                 /\ Raw(m)[k].kind = m[k].kind /\ Raw(m)[k].note = NoNote
                                 /\ Raw(m)[k].id = -1 /\ Raw(m)[k].boundary = FALSE
<1> DEFINE op(k) == [name |-> m[k].name, func |-> m[k].func, kind |-> m[k].kind, loop |-> m[k].loop,
                     depth |-> m[k].depth, note |-> NoNote, hidden |-> FALSE, id |-> -1,
                     boundary |-> FALSE]
<1>1. NoNote \in NoteType
  BY DEF NoNote, NoteType
<1>2. ASSUME NEW k \in 1..Len(m)
      PROVE  /\ op(k) \in Builds /\ op(k).name = m[k].name /\ op(k).func = m[k].func
             /\ op(k).kind = m[k].kind /\ op(k).note = NoNote /\ op(k).id = -1 /\ op(k).boundary = FALSE
  <2>1. m[k] \in Operations
    OBVIOUS
  <2> QED
    BY <1>1, <2>1 DEF Operations, Builds
<1>3. Raw(m) = [k \in 1..Len(m) |-> op(k)]
  BY DEF Raw
<1> HIDE DEF op
<1>4. Len(m) \in Nat
  OBVIOUS
<1>5. Raw(m) \in Seq(Builds) /\ Len(Raw(m)) = Len(m)
  <2>1. \A k \in 1..Len(m) : op(k) \in Builds
    BY <1>2
  <2>2. Raw(m) \in [1..Len(m) -> Builds]
    BY <1>3, <2>1
  <2> QED
    BY <1>4, <2>2
<1>6. \A k \in 1..Len(m) : Raw(m)[k] = op(k)
  BY <1>3
<1> QED
  BY <1>2, <1>5, <1>6

\* An operation under the passes keeps its place: only its note, its marks and its number change.
SameOp(a, b) == a \in Builds /\ a.name = b.name /\ a.func = b.func /\ a.kind = b.kind

LEMMA AnnotatedMeans ==
  ASSUME PassInv, file.there, NEW b \in Builds, b.note = NoNote
  PROVE  LET a == Annotated(b)
         IN  SameOp(a, b) /\ a.note = NoteOf(b.name) /\ a.id = b.id /\ a.boundary = b.boundary
<1>1. DOMAIN file.regions = Regions
  BY FileEntries
<1>2. CASE b.name \notin Regions
  BY <1>1, <1>2 DEF Annotated, NoteOf, SameOp
<1>3. CASE b.name \in Regions
  <2> DEFINE p == file.regions[b.name]
             d == IF b.kind = "region" /\ b.depth > 0 THEN p.knobs.pipe ELSE b.depth
  <2>1. Annotated(b) = [b EXCEPT !.note = NoteOf(b.name), !.depth = d]
    BY <1>1, <1>3 DEF Annotated, NoteOf
  <2>2. d \in Int
    <3>1. p \in Entries
      BY <1>3, FileEntries
    <3> QED
      BY <3>1 DEF Entries, Knobs, Builds
  <2>3. NoteOf(b.name) \in NoteType
    BY NoteOfType
  <2> DEFINE n == NoteOf(b.name)
  <2> HIDE DEF d, p, n
  <2>4. Annotated(b) = [b EXCEPT !.note = n, !.depth = d] /\ n \in NoteType
    BY <2>1, <2>3 DEF n
  <2>5. /\ SameOp(Annotated(b), b) /\ Annotated(b).note = n /\ Annotated(b).id = b.id
        /\ Annotated(b).boundary = b.boundary
    BY <2>2, <2>4 DEF Builds, SameOp
  <2> QED
    BY <2>5 DEF n
<1> QED
  BY <1>2, <1>3

LEMMA AnnotateBuild ==
  ASSUME Numbered, BuildInv, Annotate
  PROVE  BuildOK'
<1>1. /\ file.there /\ pass = "source" /\ UNCHANGED <<passVars, source>>
      /\ IF Loads
         THEN pass' = "annotated" /\ built' = [k \in DOMAIN built |-> Annotated(built[k])]
         ELSE pass' = "failed" /\ UNCHANGED built
  BY DEF Annotate
<1>2. /\ source \in Modules /\ built \in Seq(Builds) /\ Len(built) = Len(source)
      /\ \A k \in 1..Len(source) : Carries(k)
  BY DEF BuildInv, BuildOK
<1>3. UNCHANGED file
  BY <1>1 DEF passVars
<1>4. CASE Loads
  <2>1. built' = [k \in 1..Len(source) |-> Annotated(built[k])] /\ pass' = "annotated"
    BY <1>1, <1>2, <1>4
  <2>2. ASSUME NEW k \in 1..Len(source) PROVE Annotated(built[k]) \in Builds /\ Carries(k)'
    <3>1. /\ built[k] \in Builds /\ built[k].note = NoNote /\ built[k].id = -1 /\ built[k].boundary = FALSE
          /\ built[k].name = source[k].name /\ built[k].func = source[k].func /\ built[k].kind = source[k].kind
      BY <1>1, <1>2 DEF Carries
    <3> DEFINE a == Annotated(built[k])
    <3>2. /\ SameOp(a, built[k]) /\ a.note = NoteOf(built[k].name) /\ a.id = built[k].id
          /\ a.boundary = built[k].boundary
      BY <1>1, <3>1, AnnotatedMeans DEF BuildInv
    <3>3. built'[k] = a
      BY <2>1
    <3>4. Annotated(built[k]) \in Builds
      BY <3>2 DEF SameOp
    <3> HIDE DEF a
    <3>5. Carries(k)'
      BY <1>1, <1>3, <2>1, <3>1, <3>2, <3>3 DEF Carries, NoteOf, SameOp
    <3> QED
      BY <3>4, <3>5
  <2>3. built' \in Seq(Builds) /\ Len(built') = Len(source)
    BY <1>2, <2>1, <2>2
  <2> QED
    BY <1>1, <1>2, <1>3, <2>1, <2>2, <2>3 DEF BuildOK
<1>5. CASE ~Loads
  BY <1>1, <1>2, <1>5 DEF BuildOK, Carries
<1> QED
  BY <1>4, <1>5

LEMMA OptimizeBuild ==
  ASSUME Numbered, BuildInv, OptimizePrefetch
  PROVE  BuildOK'
<1>1. pass = "annotated" /\ pass' = "optimized" /\ UNCHANGED <<passVars, source>>
  BY DEF OptimizePrefetch
<1>2. /\ source \in Modules /\ built \in Seq(Builds) /\ Len(built) = Len(source) /\ file.there
      /\ \A k \in 1..Len(source) : Carries(k)
  BY <1>1 DEF BuildInv, BuildOK
<1>3. UNCHANGED file
  BY <1>1 DEF passVars
<1> DEFINE opt(b) ==
      IF ~Noted(b) \/ b.kind = "legacy" THEN b
      ELSE [b EXCEPT !.hidden = b.loop = "for" /\ b.note.delay <= 0,
                     !.depth = IF b.loop = "while" /\ @ > 0 THEN b.note.depth ELSE @]
<1>4. built' = [k \in 1..Len(source) |-> opt(built[k])]
  <2>1. built' = [k \in DOMAIN built |-> opt(built[k])]
    BY DEF OptimizePrefetch
  <2>2. DOMAIN built = 1..Len(source)
    BY <1>2
  <2> HIDE DEF opt
  <2> QED
    BY <2>1, <2>2
<1>5. ASSUME NEW b \in Builds
      PROVE  SameOp(opt(b), b) /\ opt(b).note = b.note /\ opt(b).id = b.id /\ opt(b).boundary = b.boundary
  <2> DEFINE h == b.loop = "for" /\ b.note.delay <= 0
             d == IF b.loop = "while" /\ b.depth > 0 THEN b.note.depth ELSE b.depth
  <2>1. h \in BOOLEAN /\ d \in Int
    BY DEF Builds, NoteType
  <2>2. opt(b) = b \/ opt(b) = [b EXCEPT !.hidden = h, !.depth = d]
    OBVIOUS
  <2> HIDE DEF h, d, opt
  <2>3. CASE opt(b) = b
    BY <2>3 DEF SameOp
  <2>4. CASE opt(b) = [b EXCEPT !.hidden = h, !.depth = d]
    BY <2>1, <2>4 DEF Builds, SameOp
  <2> QED
    BY <2>2, <2>3, <2>4
<1> HIDE DEF opt
<1>6. ASSUME NEW k \in 1..Len(source) PROVE opt(built[k]) \in Builds /\ Carries(k)'
  <2>1. built[k] \in Builds /\ built'[k] = opt(built[k])
    BY <1>2, <1>4
  <2>2. Carries(k)
    BY <1>2
  <2> QED
    BY <1>1, <1>3, <1>5, <2>1, <2>2 DEF Carries, NoteOf, SameOp
<1>7. built' \in Seq(Builds) /\ Len(built') = Len(source)
  BY <1>2, <1>4, <1>6
<1> QED
  BY <1>1, <1>2, <1>3, <1>6, <1>7 DEF BuildOK

\* A region is given the number under which it was registered.
LEMMA NumberIs ==
  ASSUME Numbered, BuildInv, pass = "optimized", NEW k \in 1..Len(source),
         built[k].kind = "region", built[k].name \in Regions
  PROVE  Number(k) = built[k].name - 1
<1>1. /\ source \in Modules /\ file.there /\ \A j \in 1..Len(source) : Carries(j)
  BY DEF BuildInv, BuildOK
<1>2. \A j \in 1..Len(source) :
        /\ built[j].name = source[j].name /\ built[j].func = source[j].func /\ built[j].kind = source[j].kind
        /\ Noted(built[j]) <=> source[j].name \in Regions
  BY <1>1, NoteOfType DEF Carries, Noted, BuildInv
<1>3. 1..k-1 \subseteq 1..Len(source) /\ DOMAIN source = 1..Len(source)
  BY <1>1, SourceOps
<1> DEFINE before == {j \in 1..k-1 : /\ built[j].func = built[k].func /\ built[j].kind = "region" /\ Noted(built[j])}
           registered == {j \in 1..k-1 : /\ source[j].func = source[k].func /\ source[j].kind = "region"
                                         /\ source[j].name \in Regions}
<1>4. before = registered
  BY <1>2, <1>3
<1>5. Cardinality(registered) = source[k].name - 1
  <2>1. k \in DOMAIN source /\ source[k].kind = "region" /\ source[k].name \in Regions
    BY <1>2, <1>3
  <2> QED
    BY <1>1, <2>1 DEF Numbered
<1> QED
  BY <1>2, <1>4, <1>5 DEF Number

LEMMA InjectBuild ==
  ASSUME Numbered, BuildInv, InjectTimingCalls
  PROVE  BuildOK'
<1>1. pass = "optimized" /\ pass' = "called" /\ UNCHANGED <<passVars, source>>
  BY DEF InjectTimingCalls
<1>2. /\ source \in Modules /\ built \in Seq(Builds) /\ Len(built) = Len(source) /\ file.there
      /\ \A k \in 1..Len(source) : Carries(k)
  BY <1>1 DEF BuildInv, BuildOK
<1>3. UNCHANGED file
  BY <1>1 DEF passVars
<1> DEFINE silent(b) == b.kind = "legacy" \/ ~Noted(b) \/ b.note.hidden
<1>4. built' = [k \in 1..Len(source) |-> IF silent(built[k]) THEN built[k]
                                                ELSE [built[k] EXCEPT !.id = Number(k), !.boundary = TRUE]]
  <2>1. DOMAIN built = 1..Len(source)
    BY <1>2
  <2> QED
    BY <2>1 DEF InjectTimingCalls
<1>5. ASSUME NEW k \in 1..Len(source) PROVE built'[k] \in Builds /\ Carries(k)'
  <2>1. /\ built[k] \in Builds /\ built[k].note = NoteOf(built[k].name)
        /\ built[k].id = -1 /\ built[k].boundary = FALSE
        /\ built[k].name = source[k].name /\ built[k].func = source[k].func /\ built[k].kind = source[k].kind
    BY <1>1, <1>2 DEF Carries
  <2>2. built[k].kind \in {"region", "legacy"} /\ built[k].name \in Int
    BY <2>1 DEF Builds
  <2>3. Noted(built[k]) <=> built[k].name \in Regions
    BY <1>2, <2>1, NoteOfType DEF Noted, BuildInv
  <2>4. silent(built[k]) <=> ~Due(built[k])
    BY <2>1, <2>3 DEF NoteOf, Due
  <2>5. CASE silent(built[k])
    <3>1. built'[k] = built[k]
      BY <1>4, <2>5
    <3> QED
      BY <1>1, <1>3, <2>1, <2>4, <2>5, <3>1 DEF Carries, NoteOf, IdOf, Due
  <2>6. CASE ~silent(built[k])
    <3>1. Number(k) = built[k].name - 1
      BY <1>1, <2>2, <2>4, <2>6, NumberIs DEF Due
    <3> DEFINE a == [built[k] EXCEPT !.id = built[k].name - 1, !.boundary = TRUE]
    <3>2. built'[k] = a
      BY <1>4, <2>6, <3>1
    <3>3. SameOp(a, built[k]) /\ a.note = built[k].note /\ a.id = built[k].name - 1 /\ a.boundary = TRUE
      <4> DEFINE i == built[k].name - 1
      <4>1. i \in Int
        BY <2>2
      <4> HIDE DEF i
      <4>2. LET c == [built[k] EXCEPT !.id = i, !.boundary = TRUE]
            IN  SameOp(c, built[k]) /\ c.note = built[k].note /\ c.id = i /\ c.boundary = TRUE
        BY <2>1, <4>1 DEF Builds, SameOp
      <4> QED
        BY <4>2 DEF i
    <3> HIDE DEF a
    <3> QED
      BY <1>1, <1>3, <2>1, <2>4, <2>6, <3>2, <3>3 DEF Carries, NoteOf, IdOf, Due, SameOp
  <2> QED
    BY <2>5, <2>6
<1>6. built' \in Seq(Builds) /\ Len(built') = Len(source)
  <2> DEFINE op(k) == IF silent(built[k]) THEN built[k] ELSE [built[k] EXCEPT !.id = Number(k), !.boundary = TRUE]
  <2>1. built' = [k \in 1..Len(source) |-> op(k)]
    BY <1>4
  <2> HIDE DEF op
  <2>2. \A k \in 1..Len(source) : op(k) \in Builds
    BY <1>5, <2>1
  <2>3. Len(source) \in Nat
    BY <1>2, SourceOps
  <2> QED
    BY <2>1, <2>2, <2>3
<1> QED
  BY <1>1, <1>2, <1>3, <1>5, <1>6 DEF BuildOK

LEMMA BuildKeeps ==
  ASSUME BuildOK, UNCHANGED <<buildVars, file>>
  PROVE  BuildOK'
BY DEF buildVars, BuildOK, Carries, NoteOf, IdOf, Due

\* What is measured anew is compiled from the source.
LEMMA MeasuredBuild ==
  ASSUME Numbered, BuildInv, NEW n \in 0..NRegions, Measured(n)
  PROVE  BuildOK'
<1>1. built' = Raw(source) /\ pass' = "source" /\ source' = source
  BY DEF Measured, Numbered
<1>2. source \in Modules /\ source \in Seq(Operations)
  BY SourceOps DEF BuildInv, BuildOK
<1> QED
  BY <1>1, <1>2, RawOps DEF BuildOK, Carries

LEMMA BuildStep ==
  ASSUME BatchFits, Orderly, Numbered, BuildInv, [BuildNext]_<<passVars, buildVars>>
  PROVE  BuildInv'
<1>1. ASSUME [TwoPassNext]_passVars PROVE PassInv'
  BY <1>1, PassStep DEF BuildInv
<1>2. CASE [TwoPassNext]_passVars /\ UNCHANGED <<buildVars, file>>
  BY <1>1, <1>2, BuildKeeps DEF BuildInv
<1>3. ASSUME NEW n \in 0..NRegions, Measured(n) PROVE BuildInv'
  BY <1>1, <1>3, MeasuredSaves, MeasuredBuild DEF BuildInv
<1>4. CASE Annotate \/ OptimizePrefetch \/ InjectTimingCalls
  BY <1>1, <1>4, PassesStutter, AnnotateBuild, OptimizeBuild, InjectBuild DEF BuildInv
<1> QED
  BY <1>2, <1>3, <1>4, BuildSteps

LEMMA BuildStart == ASSUME Numbered, BuildInit PROVE BuildInv
<1>1. PassInv
  BY PassStart DEF BuildInit
<1>2. source \in Modules /\ built = Raw(source) /\ pass = "source" /\ source \in Seq(Operations)
  BY SourceOps DEF BuildInit
<1> QED
  BY <1>1, <1>2, RawOps DEF BuildInv, BuildOK, Carries

\* Once the boundaries are in, a region has one where the second pass waits, and the
\* number the runtime knows it by.
LEMMA BoundariesOfModule ==
  ASSUME Numbered, BuildInv
  PROVE  BoundariesWhereDue
<1> SUFFICES ASSUME pass = "called", NEW b \in Range(built), b.kind = "region", b.name \in DOMAIN file.regions
             PROVE  /\ b.boundary = (file.regions[b.name].delay > 0)
                    /\ b.boundary => b.id = b.name - 1
  BY DEF BoundariesWhereDue
<1>1. /\ built \in Seq(Builds) /\ Len(built) = Len(source) /\ file.there /\ source \in Modules
      /\ \A k \in 1..Len(source) : Carries(k)
  BY DEF BuildInv, BuildOK
<1>2. PICK k \in 1..Len(source) : b = built[k]
  BY <1>1, SourceOps DEF Range
<1>3. b.id = IdOf(b) /\ b.boundary = Due(b)
  BY <1>1, <1>2 DEF Carries
<1>4. b.name \in Regions
  BY <1>1, FileEntries DEF BuildInv
<1>5. file.regions[b.name].hidden = (file.regions[b.name].delay <= 0)
  BY <1>1, <1>4 DEF BuildInv, PassInv, FileTells
<1>6. file.regions[b.name].delay \in Int
  <2>1. file.regions[b.name] \in Entries
    BY <1>1, <1>4, FileEntries DEF BuildInv
  <2> QED
    BY <2>1 DEF Entries
<1>7. file.regions[b.name].delay > 0 <=> ~(file.regions[b.name].delay <= 0)
  BY <1>6
<1>8. Due(b) <=> file.regions[b.name].delay > 0
  BY <1>4, <1>5, <1>7 DEF Due
<1>9. b.boundary = (file.regions[b.name].delay > 0)
  <2>1. b \in Builds
    BY <1>1, <1>2
  <2>2. b.boundary \in BOOLEAN
    BY <2>1 DEF Builds
  <2>3. b.boundary <=> file.regions[b.name].delay > 0
    BY <1>3, <1>8
  <2> QED
    BY <1>6, <2>2, <2>3
<1>10. b.boundary => b.id = b.name - 1
  BY <1>3 DEF IdOf
<1> QED
  BY <1>9, <1>10

\* What is compiled between the passes has a boundary behind exactly those measured regions
\* that the second pass waits for, under the runtime's own numbers, for every profile: where
\* a function holds its regions in the order they were registered (OptimizePrefetch,
\* InjectTimingCalls).
THEOREM BoundariesDue ==
  ASSUME BatchFits, Orderly, Numbered PROVE BuildSpec => []BoundariesWhereDue
<1>1. BuildInit => BuildInv
  BY BuildStart
<1>2. BuildInv /\ [BuildNext]_<<passVars, buildVars>> => BuildInv'
  BY BuildStep
<1>3. BuildInv => BoundariesWhereDue
  BY BoundariesOfModule
<1> QED
  BY <1>1, <1>2, <1>3, PTL DEF BuildSpec

-----------------------------------------------------------------------------
(* The JIT engine *)

USE BoundsOK

\* The windows there can be, and the specs an engine can be asked for: those of the
\* callers, with the knobs of a window in front if they are about the device.
WindowValues ==
  {<<>>} \cup {<<v>> : v \in [base : Bases \cup {FixedBase}, owned : BOOLEAN]}
CallerSpecs == UNION {Specs[e] : e \in Engines}
DeviceSpecs == {WithDevice(s, w) : s \in {u \in CallerSpecs : OnDevice(u)}, w \in WindowValues}
Asked == CallerSpecs \cup DeviceSpecs

IsSequence(q) == q \in Seq({q[i] : i \in DOMAIN q})

\* A spec that gives each knob once.
WellFormed(s) ==
  /\ s = [kernel |-> s.kernel, source |-> s.source, file |-> s.file, abi |-> s.abi,
          knobs |-> s.knobs]
  /\ s.source \in DOMAIN Versions /\ s.abi \in BOOLEAN /\ s # NoSpec
  /\ IsSequence(s.knobs)
  /\ \A i \in DOMAIN s.knobs :
       s.knobs[i] \in [name : {s.knobs[i].name}, float : BOOLEAN, value : Nat]
  /\ \A i, j \in DOMAIN s.knobs : s.knobs[i].name = s.knobs[j].name => i = j

\* What callers keep to: they give each knob once and leave those of the window to
\* the engine, their templates load its address if they are about the device,
\* and the symbols they define are not the runtime's.
CallersOK ==
  /\ Nobody \notin Threads /\ Symbols \cap Abi = {}
  /\ Bases \subseteq Nat /\ FixedBase \in Nat
  /\ \A src \in DOMAIN Versions : Versions[src] # <<>> /\ IsSequence(Versions[src])
  /\ \A s \in CallerSpecs : WellFormed(s)
  /\ \A s \in CallerSpecs : OnDevice(s) =>
       /\ {"base", "size", "func", "wait"} \cap Given(s) = {}
       /\ \A w \in WindowValues : OnDevice(WithDevice(s, w))
       /\ \A v \in DOMAIN Versions[s.source] : "base" \in Versions[s.source][v].knobs

AskedNext ==
  EngineStep \/ \E t \in Threads, e \in Engines : \E s \in Asked : Specialize(t, e, s)

Place == {"idle", "target", "initialise", "create", "ready"}

TypeOK ==
  /\ target \in {"none", "initialising", "ready"}
  /\ owner \in [Engines -> Threads \cup {Nobody}]
  /\ jit \in [Engines -> BOOLEAN] /\ resets \in [Engines -> Nat]
  /\ bound \in [Engines -> BOOLEAN] /\ defined \in [Engines -> SUBSET (Symbols \cup Abi)]
  /\ DOMAIN cache = Engines
  /\ disk \in [DOMAIN Versions -> Nat]
  /\ \A src \in DOMAIN Versions : disk[src] \in DOMAIN Versions[src]
  /\ pc \in [Threads -> [at : Place, engine : Engines \cup {Nobody},
                         spec : Asked \cup {NoSpec}, symbol : Symbols \cup {Nobody}]]
  /\ DOMAIN got = Threads /\ \A t \in Threads : got[t].fn \in BOOLEAN

\* The mutex is held from Enter to Leave; from "ready" on there is an LLJIT.
Locked ==
  \A t \in Threads : pc[t] # Idle =>
    /\ pc[t].engine \in Engines /\ owner[pc[t].engine] = t
    /\ pc[t].at # "idle" /\ (pc[t].at = "ready" => jit[pc[t].engine])

\* Code compiled for a spec, from a version of its template.
CodeOf(c, s) ==
  /\ c.source = s.source
  /\ \E v \in DOMAIN Versions[s.source] :
       c.knobs = [n \in Versions[s.source][v].knobs |-> Folded(s, n)]

\* Code is cached under the key of the spec it was compiled for, by the LLJIT that
\* is there now.
CacheInv ==
  \A e \in Engines : \A k \in DOMAIN cache[e] :
    /\ jit[e] /\ cache[e][k].engine = e /\ cache[e][k].era = resets[e]
    /\ \E s \in Asked : k[2] = s.source /\ k[5] = Fingerprint(s) /\ CodeOf(cache[e][k], s)

\* Code that is held was compiled for a spec that differs in nothing the
\* fingerprint tells.
HeldInv ==
  \A t \in Threads : got[t].fn =>
    /\ got[t].spec \in Asked /\ got[t].code.engine \in Engines
    /\ \E s \in Asked : /\ s.source = got[t].spec.source
                        /\ Fingerprint(s) = Fingerprint(got[t].spec)
                        /\ CodeOf(got[t].code, s)

BoundInv ==
  /\ ~refused
  /\ \A e \in Engines : ~bound[e] => defined[e] \subseteq Symbols

EngineInv == TypeOK /\ Locked /\ CacheInv /\ HeldInv /\ BoundInv

-----------------------------------------------------------------------------

LEMMA VersionsFine ==
  ASSUME CallersOK, NEW src \in DOMAIN Versions
  PROVE  /\ Len(Versions[src]) \in Nat \ {0}
         /\ DOMAIN Versions[src] = 1 .. Len(Versions[src])
<1> DEFINE v == Versions[src]  texts == {v[k] : k \in DOMAIN v}
<1>1. v # <<>> /\ v \in Seq(texts)
  BY DEF CallersOK, IsSequence
<1> HIDE DEF v, texts
<1>2. Len(v) \in Nat \ {0} /\ DOMAIN v = 1 .. Len(v)
  BY <1>1
<1> QED
  BY <1>2 DEF v

LEMMA NobodyOut == CallersOK => Nobody \notin Threads
  BY DEF CallersOK

\* A sequence is one of its elements.
LEMMA ElementsMakeIt == ASSUME NEW S, NEW q \in Seq(S) PROVE IsSequence(q)
<1> DEFINE T == {q[i] : i \in DOMAIN q}
<1>1. Len(q) \in Nat /\ q \in [1 .. Len(q) -> T]
  OBVIOUS
<1> HIDE DEF T
<1>2. q \in Seq(T)
  BY <1>1
<1> QED
  BY <1>2 DEF IsSequence, T

\* The knobs of the device: none, or four with names of their own.
LEMMA KnobsOfDeviceAre ==
  ASSUME CallersOK, NEW w \in WindowValues, NEW E,
         \A i \in DOMAIN KnobsOfDevice(w) : KnobsOfDevice(w)[i] \in E
  PROVE  LET k == KnobsOfDevice(w)
         IN  /\ k \in Seq(E) /\ Len(k) \in Nat
             /\ \A i \in 1 .. Len(k) :
                  k[i] \in [name : {"base", "size", "func", "wait"}, float : BOOLEAN, value : Nat]
             /\ \A i, j \in 1 .. Len(k) : k[i].name = k[j].name => i = j
<1>1. CASE w = <<>>
  BY <1>1 DEF KnobsOfDevice
<1>2. CASE w # <<>>
  <2>1. PICK v \in [base : Bases \cup {FixedBase}, owned : BOOLEAN] : w = <<v>>
    BY <1>2 DEF WindowValues
  <2> DEFINE b == w[1].base
  <2>2. b \in Nat
    BY <2>1 DEF CallersOK
  <2> HIDE DEF b
  <2>3. KnobsOfDevice(w) = <<Knob("base", b), Knob("size", 0), Knob("func", 0), Knob("wait", 0)>>
    BY <1>2 DEF KnobsOfDevice, b
  <2> DEFINE k == KnobsOfDevice(w)
  <2>4. /\ DOMAIN k = 1 .. 4 /\ Len(k) = 4
        /\ k[1] = Knob("base", b) /\ k[2] = Knob("size", 0)
        /\ k[3] = Knob("func", 0) /\ k[4] = Knob("wait", 0)
    BY <2>3
  <2>5. k \in Seq(E)
    BY <2>3, <2>4
  <2> HIDE DEF k
  <2>6. \A i \in 1 .. 4 : i = 1 \/ i = 2 \/ i = 3 \/ i = 4
    OBVIOUS
  <2>7. \A i \in 1 .. 4 :
          k[i] \in [name : {"base", "size", "func", "wait"}, float : BOOLEAN, value : Nat]
    <3> DEFINE R == [name : {"base", "size", "func", "wait"}, float : BOOLEAN, value : Nat]
    <3>1. Knob("base", b) \in R
      BY <2>2 DEF Knob
    <3>2. Knob("size", 0) \in R /\ Knob("func", 0) \in R /\ Knob("wait", 0) \in R
      BY DEF Knob
    <3> HIDE DEF R
    <3> QED
      BY <2>4, <2>6, <3>1, <3>2 DEF R
  <2>8. \A i, j \in 1 .. 4 : k[i].name = k[j].name => i = j
    BY <2>4, <2>6 DEF Knob
  <2> QED
    BY <2>4, <2>5, <2>7, <2>8 DEF k
<1> QED
  BY <1>1, <1>2

\* The knobs of the window, in front of those of a caller, keep a spec well formed.
LEMMA WithDeviceWell ==
  ASSUME CallersOK, NEW s \in CallerSpecs, OnDevice(s), NEW w \in WindowValues
  PROVE  WellFormed(WithDevice(s, w))
<1> DEFINE k == KnobsOfDevice(w)
           q == k \o s.knobs
           E == {k[i] : i \in DOMAIN k} \cup {s.knobs[i] : i \in DOMAIN s.knobs}
           names == {"base", "size", "func", "wait"}
<1>1. WellFormed(s) /\ names \cap Given(s) = {}
  BY DEF CallersOK
<1>2. /\ k \in Seq(E) /\ Len(k) \in Nat
      /\ \A i \in 1 .. Len(k) : k[i] \in [name : names, float : BOOLEAN, value : Nat]
      /\ \A i, j \in 1 .. Len(k) : k[i].name = k[j].name => i = j
  <2>1. \A i \in DOMAIN KnobsOfDevice(w) : KnobsOfDevice(w)[i] \in E
    OBVIOUS
  <2> HIDE DEF E
  <2> QED
    BY <2>1, KnobsOfDeviceAre
<1>3. s.knobs \in Seq(E) /\ Len(s.knobs) \in Nat /\ DOMAIN s.knobs = 1 .. Len(s.knobs)
  BY <1>1 DEF WellFormed, IsSequence
<1> HIDE DEF k, E
<1>4. /\ q \in Seq(E) /\ Len(q) = Len(k) + Len(s.knobs) /\ DOMAIN q = 1 .. Len(q)
      /\ \A i \in 1 .. Len(k) : q[i] = k[i]
      /\ \A i \in (Len(k) + 1) .. Len(q) : i - Len(k) \in DOMAIN s.knobs /\ q[i] = s.knobs[i - Len(k)]
  BY <1>2, <1>3
<1>5. WithDevice(s, w) = [kernel |-> s.kernel, source |-> s.source, file |-> s.file,
                          abi |-> s.abi, knobs |-> q]
  <2>1. s = [kernel |-> s.kernel, source |-> s.source, file |-> s.file, abi |-> s.abi,
             knobs |-> s.knobs]
    BY <1>1 DEF WellFormed
  <2>2. WithDevice(s, w) = [s EXCEPT !.knobs = q]
    BY DEF WithDevice, k
  <2> HIDE DEF q
  <2>3. [s EXCEPT !.knobs = q] = [kernel |-> s.kernel, source |-> s.source, file |-> s.file,
                                  abi |-> s.abi, knobs |-> q]
    BY <2>1
  <2> QED
    BY <2>2, <2>3
<1>6. IsSequence(q)
  BY <1>4, ElementsMakeIt
<1>7. \A i \in DOMAIN q : q[i] \in [name : {q[i].name}, float : BOOLEAN, value : Nat]
  BY <1>1, <1>2, <1>3, <1>4 DEF WellFormed
<1>8. \A i, j \in DOMAIN q : q[i].name = q[j].name => i = j
  <2>1. \A i \in 1 .. Len(k) : q[i].name \in names
    BY <1>2, <1>4
  <2>2. \A i \in (Len(k) + 1) .. Len(q) : q[i].name \in Given(s)
    BY <1>4 DEF Given
  <2>3. ASSUME NEW i \in DOMAIN q, NEW j \in DOMAIN q, q[i].name = q[j].name PROVE i = j
    <3>1. CASE i \in 1 .. Len(k) /\ j \in 1 .. Len(k)
      BY <1>2, <1>4, <2>3, <3>1
    <3>2. CASE i \in (Len(k) + 1) .. Len(q) /\ j \in (Len(k) + 1) .. Len(q)
      <4>1. i - Len(k) = j - Len(k)
        BY <1>1, <1>4, <2>3, <3>2 DEF WellFormed
      <4> QED
        BY <1>2, <1>3, <1>4, <4>1
    <3>3. i \in 1 .. Len(k) \/ i \in (Len(k) + 1) .. Len(q)
      BY <1>2, <1>3, <1>4
    <3>4. j \in 1 .. Len(k) \/ j \in (Len(k) + 1) .. Len(q)
      BY <1>2, <1>3, <1>4
    <3> QED
      BY <1>1, <2>1, <2>2, <2>3, <3>1, <3>2, <3>3, <3>4
  <2> QED
    BY <2>3
<1> HIDE DEF q
<1> QED
  BY <1>1, <1>5, <1>6, <1>7, <1>8 DEF WellFormed, NoSpec

LEMMA AskedWell == ASSUME CallersOK, NEW s \in Asked PROVE WellFormed(s)
<1>1. CASE s \in CallerSpecs
  BY <1>1 DEF CallersOK
<1>2. CASE s \in DeviceSpecs
  BY <1>2, WithDeviceWell DEF DeviceSpecs
<1> QED
  BY <1>1, <1>2 DEF Asked

LEMMA AskedIsSpec == CallersOK => \A s \in Asked : s # NoSpec
  BY AskedWell DEF WellFormed

\* A thread inside a call holds the mutex of an engine.
LEMMA HoldsEngine ==
  ASSUME EngineInv, NEW t \in Threads, pc[t].at # "idle"
  PROVE  pc[t] # Idle /\ pc[t].engine \in Engines /\ owner[pc[t].engine] = t
  BY DEF EngineInv, Locked, Idle

\* What a compilation does: the caller of a good template gets its code, which is
\* entered in the cache, and everybody else gets none.
LEMMA CompileEffect ==
  ASSUME CallersOK, EngineInv, NEW t \in Threads, Compile(t)
  PROVE  LET e == pc[t].engine  s == pc[t].spec  c == Compiled(s, disk[s.source], e)
         IN  /\ e \in Engines /\ s \in Asked /\ pc[t].at = "ready" /\ jit[e] /\ pc[t] # Idle
             /\ Leave(t) /\ UNCHANGED <<target, jit, resets, disk>>
             /\ bound' \in [Engines -> BOOLEAN]
             /\ defined' \in [Engines -> SUBSET (Symbols \cup Abi)]
             /\ \A f \in Engines : ~bound'[f] => defined'[f] \subseteq Symbols
             /\ ~refused'
             /\ \/ cache' = cache /\ got' = [got EXCEPT ![t] = NoCode]
                \/ /\ got' = [got EXCEPT ![t] = [fn |-> TRUE, spec |-> s, code |-> c]]
                   /\ cache' = [cache EXCEPT ![e] =
                        [k \in DOMAIN @ \cup {Key(s)} |-> IF k = Key(s) THEN c ELSE @[k]]]
<1> DEFINE e == pc[t].engine  s == pc[t].spec  c == Compiled(s, disk[s.source], e)
<1> USE DEF EngineInv, TypeOK, BoundInv
<1>1. pc[t].at = "ready" /\ s # NoSpec /\ Leave(t) /\ UNCHANGED <<target, jit, resets, disk>>
  BY DEF Compile
<1>2. e \in Engines /\ pc[t] # Idle /\ jit[e] /\ s \in Asked
  BY <1>1, HoldsEngine DEF Locked
<1>3. ~BindFails(e, s)
  BY <1>2 DEF CallersOK, BindFails, Binds
<1>4. bound' = [bound EXCEPT ![e] = @ \/ s.abi] /\ defined' = [defined EXCEPT ![e] = Linked(e, s)]
  BY <1>3 DEF Compile
<1>5. s.abi \in BOOLEAN
  BY <1>2, AskedWell DEF WellFormed
<1>6. Linked(e, s) \in SUBSET (Symbols \cup Abi)
  BY <1>2 DEF Linked
<1>7. bound' \in [Engines -> BOOLEAN] /\ defined' \in [Engines -> SUBSET (Symbols \cup Abi)]
  BY <1>2, <1>4, <1>5, <1>6
<1>8. \A f \in Engines : ~bound'[f] => defined'[f] \subseteq Symbols
  BY <1>2, <1>4, <1>5 DEF Linked, Binds
<1>9. \/ ~refused' /\ cache' = cache /\ got' = [got EXCEPT ![t] = NoCode]
      \/ /\ ~refused' /\ got' = [got EXCEPT ![t] = [fn |-> TRUE, spec |-> s, code |-> c]]
         /\ cache' = [cache EXCEPT ![e] =
              [k \in DOMAIN @ \cup {Key(s)} |-> IF k = Key(s) THEN c ELSE @[k]]]
  BY <1>3 DEF Compile, Duplicate, Hold
<1> QED
  BY <1>1, <1>2, <1>7, <1>8, <1>9

\* The code compiled for a spec is code of it, under its key.
LEMMA CodeIsOf ==
  ASSUME TypeOK, NEW e \in Engines, NEW s, s.source \in DOMAIN Versions
  PROVE  LET c == Compiled(s, disk[s.source], e)
         IN  /\ Key(s)[2] = s.source /\ Key(s)[5] = Fingerprint(s)
             /\ CodeOf(c, s) /\ c.engine = e /\ c.era = resets[e]
  BY DEF TypeOK, Compiled, CodeOf, Key

\* Compiling leaves engines and threads well formed ...
LEMMA CompileType ==
  ASSUME CallersOK, EngineInv, NEW t \in Threads, Compile(t) PROVE TypeOK'
<1> DEFINE e == pc[t].engine  s == pc[t].spec  c == Compiled(s, disk[s.source], e)
<1>1. /\ e \in Engines /\ s \in Asked /\ pc[t].at = "ready" /\ jit[e] /\ pc[t] # Idle
      /\ Leave(t) /\ UNCHANGED <<target, jit, resets, disk>>
      /\ bound' \in [Engines -> BOOLEAN]
      /\ defined' \in [Engines -> SUBSET (Symbols \cup Abi)]
  BY CompileEffect
<1>2. \/ cache' = cache /\ got' = [got EXCEPT ![t] = NoCode]
      \/ /\ got' = [got EXCEPT ![t] = [fn |-> TRUE, spec |-> s, code |-> c]]
         /\ cache' = [cache EXCEPT ![e] =
              [k \in DOMAIN @ \cup {Key(s)} |-> IF k = Key(s) THEN c ELSE @[k]]]
  BY CompileEffect
<1> TypeOK
  BY DEF EngineInv
<1>3. pc' \in [Threads -> [at : Place, engine : Engines \cup {Nobody},
                          spec : Asked \cup {NoSpec}, symbol : Symbols \cup {Nobody}]]
  BY <1>1 DEF TypeOK, Leave, Idle, Place
<1>4. owner' \in [Engines -> Threads \cup {Nobody}]
  BY <1>1 DEF TypeOK, Leave
<1>5. DOMAIN cache' = Engines /\ DOMAIN got' = Threads
  BY <1>2 DEF TypeOK
<1>6. \A u \in Threads : got'[u].fn \in BOOLEAN
  <2>1. got'[t].fn \in BOOLEAN
    <3>1. CASE got' = [got EXCEPT ![t] = NoCode]
      BY <3>1 DEF TypeOK, NoCode
    <3>2. CASE got' = [got EXCEPT ![t] = [fn |-> TRUE, spec |-> s, code |-> c]]
      BY <3>2 DEF TypeOK
    <3> QED
      BY <1>2, <3>1, <3>2
  <2>2. \A u \in Threads : u # t => got'[u] = got[u]
    BY <1>2 DEF TypeOK
  <2> QED
    BY <2>1, <2>2 DEF TypeOK
<1> QED
  BY <1>1, <1>3, <1>4, <1>5, <1>6 DEF TypeOK

\* ... enters the code under the key of its spec ...
LEMMA CompileCache ==
  ASSUME CallersOK, EngineInv, NEW t \in Threads, Compile(t) PROVE CacheInv'
<1> DEFINE e == pc[t].engine  s == pc[t].spec  c == Compiled(s, disk[s.source], e)
<1>1. /\ e \in Engines /\ s \in Asked /\ pc[t].at = "ready" /\ jit[e] /\ pc[t] # Idle
      /\ Leave(t) /\ UNCHANGED <<target, jit, resets, disk>>
      /\ bound' \in [Engines -> BOOLEAN]
      /\ defined' \in [Engines -> SUBSET (Symbols \cup Abi)]
  BY CompileEffect
<1>2. \/ cache' = cache /\ got' = [got EXCEPT ![t] = NoCode]
      \/ /\ got' = [got EXCEPT ![t] = [fn |-> TRUE, spec |-> s, code |-> c]]
         /\ cache' = [cache EXCEPT ![e] =
              [k \in DOMAIN @ \cup {Key(s)} |-> IF k = Key(s) THEN c ELSE @[k]]]
  BY CompileEffect
<1> TypeOK /\ CacheInv
  BY DEF EngineInv
<1>3. CASE cache' = cache
  BY <1>1, <1>3 DEF CacheInv
<1>4. CASE cache' # cache
  <2>1. s.source \in DOMAIN Versions
    BY <1>1, AskedWell DEF WellFormed
  <2>2. /\ Key(s)[2] = s.source /\ Key(s)[5] = Fingerprint(s)
        /\ CodeOf(c, s) /\ c.engine = e /\ c.era = resets[e]
    BY <1>1, <2>1, CodeIsOf
  <2>3. \A f \in Engines : f # e => cache'[f] = cache[f]
    BY <1>2, <1>4 DEF TypeOK
  <2>4. /\ DOMAIN cache'[e] = DOMAIN cache[e] \cup {Key(s)} /\ cache'[e][Key(s)] = c
        /\ \A k \in DOMAIN cache[e] : k # Key(s) => cache'[e][k] = cache[e][k]
    BY <1>1, <1>2, <1>4 DEF TypeOK
  <2> HIDE DEF e, s, c
  <2> QED
    BY <1>1, <2>2, <2>3, <2>4 DEF CacheInv
<1> QED
  BY <1>3, <1>4

\* ... and hands it to the caller.
LEMMA CompileHeld ==
  ASSUME CallersOK, EngineInv, NEW t \in Threads, Compile(t) PROVE HeldInv'
<1> DEFINE e == pc[t].engine  s == pc[t].spec  c == Compiled(s, disk[s.source], e)
<1>1. /\ e \in Engines /\ s \in Asked /\ pc[t].at = "ready" /\ jit[e] /\ pc[t] # Idle
      /\ Leave(t) /\ UNCHANGED <<target, jit, resets, disk>>
      /\ bound' \in [Engines -> BOOLEAN]
      /\ defined' \in [Engines -> SUBSET (Symbols \cup Abi)]
  BY CompileEffect
<1>2. \/ cache' = cache /\ got' = [got EXCEPT ![t] = NoCode]
      \/ /\ got' = [got EXCEPT ![t] = [fn |-> TRUE, spec |-> s, code |-> c]]
         /\ cache' = [cache EXCEPT ![e] =
              [k \in DOMAIN @ \cup {Key(s)} |-> IF k = Key(s) THEN c ELSE @[k]]]
  BY CompileEffect
<1> TypeOK /\ HeldInv
  BY DEF EngineInv
<1>3. s.source \in DOMAIN Versions
  BY <1>1, AskedWell DEF WellFormed
<1>4. CodeOf(c, s) /\ c.engine = e
  BY <1>1, <1>3, CodeIsOf
<1>5. CASE got' = [got EXCEPT ![t] = NoCode]
  BY <1>5 DEF HeldInv, TypeOK, NoCode
<1>6. CASE got' = [got EXCEPT ![t] = [fn |-> TRUE, spec |-> s, code |-> c]]
  <2>1. got'[t] = [fn |-> TRUE, spec |-> s, code |-> c] /\ \A u \in Threads : u # t => got'[u] = got[u]
    BY <1>6 DEF TypeOK
  <2> HIDE DEF e, s, c
  <2> QED
    BY <1>1, <1>4, <2>1 DEF HeldInv
<1> QED
  BY <1>2, <1>5, <1>6

\* Every step leaves engines and threads well formed.
LEMMA TypeStep ==
  ASSUME CallersOK, EngineInv, [AskedNext]_vars
  PROVE  TypeOK'
<1> USE DEF engineVars, Goto, Leave, Enter, Idle, NoCode, EngineInv, TypeOK, Place, Binds, BindFails, Linked, Hold
<1>1. ASSUME NEW t \in Threads, InitTarget(t) PROVE TypeOK'
  <2>1. /\ target' \in {"initialising", "ready", "none"}
        /\ UNCHANGED <<owner, jit, resets, bound, defined, cache, disk, got>>
        /\ \E label \in Place : Goto(t, label)
    BY <1>1 DEF InitTarget
  <2> QED
    BY <2>1
<1>2. ASSUME NEW t \in Threads, InitTargetDone(t) PROVE TypeOK'
  BY <1>2 DEF InitTargetDone
<1>3. ASSUME NEW t \in Threads, CreateLLJIT(t) PROVE TypeOK'
  <2>1. pc[t].engine \in Engines
    BY <1>3, HoldsEngine DEF CreateLLJIT
  <2> QED
    BY <1>3, <2>1 DEF CreateLLJIT
<1>4. ASSUME NEW t \in Threads, CreateFails(t) PROVE TypeOK'
  BY <1>4 DEF CreateFails
<1>5. ASSUME NEW t \in Threads, Cached(t) PROVE TypeOK'
  BY <1>5 DEF Cached
<1>6. ASSUME NEW t \in Threads, Compile(t) PROVE TypeOK'
  BY <1>6, CompileType
<1>7. ASSUME NEW t \in Threads, Define(t) PROVE TypeOK'
  <2>1. pc[t] # Idle /\ pc[t].engine \in Engines
    BY <1>7, HoldsEngine DEF Define
  <2>2. /\ defined' = [defined EXCEPT ![pc[t].engine] = @ \cup {pc[t].symbol}]
        /\ pc[t].symbol \in Symbols /\ Leave(t)
        /\ UNCHANGED <<target, jit, resets, bound, cache, disk, got>>
    BY <1>7, <2>1 DEF Define
  <2>3. defined' \in [Engines -> SUBSET (Symbols \cup Abi)]
    BY <2>1, <2>2
  <2> QED
    BY <2>2, <2>3
<1>8. ASSUME NEW t \in Threads, Drop(t) PROVE TypeOK'
  BY <1>8 DEF Drop
<1>9. ASSUME NEW t \in Threads, NEW e \in Engines, NEW symbol \in Symbols, DefineSymbol(t, e, symbol) PROVE TypeOK'
  BY <1>9 DEF DefineSymbol
<1>10. ASSUME NEW t \in Threads, NEW e \in Engines, ResetCache(t, e) PROVE TypeOK'
  BY <1>10 DEF ResetCache
<1>11. ASSUME NEW src \in DOMAIN Versions, Rewrite(src) PROVE TypeOK'
  BY <1>11, VersionsFine DEF Rewrite
<1>12. ASSUME NEW t \in Threads, NEW e \in Engines, NEW s \in Asked, Specialize(t, e, s) PROVE TypeOK'
  BY <1>12, AskedIsSpec DEF Specialize
<1>13. CASE UNCHANGED vars
  BY <1>13 DEF vars
<1> QED
  BY <1>1, <1>2, <1>3, <1>4, <1>5, <1>6, <1>7, <1>8, <1>9, <1>10, <1>11,
     <1>12, <1>13 DEF AskedNext, EngineStep

\* What leaving a call changes of the threads and the mutexes.
LEMMA LeaveIs ==
  ASSUME TypeOK, NEW t \in Threads, Leave(t)
  PROVE  /\ pc'[t] = Idle /\ \A u \in Threads : u # t => pc'[u] = pc[u]
         /\ \A e \in Engines : e # pc[t].engine => owner'[e] = owner[e]
BY DEF TypeOK, Leave

\* Leaving gives up the mutex of the call's engine, which no other call holds.
LEMMA LeaveKeepsLock ==
  ASSUME TypeOK, Locked, NEW t \in Threads, Leave(t), pc[t] # Idle, jit' = jit
  PROVE  Locked'
<1>1. SUFFICES ASSUME NEW u \in Threads, pc'[u] # Idle
               PROVE  /\ pc'[u].engine \in Engines /\ owner'[pc'[u].engine] = u
                      /\ pc'[u].at # "idle" /\ (pc'[u].at = "ready" => jit'[pc'[u].engine])
  BY DEF Locked
<1>2. u # t /\ pc'[u] = pc[u]
  BY <1>1, LeaveIs
<1>3. /\ pc[u].engine \in Engines /\ owner[pc[u].engine] = u
      /\ pc[u].at # "idle" /\ (pc[u].at = "ready" => jit[pc[u].engine])
  BY <1>1, <1>2 DEF Locked
<1>4. owner[pc[t].engine] = t
  BY DEF Locked
<1>5. owner'[pc[u].engine] = u
  BY <1>2, <1>3, <1>4, LeaveIs
<1> QED
  BY <1>2, <1>3, <1>5

\* A step inside a call moves its thread to a place with the same engine.
LEMMA GotoKeepsLock ==
  ASSUME TypeOK, Locked, NEW t \in Threads, NEW label \in Place \ {"idle"}, Goto(t, label),
         pc[t] # Idle, owner' = owner, label = "ready" => jit'[pc[t].engine],
         \A e \in Engines : jit[e] => jit'[e]
  PROVE  Locked'
<1>1. pc'[t] = [pc[t] EXCEPT !.at = label] /\ \A u \in Threads : u # t => pc'[u] = pc[u]
  BY DEF TypeOK, Goto
<1>2. pc'[t].engine = pc[t].engine /\ pc'[t].at = label
  BY <1>1 DEF TypeOK
<1>3. pc[t].engine \in Engines /\ owner[pc[t].engine] = t
  BY DEF Locked
<1>4. ASSUME NEW u \in Threads, pc'[u] # Idle
      PROVE  /\ pc'[u].engine \in Engines /\ owner'[pc'[u].engine] = u
             /\ pc'[u].at # "idle" /\ (pc'[u].at = "ready" => jit'[pc'[u].engine])
  <2>1. CASE u = t
    BY <1>2, <1>3, <2>1
  <2>2. CASE u # t
    BY <1>1, <1>4, <2>2 DEF Locked
  <2> QED
    BY <2>1, <2>2
<1> QED
  BY <1>4 DEF Locked

\* Whoever is somewhere in a call is not idle.
LEMMA NotIdle == ASSUME NEW t, pc[t].at # "idle" PROVE pc[t] # Idle
  BY DEF Idle

\* A thread enters a call on an engine whose mutex is free.
LEMMA EnterKeepsLock ==
  ASSUME CallersOK, TypeOK, Locked, NEW t \in Threads, NEW e \in Engines, NEW s, NEW symbol,
         Enter(t, e, s, symbol)
  PROVE  Locked'
<1> DEFINE entered == [at |-> IF jit[e] THEN "ready" ELSE "target", engine |-> e,
                       spec |-> s, symbol |-> symbol]
<1>1. /\ pc'[t] = entered /\ \A u \in Threads : u # t => pc'[u] = pc[u]
      /\ owner'[e] = t /\ \A f \in Engines : f # e => owner'[f] = owner[f]
      /\ jit' = jit /\ owner[e] = Nobody
  BY DEF Enter, engineVars, TypeOK
<1>2. entered.engine = e /\ entered.at # "idle" /\ (entered.at = "ready" => jit[e])
  OBVIOUS
<1> HIDE DEF entered
<1>3. ASSUME NEW u \in Threads, u # t, pc[u] # Idle
      PROVE  pc[u].engine # e
  BY <1>1, <1>3, NobodyOut DEF Locked
<1>4. ASSUME NEW u \in Threads, pc'[u] # Idle
      PROVE  /\ pc'[u].engine \in Engines /\ owner'[pc'[u].engine] = u
             /\ pc'[u].at # "idle" /\ (pc'[u].at = "ready" => jit'[pc'[u].engine])
  <2>1. CASE u = t
    BY <1>1, <1>2, <2>1
  <2>2. CASE u # t
    BY <1>1, <1>3, <1>4, <2>2 DEF Locked
  <2> QED
    BY <2>1, <2>2
<1> QED
  BY <1>4 DEF Locked

\* A thread inside a call holds the mutex of its engine, and nobody resets it.
LEMMA LockStep ==
  ASSUME CallersOK, EngineInv, [AskedNext]_vars
  PROVE  Locked'
<1>0. TypeOK /\ Locked
  BY DEF EngineInv
<1>1. ASSUME NEW t \in Threads, InitTarget(t) PROVE Locked'
  <2>1. pc[t] # Idle /\ owner' = owner /\ jit' = jit /\ (Goto(t, "initialise") \/ Goto(t, "create"))
    BY <1>1, NotIdle DEF InitTarget, engineVars
  <2> QED
    BY <1>0, <2>1, GotoKeepsLock DEF Place
<1>2. ASSUME NEW t \in Threads, InitTargetDone(t) PROVE Locked'
  <2>1. pc[t] # Idle /\ owner' = owner /\ jit' = jit /\ Goto(t, "create")
    BY <1>2, NotIdle DEF InitTargetDone, engineVars
  <2> QED
    BY <1>0, <2>1, GotoKeepsLock DEF Place
<1>3. ASSUME NEW t \in Threads, CreateLLJIT(t) PROVE Locked'
  <2>1. /\ pc[t] # Idle /\ owner' = owner /\ Goto(t, "ready")
        /\ jit' = [jit EXCEPT ![pc[t].engine] = TRUE]
    BY <1>3, NotIdle DEF CreateLLJIT
  <2>2. pc[t].engine \in Engines
    BY <1>0, <2>1 DEF Locked
  <2>3. jit'[pc[t].engine] /\ \A e \in Engines : jit[e] => jit'[e]
    BY <1>0, <2>1, <2>2 DEF TypeOK
  <2> QED
    BY <1>0, <2>1, <2>3, GotoKeepsLock DEF Place
<1>4. ASSUME NEW t \in Threads, CreateFails(t) PROVE Locked'
  <2>1. pc[t] # Idle /\ Leave(t) /\ jit' = jit
    BY <1>4, NotIdle DEF CreateFails, engineVars
  <2> QED
    BY <1>0, <2>1, LeaveKeepsLock
<1>5. ASSUME NEW t \in Threads, Cached(t) PROVE Locked'
  <2>1. pc[t] # Idle /\ Leave(t) /\ jit' = jit
    BY <1>5, NotIdle DEF Cached, engineVars
  <2> QED
    BY <1>0, <2>1, LeaveKeepsLock
<1>6. ASSUME NEW t \in Threads, Compile(t) PROVE Locked'
  <2>1. pc[t].at = "ready" /\ Leave(t) /\ jit' = jit
    BY <1>6 DEF Compile
  <2>2. pc[t] # Idle
    BY <2>1, NotIdle
  <2> QED
    BY <1>0, <2>1, <2>2, LeaveKeepsLock
<1>7. ASSUME NEW t \in Threads, Define(t) PROVE Locked'
  <2>1. pc[t] # Idle /\ Leave(t) /\ jit' = jit
    BY <1>7, NotIdle DEF Define
  <2> QED
    BY <1>0, <2>1, LeaveKeepsLock
<1>8. ASSUME NEW t \in Threads, Drop(t) PROVE Locked'
  BY <1>0, <1>8 DEF Drop, Locked, engineVars
<1>9. ASSUME NEW t \in Threads, NEW e \in Engines, NEW symbol \in Symbols, DefineSymbol(t, e, symbol) PROVE Locked'
  BY <1>0, <1>9, EnterKeepsLock DEF DefineSymbol
<1>10. ASSUME NEW t \in Threads, NEW e \in Engines, ResetCache(t, e) PROVE Locked'
  <2>1. /\ pc' = pc /\ owner' = owner /\ owner[e] = Nobody
        /\ \A f \in Engines : f # e => jit'[f] = jit[f]
    BY <1>0, <1>10 DEF ResetCache, TypeOK
  <2>2. \A u \in Threads : pc[u] # Idle => pc[u].engine # e
    BY <1>0, <2>1, NobodyOut DEF Locked
  <2> QED
    BY <1>0, <2>1, <2>2 DEF Locked
<1>11. ASSUME NEW src \in DOMAIN Versions, Rewrite(src) PROVE Locked'
  BY <1>0, <1>11 DEF Rewrite, Locked, engineVars
<1>12. ASSUME NEW t \in Threads, NEW e \in Engines, NEW s \in Asked, Specialize(t, e, s) PROVE Locked'
  BY <1>0, <1>12, EnterKeepsLock DEF Specialize
<1>13. CASE UNCHANGED vars
  BY <1>0, <1>13 DEF vars, Locked, engineVars
<1> QED
  BY <1>1, <1>2, <1>3, <1>4, <1>5, <1>6, <1>7, <1>8, <1>9, <1>10, <1>11,
     <1>12, <1>13 DEF AskedNext, EngineStep

\* Code is entered under the key of the spec it was compiled for.
LEMMA CacheStep ==
  ASSUME CallersOK, EngineInv, [AskedNext]_vars
  PROVE  CacheInv'
<1> USE DEF engineVars, Goto, Leave, Enter, Idle, NoCode, EngineInv, TypeOK, Place, Locked, CacheInv
<1>1. ASSUME NEW t \in Threads, InitTarget(t) PROVE CacheInv'
  BY <1>1 DEF InitTarget
<1>2. ASSUME NEW t \in Threads, InitTargetDone(t) PROVE CacheInv'
  BY <1>2 DEF InitTargetDone
<1>3. ASSUME NEW t \in Threads, CreateLLJIT(t) PROVE CacheInv'
  BY <1>3 DEF CreateLLJIT
<1>4. ASSUME NEW t \in Threads, CreateFails(t) PROVE CacheInv'
  BY <1>4 DEF CreateFails
<1>5. ASSUME NEW t \in Threads, Cached(t) PROVE CacheInv'
  BY <1>5 DEF Cached
<1>6. ASSUME NEW t \in Threads, Compile(t) PROVE CacheInv'
  BY <1>6, CompileCache
<1>7. ASSUME NEW t \in Threads, Define(t) PROVE CacheInv'
  BY <1>7 DEF Define
<1>8. ASSUME NEW t \in Threads, Drop(t) PROVE CacheInv'
  BY <1>8 DEF Drop
<1>9. ASSUME NEW t \in Threads, NEW e \in Engines, NEW symbol \in Symbols, DefineSymbol(t, e, symbol) PROVE CacheInv'
  BY <1>9 DEF DefineSymbol
<1>10. ASSUME NEW t \in Threads, NEW e \in Engines, ResetCache(t, e) PROVE CacheInv'
  BY <1>10 DEF ResetCache
<1>11. ASSUME NEW src \in DOMAIN Versions, Rewrite(src) PROVE CacheInv'
  BY <1>11 DEF Rewrite
<1>12. ASSUME NEW t \in Threads, NEW e \in Engines, NEW s \in Asked, Specialize(t, e, s) PROVE CacheInv'
  BY <1>12 DEF Specialize
<1>13. CASE UNCHANGED vars
  BY <1>13 DEF vars
<1> QED
  BY <1>1, <1>2, <1>3, <1>4, <1>5, <1>6, <1>7, <1>8, <1>9, <1>10, <1>11,
     <1>12, <1>13 DEF AskedNext, EngineStep

\* A caller gets code of its key.
LEMMA HeldStep ==
  ASSUME CallersOK, EngineInv, [AskedNext]_vars
  PROVE  HeldInv'
<1> USE DEF engineVars, Goto, Leave, Enter, Idle, NoCode, EngineInv, TypeOK, Place, Locked, CacheInv, HeldInv
<1>1. ASSUME NEW t \in Threads, InitTarget(t) PROVE HeldInv'
  BY <1>1 DEF InitTarget
<1>2. ASSUME NEW t \in Threads, InitTargetDone(t) PROVE HeldInv'
  BY <1>2 DEF InitTargetDone
<1>3. ASSUME NEW t \in Threads, CreateLLJIT(t) PROVE HeldInv'
  BY <1>3 DEF CreateLLJIT
<1>4. ASSUME NEW t \in Threads, CreateFails(t) PROVE HeldInv'
  BY <1>4 DEF CreateFails
<1>5. ASSUME NEW t \in Threads, Cached(t) PROVE HeldInv'
  <2> DEFINE e == pc[t].engine  s == pc[t].spec  k == Key(s)
  <2>1. pc[t].at = "ready" /\ s # NoSpec /\ k \in DOMAIN cache[e] /\ Hold(t, s, cache[e][k])
    BY <1>5 DEF Cached
  <2>2. e \in Engines /\ s \in Asked
    BY <2>1, HoldsEngine
  <2>3. k[2] = s.source /\ k[5] = Fingerprint(s)
    BY DEF Key
  <2>4. \E u \in Asked : u.source = s.source /\ Fingerprint(u) = Fingerprint(s) /\ CodeOf(cache[e][k], u)
    BY <2>1, <2>2, <2>3
  <2>5. cache[e][k].engine = e
    BY <2>1, <2>2
  <2>6. got'[t] = [fn |-> TRUE, spec |-> s, code |-> cache[e][k]] /\ \A u \in Threads : u # t => got'[u] = got[u]
    BY <2>1 DEF Hold
  <2> DEFINE c == cache[e][k]
  <2> HIDE DEF e, s, k, c
  <2>7. ASSUME NEW u \in Threads, got'[u].fn
        PROVE  /\ got'[u].spec \in Asked /\ got'[u].code.engine \in Engines
               /\ \E r \in Asked : /\ r.source = got'[u].spec.source
                                   /\ Fingerprint(r) = Fingerprint(got'[u].spec)
                                   /\ CodeOf(got'[u].code, r)
    <3>1. CASE u = t
      BY <2>2, <2>4, <2>5, <2>6, <3>1 DEF c
    <3>2. CASE u # t
      <4> HIDE DEF EngineInv, TypeOK, CacheInv, Locked
      <4>1. got[u].fn /\ got'[u] = got[u]
        BY <2>6, <2>7, <3>2
      <4>2. HeldInv
        BY DEF EngineInv
      <4> QED
        BY <4>1, <4>2 DEF HeldInv
    <3> QED
      BY <3>1, <3>2
  <2> QED
    BY <2>7 DEF HeldInv
<1>6. ASSUME NEW t \in Threads, Compile(t) PROVE HeldInv'
  BY <1>6, CompileHeld
<1>7. ASSUME NEW t \in Threads, Define(t) PROVE HeldInv'
  BY <1>7 DEF Define
<1>8. ASSUME NEW t \in Threads, Drop(t) PROVE HeldInv'
  BY <1>8 DEF Drop
<1>9. ASSUME NEW t \in Threads, NEW e \in Engines, NEW symbol \in Symbols, DefineSymbol(t, e, symbol) PROVE HeldInv'
  BY <1>9 DEF DefineSymbol
<1>10. ASSUME NEW t \in Threads, NEW e \in Engines, ResetCache(t, e) PROVE HeldInv'
  BY <1>10 DEF ResetCache
<1>11. ASSUME NEW src \in DOMAIN Versions, Rewrite(src) PROVE HeldInv'
  BY <1>11 DEF Rewrite
<1>12. ASSUME NEW t \in Threads, NEW e \in Engines, NEW s \in Asked, Specialize(t, e, s) PROVE HeldInv'
  BY <1>12 DEF Specialize
<1>13. CASE UNCHANGED vars
  BY <1>13 DEF vars
<1> QED
  BY <1>1, <1>2, <1>3, <1>4, <1>5, <1>6, <1>7, <1>8, <1>9, <1>10, <1>11,
     <1>12, <1>13 DEF AskedNext, EngineStep

\* The runtime symbols are defined all at once, by the engine alone.
LEMMA BoundStep ==
  ASSUME CallersOK, EngineInv, [AskedNext]_vars
  PROVE  BoundInv'
<1> USE DEF engineVars, Goto, Leave, Enter, Idle, NoCode, EngineInv, TypeOK, Place, BoundInv, Binds, BindFails, Linked, Duplicate, Hold
<1>1. ASSUME NEW t \in Threads, InitTarget(t) PROVE BoundInv'
  BY <1>1 DEF InitTarget
<1>2. ASSUME NEW t \in Threads, InitTargetDone(t) PROVE BoundInv'
  BY <1>2 DEF InitTargetDone
<1>3. ASSUME NEW t \in Threads, CreateLLJIT(t) PROVE BoundInv'
  BY <1>3 DEF CreateLLJIT
<1>4. ASSUME NEW t \in Threads, CreateFails(t) PROVE BoundInv'
  BY <1>4 DEF CreateFails
<1>5. ASSUME NEW t \in Threads, Cached(t) PROVE BoundInv'
  BY <1>5 DEF Cached
<1>6. ASSUME NEW t \in Threads, Compile(t) PROVE BoundInv'
  BY <1>6, CompileEffect
<1>7. ASSUME NEW t \in Threads, Define(t) PROVE BoundInv'
  BY <1>7 DEF Define
<1>8. ASSUME NEW t \in Threads, Drop(t) PROVE BoundInv'
  BY <1>8 DEF Drop
<1>9. ASSUME NEW t \in Threads, NEW e \in Engines, NEW symbol \in Symbols, DefineSymbol(t, e, symbol) PROVE BoundInv'
  BY <1>9 DEF DefineSymbol
<1>10. ASSUME NEW t \in Threads, NEW e \in Engines, ResetCache(t, e) PROVE BoundInv'
  BY <1>10 DEF ResetCache
<1>11. ASSUME NEW src \in DOMAIN Versions, Rewrite(src) PROVE BoundInv'
  BY <1>11 DEF Rewrite
<1>12. ASSUME NEW t \in Threads, NEW e \in Engines, NEW s \in Asked, Specialize(t, e, s) PROVE BoundInv'
  BY <1>12 DEF Specialize
<1>13. CASE UNCHANGED vars
  BY <1>13 DEF vars
<1> QED
  BY <1>1, <1>2, <1>3, <1>4, <1>5, <1>6, <1>7, <1>8, <1>9, <1>10, <1>11,
     <1>12, <1>13 DEF AskedNext, EngineStep

-----------------------------------------------------------------------------
(* What the fingerprint tells *)

\* No knob of a well-formed spec cancels another.
LEMMA FingerprintIs ==
  ASSUME NEW s, WellFormed(s)
  PROVE  Fingerprint(s) = {Quantised(s.knobs[i]) : i \in DOMAIN s.knobs}
<1>1. \A i \in DOMAIN s.knobs : Quantised(s.knobs[i]).name = s.knobs[i].name
  BY DEF WellFormed, Quantised
<1>2. ASSUME NEW i \in DOMAIN s.knobs PROVE Occurs(Quantised(s.knobs[i]), s.knobs) % 2 = 1
  <2>1. {j \in DOMAIN s.knobs : Quantised(s.knobs[j]) = Quantised(s.knobs[i])} = {i}
    BY <1>1 DEF WellFormed
  <2>2. Cardinality({i}) = 1
    BY FS_Singleton
  <2> QED
    BY <2>1, <2>2 DEF Occurs
<1> QED
  BY <1>2 DEF Fingerprint

\* The compiler finds the value of a knob, or that there is none.
LEMMA FoldedIs ==
  ASSUME NEW s, WellFormed(s)
  PROVE  /\ \A i \in DOMAIN s.knobs : Folded(s, s.knobs[i].name) = s.knobs[i].value
         /\ \A n : n \notin Given(s) => Folded(s, n) = Unset
<1>1. ASSUME NEW i \in DOMAIN s.knobs PROVE Folded(s, s.knobs[i].name) = s.knobs[i].value
  <2> DEFINE at == {j \in DOMAIN s.knobs : s.knobs[j].name = s.knobs[i].name}
  <2>1. at = {i}
    BY DEF WellFormed
  <2>2. DOMAIN s.knobs \subseteq Nat
    BY DEF WellFormed, IsSequence
  <2>3. (CHOOSE j \in at : \A m \in at : j <= m) = i
    BY <2>1, <2>2
  <2> QED
    BY <2>1, <2>3 DEF Folded
<1>2. ASSUME NEW n, n \notin Given(s) PROVE Folded(s, n) = Unset
  BY <1>2 DEF Folded, Given
<1> QED
  BY <1>1, <1>2

LEMMA FirstIs ==
  ASSUME NEW s, WellFormed(s), NEW i \in DOMAIN s.knobs
  PROVE  First(s, s.knobs[i].name) = s.knobs[i]
<1> DEFINE P(j) == s.knobs[j].name = s.knobs[i].name
                   /\ \A m \in 1 .. (j - 1) : s.knobs[m].name # s.knobs[i].name
<1>1. DOMAIN s.knobs = 1 .. Len(s.knobs) /\ Len(s.knobs) \in Nat
  BY DEF WellFormed, IsSequence
<1>2. \A j \in DOMAIN s.knobs : P(j) <=> j = i
  BY <1>1 DEF WellFormed
<1>3. (CHOOSE j \in DOMAIN s.knobs : P(j)) = i
  BY <1>2
<1> QED
  BY <1>3 DEF First

\* Specs of one fingerprint give the same knobs, and values that are close.
LEMMA SameFingerprint ==
  ASSUME NEW s, NEW u, WellFormed(s), WellFormed(u), Fingerprint(s) = Fingerprint(u)
  PROVE  /\ Given(s) = Given(u)
         /\ \A i \in DOMAIN s.knobs :
              /\ Close(s.knobs[i], Folded(u, s.knobs[i].name))
              /\ Folded(u, s.knobs[i].name) \in Nat
              /\ ~s.knobs[i].float => Folded(u, s.knobs[i].name) = s.knobs[i].value
<1>1. \A v : WellFormed(v) => \A i \in DOMAIN v.knobs :
        /\ Quantised(v.knobs[i]).name = v.knobs[i].name
        /\ Quantised(v.knobs[i]).float = v.knobs[i].float
        /\ v.knobs[i].float \in BOOLEAN /\ v.knobs[i].value \in Nat
        /\ Quantised(v.knobs[i]).value =
             IF v.knobs[i].float THEN v.knobs[i].value \div Step ELSE v.knobs[i].value
  BY DEF WellFormed, Quantised
<1>2. \A i \in DOMAIN s.knobs : \E j \in DOMAIN u.knobs :
        Quantised(s.knobs[i]) = Quantised(u.knobs[j])
  BY FingerprintIs
<1>3. \A j \in DOMAIN u.knobs : \E i \in DOMAIN s.knobs :
        Quantised(s.knobs[i]) = Quantised(u.knobs[j])
  BY FingerprintIs
<1>4. Given(s) = Given(u)
  BY <1>1, <1>2, <1>3 DEF Given
<1>5. ASSUME NEW i \in DOMAIN s.knobs
      PROVE /\ Close(s.knobs[i], Folded(u, s.knobs[i].name))
            /\ Folded(u, s.knobs[i].name) \in Nat
            /\ ~s.knobs[i].float => Folded(u, s.knobs[i].name) = s.knobs[i].value
  <2>1. PICK j \in DOMAIN u.knobs : Quantised(s.knobs[i]) = Quantised(u.knobs[j])
    BY <1>2
  <2>2. s.knobs[i].name = u.knobs[j].name /\ s.knobs[i].float = u.knobs[j].float
    BY <1>1, <2>1
  <2>3. Folded(u, s.knobs[i].name) = u.knobs[j].value
    BY <2>2, FoldedIs
  <2>4. u.knobs[j].value \in Nat
    BY <1>1
  <2>5. CASE s.knobs[i].float
    <3>1. u.knobs[j].value \div Step = s.knobs[i].value \div Step
      BY <1>1, <2>1, <2>2, <2>5
    <3> QED
      BY <2>3, <2>4, <2>5, <3>1 DEF Close
  <2>6. CASE ~s.knobs[i].float
    <3>1. u.knobs[j].value = s.knobs[i].value
      BY <1>1, <2>1, <2>2, <2>6
    <3> QED
      BY <2>3, <2>4, <3>1 DEF Close
  <2> QED
    BY <2>5, <2>6
<1> QED
  BY <1>4, <1>5

-----------------------------------------------------------------------------
(* The window the code reaches *)

WindowInv == default \in WindowValues /\ probed \in BOOLEAN

\* The spec asks for the window that is the default now.
Reached(s) ==
  IF default = <<>> THEN "base" \notin Given(s)
  ELSE \E i \in DOMAIN s.knobs : s.knobs[i] = Knob("base", default[1].base)

\* Whoever holds code of the device, or is about to, asked for the window that is
\* still the default, and the environment is not asked again meanwhile.
ReachInv ==
  \A t \in Threads :
    /\ Reaches(t) => Known
    /\ pc[t].spec # NoSpec /\ OnDevice(pc[t].spec) => Reached(pc[t].spec)
    /\ got[t].fn /\ OnDevice(got[t].spec) => Reached(got[t].spec)

DeviceInv == EngineInv /\ WindowInv /\ ReachInv

\* What cira_mmio_open may return.
LEMMA OpenedAre == \A kind, size : Opened(kind, size) \subseteq WindowValues
<1> TAKE kind, size
<1>1. <<>> \in WindowValues
  BY DEF WindowValues
<1>2. <<[base |-> FixedBase, owned |-> FALSE]>> \in WindowValues
  BY DEF WindowValues
<1>3. \A b \in Bases : <<[base |-> b, owned |-> TRUE]>> \in WindowValues
  BY DEF WindowValues
<1>4. CASE size = "short" \/ kind = "nothing"
  <2>1. Opened(kind, size) = {<<>>}
    BY <1>4, Zenon DEF Opened
  <2> QED
    BY <1>1, <2>1
<1>5. CASE ~(size = "short" \/ kind = "nothing") /\ kind = "fixed"
  <2>1. Opened(kind, size) = {<<[base |-> FixedBase, owned |-> FALSE]>>}
    BY <1>5, Zenon DEF Opened
  <2> QED
    BY <1>2, <2>1
<1>6. CASE ~(size = "short" \/ kind = "nothing") /\ kind # "fixed"
  <2>1. Opened(kind, size) = {<<[base |-> b, owned |-> TRUE]>> : b \in Bases \ mapped}
                               \cup IF kind = "path" THEN {<<>>} ELSE {}
    BY <1>6, Zenon DEF Opened
  <2> QED
    BY <1>1, <1>3, <2>1
<1> QED
  BY <1>4, <1>5, <1>6

LEMMA OpenEnvAre == OpenEnv \subseteq WindowValues
  BY OpenedAre DEF OpenEnv

\* A spec asked for with a window asks for that window.
LEMMA AskedReaches ==
  ASSUME CallersOK, NEW s \in CallerSpecs, OnDevice(s), NEW w \in WindowValues
  PROVE  /\ WithDevice(s, w) # NoSpec /\ OnDevice(WithDevice(s, w))
         /\ w = <<>> => "base" \notin Given(WithDevice(s, w))
         /\ w # <<>> => \E i \in DOMAIN WithDevice(s, w).knobs :
                           WithDevice(s, w).knobs[i] = Knob("base", w[1].base)
<1> DEFINE k == KnobsOfDevice(w)
           q == k \o s.knobs
           E == {k[i] : i \in DOMAIN k} \cup {s.knobs[i] : i \in DOMAIN s.knobs}
<1>1. WellFormed(s) /\ WellFormed(WithDevice(s, w)) /\ "base" \notin Given(s)
      /\ OnDevice(WithDevice(s, w))
  BY WithDeviceWell DEF CallersOK
<1>2. WithDevice(s, w).knobs = q
  BY <1>1 DEF WithDevice, WellFormed
<1>3. k \in Seq(E) /\ Len(k) \in Nat
  BY KnobsOfDeviceAre
<1>4. s.knobs \in Seq(E) /\ Len(s.knobs) \in Nat
  BY <1>1 DEF WellFormed, IsSequence
<1> HIDE DEF E
<1>5. CASE w = <<>>
  <2>1. k = <<>>
    BY <1>5 DEF KnobsOfDevice
  <2>2. q = s.knobs
    BY <2>1, <1>4
  <2> QED
    BY <1>1, <1>2, <1>5, <2>2 DEF Given, WellFormed
<1>6. CASE w # <<>>
  <2>1. Len(k) = 4 /\ k[1] = Knob("base", w[1].base)
    BY <1>6 DEF KnobsOfDevice
  <2> HIDE DEF k
  <2>2. /\ Len(q) = Len(k) + Len(s.knobs) /\ DOMAIN q = 1 .. Len(q)
        /\ \A i \in 1 .. Len(k) : q[i] = k[i]
    BY <1>3, <1>4
  <2>3. 1 \in DOMAIN q /\ q[1] = k[1]
    BY <1>4, <2>1, <2>2
  <2> HIDE DEF q
  <2> QED
    BY <1>1, <1>2, <1>6, <2>1, <2>3 DEF WellFormed
<1> QED
  BY <1>5, <1>6

\* Compiling hands code to who asked for it.
LEMMA CompilePasses ==
  ASSUME CallersOK, EngineInv, NEW t \in Threads, Compile(t), NEW u \in Threads
  PROVE  /\ pc'[u].spec \in {pc[u].spec, NoSpec}
         /\ got'[u].fn => \/ got'[u].spec = got[u].spec /\ got[u].fn
                          \/ got'[u].spec = pc[u].spec /\ pc[u].spec # NoSpec
<1> DEFINE e == pc[t].engine  s == pc[t].spec  c == Compiled(s, disk[s.source], e)
<1>1. /\ s \in Asked /\ Leave(t) /\ TypeOK
      /\ \/ got' = [got EXCEPT ![t] = NoCode]
         \/ got' = [got EXCEPT ![t] = [fn |-> TRUE, spec |-> s, code |-> c]]
  BY CompileEffect DEF EngineInv
<1>2. pc'[u].spec \in {pc[u].spec, NoSpec}
  BY <1>1 DEF Leave, Idle, TypeOK
<1>3. s # NoSpec
  BY <1>1, AskedIsSpec
<1>4. u # t => got'[u] = got[u]
  BY <1>1 DEF TypeOK
<1>5. got'[t].fn => got'[t].spec = s
  <2>1. CASE got' = [got EXCEPT ![t] = NoCode]
    BY <1>1, <2>1 DEF TypeOK, NoCode
  <2>2. CASE got' = [got EXCEPT ![t] = [fn |-> TRUE, spec |-> s, code |-> c]]
    BY <1>1, <2>2 DEF TypeOK
  <2> QED
    BY <1>1, <2>1, <2>2
<1> QED
  BY <1>2, <1>3, <1>4, <1>5

\* The templates of device regions load the address.
LEMMA TemplatesLoad ==
  ASSUME CallersOK, NEW s \in Asked, OnDevice(s), NEW v \in DOMAIN Versions[s.source]
  PROVE  "base" \in Versions[s.source][v].knobs
<1>1. CASE s \in CallerSpecs
  BY <1>1 DEF CallersOK
<1>2. CASE s \in DeviceSpecs
  <2>1. PICK u \in CallerSpecs, w \in WindowValues : OnDevice(u) /\ s = WithDevice(u, w)
    BY <1>2 DEF DeviceSpecs
  <2>2. s.source = u.source
    BY <2>1 DEF CallersOK, WellFormed, WithDevice
  <2> QED
    BY <2>1, <2>2 DEF CallersOK
<1> QED
  BY <1>1, <1>2 DEF Asked

\* The default window is none or one of those there can be.
LEMMA WindowStep ==
  ASSUME WindowInv, [DeviceNext]_deviceVars
  PROVE  WindowInv'
<1> USE DEF windowVars, engineVars, Goto, Leave, Enter, Idle, NoCode, Hold, WindowInv
<1>1. ASSUME NEW t \in Threads, InitTarget(t), UNCHANGED windowVars PROVE WindowInv'
  BY <1>1 DEF InitTarget
<1>2. ASSUME NEW t \in Threads, InitTargetDone(t), UNCHANGED windowVars PROVE WindowInv'
  BY <1>2 DEF InitTargetDone
<1>3. ASSUME NEW t \in Threads, CreateLLJIT(t), UNCHANGED windowVars PROVE WindowInv'
  BY <1>3 DEF CreateLLJIT
<1>4. ASSUME NEW t \in Threads, CreateFails(t), UNCHANGED windowVars PROVE WindowInv'
  BY <1>4 DEF CreateFails
<1>5. ASSUME NEW t \in Threads, Cached(t), UNCHANGED windowVars PROVE WindowInv'
  BY <1>5 DEF Cached
<1>6. ASSUME NEW t \in Threads, Compile(t), UNCHANGED windowVars PROVE WindowInv'
  BY <1>6 DEF Compile
<1>7. ASSUME NEW t \in Threads, Define(t), UNCHANGED windowVars PROVE WindowInv'
  BY <1>7 DEF Define
<1>8. ASSUME NEW t \in Threads, Drop(t), UNCHANGED windowVars PROVE WindowInv'
  BY <1>8 DEF Drop
<1>9. ASSUME NEW t \in Threads, NEW e \in Engines, NEW symbol \in Symbols, DefineSymbol(t, e, symbol), UNCHANGED windowVars PROVE WindowInv'
  BY <1>9 DEF DefineSymbol
<1>10. ASSUME NEW t \in Threads, NEW e \in Engines, ResetCache(t, e), UNCHANGED windowVars PROVE WindowInv'
  BY <1>10 DEF ResetCache
<1>11. ASSUME NEW src \in DOMAIN Versions, Rewrite(src), UNCHANGED windowVars PROVE WindowInv'
  BY <1>11 DEF Rewrite
<1>12. ASSUME NEW t \in Threads, NEW e \in Engines, NEW s \in Specs[e], SpecializeFor(t, e, s) PROVE WindowInv'
  BY <1>12, OpenEnvAre DEF SpecializeFor, Windows, Default, Specialize, Enter
<1>13. CASE ReplaceWindow
  <2>1. PICK w : SetDefault(w) /\ (w = <<>> \/ w \in Opened("emulate", "enough"))
    BY <1>13 DEF ReplaceWindow, Replace
  <2>2. w \in WindowValues
    BY <2>1, OpenedAre DEF WindowValues
  <2>3. probed' \in BOOLEAN
    BY <2>1 DEF SetDefault
  <2> QED
    BY <2>1, <2>2, <2>3 DEF SetDefault
<1>14. CASE UNCHANGED deviceVars
  BY <1>14 DEF deviceVars, vars
<1> QED
  BY <1>1, <1>2, <1>3, <1>4, <1>5, <1>6, <1>7, <1>8, <1>9, <1>10, <1>11,
     <1>12, <1>13, <1>14 DEF DeviceNext, EngineStep

\* Nobody is left with the address of a window that was replaced.
LEMMA ReachStep ==
  ASSUME CallersOK, QuietWindows, DeviceInv, [DeviceNext]_deviceVars
  PROVE  ReachInv'
<1> USE DEF DeviceInv, windowVars, engineVars, Goto, Leave, Enter, Idle, NoCode, Hold, EngineInv, TypeOK, Place, WindowInv, ReachInv, Reaches, Reached, Known
<1>1. ASSUME NEW t \in Threads, InitTarget(t), UNCHANGED windowVars PROVE ReachInv'
  <2>1. got' = got /\ \E label \in Place : pc' = [pc EXCEPT ![t].at = label]
    BY <1>1 DEF InitTarget
  <2>3. \A u \in Threads : pc'[u].spec = pc[u].spec
    BY <2>1
  <2>2. default' = default /\ probed' = probed
    BY <1>1
  <2> HIDE DEF EngineInv, TypeOK
  <2> QED
    BY <2>1, <2>2, <2>3
<1>2. ASSUME NEW t \in Threads, InitTargetDone(t), UNCHANGED windowVars PROVE ReachInv'
  BY <1>2 DEF InitTargetDone
<1>3. ASSUME NEW t \in Threads, CreateLLJIT(t), UNCHANGED windowVars PROVE ReachInv'
  BY <1>3 DEF CreateLLJIT
<1>4. ASSUME NEW t \in Threads, CreateFails(t), UNCHANGED windowVars PROVE ReachInv'
  BY <1>4 DEF CreateFails
<1>5. ASSUME NEW t \in Threads, Cached(t), UNCHANGED windowVars PROVE ReachInv'
  BY <1>5 DEF Cached
<1>6. ASSUME NEW t \in Threads, Compile(t), UNCHANGED windowVars PROVE ReachInv'
  <2>1. default' = default /\ probed' = probed
    BY <1>6
  <2>2. \A u \in Threads : /\ pc'[u].spec \in {pc[u].spec, NoSpec}
                           /\ got'[u].fn => \/ got'[u].spec = got[u].spec /\ got[u].fn
                                            \/ got'[u].spec = pc[u].spec /\ pc[u].spec # NoSpec
    BY <1>6, CompilePasses
  <2> HIDE DEF EngineInv, TypeOK
  <2> QED
    BY <2>1, <2>2
<1>7. ASSUME NEW t \in Threads, Define(t), UNCHANGED windowVars PROVE ReachInv'
  BY <1>7 DEF Define
<1>8. ASSUME NEW t \in Threads, Drop(t), UNCHANGED windowVars PROVE ReachInv'
  BY <1>8 DEF Drop
<1>9. ASSUME NEW t \in Threads, NEW e \in Engines, NEW symbol \in Symbols, DefineSymbol(t, e, symbol), UNCHANGED windowVars PROVE ReachInv'
  BY <1>9 DEF DefineSymbol
<1>10. ASSUME NEW t \in Threads, NEW e \in Engines, ResetCache(t, e), UNCHANGED windowVars PROVE ReachInv'
  BY <1>10 DEF ResetCache
<1>11. ASSUME NEW src \in DOMAIN Versions, Rewrite(src), UNCHANGED windowVars PROVE ReachInv'
  BY <1>11 DEF Rewrite
<1>12. ASSUME NEW t \in Threads, NEW e \in Engines, NEW s \in Specs[e], SpecializeFor(t, e, s) PROVE ReachInv'
  <2>1. CASE ~OnDevice(s)
    <3>1. /\ default' = default /\ probed' = probed /\ got' = got /\ pc'[t].spec = s
          /\ \A u \in Threads : u # t => pc'[u] = pc[u]
      BY <1>12, <2>1 DEF SpecializeFor, Specialize
    <3> HIDE DEF EngineInv, TypeOK, Enter
    <3> QED
      BY <2>1, <3>1
  <2>2. CASE OnDevice(s)
    <3>1. PICK w \in Windows : Default(w) /\ Specialize(t, e, WithDevice(s, w))
      BY <1>12, <2>2 DEF SpecializeFor
    <3>2. w \in WindowValues /\ s \in CallerSpecs
      BY OpenEnvAre DEF Windows, CallerSpecs
    <3>3. /\ default' = w /\ Known'
          /\ \A u \in Threads : Reaches(u) => default' = default
      BY <3>1 DEF Default
    <3>4. /\ got' = got /\ pc'[t].spec = WithDevice(s, w)
          /\ \A u \in Threads : u # t => pc'[u] = pc[u]
      BY <3>1 DEF Specialize
    <3>5. /\ WithDevice(s, w) # NoSpec /\ OnDevice(WithDevice(s, w))
          /\ w = <<>> => "base" \notin Given(WithDevice(s, w))
          /\ w # <<>> => \E i \in DOMAIN WithDevice(s, w).knobs :
                            WithDevice(s, w).knobs[i] = Knob("base", w[1].base)
      BY <2>2, <3>2, AskedReaches
    <3> HIDE DEF Known, EngineInv, TypeOK, Enter
    <3> QED
      BY <3>3, <3>4, <3>5
  <2> QED
    BY <2>1, <2>2
<1>13. CASE ReplaceWindow
  BY <1>13 DEF ReplaceWindow, Replace, SetDefault, vars
<1>14. CASE UNCHANGED deviceVars
  BY <1>14 DEF deviceVars, vars
<1> QED
  BY <1>1, <1>2, <1>3, <1>4, <1>5, <1>6, <1>7, <1>8, <1>9, <1>10, <1>11,
     <1>12, <1>13, <1>14 DEF DeviceNext, EngineStep

\* Asking for a device region is asking the engine for one of the specs, and
\* replacing a window leaves the engine alone.
LEMMA EngineSteps ==
  ASSUME CallersOK, WindowInv, [DeviceNext]_deviceVars PROVE [AskedNext]_vars
<1>1. CASE EngineStep
  BY <1>1 DEF AskedNext
<1>2. ASSUME NEW t \in Threads, NEW e \in Engines, NEW s \in Specs[e], SpecializeFor(t, e, s)
      PROVE  AskedNext
  <2>1. s \in CallerSpecs
    BY DEF CallerSpecs
  <2>2. CASE OnDevice(s)
    <3>1. PICK w \in Windows : Specialize(t, e, WithDevice(s, w))
      BY <1>2, <2>2 DEF SpecializeFor
    <3>2. WithDevice(s, w) \in Asked
      BY <2>1, <2>2, OpenEnvAre DEF Windows, WindowInv, Asked, DeviceSpecs
    <3> QED
      BY <3>1, <3>2 DEF AskedNext
  <2>3. CASE ~OnDevice(s)
    BY <1>2, <2>1, <2>3 DEF SpecializeFor, AskedNext, Asked
  <2> QED
    BY <2>2, <2>3
<1>3. CASE ReplaceWindow
  BY <1>3 DEF ReplaceWindow
<1>4. CASE UNCHANGED deviceVars
  BY <1>4 DEF deviceVars
<1> QED
  BY <1>1, <1>2, <1>3, <1>4 DEF DeviceNext

\* The invariants of the engine hold for callers that keep to CallersOK, whatever
\* happens to the windows ...
THEOREM EngineSound == ASSUME CallersOK PROVE DeviceSpec => [](EngineInv /\ WindowInv)
<1>1. ASSUME DeviceInit PROVE EngineInv /\ WindowInv
  <2>1. TypeOK
    <3>1. \A src \in DOMAIN Versions : 1 \in DOMAIN Versions[src]
      BY VersionsFine
    <3> QED
      BY <1>1, <3>1 DEF DeviceInit, Init, TypeOK, Place, Idle, NoCode
  <2>2. \A e \in Engines : DOMAIN cache[e] = {}
    BY <1>1 DEF DeviceInit, Init
  <2>3. Locked /\ CacheInv /\ HeldInv /\ BoundInv
    BY <1>1, <2>2 DEF DeviceInit, Init, Locked, CacheInv, HeldInv, BoundInv, NoCode
  <2>4. WindowInv
    BY <1>1 DEF DeviceInit, WindowInit, WindowInv, WindowValues
  <2> QED
    BY <2>1, <2>3, <2>4 DEF EngineInv
<1>2. EngineInv /\ WindowInv /\ [DeviceNext]_deviceVars => EngineInv' /\ WindowInv'
  BY EngineSteps, TypeStep, LockStep, CacheStep, HeldStep, BoundStep, WindowStep DEF EngineInv
<1> QED
  BY <1>1, <1>2, PTL DEF DeviceSpec

\* The code a caller gets, compiled for itself or for another, has its values
\* (specialize and fingerprint, cira_jit_engine.cpp).
THEOREM CodeFitsSpec == ASSUME CallersOK PROVE DeviceSpec => []CodeFits
<1>1. ASSUME EngineInv PROVE CodeFits
  <2> SUFFICES ASSUME NEW t \in Threads, got[t].fn,
                      NEW s, s = got[t].spec, NEW c, c = got[t].code
      PROVE /\ c.source = s.source
            /\ {n \in DOMAIN c.knobs : c.knobs[n] # Unset} = DOMAIN c.knobs \cap Given(s)
            /\ \A n \in DOMAIN c.knobs \cap Given(s) : Close(First(s, n), c.knobs[n])
    BY DEF CodeFits
  <2>1. PICK u \in Asked : /\ s \in Asked /\ u.source = s.source
                           /\ Fingerprint(u) = Fingerprint(s) /\ CodeOf(c, u)
    BY <1>1 DEF EngineInv, HeldInv
  <2>2. WellFormed(s) /\ WellFormed(u)
    BY <2>1, AskedWell
  <2>3. \A n \in DOMAIN c.knobs : c.knobs[n] = Folded(u, n)
    BY <2>1 DEF CodeOf
  <2>4. \A n \in Given(s) : /\ Close(First(s, n), Folded(u, n))
                            /\ Folded(u, n) # Unset
    <3> SUFFICES ASSUME NEW i \in DOMAIN s.knobs
        PROVE /\ Close(First(s, s.knobs[i].name), Folded(u, s.knobs[i].name))
              /\ Folded(u, s.knobs[i].name) # Unset
      BY DEF Given
    <3>1. First(s, s.knobs[i].name) = s.knobs[i]
      BY <2>2, FirstIs
    <3>2. /\ Close(s.knobs[i], Folded(u, s.knobs[i].name))
          /\ Folded(u, s.knobs[i].name) \in Nat
      BY <2>1, <2>2, SameFingerprint
    <3> QED
      BY <3>1, <3>2 DEF Unset
  <2>5. \A n : n \notin Given(s) => Folded(u, n) = Unset
    BY <2>1, <2>2, SameFingerprint, FoldedIs
  <2>6. \A n \in DOMAIN c.knobs : c.knobs[n] # Unset <=> n \in Given(s)
    BY <2>3, <2>4, <2>5
  <2>7. \A n \in DOMAIN c.knobs \cap Given(s) : Close(First(s, n), c.knobs[n])
    BY <2>3, <2>4
  <2>8. c.source = s.source
    BY <2>1 DEF CodeOf
  <2> QED
    BY <2>6, <2>7, <2>8
<1> QED
  BY <1>1, EngineSound, PTL

\* A template that defines its kernel and finds its symbols is always compiled.
THEOREM EngineNeverRefuses == ASSUME CallersOK PROVE DeviceSpec => []NeverRefused
<1>1. EngineInv => NeverRefused
  BY DEF EngineInv, BoundInv, NeverRefused
<1> QED
  BY <1>1, EngineSound, PTL

\* ... and while a window is only replaced when no code holds its address, so do
\* those of the windows.
THEOREM WindowsReached == ASSUME CallersOK, QuietWindows PROVE DeviceSpec => []DeviceInv
<1>1. DeviceInit => ReachInv
  BY DEF DeviceInit, Init, ReachInv, Reaches, Idle, NoCode
<1>2. DeviceInv /\ [DeviceNext]_deviceVars => ReachInv'
  BY ReachStep
<1> QED
  BY <1>1, <1>2, EngineSound, PTL DEF DeviceSpec, DeviceInv

\* Code that is held reaches the window that is the default now: the address is
\* part of what the fingerprint tells (ciraKnobsFromDevice, cira_jit_engine.cpp).
THEOREM DeviceCodeReaches == ASSUME CallersOK, QuietWindows PROVE DeviceSpec => []DeviceReached
<1>1. ASSUME DeviceInv PROVE DeviceReached
  <2> SUFFICES ASSUME NEW t \in Threads, got[t].fn, OnDevice(got[t].spec),
                      NEW s, s = got[t].spec, NEW c, c = got[t].code
      PROVE c.knobs["base"] = IF default = <<>> THEN Unset ELSE default[1].base
    BY DEF DeviceReached
  <2>1. PICK u \in Asked : /\ s \in Asked /\ u.source = s.source
                           /\ Fingerprint(u) = Fingerprint(s) /\ CodeOf(c, u)
    BY <1>1 DEF DeviceInv, EngineInv, HeldInv
  <2>2. WellFormed(s) /\ WellFormed(u)
    BY <2>1, AskedWell
  <2>3. c.knobs["base"] = Folded(u, "base")
    BY <2>1, TemplatesLoad DEF CodeOf
  <2>4. Reached(s)
    BY <1>1 DEF DeviceInv, ReachInv
  <2>5. CASE default = <<>>
    BY <2>1, <2>2, <2>3, <2>4, <2>5, SameFingerprint, FoldedIs DEF Reached
  <2>6. CASE default # <<>>
    <3>1. PICK i \in DOMAIN s.knobs : s.knobs[i] = Knob("base", default[1].base)
      BY <2>4, <2>6 DEF Reached
    <3>2. Folded(u, s.knobs[i].name) = s.knobs[i].value
      BY <2>1, <2>2, <3>1, SameFingerprint DEF Knob
    <3> QED
      BY <2>3, <2>6, <3>1, <3>2 DEF Knob
  <2> QED
    BY <2>5, <2>6
<1> QED
  BY <1>1, WindowsReached, PTL

-----------------------------------------------------------------------------
(* The passes that mark loops by profiles *)

\* Marks are complete, and only on loops the device has a scheme for; while loops are
\* still to be outlined, and that is done first, nothing is marked.
Marks ==
  /\ DOMAIN plan = {"target", "decision", "loops"}
  /\ \A l \in DOMAIN plan.loops : DOMAIN plan.loops[l] = DOMAIN Unmarked
  /\ pending # <<>> => plan.target = "none" /\ \A l \in DOMAIN plan.loops : plan.loops[l] = Unmarked

PlanInv == Marks /\ MarksAgree

\* A function starts without marks.
LEMMA PlannedFirst == ASSUME PlannedInit PROVE PlanInv
<1>1. PICK f : PlanInit(f)
  BY DEF PlannedInit
<1>2. plan = Unplanned(f)
  BY <1>1 DEF PlanInit
<1>3. Marks
  BY <1>2 DEF Marks, Unplanned, Unmarked
<1>4. MarksAgree
  BY <1>2 DEF MarksAgree, Unplanned, Unmarked
<1> QED
  BY <1>3, <1>4 DEF PlanInv

\* Profiles: a function is marked with its loops, or nothing is.
LEMMA GuideKeeps ==
  ASSUME PlanInv, NEW r, Guide(r), pending = <<>>, UNCHANGED <<formVars, outlineVars>>
  PROVE  PlanInv'
<1>1. CASE plan' = plan
  <2>1. func' = func /\ pending' = pending
    BY DEF formVars, outlineVars
  <2> QED
    BY <1>1, <2>1 DEF PlanInv, Marks, MarksAgree
<1>2. ASSUME NEW p, NEW d,
             plan' = [target |-> IF d = "cpu" THEN plan.target ELSE "vortex",
                      decision |-> IF d = "cpu" THEN plan.decision ELSE d,
                      loops |-> [l \in DOMAIN plan.loops |-> Marked(func, l, plan.loops[l], d, p)]]
      PROVE  PlanInv'
  <2>1. func' = func /\ pending' = <<>>
    BY DEF formVars, outlineVars
  <2>2. /\ DOMAIN plan' = {"target", "decision", "loops"} /\ DOMAIN plan'.loops = DOMAIN plan.loops
        /\ \A l \in DOMAIN plan.loops : plan'.loops[l] = Marked(func, l, plan.loops[l], d, p)
        /\ plan'.target = IF d = "cpu" THEN plan.target ELSE "vortex"
    BY <1>2
  <2>3. ASSUME NEW l \in DOMAIN plan.loops
        PROVE  LET a == plan.loops[l]  b == plan'.loops[l]
               IN  /\ DOMAIN b = DOMAIN Unmarked
                   /\ IF d = "cpu" \/ ~IsCounted(Loop(func, l)) THEN b = a
                      ELSE b.gpu_offload = "vortex" /\ b.parallel_strategy # "none"
    <3> DEFINE a == plan.loops[l]  b == plan'.loops[l]
               distance == IF p.distance > 0 THEN p.distance ELSE a.prefetch_distance
               scheme == IF Loop(func, l).kind = "for" THEN "thread_strided" ELSE "block_parallel"
    <3>1. DOMAIN a = {"gpu_offload", "prefetch_distance", "parallel_strategy", "should_offload",
                      "can_hoist_h2d", "can_sink_d2h", "h2d_bytes", "d2h_bytes"}
      BY DEF PlanInv, Marks, Unmarked
    <3>2. b = IF d = "cpu" \/ ~IsCounted(Loop(func, l)) THEN a
              ELSE [a EXCEPT !.gpu_offload = "vortex", !.prefetch_distance = distance, !.parallel_strategy = scheme]
      BY <2>2 DEF Marked
    <3>3. scheme # "none" /\ DOMAIN Unmarked = DOMAIN a
      BY <3>1 DEF Unmarked
    <3> HIDE DEF a, b, distance, scheme
    <3> QED
      BY <3>1, <3>2, <3>3 DEF a, b
  <2>4. Marks'
    BY <2>1, <2>2, <2>3 DEF Marks
  <2>5. MarksAgree'
    <3> SUFFICES ASSUME NEW l \in DOMAIN plan.loops
                 PROVE  LET b == plan'.loops[l]
                        IN  /\ b.gpu_offload = (IF IsCounted(Loop(func, l)) THEN plan'.target ELSE "none")
                            /\ (b.gpu_offload = "none") = (b.parallel_strategy = "none")
      BY <2>1, <2>2 DEF MarksAgree
    <3>1. LET a == plan.loops[l]
          IN  /\ a.gpu_offload = (IF IsCounted(Loop(func, l)) THEN plan.target ELSE "none")
              /\ (a.gpu_offload = "none") = (a.parallel_strategy = "none")
      BY DEF PlanInv, MarksAgree
    <3> QED
      BY <2>2, <2>3, <3>1
  <2> QED
    BY <2>4, <2>5 DEF PlanInv
<1> QED
  BY <1>1, <1>2 DEF Guide

\* The analysis writes its own marks only.
LEMMA AnalyseKeeps ==
  ASSUME PlanInv, NEW r, Analyse(r), pending = <<>>, UNCHANGED <<formVars, outlineVars>>
  PROVE  PlanInv'
<1>1. PICK p : plan' = [plan EXCEPT !.loops = [l \in DOMAIN @ |->
         IF ~IsCounted(Loop(func, l)) THEN @[l]
         ELSE [@[l] EXCEPT !.should_offload = ShouldOffload(func, l, p, CountedElements(func, l)),
                           !.can_hoist_h2d = CanHoist(func, l),
                           !.can_sink_d2h = CanSink(func, l),
                           !.h2d_bytes = Bytes(func, H2D(func, l)),
                           !.d2h_bytes = Bytes(func, D2H(func, l))]]]
  BY DEF Analyse
<1>2. func' = func /\ pending' = <<>>
  BY DEF formVars, outlineVars
<1>3. DOMAIN plan = {"target", "decision", "loops"}
  BY DEF PlanInv, Marks
<1>4. /\ DOMAIN plan' = DOMAIN plan /\ DOMAIN plan'.loops = DOMAIN plan.loops /\ plan'.target = plan.target
      /\ \A l \in DOMAIN plan.loops :
           plan'.loops[l] = IF ~IsCounted(Loop(func, l)) THEN plan.loops[l]
             ELSE [plan.loops[l] EXCEPT !.should_offload = ShouldOffload(func, l, p, CountedElements(func, l)),
                           !.can_hoist_h2d = CanHoist(func, l),
                           !.can_sink_d2h = CanSink(func, l),
                           !.h2d_bytes = Bytes(func, H2D(func, l)),
                           !.d2h_bytes = Bytes(func, D2H(func, l))]
  BY <1>1, <1>3
<1>5. ASSUME NEW l \in DOMAIN plan.loops
      PROVE  LET a == plan.loops[l]  b == plan'.loops[l]
             IN  /\ DOMAIN b = DOMAIN Unmarked
                 /\ b.gpu_offload = a.gpu_offload /\ b.parallel_strategy = a.parallel_strategy
  <2> DEFINE a == plan.loops[l]  b == plan'.loops[l]
             pays == ShouldOffload(func, l, p, CountedElements(func, l))
             hoist == CanHoist(func, l)  sink == CanSink(func, l)
             to == Bytes(func, H2D(func, l))  from == Bytes(func, D2H(func, l))
  <2>1. DOMAIN a = {"gpu_offload", "prefetch_distance", "parallel_strategy", "should_offload",
                    "can_hoist_h2d", "can_sink_d2h", "h2d_bytes", "d2h_bytes"}
    BY DEF PlanInv, Marks, Unmarked
  <2>2. b = a \/ b = [a EXCEPT !.should_offload = pays, !.can_hoist_h2d = hoist,
                               !.can_sink_d2h = sink, !.h2d_bytes = to, !.d2h_bytes = from]
    BY <1>4
  <2>3. DOMAIN Unmarked = DOMAIN a
    BY <2>1 DEF Unmarked
  <2> HIDE DEF a, b, pays, hoist, sink, to, from
  <2>4. /\ DOMAIN b = DOMAIN Unmarked
        /\ b.gpu_offload = a.gpu_offload /\ b.parallel_strategy = a.parallel_strategy
    BY <2>1, <2>2, <2>3
  <2> QED
    BY <2>4 DEF a, b
<1>6. Marks'
  BY <1>2, <1>3, <1>4, <1>5 DEF Marks
<1>7. MarksAgree'
  <2> SUFFICES ASSUME NEW l \in DOMAIN plan.loops
               PROVE  LET b == plan'.loops[l]
                      IN  /\ b.gpu_offload = (IF IsCounted(Loop(func, l)) THEN plan'.target ELSE "none")
                          /\ (b.gpu_offload = "none") = (b.parallel_strategy = "none")
    BY <1>2, <1>4 DEF MarksAgree
  <2>1. LET a == plan.loops[l]
        IN  /\ a.gpu_offload = (IF IsCounted(Loop(func, l)) THEN plan.target ELSE "none")
            /\ (a.gpu_offload = "none") = (a.parallel_strategy = "none")
    BY DEF PlanInv, MarksAgree
  <2>2. plan'.target = plan.target /\ plan'.loops[l].gpu_offload = plan.loops[l].gpu_offload
        /\ plan'.loops[l].parallel_strategy = plan.loops[l].parallel_strategy
    BY <1>4, <1>5
  <2> QED
    BY <2>1, <2>2
<1> QED
  BY <1>6, <1>7 DEF PlanInv

\* While loops are outlined nothing is marked, and what is made anew is not.
LEMMA OutlineKeeps ==
  ASSUME PlanInv, Outline
  PROVE  PlanInv'
<1> DEFINE l == Head(pending)
<1>1. CASE plan' = plan /\ func' = func
  BY <1>1 DEF PlanInv, Marks, MarksAgree, Outline
<1>2. CASE plan' = [plan EXCEPT !.loops =
                      [n \in DOMAIN @ \ (Within(func, l) \ {l}) |-> IF n = l THEN Unmarked ELSE @[n]]]
  <2>1. DOMAIN plan = {"target", "decision", "loops"} /\ plan.target = "none"
        /\ \A n \in DOMAIN plan.loops : plan.loops[n] = Unmarked
    BY DEF PlanInv, Marks, Outline
  <2>2. DOMAIN plan' = DOMAIN plan /\ plan'.target = "none" /\ \A n \in DOMAIN plan'.loops : plan'.loops[n] = Unmarked
    BY <1>2, <2>1
  <2>3. Marks'
    BY <2>1, <2>2 DEF Marks
  <2>4. Unmarked.gpu_offload = "none" /\ Unmarked.parallel_strategy = "none" /\ ~Unmarked.should_offload
    BY DEF Unmarked
  <2>5. MarksAgree'
    BY <2>2, <2>4 DEF MarksAgree
  <2> QED
    BY <2>3, <2>5 DEF PlanInv
<1> QED
  BY <1>1, <1>2 DEF Outline

\* The invariant of the marks.
THEOREM MarksKept == ASSUME OutlineFirst PROVE PlannedSpec => []PlanInv
<1>1. PlannedInit => PlanInv
  BY PlannedFirst
<1>2. PlanInv /\ [PlannedNext]_<<formVars, planVars, outlineVars>> => PlanInv'
  <2> SUFFICES ASSUME PlanInv, [PlannedNext]_<<formVars, planVars, outlineVars>> PROVE PlanInv'
    OBVIOUS
  <2>1. CASE pending = <<>> /\ PlanNext /\ UNCHANGED outlineVars
    BY <2>1, GuideKeeps, AnalyseKeeps DEF PlanNext
  <2>2. CASE Outline
    BY <2>2, OutlineKeeps
  <2>3. CASE UNCHANGED <<formVars, planVars, outlineVars>>
    BY <2>3 DEF formVars, planVars, outlineVars, PlanInv, Marks, MarksAgree
  <2> QED
    BY <2>1, <2>2, <2>3 DEF PlannedNext
<1> QED
  BY <1>1, <1>2, PTL DEF PlannedSpec

\* Whatever profiles a pipeline reads and in whatever order its passes run, a function and
\* its counted loops are marked for the same device (annotateFunction, annotateLoop), if
\* loops are outlined before they are planned.
THEOREM MarksAlwaysAgree == ASSUME OutlineFirst PROVE PlannedSpec => []MarksAgree
<1>1. PlanInv => MarksAgree
  BY DEF PlanInv
<1> QED
  BY <1>1, MarksKept, PTL
==============================================================================
