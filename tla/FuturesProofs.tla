--------------------------- MODULE FuturesProofs ---------------------------
(***************************************************************************)
(* Proofs about completion futures and the phase barrier, for any number   *)
(* of threads and lines, with waits that do not give up and disciplined    *)
(* callers.                                                                *)
(***************************************************************************)
EXTENDS Futures, TLAPS

USE ConstantsOK, NobodyOK
USE DEF PC, Use

\* What a line has been used for when a thread is inside a call about it.
CallUse ==
  [arm |-> "armed", submit |-> "submitted", ring |-> "submitted", ringwait |-> "submitted",
   install |-> "submitted", await |-> "submitted", untrack |-> "none", release |-> "none"]

\* A call is about a line of its own, allocated, which nobody else can reach.
OwnLine ==
  \A t \in Threads : pc[t] \in DOMAIN CallUse =>
    owner[line[t]] = t /\ use[line[t]] = CallUse[pc[t]] /\ mem[line[t]] # "free"

\* What is about to be tracked, rung or installed is clear, and only what is
\* tracked is rung.
Preparing(t) == pc[t] \in {"submit", "ring", "install"}
Prepared ==
  \A t \in Threads :
    /\ Preparing(t) \/ pc[t] = "arm" => mem[line[t]] = "clear" /\ line[t] \notin device
    /\ pc[t] = "ring" => line[t] \in active
    /\ pc[t] = "release" => line[t] \notin active

LineInv(l) ==
  /\ mem[l] = "free" => use[l] = "none" /\ l \notin active
  /\ use[l] \in {"none", "fresh", "armed", "awaited"} \/ mem[l] = "done" => l \notin device
  /\ use[l] \in {"fresh", "armed"} => mem[l] = "clear"
  /\ use[l] = "awaited" => mem[l] = "done"
  /\ use[l] = "submitted" =>
       mem[l] = "done" \/ l \in device \/ (line[owner[l]] = l /\ Preparing(owner[l]))
  /\ l \in device => l \in active

\* The barrier has waited for what is on the list and not in toWait, and the line
\* stays done as long as it is listed.
Waited == holder # Nobody => \A l \in active \ toWait[holder] : mem[l] = "done"

\* The jobs a thread has at the device when it calls the barrier are among those
\* the barrier is to cover.
InBarrier(t) == pc[t] \in {"lock", "barrier", "returned"}
CoversOwn ==
  \A t \in Threads : InBarrier(t) =>
    /\ \A l \in device : owner[l] = t => l \in covered[t]
    /\ covered[t] \subseteq device

FuturesInv ==
  /\ TypeOK /\ OwnLine /\ Prepared
  /\ \A l \in Lines : LineInv(l)
  /\ Waited /\ CoversOwn /\ BarrierCovers

Careful == ~Timeouts /\ Disciplined

-----------------------------------------------------------------------------

\* When a barrier has nothing left to wait for the device has no job at all:
\* what it has is on the list, and what is on the list is done.
LEMMA AllDone ==
  ASSUME FuturesInv, NEW t \in Threads, pc[t] = "barrier", toWait[t] = {}
  PROVE  device = {} /\ \A l \in active : mem[l] = "done"
<1>1. holder = t
  BY DEF FuturesInv, TypeOK
<1>2. \A l \in active : mem[l] = "done"
  BY <1>1 DEF FuturesInv, Waited
<1>3. \A l \in Lines : l \notin device
  BY <1>2 DEF FuturesInv, LineInv
<1> QED
  BY <1>2, <1>3 DEF FuturesInv, TypeOK

\* Who has come back from the barrier has no job at the device.
LEMMA NoneLeft ==
  ASSUME FuturesInv, NEW t \in Threads, pc[t] = "returned",
         NEW l \in Lines, owner[l] = t, use[l] = "submitted"
  PROVE  mem[l] = "done" /\ l \notin device
<1>1. l \notin device
  BY DEF FuturesInv, CoversOwn, InBarrier, BarrierCovers
<1> QED
  BY <1>1 DEF FuturesInv, LineInv, Preparing

\* Every step leaves lines, list and threads well formed.
LEMMA TypeStep == ASSUME Careful, FuturesInv, [Next]_vars PROVE TypeOK'
<1> USE DEF Careful, CallUse, Goto, Call, barrierVars, NoneArmed, Unarmed, MayClear,
       FuturesInv, TypeOK
<1>1. ASSUME NEW t \in Threads, NEW l \in Lines, Alloc(t, l) PROVE TypeOK'
  BY <1>1 DEF Alloc
<1>2. ASSUME NEW t \in Threads, NEW l \in Lines, Arm(t, l) PROVE TypeOK'
  BY <1>2 DEF Arm
<1>3. ASSUME NEW t \in Threads, NEW l \in Lines, OffloadSubmit(t, l) PROVE TypeOK'
  BY <1>3 DEF OffloadSubmit
<1>4. ASSUME NEW t \in Threads, NEW l \in Lines, Install(t, l) PROVE TypeOK'
  BY <1>4 DEF Install
<1>5. ASSUME NEW t \in Threads, NEW l \in Lines, Await(t, l) PROVE TypeOK'
  BY <1>5 DEF Await
<1>6. ASSUME NEW t \in Threads, NEW l \in Lines, Free(t, l) PROVE TypeOK'
  BY <1>6 DEF Free
<1>7. ASSUME NEW t \in Threads, Track(t) PROVE TypeOK'
  BY <1>7 DEF Track
<1>8. ASSUME NEW t \in Threads, Ring(t) PROVE TypeOK'
  BY <1>8 DEF Ring
<1>9. ASSUME NEW t \in Threads, RingWaited(t) PROVE TypeOK'
  BY <1>9 DEF RingWaited
<1>10. ASSUME NEW t \in Threads, CompleteInSoftware(t) PROVE TypeOK'
  BY <1>10 DEF CompleteInSoftware
<1>11. ASSUME NEW t \in Threads, Installed(t) PROVE TypeOK'
  BY <1>11 DEF Installed
<1>12. ASSUME NEW t \in Threads, Awaited(t) PROVE TypeOK'
  BY <1>12 DEF Awaited
<1>13. ASSUME NEW t \in Threads, Untrack(t) PROVE TypeOK'
  BY <1>13 DEF Untrack
<1>14. ASSUME NEW t \in Threads, Release(t) PROVE TypeOK'
  BY <1>14 DEF Release
<1>15. ASSUME NEW t \in Threads, Barrier(t) PROVE TypeOK'
  BY <1>15 DEF Barrier
<1>16. ASSUME NEW t \in Threads, BarrierLock(t) PROVE TypeOK'
  BY <1>16 DEF BarrierLock
<1>17. ASSUME NEW t \in Threads, BarrierReturn(t) PROVE TypeOK'
  BY <1>17 DEF BarrierReturn
<1>18. ASSUME NEW t \in Threads, Leave(t) PROVE TypeOK'
  BY <1>18 DEF Leave
<1>19. ASSUME NEW t \in Threads, NEW l \in Lines, BarrierWait(t, l) PROVE TypeOK'
  BY <1>19 DEF BarrierWait
<1>20. ASSUME NEW l \in Lines, Complete(l) PROVE TypeOK'
  BY <1>20 DEF Complete
<1>21. CASE UNCHANGED vars
  BY <1>21 DEF vars
<1> QED
  BY <1>1, <1>2, <1>3, <1>4, <1>5, <1>6, <1>7, <1>8, <1>9, <1>10, <1>11,
     <1>12, <1>13, <1>14, <1>15, <1>16, <1>17, <1>18, <1>19, <1>20, <1>21 DEF Next, Step

\* Nobody else reaches the line of a call: it is allocated, so Alloc leaves it
\* alone, and it has one owner, who is inside the call.
LEMMA OwnLineStep == ASSUME Careful, FuturesInv, [Next]_vars PROVE OwnLine'
<1> USE DEF Careful, CallUse, Goto, Call, barrierVars, NoneArmed, Unarmed, MayClear,
       FuturesInv, TypeOK, OwnLine, LineInv
<1>1. ASSUME NEW t \in Threads, NEW l \in Lines, Alloc(t, l) PROVE OwnLine'
  BY <1>1 DEF Alloc
<1>2. ASSUME NEW t \in Threads, NEW l \in Lines, Arm(t, l) PROVE OwnLine'
  BY <1>2 DEF Arm
<1>3. ASSUME NEW t \in Threads, NEW l \in Lines, OffloadSubmit(t, l) PROVE OwnLine'
  BY <1>3 DEF OffloadSubmit
<1>4. ASSUME NEW t \in Threads, NEW l \in Lines, Install(t, l) PROVE OwnLine'
  BY <1>4 DEF Install
<1>5. ASSUME NEW t \in Threads, NEW l \in Lines, Await(t, l) PROVE OwnLine'
  BY <1>5 DEF Await
<1>6. ASSUME NEW t \in Threads, NEW l \in Lines, Free(t, l) PROVE OwnLine'
  BY <1>6 DEF Free
<1>7. ASSUME NEW t \in Threads, Track(t) PROVE OwnLine'
  BY <1>7 DEF Track
<1>8. ASSUME NEW t \in Threads, Ring(t) PROVE OwnLine'
  BY <1>8 DEF Ring
<1>9. ASSUME NEW t \in Threads, RingWaited(t) PROVE OwnLine'
  BY <1>9 DEF RingWaited
<1>10. ASSUME NEW t \in Threads, CompleteInSoftware(t) PROVE OwnLine'
  BY <1>10 DEF CompleteInSoftware
<1>11. ASSUME NEW t \in Threads, Installed(t) PROVE OwnLine'
  BY <1>11 DEF Installed
<1>12. ASSUME NEW t \in Threads, Awaited(t) PROVE OwnLine'
  BY <1>12 DEF Awaited
<1>13. ASSUME NEW t \in Threads, Untrack(t) PROVE OwnLine'
  BY <1>13 DEF Untrack
<1>14. ASSUME NEW t \in Threads, Release(t) PROVE OwnLine'
  BY <1>14 DEF Release
<1>15. ASSUME NEW t \in Threads, Barrier(t) PROVE OwnLine'
  BY <1>15 DEF Barrier
<1>16. ASSUME NEW t \in Threads, BarrierLock(t) PROVE OwnLine'
  BY <1>16 DEF BarrierLock
<1>17. ASSUME NEW t \in Threads, BarrierReturn(t) PROVE OwnLine'
  BY <1>17 DEF BarrierReturn
<1>18. ASSUME NEW t \in Threads, Leave(t) PROVE OwnLine'
  BY <1>18 DEF Leave
<1>19. ASSUME NEW t \in Threads, NEW l \in Lines, BarrierWait(t, l) PROVE OwnLine'
  BY <1>19 DEF BarrierWait
<1>20. ASSUME NEW l \in Lines, Complete(l) PROVE OwnLine'
  BY <1>20 DEF Complete
<1>21. CASE UNCHANGED vars
  BY <1>21 DEF vars
<1> QED
  BY <1>1, <1>2, <1>3, <1>4, <1>5, <1>6, <1>7, <1>8, <1>9, <1>10, <1>11,
     <1>12, <1>13, <1>14, <1>15, <1>16, <1>17, <1>18, <1>19, <1>20, <1>21 DEF Next, Step

\* Only the device writes a line that is being prepared, and it does not have it;
\* a barrier that empties the list has seen everything on it done (AllDone).
LEMMA PreparedStep == ASSUME Careful, FuturesInv, [Next]_vars PROVE Prepared'
<1> USE DEF Careful, CallUse, Goto, Call, barrierVars, NoneArmed, Unarmed, MayClear,
       FuturesInv, TypeOK, OwnLine, Prepared, Preparing, LineInv
<1>1. ASSUME NEW t \in Threads, NEW l \in Lines, Alloc(t, l) PROVE Prepared'
  BY <1>1 DEF Alloc
<1>2. ASSUME NEW t \in Threads, NEW l \in Lines, Arm(t, l) PROVE Prepared'
  BY <1>2 DEF Arm
<1>3. ASSUME NEW t \in Threads, NEW l \in Lines, OffloadSubmit(t, l) PROVE Prepared'
  BY <1>3 DEF OffloadSubmit
<1>4. ASSUME NEW t \in Threads, NEW l \in Lines, Install(t, l) PROVE Prepared'
  BY <1>4 DEF Install
<1>5. ASSUME NEW t \in Threads, NEW l \in Lines, Await(t, l) PROVE Prepared'
  BY <1>5 DEF Await
<1>6. ASSUME NEW t \in Threads, NEW l \in Lines, Free(t, l) PROVE Prepared'
  BY <1>6 DEF Free
<1>7. ASSUME NEW t \in Threads, Track(t) PROVE Prepared'
  BY <1>7 DEF Track
<1>8. ASSUME NEW t \in Threads, Ring(t) PROVE Prepared'
  BY <1>8 DEF Ring
<1>9. ASSUME NEW t \in Threads, RingWaited(t) PROVE Prepared'
  BY <1>9 DEF RingWaited
<1>10. ASSUME NEW t \in Threads, CompleteInSoftware(t) PROVE Prepared'
  BY <1>10 DEF CompleteInSoftware
<1>11. ASSUME NEW t \in Threads, Installed(t) PROVE Prepared'
  BY <1>11 DEF Installed
<1>12. ASSUME NEW t \in Threads, Awaited(t) PROVE Prepared'
  BY <1>12 DEF Awaited
<1>13. ASSUME NEW t \in Threads, Untrack(t) PROVE Prepared'
  BY <1>13 DEF Untrack
<1>14. ASSUME NEW t \in Threads, Release(t) PROVE Prepared'
  BY <1>14 DEF Release
<1>15. ASSUME NEW t \in Threads, Barrier(t) PROVE Prepared'
  BY <1>15 DEF Barrier
<1>16. ASSUME NEW t \in Threads, BarrierLock(t) PROVE Prepared'
  BY <1>16 DEF BarrierLock
<1>17. ASSUME NEW t \in Threads, BarrierReturn(t) PROVE Prepared'
  BY <1>17, AllDone DEF BarrierReturn
<1>18. ASSUME NEW t \in Threads, Leave(t) PROVE Prepared'
  BY <1>18 DEF Leave
<1>19. ASSUME NEW t \in Threads, NEW l \in Lines, BarrierWait(t, l) PROVE Prepared'
  BY <1>19 DEF BarrierWait
<1>20. ASSUME NEW l \in Lines, Complete(l) PROVE Prepared'
  BY <1>20 DEF Complete
<1>21. CASE UNCHANGED vars
  BY <1>21 DEF vars
<1> QED
  BY <1>1, <1>2, <1>3, <1>4, <1>5, <1>6, <1>7, <1>8, <1>9, <1>10, <1>11,
     <1>12, <1>13, <1>14, <1>15, <1>16, <1>17, <1>18, <1>19, <1>20, <1>21 DEF Next, Step

\* What the owner last did with a line, its magic word, the list and the device agree.
LEMMA LineStep == ASSUME Careful, FuturesInv, NEW k \in Lines, [Next]_vars PROVE LineInv(k)'
<1> USE DEF Careful, CallUse, Goto, Call, barrierVars, NoneArmed, Unarmed, MayClear,
       FuturesInv, TypeOK, OwnLine, Prepared, Preparing, LineInv, CoversOwn, InBarrier
<1>1. ASSUME NEW t \in Threads, NEW l \in Lines, Alloc(t, l) PROVE LineInv(k)'
  BY <1>1 DEF Alloc
<1>2. ASSUME NEW t \in Threads, NEW l \in Lines, Arm(t, l) PROVE LineInv(k)'
  BY <1>2 DEF Arm
<1>3. ASSUME NEW t \in Threads, NEW l \in Lines, OffloadSubmit(t, l) PROVE LineInv(k)'
  BY <1>3 DEF OffloadSubmit
<1>4. ASSUME NEW t \in Threads, NEW l \in Lines, Install(t, l) PROVE LineInv(k)'
  BY <1>4 DEF Install
<1>5. ASSUME NEW t \in Threads, NEW l \in Lines, Await(t, l) PROVE LineInv(k)'
  BY <1>5 DEF Await
<1>6. ASSUME NEW t \in Threads, NEW l \in Lines, Free(t, l) PROVE LineInv(k)'
  BY <1>6 DEF Free
<1>7. ASSUME NEW t \in Threads, Track(t) PROVE LineInv(k)'
  BY <1>7 DEF Track
<1>8. ASSUME NEW t \in Threads, Ring(t) PROVE LineInv(k)'
  BY <1>8 DEF Ring
<1>9. ASSUME NEW t \in Threads, RingWaited(t) PROVE LineInv(k)'
  BY <1>9 DEF RingWaited
<1>10. ASSUME NEW t \in Threads, CompleteInSoftware(t) PROVE LineInv(k)'
  BY <1>10 DEF CompleteInSoftware
<1>11. ASSUME NEW t \in Threads, Installed(t) PROVE LineInv(k)'
  BY <1>11 DEF Installed
<1>12. ASSUME NEW t \in Threads, Awaited(t) PROVE LineInv(k)'
  BY <1>12 DEF Awaited
<1>13. ASSUME NEW t \in Threads, Untrack(t) PROVE LineInv(k)'
  BY <1>13 DEF Untrack
<1>14. ASSUME NEW t \in Threads, Release(t) PROVE LineInv(k)'
  BY <1>14 DEF Release
<1>15. ASSUME NEW t \in Threads, Barrier(t) PROVE LineInv(k)'
  BY <1>15 DEF Barrier
<1>16. ASSUME NEW t \in Threads, BarrierLock(t) PROVE LineInv(k)'
  BY <1>16 DEF BarrierLock
<1>17. ASSUME NEW t \in Threads, BarrierReturn(t) PROVE LineInv(k)'
  BY <1>17, AllDone DEF BarrierReturn
<1>18. ASSUME NEW t \in Threads, Leave(t) PROVE LineInv(k)'
  BY <1>18, NoneLeft DEF Leave
<1>19. ASSUME NEW t \in Threads, NEW l \in Lines, BarrierWait(t, l) PROVE LineInv(k)'
  BY <1>19 DEF BarrierWait
<1>20. ASSUME NEW l \in Lines, Complete(l) PROVE LineInv(k)'
  BY <1>20 DEF Complete
<1>21. CASE UNCHANGED vars
  BY <1>21 DEF vars
<1> QED
  BY <1>1, <1>2, <1>3, <1>4, <1>5, <1>6, <1>7, <1>8, <1>9, <1>10, <1>11,
     <1>12, <1>13, <1>14, <1>15, <1>16, <1>17, <1>18, <1>19, <1>20, <1>21 DEF Next, Step

\* A line that is listed and done is not cleared before it has left the list, which
\* it cannot while the barrier holds the mutex.
LEMMA WaitedStep == ASSUME Careful, FuturesInv, [Next]_vars PROVE Waited'
<1> USE DEF Careful, CallUse, Goto, Call, barrierVars, NoneArmed, Unarmed, MayClear,
       FuturesInv, TypeOK, OwnLine, Prepared, Preparing, LineInv, Waited
<1>1. ASSUME NEW t \in Threads, NEW l \in Lines, Alloc(t, l) PROVE Waited'
  BY <1>1 DEF Alloc
<1>2. ASSUME NEW t \in Threads, NEW l \in Lines, Arm(t, l) PROVE Waited'
  BY <1>2 DEF Arm
<1>3. ASSUME NEW t \in Threads, NEW l \in Lines, OffloadSubmit(t, l) PROVE Waited'
  BY <1>3 DEF OffloadSubmit
<1>4. ASSUME NEW t \in Threads, NEW l \in Lines, Install(t, l) PROVE Waited'
  BY <1>4 DEF Install
<1>5. ASSUME NEW t \in Threads, NEW l \in Lines, Await(t, l) PROVE Waited'
  BY <1>5 DEF Await
<1>6. ASSUME NEW t \in Threads, NEW l \in Lines, Free(t, l) PROVE Waited'
  BY <1>6 DEF Free
<1>7. ASSUME NEW t \in Threads, Track(t) PROVE Waited'
  BY <1>7 DEF Track
<1>8. ASSUME NEW t \in Threads, Ring(t) PROVE Waited'
  BY <1>8 DEF Ring
<1>9. ASSUME NEW t \in Threads, RingWaited(t) PROVE Waited'
  BY <1>9 DEF RingWaited
<1>10. ASSUME NEW t \in Threads, CompleteInSoftware(t) PROVE Waited'
  BY <1>10 DEF CompleteInSoftware
<1>11. ASSUME NEW t \in Threads, Installed(t) PROVE Waited'
  BY <1>11 DEF Installed
<1>12. ASSUME NEW t \in Threads, Awaited(t) PROVE Waited'
  BY <1>12 DEF Awaited
<1>13. ASSUME NEW t \in Threads, Untrack(t) PROVE Waited'
  BY <1>13 DEF Untrack
<1>14. ASSUME NEW t \in Threads, Release(t) PROVE Waited'
  BY <1>14 DEF Release
<1>15. ASSUME NEW t \in Threads, Barrier(t) PROVE Waited'
  BY <1>15 DEF Barrier
<1>16. ASSUME NEW t \in Threads, BarrierLock(t) PROVE Waited'
  BY <1>16 DEF BarrierLock
<1>17. ASSUME NEW t \in Threads, BarrierReturn(t) PROVE Waited'
  BY <1>17 DEF BarrierReturn
<1>18. ASSUME NEW t \in Threads, Leave(t) PROVE Waited'
  BY <1>18 DEF Leave
<1>19. ASSUME NEW t \in Threads, NEW l \in Lines, BarrierWait(t, l) PROVE Waited'
  BY <1>19 DEF BarrierWait
<1>20. ASSUME NEW l \in Lines, Complete(l) PROVE Waited'
  BY <1>20 DEF Complete
<1>21. CASE UNCHANGED vars
  BY <1>21 DEF vars
<1> QED
  BY <1>1, <1>2, <1>3, <1>4, <1>5, <1>6, <1>7, <1>8, <1>9, <1>10, <1>11,
     <1>12, <1>13, <1>14, <1>15, <1>16, <1>17, <1>18, <1>19, <1>20, <1>21 DEF Next, Step

\* A thread in the barrier submits nothing, so the device gets no new job of its own.
LEMMA CoversStep == ASSUME Careful, FuturesInv, [Next]_vars PROVE CoversOwn'
<1> USE DEF Careful, CallUse, Goto, Call, barrierVars, NoneArmed, Unarmed, MayClear,
       FuturesInv, TypeOK, OwnLine, Prepared, Preparing, LineInv, CoversOwn, InBarrier
<1>1. ASSUME NEW t \in Threads, NEW l \in Lines, Alloc(t, l) PROVE CoversOwn'
  BY <1>1 DEF Alloc
<1>2. ASSUME NEW t \in Threads, NEW l \in Lines, Arm(t, l) PROVE CoversOwn'
  BY <1>2 DEF Arm
<1>3. ASSUME NEW t \in Threads, NEW l \in Lines, OffloadSubmit(t, l) PROVE CoversOwn'
  BY <1>3 DEF OffloadSubmit
<1>4. ASSUME NEW t \in Threads, NEW l \in Lines, Install(t, l) PROVE CoversOwn'
  BY <1>4 DEF Install
<1>5. ASSUME NEW t \in Threads, NEW l \in Lines, Await(t, l) PROVE CoversOwn'
  BY <1>5 DEF Await
<1>6. ASSUME NEW t \in Threads, NEW l \in Lines, Free(t, l) PROVE CoversOwn'
  BY <1>6 DEF Free
<1>7. ASSUME NEW t \in Threads, Track(t) PROVE CoversOwn'
  BY <1>7 DEF Track
<1>8. ASSUME NEW t \in Threads, Ring(t) PROVE CoversOwn'
  BY <1>8 DEF Ring
<1>9. ASSUME NEW t \in Threads, RingWaited(t) PROVE CoversOwn'
  BY <1>9 DEF RingWaited
<1>10. ASSUME NEW t \in Threads, CompleteInSoftware(t) PROVE CoversOwn'
  BY <1>10 DEF CompleteInSoftware
<1>11. ASSUME NEW t \in Threads, Installed(t) PROVE CoversOwn'
  BY <1>11 DEF Installed
<1>12. ASSUME NEW t \in Threads, Awaited(t) PROVE CoversOwn'
  BY <1>12 DEF Awaited
<1>13. ASSUME NEW t \in Threads, Untrack(t) PROVE CoversOwn'
  BY <1>13 DEF Untrack
<1>14. ASSUME NEW t \in Threads, Release(t) PROVE CoversOwn'
  BY <1>14 DEF Release
<1>15. ASSUME NEW t \in Threads, Barrier(t) PROVE CoversOwn'
  BY <1>15 DEF Barrier
<1>16. ASSUME NEW t \in Threads, BarrierLock(t) PROVE CoversOwn'
  BY <1>16 DEF BarrierLock
<1>17. ASSUME NEW t \in Threads, BarrierReturn(t) PROVE CoversOwn'
  BY <1>17 DEF BarrierReturn
<1>18. ASSUME NEW t \in Threads, Leave(t) PROVE CoversOwn'
  BY <1>18 DEF Leave
<1>19. ASSUME NEW t \in Threads, NEW l \in Lines, BarrierWait(t, l) PROVE CoversOwn'
  BY <1>19 DEF BarrierWait
<1>20. ASSUME NEW l \in Lines, Complete(l) PROVE CoversOwn'
  BY <1>20 DEF Complete
<1>21. CASE UNCHANGED vars
  BY <1>21 DEF vars
<1> QED
  BY <1>1, <1>2, <1>3, <1>4, <1>5, <1>6, <1>7, <1>8, <1>9, <1>10, <1>11,
     <1>12, <1>13, <1>14, <1>15, <1>16, <1>17, <1>18, <1>19, <1>20, <1>21 DEF Next, Step

\* The mutex is released and covered emptied by the same barrier.
LEMMA BarrierStep == ASSUME Careful, FuturesInv, [Next]_vars PROVE BarrierCovers'
<1> USE DEF FuturesInv, TypeOK, BarrierCovers, Goto, Call, barrierVars
<1>1. ASSUME NEW t \in Threads, BarrierReturn(t) PROVE BarrierCovers'
  <2>1. device = {}
    BY <1>1, AllDone DEF BarrierReturn
  <2>2. covered[t] = {}
    BY <1>1, <2>1 DEF BarrierReturn, CoversOwn, InBarrier
  <2> QED
    BY <1>1, <2>2 DEF BarrierReturn
<1>2. ASSUME NEW t \in Threads, Barrier(t) \/ BarrierLock(t) \/ Leave(t) PROVE BarrierCovers'
  BY <1>2 DEF Barrier, BarrierLock, Leave
<1>3. ASSUME NEW t \in Threads, NEW l \in Lines,
             \/ Alloc(t, l) \/ Arm(t, l) \/ OffloadSubmit(t, l) \/ Install(t, l)
             \/ Await(t, l) \/ Free(t, l) \/ BarrierWait(t, l)
      PROVE  BarrierCovers'
  BY <1>3 DEF Alloc, Arm, OffloadSubmit, Install, Await, Free, BarrierWait
<1>4. ASSUME NEW t \in Threads,
             \/ Track(t) \/ Ring(t) \/ RingWaited(t) \/ CompleteInSoftware(t)
             \/ Installed(t) \/ Awaited(t) \/ Untrack(t) \/ Release(t)
      PROVE  BarrierCovers'
  <2>1. CASE Track(t) \/ Untrack(t)
    BY <2>1 DEF Track, Untrack
  <2>2. CASE Ring(t) \/ RingWaited(t)
    BY <2>2 DEF Ring, RingWaited
  <2>3. CASE CompleteInSoftware(t) \/ Installed(t)
    BY <2>3 DEF CompleteInSoftware, Installed
  <2>4. CASE Awaited(t) \/ Release(t)
    BY <2>4 DEF Awaited, Release
  <2> QED
    BY <1>4, <2>1, <2>2, <2>3, <2>4
<1>5. ASSUME NEW l \in Lines, Complete(l) PROVE BarrierCovers'
  BY <1>5 DEF Complete
<1>6. CASE UNCHANGED vars
  BY <1>6 DEF vars
<1> QED
  BY <1>1, <1>2, <1>3, <1>4, <1>5, <1>6 DEF Next, Step

-----------------------------------------------------------------------------
(* Theorems *)

\* The futures of cira_future_* and the barrier keep to the invariant above.
THEOREM FuturesKept == ASSUME Careful PROVE Spec => []FuturesInv
<1>1. Init => FuturesInv
  <2> SUFFICES ASSUME Init PROVE FuturesInv
    OBVIOUS
  <2> USE DEF Init
  <2>1. TypeOK
    BY DEF TypeOK
  <2>2. OwnLine /\ Prepared /\ Waited /\ CoversOwn /\ BarrierCovers
    BY DEF OwnLine, CallUse, Prepared, Preparing, Waited, CoversOwn, InBarrier, BarrierCovers
  <2>3. \A l \in Lines : LineInv(l)
    BY DEF LineInv
  <2> QED
    BY <2>1, <2>2, <2>3 DEF FuturesInv
<1>2. FuturesInv /\ [Next]_vars => FuturesInv'
  <2> SUFFICES ASSUME FuturesInv, [Next]_vars PROVE FuturesInv'
    OBVIOUS
  <2>1. (\A l \in Lines : LineInv(l))'
    BY LineStep
  <2> QED
    BY <2>1, TypeStep, OwnLineStep, PreparedStep, WaitedStep, CoversStep, BarrierStep
    DEF FuturesInv
<1> QED
  BY <1>1, <1>2, PTL DEF Spec

\* vortex_cxl_write_completion finds its line allocated: cira_future_free never
\* gives one back that the device still has.
THEOREM DeviceWritesLive == ASSUME Careful PROVE Spec => []DeviceLive
<1>1. FuturesInv => DeviceLive
  BY DEF FuturesInv, TypeOK, LineInv, DeviceLive
<1> QED
  BY <1>1, FuturesKept, PTL

\* The loop of cira_phase_barrier reads allocated lines only.
THEOREM BarrierReadsLive == ASSUME Careful PROVE Spec => []ListedLive
<1>1. FuturesInv => ListedLive
  BY DEF FuturesInv, TypeOK, LineInv, ListedLive
<1> QED
  BY <1>1, FuturesKept, PTL

\* "Wait for all outstanding device tasks": every job the device had when
\* cira_phase_barrier was called is finished when it returns.
THEOREM BarrierIsBarrier == ASSUME Careful PROVE Spec => []BarrierCovers
<1>1. FuturesInv => BarrierCovers
  BY DEF FuturesInv
<1> QED
  BY <1>1, FuturesKept, PTL

\* After cira_future_await the job is finished and its line marked.
THEOREM AwaitMeansDone == ASSUME Careful PROVE Spec => []AwaitedDone
<1>1. FuturesInv => AwaitedDone
  BY DEF FuturesInv, LineInv, AwaitedDone
<1> QED
  BY <1>1, FuturesKept, PTL
=============================================================================
