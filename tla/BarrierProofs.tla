--------------------------- MODULE BarrierProofs ---------------------------
(***************************************************************************)
(* Proofs about Barrier, for every finite set of threads and every number  *)
(* num_threads, larger or smaller than the number of the threads.          *)
(***************************************************************************)
EXTENDS Barrier, FiniteSetTheorems, TLAPS

Leading == {"cv_all", "cv_wake_all", "notified"}

\* What a thread's place in wait() says about its role.
Roles == \A t \in Thread :
  /\ pc[t] \in Leading <=> t \in is_leader
  /\ pc[t] \notin {"cv_one", "cv_wake_one"}
  /\ t \in same_gen => pc[t] \in {"returned"} \union Waits
  /\ pc[t] \in {"cv_load", "cv_unlock"} => t \in same_gen

\* The count is the number of the threads that wait in this generation.
Counted == count = Cardinality(same_gen)

\* A thread that was released on its way to sleep has missed the notification
\* only as long as the leader has not counted up.
Releasing == \A t \in Thread :
  /\ pc[t] = "cv_asleep" /\ t \notin same_gen => \E l \in Thread : pc[l] \in {"cv_all", "cv_wake_all"}
  /\ pc[t] \in {"cv_wait", "cv_asleep"} /\ t \in current /\ t \notin same_gen => \E l \in Thread : pc[l] = "cv_all"

\* The inductive invariant.
IInv == TypeOK /\ Roles /\ Counted /\ Releasing

\* The waiting threads can be counted.
LEMMA SameGenFinite == IInv => IsFiniteSet(same_gen)
BY BarrierAssumption, FS_Subset DEF IInv, TypeOK

\* Every action keeps the invariant.  The mutex serializes the leader's
\* notification with every other visit to the barrier's state.
LEMMA InvInductive == IInv /\ [Next]_vars => IInv'
<1> SUFFICES ASSUME IInv, [Next]_vars PROVE IInv'
  OBVIOUS
<1> USE NoThreadIsNone, BarrierAssumption DEF IInv, TypeOK, Roles, Counted, Releasing, Leading,
    Inside, Waits, Notifies, Goto, At, barrierVars, Mutex!Acquire, Mutex!Release
<1>1. ASSUME NEW t \in Thread, Call(t) PROVE IInv'
  BY <1>1 DEF Call
<1>2. ASSUME NEW t \in Thread, Lock(t) PROVE IInv'
  BY <1>2 DEF Lock
<1>3. ASSUME NEW t \in Thread, Enter(t) PROVE IInv'
  <2>1. t \notin same_gen /\ IsFiniteSet(same_gen)
    BY <1>3, SameGenFinite DEF Enter
  <2>2. CASE count + 1 < num_threads
    <3>1. Cardinality(same_gen \union {t}) = count + 1
      BY <2>1, FS_AddElement
    <3>2. pc'[t] = "returned" /\ same_gen' = same_gen \union {t} /\ count' = count + 1
      BY <1>3, <2>2 DEF Enter
    <3>3. Counted'
      BY <3>1, <3>2
    <3>4. TypeOK'
      BY <1>3, <2>2 DEF Enter
    <3>5. Roles' /\ Releasing'
      BY <1>3, <2>2 DEF Enter
    <3>6. QED
      BY <3>3, <3>4, <3>5
  <2>3. CASE ~(count + 1 < num_threads)
    <3>1. pc'[t] = "cv_all" /\ same_gen' = {} /\ count' = 0 /\ is_leader' = is_leader \union {t}
      BY <1>3, <2>3 DEF Enter
    <3>2. Counted'
      BY <3>1, FS_EmptySet
    <3>3. TypeOK' /\ Roles'
      BY <1>3, <2>3, <3>1 DEF Enter
    <3>4. Releasing'
      BY <3>1
    <3>5. QED
      BY <3>2, <3>3, <3>4
  <2>4. QED
    BY <2>2, <2>3
<1>4. ASSUME NEW t \in Thread, Test(t) PROVE IInv'
  BY <1>4 DEF Test
<1>5. ASSUME NEW t \in Thread, Leave(t) PROVE IInv'
  BY <1>5 DEF Leave
<1>6. ASSUME NEW t \in Thread, LoadCounter(t), UNCHANGED barrierVars PROVE IInv'
  BY <1>6 DEF LoadCounter
<1>7. ASSUME NEW t \in Thread, UnlockToWait(t), UNCHANGED barrierVars PROVE IInv'
  BY <1>7 DEF UnlockToWait
<1>8. ASSUME NEW t \in Thread, FutexWait(t), UNCHANGED barrierVars PROVE IInv'
  BY <1>8 DEF FutexWait
<1>9. ASSUME NEW t \in Thread, Relock(t), UNCHANGED barrierVars PROVE IInv'
  BY <1>9 DEF Relock
<1>10. ASSUME NEW t \in Thread, CountUp(t), UNCHANGED barrierVars PROVE IInv'
  BY <1>10 DEF CountUp
<1>11. ASSUME NEW t \in Thread, WakeWaiters(t), UNCHANGED barrierVars PROVE IInv'
  <2>1. pc' = [u \in Thread |-> IF pc[u] = "cv_asleep" THEN "cv_relock"
                                ELSE IF u = t THEN "notified" ELSE pc[u]]
    BY <1>11 DEF WakeWaiters, FutexWakeAll
  <2>2. TypeOK' /\ Roles' /\ Counted'
    BY <1>11, <2>1 DEF WakeWaiters
  <2>3. Releasing'
    <3>1. \A u \in Thread : pc'[u] # "cv_asleep"
      BY <2>1
    <3>2. ASSUME NEW u \in Thread, pc[u] = "cv_all" PROVE FALSE
      BY <1>11, <3>2 DEF WakeWaiters
    <3>3. QED
      BY <1>11, <2>1, <3>1, <3>2 DEF WakeWaiters
  <2>4. QED
    BY <2>2, <2>3
<1>12. ASSUME NEW t \in Thread, Disturb(t), UNCHANGED barrierVars PROVE IInv'
  <2>1. TypeOK' /\ Roles' /\ Counted'
    BY <1>12 DEF Disturb
  <2>2. Releasing'
    BY <1>12 DEF Disturb
  <2>3. QED
    BY <2>1, <2>2
<1>13. CASE UNCHANGED vars
  BY <1>13 DEF vars
<1>14. QED
  BY <1>1, <1>2, <1>3, <1>4, <1>5, <1>6, <1>7, <1>8, <1>9, <1>10, <1>11, <1>12, <1>13
  DEF Next, Step, CvStep

\* The invariant holds at the start.
LEMMA InitInv == Init => IInv
BY FS_EmptySet, NoThreadIsNone DEF Init, CvInit, IInv, TypeOK, Roles, Counted, Releasing,
  Leading, Inside, Waits, Notifies, At

\* The inductive invariant holds in every reachable state of the barrier.
THEOREM Invariance == Spec => []IInv
BY InitInv, InvInductive, PTL DEF Spec

\* Whoever sleeps in wait() is in the current round or about to be woken.
THEOREM ReleasesKept == Spec => []NoLostRelease
<1>1. IInv => NoLostRelease
  BY DEF IInv, Releasing, NoLostRelease, At
<1> QED
  BY <1>1, Invariance, PTL

\* The instance counts sets the way this module does.
LEMMA SameCardinality == \A S : AB!Cardinality(S) = Cardinality(S)
BY DEF AB!Cardinality, Cardinality, AB!IsFiniteSet, IsFiniteSet

\* Every step of the barrier is a step of the abstract barrier or changes
\* nothing that it shows.
LEMMA StepSimulation == IInv /\ IInv' /\ [Next]_vars => [AB!Next]_phase
<1> SUFFICES ASSUME IInv, IInv', [Next]_vars PROVE AB!Next \/ phase' = phase
  OBVIOUS
<1> USE DEF IInv, TypeOK, Roles, Leading, Inside, Waits, Notifies, Goto, At, barrierVars, phase
<1>1. ASSUME NEW t \in Thread, Call(t) \/ Lock(t) \/ Test(t) PROVE phase' = phase
  BY <1>1 DEF Call, Lock, Test
<1>2. ASSUME NEW t \in Thread, Enter(t) PROVE AB!Next
  <2>1. AB!Waiting = same_gen
    BY DEF AB!Waiting
  <2>2. phase[t] = "out" /\ t \notin same_gen
    BY <1>2 DEF Enter
  <2>3. CASE count + 1 < num_threads
    <3>1. phase' = [phase EXCEPT ![t] = "waiting"]
      BY <1>2, <2>3, ZenonT(60) DEF Enter
    <3>2. QED
      <4> HIDE DEF phase, IInv, TypeOK, Roles
      <4>0. count = Cardinality(AB!Waiting)
        BY <2>1 DEF IInv, Counted
      <4>1. AB!Arrive(t)
        BY SameCardinality, <4>0, <2>2, <2>3, <3>1 DEF AB!Arrive
      <4>2. QED
        BY <4>1 DEF AB!Next
  <2>4. CASE ~(count + 1 < num_threads)
    <3>1. phase' = [u \in Thread |-> IF u = t THEN "leader"
                                     ELSE IF u \in same_gen THEN "follower" ELSE phase[u]]
      BY <1>2, <2>2, <2>4 DEF Enter
    <3>2. QED
      <4> HIDE DEF phase, IInv, TypeOK, Roles
      <4>0. count = Cardinality(AB!Waiting)
        BY <2>1 DEF IInv, Counted
      <4>1. AB!Arrive(t)
        BY SameCardinality, <4>0, <2>1, <2>2, <2>4, <3>1 DEF AB!Arrive
      <4>2. QED
        BY <4>1 DEF AB!Next
  <2>5. QED
    BY <2>3, <2>4
<1>3. ASSUME NEW t \in Thread, Leave(t) PROVE AB!Next
  <2>1. phase[t] \in {"leader", "follower"}
    BY <1>3 DEF Leave
  <2>2. phase' = [phase EXCEPT ![t] = "out"]
    BY <1>3 DEF Leave
  <2>3. QED
    BY <2>1, <2>2 DEF AB!Next, AB!Depart
<1>4. ASSUME NEW t \in Thread, LoadCounter(t) \/ UnlockToWait(t) \/ FutexWait(t) \/ Disturb(t),
             UNCHANGED barrierVars
      PROVE  phase' = phase
  BY <1>4 DEF LoadCounter, UnlockToWait, FutexWait, Disturb
<1>5. ASSUME NEW t \in Thread, Relock(t) \/ CountUp(t), UNCHANGED barrierVars PROVE phase' = phase
  BY <1>5 DEF Relock, CountUp
<1>6. ASSUME NEW t \in Thread, WakeWaiters(t), UNCHANGED barrierVars PROVE phase' = phase
  <2>1. pc' = [u \in Thread |-> IF pc[u] = "cv_asleep" THEN "cv_relock"
                                ELSE IF u = t THEN "notified" ELSE pc[u]]
    BY <1>6 DEF WakeWaiters, FutexWakeAll
  <2>2. QED
    BY <1>6, <2>1 DEF WakeWaiters
<1>7. CASE UNCHANGED vars
  BY <1>7 DEF vars
<1>8. QED
  BY <1>1, <1>2, <1>3, <1>4, <1>5, <1>6, <1>7 DEF Next, Step, CvStep

\* Barrier::wait() implements the abstract barrier: nobody gets out before
\* num_threads threads are in, and every round has exactly one leader.
THEOREM Refinement == Spec => ImplementsBarrier
<1>1. Init => AB!Init
  BY DEF Init, CvInit, AB!Init, phase, Inside, Waits, Notifies
<1> QED
  BY <1>1, Invariance, StepSimulation, PTL DEF Spec, ImplementsBarrier, AB!Spec
=============================================================================
