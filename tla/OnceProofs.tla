----------------------------- MODULE OnceProofs -----------------------------
(***************************************************************************)
(* Proofs about Once, for every set of threads and any number of failures. *)
(***************************************************************************)
EXTENDS Once, TLAPS

\* Who knows that the Once is complete: a call that will return, one that has
\* loaded COMPLETE, and the one whose guard has just stored it.
Knows(t) ==
  \/ pc[t] = "ok"
  \/ pc[t] = "match" /\ local[t] = COMPLETE
  \/ pc[t] = "wake" /\ t \in completing

\* The word carries everything written when no closure runs, the running one
\* has seen it, and so has everybody who knows of the completion.
Views ==
  /\ state \in Ended => Word \in seen
  /\ \A t \in Thread : pc[t] \in Initializing => t \in seen
  /\ \A t \in Thread : Knows(t) => state = COMPLETE /\ t \in seen

\* The inductive invariant.
IInv == TypeOK /\ OneInitializer /\ Views /\ PoisonPropagates /\ NoLostWakeup

\* Type correctness is inductive on its own.
LEMMA TypeInductive == TypeOK /\ [Next]_vars => TypeOK'
<1> SUFFICES ASSUME TypeOK, [Next]_vars PROVE TypeOK'
  OBVIOUS
<1> USE DEF TypeOK, PC, Initializing, States, Ended, INCOMPLETE, POISONED, RUNNING, QUEUED,
    COMPLETE, Goto, Reload, Sync
<1>1. ASSUME NEW t \in Thread, FastPath(t) PROVE TypeOK'
  BY <1>1 DEF FastPath
<1>2. ASSUME NEW t \in Thread, Load(t) PROVE TypeOK'
  BY <1>2 DEF Load
<1>3. ASSUME NEW t \in Thread, Propagate(t) \/ Completed(t) \/ Wait(t) \/ Disturb(t) PROVE TypeOK'
  BY <1>3 DEF Propagate, Completed, Wait, Disturb
<1>4. ASSUME NEW t \in Thread, Register(t) PROVE TypeOK'
  BY <1>4 DEF Register
<1>5. ASSUME NEW t \in Thread, Queue(t) PROVE TypeOK'
  BY <1>5 DEF Queue
<1>6. ASSUME NEW t \in Thread, Run(t) PROVE TypeOK'
  BY <1>6 DEF Run, Written
<1>7. ASSUME NEW t \in Thread, DropGuard(t) PROVE TypeOK'
  BY <1>7 DEF DropGuard
<1>8. ASSUME NEW t \in Thread, Wake(t) PROVE TypeOK'
  BY <1>8 DEF Wake
<1>9. ASSUME NEW t \in Thread, Return(t) PROVE TypeOK'
  BY <1>9 DEF Return
<1>10. CASE UNCHANGED vars
  BY <1>10 DEF vars
<1>11. QED
  BY <1>1, <1>2, <1>3, <1>4, <1>5, <1>6, <1>7, <1>8, <1>9, <1>10 DEF Next, Step

\* Every action keeps the invariant.
LEMMA InvInductive == IInv /\ [Next]_vars => IInv'
<1> SUFFICES ASSUME IInv, [Next]_vars PROVE IInv'
  OBVIOUS
<1>t. TypeOK'
  BY TypeInductive DEF IInv
<1> USE <1>t, WordIsNoThread DEF IInv, TypeOK, OneInitializer, Views, Knows, PoisonPropagates,
    NoLostWakeup, Sleepers, Initializing, States, Ended, INCOMPLETE, POISONED, RUNNING, QUEUED,
    COMPLETE, Goto, Reload, Sync
<1>1. ASSUME NEW t \in Thread, FastPath(t) PROVE IInv'
  <2>1. OneInitializer' /\ PoisonPropagates' /\ NoLostWakeup'
    BY <1>1 DEF FastPath
  <2>2. Views'
    BY <1>1 DEF FastPath
  <2>3. QED
    BY <2>1, <2>2
<1>2. ASSUME NEW t \in Thread, Load(t) PROVE IInv'
  <2>1. OneInitializer' /\ PoisonPropagates' /\ NoLostWakeup'
    BY <1>2 DEF Load
  <2>2. Views'
    BY <1>2 DEF Load
  <2>3. QED
    BY <2>1, <2>2
<1>3. ASSUME NEW t \in Thread, Propagate(t) PROVE IInv'
  BY <1>3 DEF Propagate
<1>4. ASSUME NEW t \in Thread, Completed(t) PROVE IInv'
  BY <1>4 DEF Completed
<1>5. ASSUME NEW t \in Thread, Wait(t) PROVE IInv'
  BY <1>5 DEF Wait, Blocks
<1>6. ASSUME NEW t \in Thread, Disturb(t) PROVE IInv'
  BY <1>6 DEF Disturb
<1>7. ASSUME NEW t \in Thread, Register(t) PROVE IInv'
  <2>1. CASE state = local[t]
    <3>1. OneInitializer'
      BY <1>7, <2>1 DEF Register
    <3>2. Views'
      BY <1>7, <2>1 DEF Register
    <3>3. PoisonPropagates'
      BY <1>7, <2>1 DEF Register
    <3>4. NoLostWakeup'
      BY <1>7, <2>1 DEF Register
    <3>5. QED
      BY <3>1, <3>2, <3>3, <3>4
  <2>2. CASE state # local[t]
    <3>1. OneInitializer' /\ PoisonPropagates' /\ NoLostWakeup'
      BY <1>7, <2>2 DEF Register
    <3>2. Views'
      BY <1>7, <2>2 DEF Register
    <3>3. QED
      BY <3>1, <3>2
  <2>3. QED
    BY <2>1, <2>2
<1>8. ASSUME NEW t \in Thread, Queue(t) PROVE IInv'
  <2>1. OneInitializer' /\ PoisonPropagates' /\ NoLostWakeup'
    BY <1>8 DEF Queue
  <2>2. Views'
    BY <1>8 DEF Queue
  <2>3. QED
    BY <2>1, <2>2
<1>9. ASSUME NEW t \in Thread, Run(t) PROVE IInv'
  <2>1. OneInitializer' /\ PoisonPropagates' /\ NoLostWakeup'
    BY <1>9 DEF Run
  <2>2. state \in {RUNNING, QUEUED} /\ \A u \in Thread : pc'[u] \in Initializing => u = t
    BY <1>9 DEF Run
  <2>3. Views'
    BY <1>9, <2>2 DEF Run, Written
  <2>4. QED
    BY <2>1, <2>3
<1>10. ASSUME NEW t \in Thread, DropGuard(t) PROVE IInv'
  <2>1. state \in {RUNNING, QUEUED} /\ \A u \in Thread : pc'[u] \notin Initializing
    BY <1>10 DEF DropGuard
  <2>2. OneInitializer' /\ PoisonPropagates'
    BY <1>10, <2>1 DEF DropGuard
  <2>3. Views'
    BY <1>10, <2>1 DEF DropGuard
  <2>4. NoLostWakeup'
    BY <1>10 DEF DropGuard
  <2>5. QED
    BY <2>2, <2>3, <2>4
<1>11. ASSUME NEW t \in Thread, Wake(t) PROVE IInv'
  <2>1. \A u \in Thread : pc'[u] # "asleep"
    BY <1>11 DEF Wake, FutexWakeAll
  <2>2. OneInitializer' /\ PoisonPropagates' /\ NoLostWakeup'
    BY <1>11, <2>1 DEF Wake, FutexWakeAll
  <2>3. Views'
    BY <1>11 DEF Wake, FutexWakeAll
  <2>4. QED
    BY <2>2, <2>3
<1>12. ASSUME NEW t \in Thread, Return(t) PROVE IInv'
  BY <1>12 DEF Return
<1>13. CASE UNCHANGED vars
  BY <1>13 DEF vars
<1>14. QED
  BY <1>1, <1>2, <1>3, <1>4, <1>5, <1>6, <1>7, <1>8, <1>9, <1>10, <1>11, <1>12, <1>13
  DEF Next, Step

\* The invariant holds at the start.
LEMMA InitInv == Init => IInv
<1> SUFFICES ASSUME Init PROVE IInv
  OBVIOUS
<1> QED
  BY DEF Init, IInv, TypeOK, OneInitializer, Views, Knows, PoisonPropagates, NoLostWakeup,
    Sleepers, PC, Initializing, States, Ended, INCOMPLETE, POISONED, RUNNING, QUEUED, COMPLETE

\* The inductive invariant holds in every reachable state of Once::call.
THEOREM Invariance == Spec => []IInv
BY InitInv, InvInductive, PTL DEF Spec

\* At most one closure runs and the word says so, for any set of threads.
THEOREM InitializerIsUnique == Spec => []OneInitializer
<1>1. IInv => OneInitializer
  BY DEF IInv
<1> QED
  BY <1>1, Invariance, PTL

\* Whoever returns from call_once, call_once_force or OnceLock's initialize
\* sees the initialized value.
THEOREM InitializationSeen == Spec => []InitVisible
<1>1. IInv => InitVisible
  BY DEF IInv, Views, Knows, InitVisible, Initializing
<1> QED
  BY <1>1, Invariance, PTL

\* Poison reaches every later call that does not ignore it, and no closure
\* runs after one succeeded.
THEOREM PoisonReachesCallers == Spec => []PoisonPropagates
<1>1. IInv => PoisonPropagates
  BY DEF IInv
<1> QED
  BY <1>1, Invariance, PTL

\* A thread asleep in call() is always going to be woken.
THEOREM WaitersAreWoken == Spec => []NoLostWakeup
<1>1. IInv => NoLostWakeup
  BY DEF IInv
<1> QED
  BY <1>1, Invariance, PTL

\* A completed Once stays completed, whatever calls are still under way.
THEOREM Finality == Spec => CompletionIsFinal
<1>1. IInv /\ [Next]_vars => [state = COMPLETE => state' = COMPLETE]_state
  <2> SUFFICES ASSUME IInv, [Next]_vars, state = COMPLETE PROVE state' = COMPLETE
    OBVIOUS
  <2>1. \A t \in Thread : pc[t] \notin Initializing
    BY DEF IInv, OneInitializer, COMPLETE, RUNNING, QUEUED
  <2>2. ASSUME NEW t \in Thread, Register(t) PROVE state' = COMPLETE
    BY <2>2 DEF Register, INCOMPLETE, POISONED, COMPLETE
  <2>3. ASSUME NEW t \in Thread, Queue(t) PROVE state' = COMPLETE
    BY <2>3 DEF Queue, RUNNING, COMPLETE, QUEUED
  <2>4. ASSUME NEW t \in Thread, DropGuard(t) PROVE FALSE
    BY <2>1, <2>4 DEF DropGuard, Initializing
  <2>5. QED
    BY <2>2, <2>3, <2>4 DEF Next, Step, FastPath, Load, Propagate, Completed, Wait, Run, Wake,
      Return, Disturb, vars
<1> QED
  BY <1>1, Invariance, PTL DEF Spec, CompletionIsFinal
=============================================================================
