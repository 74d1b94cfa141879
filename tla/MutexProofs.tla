---------------------------- MODULE MutexProofs ----------------------------
(***************************************************************************)
(* Proofs about Mutex, for every set of threads.                           *)
(***************************************************************************)
EXTENDS Mutex, TLAPS

\* A panic on record is either in the flag or still on its way to its guard.
PoisonOnTheWay ==
  \A u \in panics : failed \/ Unwinds(u)

\* A guard made during a panic belongs to a destructor of that unwinding.
GuardScope == \A t \in guard : pc[t] = "locked" /\ t \in panicking

\* The inductive invariant.  MutualExclusion is needed for all the others: it
\* makes the holder's critical section the only one whose writes and whose
\* panic are not yet handed over.
IInv ==
  TypeOK /\ MutualExclusion /\ DataVisible /\ NoLostWakeup /\ PoisonOnTheWay /\ GuardScope

\* Type correctness is inductive on its own.
LEMMA TypeInductive == TypeOK /\ [Next]_vars => TypeOK'
<1> SUFFICES ASSUME TypeOK, [Next]_vars PROVE TypeOK'
  OBVIOUS
<1> USE DEF TypeOK, PC, Contending, Holding, Goto, lockVars, poisonVars
<1>1. ASSUME NEW t \in Thread, Lock(t) PROVE TypeOK'
  BY <1>1 DEF Lock, TakeFree, Sync
<1>2. ASSUME NEW t \in Thread, Spin(t) PROVE TypeOK'
  BY <1>2 DEF Spin
<1>3. ASSUME NEW t \in Thread, TryAfterSpin(t) PROVE TypeOK'
  BY <1>3 DEF TryAfterSpin, TakeFree, Sync
<1>4. ASSUME NEW t \in Thread, Contend(t) PROVE TypeOK'
  BY <1>4 DEF Contend, Sync
<1>5. ASSUME NEW t \in Thread, Wait(t) PROVE TypeOK'
  BY <1>5 DEF Wait
<1>6. ASSUME NEW t \in Thread, NewGuard(t) PROVE TypeOK'
  BY <1>6 DEF NewGuard
<1>7. ASSUME NEW t \in Thread, DropGuard(t) PROVE TypeOK'
  BY <1>7 DEF DropGuard, EndGuard
<1>8. ASSUME NEW t \in Thread, Unlock(t) PROVE TypeOK'
  BY <1>8 DEF Unlock, Sync
<1>9. ASSUME NEW t \in Thread, Wake(t) PROVE TypeOK'
  BY <1>9 DEF Wake
<1>10. ASSUME NEW t \in Thread, UserStep(t) PROVE TypeOK'
  BY <1>10 DEF UserStep, Write, Panic, Catch, Unwinds, Written
<1>11. ASSUME NEW t \in Thread, Disturb(t) PROVE TypeOK'
  BY <1>11 DEF Disturb
<1>12. ASSUME ClearPoison PROVE TypeOK'
  BY <1>12 DEF ClearPoison
<1>13. CASE UNCHANGED vars
  BY <1>13 DEF vars
<1>14. QED
  BY <1>1, <1>2, <1>3, <1>4, <1>5, <1>6, <1>7, <1>8, <1>9, <1>10, <1>11, <1>12, <1>13
  DEF Next, LockStep, UnlockStep

\* No thread is the word, so the thread that releases the word is told apart
\* from it in "seen"; PC labels outside Holding stay outside it.
LEMMA InvInductive == IInv /\ [Next]_vars => IInv'
<1> SUFFICES ASSUME IInv, [Next]_vars PROVE IInv'
  OBVIOUS
<1>t. TypeOK'
  BY TypeInductive DEF IInv
<1> USE <1>t DEF IInv, TypeOK, MutualExclusion, DataVisible, NoLostWakeup, PoisonOnTheWay,
    GuardScope, Unwinds, Contending, Holding, Sleepers, Goto, lockVars, poisonVars
<1>1. ASSUME NEW t \in Thread, Lock(t) PROVE IInv'
  <2>1. MutualExclusion'
    BY <1>1 DEF Lock, TakeFree, Sync
  <2>2. DataVisible'
    BY <1>1, WordIsNoThread DEF Lock, TakeFree, Sync
  <2>3. NoLostWakeup'
    BY <1>1 DEF Lock, TakeFree, Sync
  <2>4. PoisonOnTheWay'
    BY <1>1 DEF Lock, TakeFree, Sync
  <2>5. GuardScope'
    BY <1>1 DEF Lock, TakeFree, Sync
  <2>6. QED
    BY <2>1, <2>2, <2>3, <2>4, <2>5
<1>2. ASSUME NEW t \in Thread, Spin(t) PROVE IInv'
  <2>1. MutualExclusion'
    BY <1>2 DEF Spin
  <2>2. DataVisible'
    BY <1>2, WordIsNoThread DEF Spin
  <2>3. NoLostWakeup'
    BY <1>2 DEF Spin
  <2>4. PoisonOnTheWay'
    BY <1>2 DEF Spin
  <2>5. GuardScope'
    BY <1>2 DEF Spin
  <2>6. QED
    BY <2>1, <2>2, <2>3, <2>4, <2>5
<1>3. ASSUME NEW t \in Thread, TryAfterSpin(t) PROVE IInv'
  <2>1. MutualExclusion'
    BY <1>3 DEF TryAfterSpin, TakeFree, Sync
  <2>2. DataVisible'
    BY <1>3, WordIsNoThread DEF TryAfterSpin, TakeFree, Sync
  <2>3. NoLostWakeup'
    BY <1>3 DEF TryAfterSpin, TakeFree, Sync
  <2>4. PoisonOnTheWay'
    BY <1>3 DEF TryAfterSpin, TakeFree, Sync
  <2>5. GuardScope'
    BY <1>3 DEF TryAfterSpin, TakeFree, Sync
  <2>6. QED
    BY <2>1, <2>2, <2>3, <2>4, <2>5
<1>4. ASSUME NEW t \in Thread, Contend(t) PROVE IInv'
  <2>1. MutualExclusion'
    BY <1>4 DEF Contend, Sync
  <2>2. DataVisible'
    BY <1>4, WordIsNoThread DEF Contend, Sync
  <2>3. NoLostWakeup'
    BY <1>4 DEF Contend, Sync
  <2>4. PoisonOnTheWay'
    BY <1>4 DEF Contend, Sync
  <2>5. GuardScope'
    BY <1>4 DEF Contend, Sync
  <2>6. QED
    BY <2>1, <2>2, <2>3, <2>4, <2>5
<1>5. ASSUME NEW t \in Thread, Wait(t) PROVE IInv'
  <2>1. MutualExclusion'
    BY <1>5 DEF Wait, Blocks
  <2>2. DataVisible'
    BY <1>5, WordIsNoThread DEF Wait, Blocks
  <2>3. NoLostWakeup'
    BY <1>5 DEF Wait, Blocks
  <2>4. PoisonOnTheWay'
    BY <1>5 DEF Wait, Blocks
  <2>5. GuardScope'
    BY <1>5 DEF Wait, Blocks
  <2>6. QED
    BY <2>1, <2>2, <2>3, <2>4, <2>5
<1>6. ASSUME NEW t \in Thread, NewGuard(t) PROVE IInv'
  <2>1. MutualExclusion'
    BY <1>6 DEF NewGuard
  <2>2. DataVisible'
    BY <1>6, WordIsNoThread DEF NewGuard
  <2>3. NoLostWakeup'
    BY <1>6 DEF NewGuard
  <2>4. PoisonOnTheWay'
    BY <1>6 DEF NewGuard
  <2>5. GuardScope'
    BY <1>6 DEF NewGuard
  <2>6. QED
    BY <2>1, <2>2, <2>3, <2>4, <2>5
<1>7. ASSUME NEW t \in Thread, DropGuard(t) PROVE IInv'
  <2>1. MutualExclusion'
    BY <1>7 DEF DropGuard, EndGuard
  <2>2. DataVisible'
    BY <1>7, WordIsNoThread DEF DropGuard, EndGuard
  <2>3. NoLostWakeup'
    BY <1>7 DEF DropGuard, EndGuard
  <2>4. PoisonOnTheWay'
    BY <1>7 DEF DropGuard, EndGuard
  <2>5. GuardScope'
    BY <1>7 DEF DropGuard, EndGuard
  <2>6. QED
    BY <2>1, <2>2, <2>3, <2>4, <2>5
<1>8. ASSUME NEW t \in Thread, Unlock(t) PROVE IInv'
  <2>1. MutualExclusion'
    BY <1>8 DEF Unlock, Sync
  <2>2. DataVisible'
    BY <1>8, WordIsNoThread DEF Unlock, Sync
  <2>3. NoLostWakeup'
    BY <1>8 DEF Unlock, Sync
  <2>4. PoisonOnTheWay'
    BY <1>8 DEF Unlock, Sync
  <2>5. GuardScope'
    BY <1>8 DEF Unlock, Sync
  <2>6. QED
    BY <2>1, <2>2, <2>3, <2>4, <2>5
<1>9. ASSUME NEW t \in Thread, Wake(t) PROVE IInv'
  <2>1. MutualExclusion'
    BY <1>9 DEF Wake, FutexWake
  <2>2. DataVisible'
    BY <1>9, WordIsNoThread DEF Wake, FutexWake
  <2>3. NoLostWakeup'
    BY <1>9 DEF Wake, FutexWake
  <2>4. PoisonOnTheWay'
    BY <1>9 DEF Wake, FutexWake
  <2>5. GuardScope'
    BY <1>9 DEF Wake, FutexWake
  <2>6. QED
    BY <2>1, <2>2, <2>3, <2>4, <2>5
<1>10. ASSUME NEW t \in Thread, UserStep(t) PROVE IInv'
  <2>1. CASE Write(t)
    BY <2>1, WordIsNoThread DEF Write, Written
  <2>2. CASE Panic(t)
    BY <2>2 DEF Panic
  <2>3. CASE Catch(t)
    BY <2>3 DEF Catch
  <2>4. QED
    BY <1>10, <2>1, <2>2, <2>3 DEF UserStep
<1>11. ASSUME NEW t \in Thread, Disturb(t) PROVE IInv'
  <2>1. MutualExclusion'
    BY <1>11 DEF Disturb
  <2>2. DataVisible'
    BY <1>11, WordIsNoThread DEF Disturb
  <2>3. NoLostWakeup'
    BY <1>11 DEF Disturb
  <2>4. PoisonOnTheWay'
    BY <1>11 DEF Disturb
  <2>5. GuardScope'
    BY <1>11 DEF Disturb
  <2>6. QED
    BY <2>1, <2>2, <2>3, <2>4, <2>5
<1>12. ASSUME ClearPoison PROVE IInv'
  BY <1>12 DEF ClearPoison
<1>13. CASE UNCHANGED vars
  BY <1>13 DEF vars
<1>14. QED
  BY <1>1, <1>2, <1>3, <1>4, <1>5, <1>6, <1>7, <1>8, <1>9, <1>10, <1>11, <1>12, <1>13
  DEF Next, LockStep, UnlockStep

\* The initial state satisfies the invariant.
LEMMA InitInv == Init => IInv
<1> SUFFICES ASSUME Init PROVE IInv
  OBVIOUS
<1> USE DEF Init, Contending, Holding, PC
<1>1. TypeOK
  <2>1. pc \in [Thread -> PC] /\ local \in [Thread -> 0..2] /\ futex \in 0..2
    OBVIOUS
  <2>2. failed \in BOOLEAN
    BY Zenon
  <2>3. seen \subseteq Thread \union {Word}
    OBVIOUS
  <2>4. panicking \subseteq Thread /\ guard \subseteq Thread /\ panics \subseteq Thread
    OBVIOUS
  <2>5. QED
    BY <2>1, <2>2, <2>3, <2>4 DEF TypeOK
<1>2. MutualExclusion /\ DataVisible
  BY DEF MutualExclusion, DataVisible
<1>3. NoLostWakeup /\ PoisonOnTheWay /\ GuardScope
  BY DEF NoLostWakeup, PoisonOnTheWay, GuardScope, Sleepers
<1>4. QED
  BY <1>1, <1>2, <1>3 DEF IInv

\* The inductive invariant holds of every behaviour of the mutex.
THEOREM Invariance == Spec => []IInv
<1>1. Init => IInv
  BY InitInv
<1>2. IInv /\ [Next]_vars => IInv'
  BY InvInductive
<1>3. QED
  BY <1>1, <1>2, PTL DEF Spec

\* For every set of threads, the word takes its three values only.
THEOREM TypeCorrect == Spec => []TypeOK
<1>1. IInv => TypeOK
  BY DEF IInv
<1>2. QED
  BY <1>1, Invariance, PTL

\* For every set of threads, the futex mutex excludes: never two holders.
THEOREM Exclusion == Spec => []MutualExclusion
<1>1. IInv => MutualExclusion
  BY DEF IInv
<1>2. QED
  BY <1>1, Invariance, PTL

\* For every set of threads, a holder sees all earlier holders' writes.
THEOREM Visibility == Spec => []DataVisible
<1>1. IInv => DataVisible
  BY DEF IInv
<1>2. QED
  BY <1>1, Invariance, PTL

\* For every set of threads, nobody sleeps while no wake can reach it.
THEOREM WakeupsKept == Spec => []NoLostWakeup
<1>1. IInv => NoLostWakeup
  BY DEF IInv
<1>2. QED
  BY <1>1, Invariance, PTL

\* For every set of threads, the next owner after a panic gets an error.
THEOREM PoisonKept == Spec => []PoisonReported
<1>1. IInv => PoisonReported
  BY DEF IInv, TypeOK, MutualExclusion, PoisonOnTheWay, PoisonReported, Unwinds, Holding
<1>2. QED
  BY <1>1, Invariance, PTL

\* The CHOOSE in the refinement mapping picks the holder, when there is one.
LEMMA OwnerIsHolder ==
  ASSUME MutualExclusion
  PROVE  /\ \A t \in Thread : pc[t] \in Holding => owner = t
         /\ (\A t \in Thread : pc[t] \notin Holding) => owner = Word
BY DEF MutualExclusion, owner

\* For every set of threads, the futex mutex implements the abstract lock:
\* only an access that finds 0 makes an owner, and only unlock ends one.
THEOREM Refinement == Spec => ImplementsLock
<1>1. Init => AL!Init
  BY DEF Init, AL!Init, owner, Holding
<1>2. ASSUME IInv, IInv', [Next]_vars PROVE [AL!Next]_owner
  <2>1. MutualExclusion /\ MutualExclusion' /\ TypeOK
    BY <1>2 DEF IInv
  <2>2. /\ \A t \in Thread : pc[t] \in Holding => owner = t
        /\ (\A t \in Thread : pc[t] \notin Holding) => owner = Word
        /\ \A t \in Thread : pc'[t] \in Holding => owner' = t
        /\ (\A t \in Thread : pc'[t] \notin Holding) => owner' = Word
    BY <2>1, OwnerIsHolder DEF MutualExclusion, owner
  <2>3. CASE \E t \in Thread : Lock(t) \/ TryAfterSpin(t) \/ Contend(t)
    BY <2>1, <2>2, <2>3 DEF Lock, TryAfterSpin, TakeFree, Contend, Goto, lockVars, TypeOK, PC,
       MutualExclusion, Holding, AL!Next, AL!Acquire
  <2>4. CASE \E t \in Thread : Unlock(t)
    BY <2>1, <2>2, <2>4 DEF Unlock, Goto, TypeOK, PC, Holding, MutualExclusion, AL!Next, AL!Release
  <2>5. CASE \E t \in Thread : Spin(t) \/ Wait(t) \/ NewGuard(t) \/ DropGuard(t) \/ Disturb(t)
    BY <2>1, <2>2, <2>5 DEF Spin, Wait, NewGuard, DropGuard, EndGuard, Disturb, Goto, TypeOK,
       PC, Contending, Holding
  <2>6. CASE \E t \in Thread : Wake(t)
    BY <2>1, <2>2, <2>6 DEF Wake, FutexWake, Sleepers, TypeOK, PC, Contending, Holding
  <2>7. CASE ClearPoison \/ UNCHANGED vars \/ \E t \in Thread : UserStep(t)
    BY <2>7 DEF ClearPoison, vars, UserStep, Write, Panic, Catch, owner
  <2>8. QED
    BY <1>2, <2>3, <2>4, <2>5, <2>6, <2>7 DEF Next, LockStep, UnlockStep
<1>3. QED
  BY <1>1, <1>2, Invariance, PTL DEF Spec, ImplementsLock, AL!Spec
=============================================================================
