------------------------------ MODULE Condvar ------------------------------
(***************************************************************************)
(* std::sync::Condvar on a futex (sys/unix/locks/futex_condvar.rs), on a   *)
(* mutex of which only what AbstractLock promises is used.  The module     *)
(* gives the steps of wait() and of the notifications; the modules that    *)
(* extend it add a user.  pc[t] inside the condition variable:             *)
(*   cv_load    load the counter, mutex held     cv_asleep  in futex_wait  *)
(*   cv_unlock  unlock the mutex                 cv_relock  lock again     *)
(*   cv_wait    about to call futex_wait                                   *)
(*   cv_one, cv_all            fetch_add of notify_one, notify_all         *)
(*   cv_wake_one, cv_wake_all  their futex_wake                            *)
(* A user continues at "returned" after wait() and "notified" after a      *)
(* notification.                                                           *)
(*                                                                         *)
(* The counter is only ever compared with an earlier value of itself, so   *)
(* the state keeps, instead of numbers, the set of the threads whose value *)
(* is still the counter's.  This leaves out that 2^32 notifications        *)
(* between two steps of one wait() would bring an old value back.          *)
(***************************************************************************)
EXTENDS Futex

CONSTANTS Thread, NoThread

ASSUME NoThreadIsNone == NoThread \notin Thread

VARIABLES
  owner,              \* of the mutex
  pc,
  current             \* threads whose futex_value equals the counter

cvVars == <<owner, pc, current>>

Mutex == INSTANCE AbstractLock

Waits == {"cv_load", "cv_unlock", "cv_wait", "cv_asleep", "cv_relock"}
Notifies == {"cv_one", "cv_all", "cv_wake_one", "cv_wake_all"}

Goto(t, l) == pc' = [pc EXCEPT ![t] = l]
At(l) == {t \in Thread : pc[t] = l}

CvInit ==
  /\ owner = NoThread
  /\ pc = [t \in Thread |-> "idle"]
  /\ current = {}

\* The counter is read before the mutex is unlocked.
LoadCounter(t) ==
  /\ pc[t] = "cv_load"
  /\ current' = current \union {t}
  /\ Goto(t, "cv_unlock")
  /\ UNCHANGED owner

UnlockToWait(t) ==
  /\ pc[t] = "cv_unlock"
  /\ Mutex!Release(t)
  /\ Goto(t, "cv_wait")
  /\ UNCHANGED current

WaitUnchecked(t) ==
  /\ pc[t] = "cv_wait"
  /\ Goto(t, "cv_asleep")
  /\ UNCHANGED <<owner, current>>

FutexWait(t) ==
  /\ pc[t] = "cv_wait"
  /\ Goto(t, IF t \in current THEN "cv_asleep" ELSE "cv_relock")
  /\ UNCHANGED <<owner, current>>

\* futex_wait ends without a wake: spuriously or by its timeout, or by a
\* signal, after which the counter is compared again.
Disturb(t) ==
  /\ pc[t] = "cv_asleep"
  /\ \E l \in {"cv_relock", "cv_wait"} : Goto(t, l)
  /\ UNCHANGED <<owner, current>>

Relock(t) ==
  /\ pc[t] = "cv_relock"
  /\ Mutex!Acquire(t)
  /\ Goto(t, "returned")
  /\ current' = current \ {t}

\* fetch_add: no thread's value is the counter's any more.
CountUp(t) ==
  /\ pc[t] \in {"cv_one", "cv_all"}
  /\ current' = {}
  /\ Goto(t, IF pc[t] = "cv_one" THEN "cv_wake_one" ELSE "cv_wake_all")
  /\ UNCHANGED owner

WakeOne(t) ==
  /\ pc[t] \in {"cv_wake_one", "cv_wake_all"}
  /\ \E W \in FutexWake(At("cv_asleep")) :
       pc' = [u \in Thread |-> IF u \in W THEN "cv_relock" ELSE IF u = t THEN "notified" ELSE pc[u]]
  /\ UNCHANGED <<owner, current>>

\* futex_wake of notify_one, futex_wake_all of notify_all.
WakeWaiters(t) ==
  /\ pc[t] \in {"cv_wake_one", "cv_wake_all"}
  /\ \E W \in (IF pc[t] = "cv_wake_one" THEN FutexWake(At("cv_asleep"))
                                        ELSE FutexWakeAll(At("cv_asleep"))) :
       pc' = [u \in Thread |-> IF u \in W THEN "cv_relock" ELSE IF u = t THEN "notified" ELSE pc[u]]
  /\ UNCHANGED <<owner, current>>

CvStep(t) ==
  \/ LoadCounter(t) \/ UnlockToWait(t) \/ FutexWait(t) \/ Relock(t)
  \/ CountUp(t) \/ WakeWaiters(t)
=============================================================================
