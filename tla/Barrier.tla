------------------------------ MODULE Barrier ------------------------------
(***************************************************************************)
(* std::sync::Barrier (sync/barrier.rs) on a mutex and a condition         *)
(* variable.  pc[t] outside the condition variable:                        *)
(*   idle      outside                 returned  the test of the loop      *)
(*   lock      waiting for the mutex   notified  notify_all has returned   *)
(*   enter     mutex just acquired     leave     drop the mutex guard      *)
(* Like the counter of the condition variable, generation_id is only       *)
(* compared with an earlier value of itself, so the state keeps the set    *)
(* of the threads whose local_gen is still the current one.                *)
(***************************************************************************)
EXTENDS Condvar, FiniteSets

CONSTANTS num_threads

ASSUME BarrierAssumption == num_threads \in Nat /\ IsFiniteSet(Thread)

VARIABLES
  count,              \* BarrierState
  same_gen,           \* threads in wait() with local_gen = generation_id
  is_leader           \* threads in wait() that will return true

barrierVars == <<count, same_gen, is_leader>>
vars == <<owner, pc, current, count, same_gen, is_leader>>

Init == CvInit /\ count = 0 /\ same_gen = {} /\ is_leader = {}

Call(t) ==
  /\ pc[t] = "idle"
  /\ Goto(t, "lock")
  /\ UNCHANGED <<owner, current, barrierVars>>

Lock(t) ==
  /\ pc[t] = "lock"
  /\ Mutex!Acquire(t)
  /\ Goto(t, "enter")
  /\ UNCHANGED <<current, barrierVars>>

\* Count the thread in; the last one starts the next generation.
Enter(t) ==
  /\ pc[t] = "enter"
  /\ IF count + 1 < num_threads
     THEN /\ count' = count + 1
          /\ same_gen' = same_gen \union {t}
          /\ Goto(t, "returned")
          /\ UNCHANGED is_leader
     ELSE /\ count' = 0
          /\ same_gen' = {}
          /\ is_leader' = is_leader \union {t}
          /\ Goto(t, "cv_all")
  /\ UNCHANGED <<owner, current>>

TestNotAgain(t) ==
  /\ pc[t] = "returned"
  /\ \/ t \in same_gen /\ Goto(t, "cv_load") /\ UNCHANGED barrierVars
     \/ Goto(t, "leave") /\ UNCHANGED barrierVars
  /\ UNCHANGED <<owner, current>>

\* while local_gen == lock.generation_id { wait }
Test(t) ==
  /\ pc[t] = "returned"
  /\ Goto(t, IF t \in same_gen THEN "cv_load" ELSE "leave")
  /\ UNCHANGED <<owner, current, barrierVars>>

Leave(t) ==
  /\ pc[t] \in {"leave", "notified"}
  /\ Mutex!Release(t)
  /\ Goto(t, "idle")
  /\ is_leader' = is_leader \ {t}
  /\ UNCHANGED <<current, count, same_gen>>

Step(t) ==
  \/ Lock(t) \/ Enter(t) \/ Test(t) \/ Leave(t)
  \/ CvStep(t) /\ UNCHANGED barrierVars

Next == \E t \in Thread :
  \/ Call(t) \/ Step(t)
  \/ Disturb(t) /\ UNCHANGED barrierVars

Spec == Init /\ [][Next]_vars

\* The scheduler runs every thread that can run.
FairSpec == Spec /\ \A t \in Thread : WF_vars(Step(t))

----------------------------------------------------------------------------
(* Properties *)

Inside == {"returned", "leave", "notified"} \union Waits \union Notifies

\* Type invariant: the count stays below num_threads, the mutex is held
\* where the code holds it.
TypeOK ==
  /\ owner \in Thread \union {NoThread}
  /\ pc \in [Thread -> {"idle", "lock", "enter"} \union Inside]
  /\ current \subseteq Thread
  /\ count \in Nat /\ (count = 0 \/ count < num_threads)
  /\ same_gen \subseteq Thread /\ is_leader \subseteq Thread
  /\ \A t \in Thread : pc[t] \in Notifies \union {"enter", "returned", "cv_load", "cv_unlock",
                                                  "notified", "leave"} => owner = t

\* No release is lost: whoever sleeps waits for a round that is not full yet,
\* or the leader of its round is still about to wake it.
NoLostRelease ==
  \A t \in At("cv_asleep") : t \in same_gen \/ At("cv_wake_all") # {} \/ At("cv_all") # {}

\* The code implements the abstract barrier: a thread arrives when it is
\* counted, and a wait ends as a leader's or a follower's.
phase == [t \in Thread |->
  IF pc[t] \notin Inside THEN "out"
  ELSE IF t \in is_leader THEN "leader"
  ELSE IF t \in same_gen THEN "waiting" ELSE "follower"]
AB == INSTANCE AbstractBarrier WITH n <- num_threads
ImplementsBarrier == AB!Spec

\* Once no new calls and no spurious wakeups keep the mutex busy, everybody
\* whose round is full gets out of wait(): the mutex is not fair, so a thread
\* may be overtaken for as long as others come.
ReleasedLeave ==
  <>[][\A t \in Thread : ~Call(t) /\ ~Disturb(t)]_vars
    => \A t \in Thread : pc[t] \in Inside /\ t \notin same_gen ~> pc[t] = "idle"
=============================================================================
