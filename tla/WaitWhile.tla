----------------------------- MODULE WaitWhile -----------------------------
(***************************************************************************)
(* The use of a condition variable its documentation prescribes, with      *)
(* Condvar::wait_while and wait_timeout_while (sync/condvar.rs): consumers *)
(* wait while a counter protected by the mutex is zero and then take one   *)
(* item; producers add one and notify, before or after they unlock.        *)
(***************************************************************************)
EXTENDS Condvar, FiniteSets

CONSTANTS
  Consumer,           \* the threads that wait
  MaxItems            \* bound: items there or about to be added

ASSUME WaitWhileAssumption == Consumer \subseteq Thread /\ MaxItems \in Nat

VARIABLES
  items,              \* the data under the mutex
  timed               \* consumers in wait_timeout_while

vars == <<owner, pc, current, items, timed>>

Init == CvInit /\ items = 0 /\ timed = {}

\* Producers that will add an item.
Adding == {p \in Thread \ Consumer : pc[p] \in {"lock", "put"}}

\* The user calls lock(); a consumer then calls wait_while with or without a
\* timeout.
Begin(t) ==
  /\ pc[t] = "idle"
  /\ t \in Consumer \/ items + Cardinality(Adding) < MaxItems
  /\ Goto(t, "lock")
  /\ timed' \in (IF t \in Consumer THEN {timed, timed \union {t}} ELSE {timed})
  /\ UNCHANGED <<owner, current, items>>

Lock(t) ==
  /\ pc[t] = "lock"
  /\ Mutex!Acquire(t)
  /\ Goto(t, IF t \in Consumer THEN "returned" ELSE "put")
  /\ UNCHANGED <<current, items, timed>>

\* The loop: the condition is evaluated again after every return of wait(),
\* and before the time left is computed.
Check(t) ==
  /\ pc[t] = "returned"
  /\ \/ items > 0 /\ items' = items - 1 /\ Goto(t, "leave")
     \/ items = 0 /\ Goto(t, "cv_load") /\ UNCHANGED items
     \/ items = 0 /\ t \in timed /\ Goto(t, "leave") /\ UNCHANGED items
  /\ UNCHANGED <<owner, current, timed>>

\* A producer changes the data and notifies, with or without the mutex.
Put(t) ==
  /\ pc[t] = "put"
  /\ items' = items + 1
  /\ \E l \in {"cv_one", "cv_all"} : Goto(t, l)
  /\ owner' \in {t, NoThread}
  /\ UNCHANGED <<current, timed>>

\* The guard is dropped.
Leave(t) ==
  /\ pc[t] = "leave" \/ (pc[t] = "notified" /\ owner = t)
  /\ Mutex!Release(t)
  /\ Goto(t, "idle")
  /\ timed' = timed \ {t}
  /\ UNCHANGED <<current, items>>

Done(t) ==
  /\ pc[t] = "notified" /\ owner # t
  /\ Goto(t, "idle")
  /\ UNCHANGED <<owner, current, items, timed>>

Step(t) ==
  \/ Lock(t) \/ Check(t) \/ Put(t) \/ Leave(t) \/ Done(t)
  \/ CvStep(t) /\ UNCHANGED <<items, timed>>

Next == \E t \in Thread :
  \/ Begin(t) \/ Step(t)
  \/ Disturb(t) /\ UNCHANGED <<items, timed>>

Spec == Init /\ [][Next]_vars

\* The scheduler runs every thread that can run.  Of a producer nothing is
\* asked but that it finishes what it began.
FairSpec == Spec /\ \A t \in Thread : WF_vars(Step(t))

----------------------------------------------------------------------------
(* Properties *)

Holding == {"returned", "cv_load", "cv_unlock", "put", "leave"}

\* Type invariant; the mutex is held exactly where the code holds it.
TypeOK ==
  /\ pc \in [Thread -> {"idle", "lock", "notified"} \union Holding \union Waits \union Notifies]
  /\ current \subseteq Thread
  /\ items \in 0..MaxItems
  /\ timed \subseteq Consumer
  /\ owner \in Thread \union {NoThread}
  /\ \A t \in Thread : pc[t] \in Holding => owner = t

\* Consumers do not wait for ever while there are items: somebody takes one.
ItemsAreTaken ==
  items > 0 /\ (\E c \in Consumer : pc[c] \in Waits)
    ~> \E c \in Consumer : pc[c] = "leave"
=============================================================================
