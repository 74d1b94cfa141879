------------------------------- MODULE Parker -------------------------------
(***************************************************************************)
(* thread::park, park_timeout and Thread::unpark on a futex:               *)
(* sys_common/thread_parker/futex.rs.  One thread, the owner, parks; the   *)
(* threads of Unparker unpark it.  One action is one access to the word.   *)
(*   idle    outside              asleep  in the futex_wait syscall        *)
(*   wait    about to futex_wait  take    after futex_wait                 *)
(* Every access to the word is a read-modify-write, so what an unpark()    *)
(* releases stays attached to the word, and an acquire by the owner gets   *)
(* all of it.                                                              *)
(***************************************************************************)
EXTENDS Futex

CONSTANTS
  Unparker,           \* threads that hold a handle of the owner
  Max,                \* u32::MAX
  MaxUnparks          \* bound: calls of unpark() by one thread

ASSUME ParkerAssumption == Max \in Nat /\ Max > 1 /\ MaxUnparks \in Nat

VARIABLES
  state,              \* the word
  pc,                 \* where the owner is
  timed,              \* whether it called park_timeout
  waking,             \* unparkers about to call futex_wake
  unparks,            \* how often each thread has called unpark()
  carried,            \* how many of them the word hands on
  known               \* how many of them the owner has synchronized with

vars == <<state, pc, timed, waking, unparks, carried, known>>

PARKED == Max
EMPTY == 0
NOTIFIED == 1

Init ==
  /\ state = EMPTY
  /\ pc = "idle" /\ timed = FALSE
  /\ waking = {}
  /\ unparks = [u \in Unparker |-> 0]
  /\ carried = unparks /\ known = unparks

\* An acquire access of the owner.
Acquire == known' = carried

\* fetch_sub(1, Acquire): NOTIFIED becomes EMPTY and the call returns, EMPTY
\* wraps around to PARKED.
Park ==
  /\ pc = "idle"
  /\ state' = (state + Max) % (Max + 1)
  /\ Acquire
  /\ pc' = IF state = NOTIFIED THEN "idle" ELSE "wait"
  /\ timed' \in (IF state = NOTIFIED THEN {FALSE} ELSE BOOLEAN)
  /\ UNCHANGED <<waking, unparks, carried>>

Wait ==
  /\ pc = "wait"
  /\ pc' = IF Blocks(state, PARKED) THEN "asleep" ELSE "take"
  /\ UNCHANGED <<state, timed, waking, unparks, carried, known>>

\* The call ends without a wake: spuriously or by its timeout, or by a signal
\* and a retry.
Disturb ==
  /\ pc = "asleep"
  /\ pc' \in {"take", "wait"}
  /\ UNCHANGED <<state, timed, waking, unparks, carried, known>>

\* park(): compare_exchange(NOTIFIED, EMPTY, Acquire, Acquire), or loop.
Take ==
  /\ pc = "take" /\ ~timed
  /\ Acquire
  /\ IF state = NOTIFIED
     THEN state' = EMPTY /\ pc' = "idle"
     ELSE pc' = "wait" /\ UNCHANGED state
  /\ UNCHANGED <<timed, waking, unparks, carried>>

TakeTimedStore ==
  /\ pc = "take" /\ timed
  /\ state' = EMPTY
  /\ pc' = "idle" /\ timed' = FALSE
  /\ UNCHANGED <<waking, unparks, carried, known>>

TakeTimedIfNotified ==
  /\ pc = "take" /\ timed
  /\ state' = (IF state = NOTIFIED THEN EMPTY ELSE state) /\ Acquire
  /\ pc' = "idle" /\ timed' = FALSE
  /\ UNCHANGED <<waking, unparks, carried>>

\* park_timeout(): swap(EMPTY, Acquire), whatever ended the wait.
TakeTimed ==
  /\ pc = "take" /\ timed
  /\ state' = EMPTY /\ Acquire
  /\ pc' = "idle" /\ timed' = FALSE
  /\ UNCHANGED <<waking, unparks, carried>>

UnparkWakesEmpty(u) ==
  /\ u \notin waking /\ unparks[u] < MaxUnparks
  /\ unparks' = [unparks EXCEPT ![u] = @ + 1]
  /\ state' = NOTIFIED
  /\ carried' = [carried EXCEPT ![u] = unparks'[u]]
  /\ waking' = IF state = EMPTY THEN waking \union {u} ELSE waking
  /\ UNCHANGED <<pc, timed, known>>

\* unpark(): swap(NOTIFIED, Release), and a wake if the word was PARKED.
Unpark(u) ==
  /\ u \notin waking /\ unparks[u] < MaxUnparks
  /\ unparks' = [unparks EXCEPT ![u] = @ + 1]
  /\ state' = NOTIFIED
  /\ carried' = [carried EXCEPT ![u] = unparks'[u]]
  /\ waking' = IF state = PARKED THEN waking \union {u} ELSE waking
  /\ UNCHANGED <<pc, timed, known>>

WakeOwner(u) ==
  /\ u \in waking
  /\ waking' = waking \ {u}
  /\ pc' = IF pc = "asleep" THEN "take" ELSE pc
  /\ UNCHANGED <<state, timed, unparks, carried, known>>

Next ==
  \/ Park \/ Wait \/ Disturb \/ Take \/ TakeTimed
  \/ \E u \in Unparker : Unpark(u) \/ WakeOwner(u)

Spec == Init /\ [][Next]_vars

----------------------------------------------------------------------------
(* Properties *)

\* Type invariant: the wrapping fetch_sub never leaves the three states, so
\* park() is never entered with the word PARKED.
TypeOK ==
  /\ state \in {EMPTY, PARKED, NOTIFIED}
  /\ pc \in {"idle", "wait", "asleep", "take"}
  /\ timed \in BOOLEAN
  /\ waking \subseteq Unparker
  /\ unparks \in [Unparker -> Nat]
  /\ carried \in [Unparker -> Nat]
  /\ known \in [Unparker -> Nat]

\* An unpark() is never lost: when no token is pending and the owner is not
\* in park(), it has synchronized with every unpark() there has been, also
\* with one that raced with a timeout.
NoLostToken ==
  pc = "idle" /\ state # NOTIFIED => known = unparks

\* No wakeup is lost: the owner sleeps only while the word is PARKED, or
\* while the unparker that changed it is about to call futex_wake.
NoLostWakeup == pc = "asleep" => state = PARKED \/ waking # {}

=============================================================================
