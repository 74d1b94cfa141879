---------------------------- MODULE AbstractLock ----------------------------
(***************************************************************************)
(* What a mutual-exclusion lock promises its users: it has at most one     *)
(* owner, a free lock goes to whoever takes it, and only the owner gives   *)
(* it back.  Mutex implements it; Condvar and Barrier are built on it.     *)
(***************************************************************************)
CONSTANTS Thread, NoThread
VARIABLE owner

Init == owner = NoThread

Acquire(t) == owner = NoThread /\ owner' = t
Release(t) == owner = t /\ owner' = NoThread

Next == \E t \in Thread : Acquire(t) \/ Release(t)

Spec == Init /\ [][Next]_owner
=============================================================================
