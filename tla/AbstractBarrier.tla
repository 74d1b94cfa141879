-------------------------- MODULE AbstractBarrier --------------------------
(***************************************************************************)
(* What a reusable barrier for n threads promises: whoever arrives waits   *)
(* until n threads have arrived; the last of them is the leader and lets   *)
(* the others go, and the next to arrive begins a new round, also while    *)
(* threads of the last one have not left yet.                              *)
(***************************************************************************)
EXTENDS Naturals, FiniteSets

CONSTANTS Thread, n
VARIABLE phase        \* out, waiting, follower or leader

Waiting == {t \in Thread : phase[t] = "waiting"}

Init == phase = [t \in Thread |-> "out"]

Arrive(t) ==
  /\ phase[t] = "out"
  /\ phase' = IF Cardinality(Waiting) + 1 < n
              THEN [phase EXCEPT ![t] = "waiting"]
              ELSE [u \in Thread |-> IF u = t THEN "leader"
                                     ELSE IF u \in Waiting THEN "follower" ELSE phase[u]]

Depart(t) ==
  /\ phase[t] \in {"follower", "leader"}
  /\ phase' = [phase EXCEPT ![t] = "out"]

Next == \E t \in Thread : Arrive(t) \/ Depart(t)

Spec == Init /\ [][Next]_phase
=============================================================================
