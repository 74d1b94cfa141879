--------------------------- MODULE MCArrayChannel ---------------------------
(* The bounded channel for TLC: threads of one side are interchangeable.    *)
EXTENDS ArrayChannel, TLC

Symmetry == Permutations(Sender) \union Permutations(Receiver)

\* Two senders that block and one receiver; one sender and two receivers that
\* try or time out.
MCStarts ==
  {[handles |-> Sender \union {r}, modes |-> {"block"}] : r \in Receiver}
  \union {[handles |-> {s} \union Receiver, modes |-> {"try", "timed"}] : s \in Sender}
=============================================================================
