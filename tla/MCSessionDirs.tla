--------------------------- MODULE MCSessionDirs ---------------------------
(* Processes are interchangeable.                                           *)
EXTENDS SessionDirs, TLC

Symmetry == Permutations(Proc)
=============================================================================
