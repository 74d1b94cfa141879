--------------------------- MODULE MCCoordinator ---------------------------
(* The sessions the coordinator is checked with: every kind of LTO with and  *)
(* without an allocator shim, and the other options one at a time.           *)
EXTENDS Coordinator

Session(lto, combine, parallel, first) ==
  [lto |-> lto, combine |-> combine, parallel |-> parallel, first |-> first]

MCSessions ==
  {Session(lto, FALSE, TRUE, first) :
     lto \in {"No", "ThinLocal", "Thin", "Fat"}, first \in {0, 1}}
  \cup {Session(lto, TRUE, TRUE, 0) : lto \in {"No", "ThinLocal"}}
  \cup {Session(lto, FALSE, FALSE, 1) : lto \in {"No", "Fat"}}
  \cup {Session("No", FALSE, TRUE, Complete)}
=============================================================================
