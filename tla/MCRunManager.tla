---------------------------- MODULE MCRunManager ----------------------------
(* Small runs for model checking the run manager. *)
EXTENDS RunManager

\* One approval follows another, or guards a node.
PairEdge == {<<1, 2>>}

=============================================================================
