---------------------------- MODULE MCTaskOutput ----------------------------
(* A task with two streams, read by two monitor calls. *)
EXTENDS TaskOutput, TLC

CONSTANTS stdout, stderr, r1, r2, s1

\* The default watch, which both calls make, and one for a regex only.
Default == [regex |-> FALSE, exit |-> TRUE]

Untils == (r1 :> {Default}) @@ (r2 :> {Default, [regex |-> TRUE, exit |-> FALSE]})

Shared == [r \in Reader |-> s1]
=============================================================================
