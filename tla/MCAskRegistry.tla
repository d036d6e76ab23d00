--------------------------- MODULE MCAskRegistry ---------------------------
(* Small sets of asks for model checking the registry. *)
EXTENDS AskRegistry, TLC

\* The second question is shown when the first is answered with what it needs.
Chain == ("q1" :> None) @@ ("q2" :> "q1")
=============================================================================
