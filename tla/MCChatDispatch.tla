--------------------------- MODULE MCChatDispatch ---------------------------
(* Tool lists for model checking the dispatcher, and its behaviours in which *)
(* one of the two ways to miss a redrive is ruled out.                       *)
EXTENDS ChatDispatch

Nothing == {}
Both == {"t1", "t2"}
Narrower == {{"t1"}}

\* No redrive is hidden by a later pause; none starts between two looks.
SeenSpec == Init /\ [][Next /\ RedriveSeen']_vars
ApartSpec == Init /\ [][Next /\ RedriveApart']_vars
=============================================================================
