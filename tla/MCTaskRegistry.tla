--------------------------- MODULE MCTaskRegistry ---------------------------
(* A small task for model checking the registry. *)
EXTENDS TaskRegistry

CONSTANTS a1, a2, w1

TwoAborters == {a1, a2}
OneWatcher == {w1}
=============================================================================
