---------------------------- MODULE AskContract ----------------------------
(***************************************************************************)
(* What the elicitation registry promises to whoever asks the user: a      *)
(* question that was put gets at most one outcome, which never changes,    *)
(* and whoever waits for it hears that outcome or leaves.                  *)
(***************************************************************************)
CONSTANTS
    Ask,        \* the questions
    Parked,     \* those somebody waits for
    Outcome,    \* what can become of a question
    NoOutcome

VARIABLES
    phase,      \* phase[a]: "unasked", "open" or "settled"
    outcome,    \* outcome[a]: the outcome of a settled question
    waiter      \* waiter[a]: "away", "waiting", "heard" or "left"

vars == <<phase, outcome, waiter>>

Init ==
    /\ phase = [a \in Ask |-> "unasked"]
    /\ outcome = [a \in Ask |-> NoOutcome]
    /\ waiter = [a \in Ask |-> "away"]

Put(a) ==
    /\ phase[a] = "unasked"
    /\ phase' = [phase EXCEPT ![a] = "open"]
    /\ waiter' = [waiter EXCEPT ![a] = IF a \in Parked THEN "waiting" ELSE "away"]
    /\ UNCHANGED outcome

\* Open questions are settled, once; a sweep settles several.
Settle(S) ==
    /\ S # {} /\ \A a \in S : phase[a] = "open"
    /\ phase' = [a \in Ask |-> IF a \in S THEN "settled" ELSE phase[a]]
    /\ outcome' \in [Ask -> Outcome \cup {NoOutcome}]
    /\ \A a \in S : outcome'[a] \in Outcome
    /\ \A a \in Ask \ S : outcome'[a] = outcome[a]
    /\ UNCHANGED waiter

\* Only a settled question is heard.
Hear(a) ==
    /\ phase[a] = "settled" /\ waiter[a] = "waiting"
    /\ waiter' = [waiter EXCEPT ![a] = "heard"]
    /\ UNCHANGED <<phase, outcome>>

\* Whoever waits may give up, and takes an open question with it.
Leave(a) ==
    /\ waiter[a] = "waiting"
    /\ waiter' = [waiter EXCEPT ![a] = "left"]
    /\ phase' = [phase EXCEPT ![a] = "settled"]
    /\ UNCHANGED outcome

Next ==
    \/ \E a \in Ask : Put(a) \/ Hear(a) \/ Leave(a)
    \/ \E S \in SUBSET Ask : Settle(S)

Spec == Init /\ [][Next]_vars

\* Once a question is settled, whoever waits for it does not wait for ever.
FairSpec == Spec /\ \A a \in Ask : WF_vars(Hear(a) \/ (phase[a] = "settled" /\ Leave(a)))
=============================================================================
