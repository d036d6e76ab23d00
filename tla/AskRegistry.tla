---------------------------- MODULE AskRegistry ----------------------------
(***************************************************************************)
(* The elicitation registry (core/elicitation/registry.go): questions put  *)
(* to the user by a tool call that waits (Park) or as a deferred ask. What *)
(* graph nodes register (blocking, nobody on a channel) is in RunManager.  *)
(*                                                                         *)
(* Answers come from RPC goroutines. Resolve and Decline decide under the  *)
(* lock and send on the waiter's channel after it; a step of a wizard      *)
(* (RecordStep) records under the lock, judges completeness on its own     *)
(* snapshot after it, and then resolves like any other answer.             *)
(*                                                                         *)
(* Ids are generated, so an id stands for one question. All questions are  *)
(* of one session, the unit the cap on deferred asks counts.               *)
(***************************************************************************)
EXTENDS Naturals, FiniteSets

CONSTANTS
    Dialog,       \* asks of Park: somebody waits
    Deferred,     \* deferred asks
    Wizard,       \* asks with a batch of questions
    Question,     \* the questions of a wizard
    Parent,       \* Parent[q]: the question q depends on, or None
    None,
    MaxDeferred,  \* the cap on pending deferred asks of a session
    Caller        \* goroutines that bring answers

Ask == Dialog \cup Deferred

ASSUME AskAssumption == Wizard \subseteq Ask

\* An answer: of a dialog, a dismissal, a complete wizard, a dismissed one. A
\* wizard's carries its sub-answers: whether each meets what depends on it.
Given == UNION {[S -> BOOLEAN] : S \in SUBSET Question}
Value == [kind : {"text", "cancelled"}, got : {[q \in {} |-> TRUE]}]
         \cup [kind : {"complete", "dismissed"}, got : Given]
NoValue == [kind |-> "none", got |-> [q \in {} |-> TRUE]]

Text == [kind |-> "text", got |-> [q \in {} |-> TRUE]]
Cancelled == [kind |-> "cancelled", got |-> [q \in {} |-> TRUE]]
Expiry == [kind |-> "expired", got |-> [q \in {} |-> TRUE]]

VARIABLES
    status,     \* status[a]: of the entry; "none" before, "gone" once deleted
    answer,     \* answer[a]: its answer or why it has none; history once deleted
    partial,    \* partial[a]: the sub-answers of a wizard so far
    chan,       \* chan[a]: the channel of the entry, one place
    waiter,     \* waiter[a]: the goroutine in Park
    ctx,        \* asks whose context is done
    due,        \* deferred asks past their deadline
    call        \* call[c]: what goroutine c has decided and not sent yet

vars == <<status, answer, partial, chan, waiter, ctx, due, call>>

Idle == [pc |-> "idle", ask |-> None, val |-> NoValue]

Init ==
    /\ status = [a \in Ask |-> "none"]
    /\ answer = [a \in Ask |-> NoValue]
    /\ partial = [a \in Ask |-> [q \in {} |-> TRUE]]
    /\ chan = [a \in Ask |-> NoValue]
    /\ waiter = [a \in Ask |-> "none"]
    /\ ctx = {} /\ due = {}
    /\ call = [c \in Caller |-> Idle]

-----------------------------------------------------------------------------
(* Asking.                                                                 *)

Pending(a) == status[a] = "pending"

\* Register and Park share register; only a deferred ask is counted, and the
\* count takes in asks that are past their deadline and were not swept yet.
Waiting == {a \in Deferred : Pending(a)}

Register(a) ==
    /\ status[a] = "none"
    /\ a \in Deferred => Cardinality(Waiting) < MaxDeferred
    /\ status' = [status EXCEPT ![a] = "pending"]
    /\ waiter' = [waiter EXCEPT ![a] = IF a \in Dialog THEN "wait" ELSE "none"]
    /\ UNCHANGED <<answer, partial, chan, ctx, due, call>>

\* ErrTooManyPending; the ask is not put again.
RegisterRefused(a) ==
    /\ status[a] = "none"
    /\ a \in Deferred /\ Cardinality(Waiting) >= MaxDeferred
    /\ status' = [status EXCEPT ![a] = "refused"]
    /\ UNCHANGED <<answer, partial, chan, waiter, ctx, due, call>>

\* Park's select, when the channel is ready ...
Receive(a) ==
    /\ waiter[a] = "wait" /\ chan[a] # NoValue
    /\ waiter' = [waiter EXCEPT ![a] = "heard"]
    /\ chan' = [chan EXCEPT ![a] = NoValue]
    /\ UNCHANGED <<status, answer, partial, ctx, due, call>>

\* ... and when its context is (the dialog's ten minutes, or a stopped turn):
\* either may be taken when both are. Leaving deletes the entry.
Leave(a) ==
    /\ waiter[a] = "wait" /\ a \in ctx
    /\ waiter' = [waiter EXCEPT ![a] = "left"]
    /\ status' = [status EXCEPT ![a] = "gone"]
    /\ UNCHANGED <<answer, partial, chan, ctx, due, call>>

ContextDone(a) ==
    /\ a \in Dialog /\ waiter[a] = "wait"
    /\ ctx' = ctx \cup {a}
    /\ UNCHANGED <<status, answer, partial, chan, waiter, due, call>>

\* The deadline of a deferred ask passes; nothing runs at that moment.
Deadline(a) ==
    /\ a \in Deferred /\ Pending(a)
    /\ due' = due \cup {a}
    /\ UNCHANGED <<status, answer, partial, chan, waiter, ctx, call>>

Sweepable == {a \in Deferred : Pending(a) /\ a \in due}

\* ListPending sweeps first; what is listed is all that is left pending.
SweepExpired ==
    /\ Sweepable # {}
    /\ status' = [a \in Ask |-> IF a \in Sweepable THEN "expired" ELSE status[a]]
    /\ answer' = [a \in Ask |-> IF a \in Sweepable THEN Expiry ELSE answer[a]]
    /\ UNCHANGED <<partial, chan, waiter, ctx, due, call>>

-----------------------------------------------------------------------------
(* Answering.                                                              *)

\* Mutant of Open: an answered ask may be answered again.
MutOpenAnswered(a) == status[a] \in {"pending", "answered"}

\* An entry that may be decided, else ErrUnknown.
Open(a) == Pending(a)

\* Mutant of Decide: the entry stays in the pending set until the send.
MutDecideLate(c, a, st, v) ==
    /\ Open(a)
    /\ call' = [call EXCEPT ![c] = [pc |-> "send", ask |-> a, val |-> v]]
    /\ answer' = [answer EXCEPT ![a] = v]
    /\ UNCHANGED <<status, partial, chan, waiter, ctx, due>>

\* The locked half of Resolve and Decline; the send comes after the unlock.
Decide(c, a, st, v) ==
    /\ Open(a)
    /\ status' = [status EXCEPT ![a] = st]
    /\ answer' = [answer EXCEPT ![a] = v]
    /\ call' = [call EXCEPT ![c] = [pc |-> "send", ask |-> a, val |-> v]]
    /\ UNCHANGED <<partial, chan, waiter, ctx, due>>

Resolve(c, a) == call[c] = Idle /\ Decide(c, a, "answered", Text)

Decline(c, a) == call[c] = Idle /\ Decide(c, a, "declined", Cancelled)

\* The channel has one place: the first send is kept, another is dropped.
Send(c) ==
    LET a == call[c].ask
    IN  /\ call[c].pc = "send"
        /\ chan' = IF chan[a] = NoValue THEN [chan EXCEPT ![a] = call[c].val] ELSE chan
        /\ call' = [call EXCEPT ![c] = Idle]
        /\ UNCHANGED <<status, answer, partial, waiter, ctx, due>>

\* A question whose parent is unanswered, or answered otherwise, is not shown.
Visible(q, got) == Parent[q] = None \/ (Parent[q] \in DOMAIN got /\ got[Parent[q]])

BatchComplete(got) == \A q \in Question : Visible(q, got) => q \in DOMAIN got

\* Mutant of Snapshot: what was there before this step.
MutSnapshotBefore(a, got) == partial[a]

\* The sub-answers a step judges: its copy, made under the lock.
Snapshot(a, got) == got

\* RecordStep of an answer, to its unlock: done unless its own snapshot is
\* complete, and then it goes on to Resolve.
RecordStep(c, a, q, meets) ==
    LET got  == [x \in DOMAIN partial[a] \cup {q} |-> IF x = q THEN meets ELSE partial[a][x]]
        snap == Snapshot(a, got)
    IN  /\ call[c] = Idle /\ a \in Wizard /\ Pending(a)
        /\ partial' = [partial EXCEPT ![a] = got]
        /\ call' = IF ~BatchComplete(snap) THEN call
                   ELSE [call EXCEPT ![c] = [pc |-> "resolve", ask |-> a,
                                             val |-> [kind |-> "complete", got |-> snap]]]
        /\ UNCHANGED <<status, answer, chan, waiter, ctx, due>>

\* RecordStep of a dismissal.
Dismiss(c, a) ==
    /\ call[c] = Idle /\ a \in Wizard /\ Pending(a)
    /\ call' = [call EXCEPT ![c] = [pc |-> "resolve", ask |-> a,
                                    val |-> [kind |-> "dismissed", got |-> partial[a]]]]
    /\ UNCHANGED <<status, answer, partial, chan, waiter, ctx, due>>

\* The Resolve at the end of RecordStep; somebody else may have been first.
ResolveStep(c) ==
    LET a == call[c].ask
    IN  /\ call[c].pc = "resolve"
        /\ \/ Decide(c, a, "answered", call[c].val)
           \/ /\ ~Open(a)
              /\ call' = [call EXCEPT ![c] = Idle]
              /\ UNCHANGED <<status, answer, partial, chan, waiter, ctx, due>>

Next ==
    \/ \E a \in Ask :
        \/ Register(a) \/ RegisterRefused(a)
        \/ Receive(a) \/ Leave(a) \/ ContextDone(a) \/ Deadline(a)
    \/ SweepExpired
    \/ \E c \in Caller :
        \/ Send(c) \/ ResolveStep(c)
        \/ \E a \in Ask :
            \/ Resolve(c, a) \/ Decline(c, a) \/ Dismiss(c, a)
            \/ \E q \in Question, meets \in BOOLEAN : RecordStep(c, a, q, meets)

Spec == Init /\ [][Next]_vars

\* Goroutines that hold an answer go on, and so does one that can return from
\* Park. Nobody is obliged to answer.
Fairness ==
    /\ \A c \in Caller : WF_vars(Send(c) \/ ResolveStep(c))
    /\ \A a \in Ask : WF_vars(Receive(a) \/ Leave(a))

FairSpec == Spec /\ Fairness

-----------------------------------------------------------------------------
(* Properties.                                                             *)

\* Every part has its type; only deferred asks expire or are refused, and only
\* a dialog has a waiter.
TypeOK ==
    /\ status \in [Ask -> {"none", "pending", "answered", "declined", "expired", "refused", "gone"}]
    /\ answer \in [Ask -> Value \cup {NoValue, Expiry}]
    /\ partial \in [Ask -> Given]
    /\ chan \in [Ask -> Value \cup {NoValue}]
    /\ waiter \in [Ask -> {"none", "wait", "heard", "left"}]
    /\ ctx \subseteq Dialog /\ due \subseteq Deferred
    /\ call \in [Caller -> [pc : {"idle", "send", "resolve"}, ask : Ask \cup {None},
                            val : Value \cup {NoValue}]]
    /\ \A c \in Caller : call[c].pc # "idle" => call[c].ask \in Ask /\ call[c].val \in Value
    /\ \A a \in Ask : status[a] \in {"expired", "refused"} => a \in Deferred
    /\ \A a \in Ask : status[a] = "gone" \/ waiter[a] # "none" => a \in Dialog

Settled(a) == status[a] \notin {"none", "refused", "pending"}

\* registry.go:315-359: an answer is on its way to the waiter of Park, or on the channel, only when
\* its question is settled: whoever hears one cannot see it change.
SentSettled ==
    /\ \A a \in Ask : chan[a] # NoValue => Settled(a)
    /\ \A c \in Caller : call[c].pc = "send" => Settled(call[c].ask)

\* registry.go:369-406: a wizard all of whose visible questions are answered does not stay open:
\* whatever steps raced, the last one saw them all.
BatchSettles ==
    \A a \in Wizard : Pending(a) /\ BatchComplete(partial[a]) =>
        \E c \in Caller : call[c].pc = "resolve" /\ call[c].ask = a

\* A wizard shows a question from the start, as every sensible one does; a batch in
\* which each question depends on another is not refused (question.go:161-173).
StartsVisible == \E q \in Question : Parent[q] = None

\* The entry of an ask as its contract sees it.
Phase(a) == CASE status[a] \in {"none", "refused"} -> "unasked"
              [] status[a] = "pending" -> "open"
              [] OTHER -> "settled"

Hearing(a) == CASE waiter[a] = "none" -> "away"
                [] waiter[a] = "wait" -> "waiting"
                [] OTHER -> waiter[a]

Contract == INSTANCE AskContract WITH
    Parked <- Dialog, Outcome <- Value \cup {Expiry}, NoOutcome <- NoValue,
    phase <- [a \in Ask |-> Phase(a)], outcome <- answer,
    waiter <- [a \in Ask |-> Hearing(a)]

\* registry.go:218-241, 315-406, 518-536: the registry keeps its contract: one outcome per question, which stays, and
\* whoever waits hears a settled one or leaves.
KeepsContract == Contract!FairSpec

\* The safety half of it.
KeepsOnce == Contract!Spec

\* registry.go:476-477: every read of the pending set sweeps first, so an ask is
\* refused only for asks that are within their deadline. Register does not.
CapCountsOpen ==
    [][\A a \in Deferred : status[a] = "none" /\ status'[a] = "refused" =>
          Cardinality(Waiting \ due) >= MaxDeferred]_vars
=============================================================================
