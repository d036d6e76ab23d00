------------------------- MODULE AskRegistryProofs -------------------------
(***************************************************************************)
(* The registry implements AskContract, for any number of asks, callers    *)
(* and questions and any cap.                                              *)
(***************************************************************************)
EXTENDS AskRegistry, TLAPS

LEMMA GivenStep ==
    ASSUME NEW p \in Given, NEW q \in Question, NEW m \in BOOLEAN
    PROVE  [x \in DOMAIN p \cup {q} |-> IF x = q THEN m ELSE p[x]] \in Given
  <1>1. PICK S \in SUBSET Question : p \in [S -> BOOLEAN]
    BY DEF Given
  <1>2. [x \in S \cup {q} |-> IF x = q THEN m ELSE p[x]] \in [S \cup {q} -> BOOLEAN]
    BY <1>1
  <1>3. S \cup {q} \in SUBSET Question /\ DOMAIN p = S
    BY <1>1
  <1>4. QED
    BY <1>2, <1>3 DEF Given

LEMMA Values ==
    /\ Text \in Value /\ Cancelled \in Value
    /\ Text # NoValue /\ Cancelled # NoValue
    /\ [q \in {} |-> TRUE] \in Given
    /\ \A g \in Given : /\ [kind |-> "complete", got |-> g] \in Value
                        /\ [kind |-> "dismissed", got |-> g] \in Value
    /\ \A v \in Value : v # NoValue
  <1>1. [q \in {} |-> TRUE] \in [{} -> BOOLEAN]
    OBVIOUS
  <1>2. [q \in {} |-> TRUE] \in Given
    BY <1>1 DEF Given
  <1> DEFINE Empty == [q \in {} |-> TRUE]
  <1> HIDE DEF Empty
  <1>3. Text \in Value /\ Cancelled \in Value
    BY DEF Text, Cancelled, Value, Empty
  <1>4. \A v \in Value : v.kind # "none"
    BY DEF Value
  <1>5. NoValue.kind = "none"
    BY DEF NoValue
  <1>6. \A v \in Value : v # NoValue
    BY <1>4, <1>5
  <1>7. \A g \in Given : /\ [kind |-> "complete", got |-> g] \in Value
                         /\ [kind |-> "dismissed", got |-> g] \in Value
    BY DEF Value
  <1>8. QED
    BY <1>2, <1>3, <1>6, <1>7

-----------------------------------------------------------------------------
(* The type invariant, and that only settled questions are answered.       *)

IInv == TypeOK /\ SentSettled

LEMMA InitIInv == Init => IInv
  <1>1. [q \in {} |-> TRUE] \in Given
    BY Values
  <1> QED
    BY <1>1 DEF Init, IInv, TypeOK, SentSettled, Idle

\* What the locked half of an answer does.
LEMMA DecideIInv ==
    ASSUME IInv, NEW c \in Caller, NEW a \in Ask, NEW v \in Value,
           NEW st \in {"answered", "declined"}, Decide(c, a, st, v)
    PROVE  IInv'
  <1>1. TypeOK'
    BY DEF IInv, TypeOK, Decide
  <1>2. SentSettled'
    BY DEF IInv, TypeOK, SentSettled, Settled, Decide
  <1> QED
    BY <1>1, <1>2 DEF IInv

LEMMA NextIInv == IInv /\ [Next]_vars => IInv'
  <1> SUFFICES ASSUME IInv, [Next]_vars PROVE IInv'
    OBVIOUS
  <1> USE DEF Ask
  <1>1. ASSUME NEW a \in Ask, Register(a) PROVE IInv'
    <2>1. TypeOK'
      BY <1>1 DEF IInv, TypeOK, Register
    <2>2. SentSettled'
      BY <1>1 DEF IInv, TypeOK, SentSettled, Settled, Register
    <2> QED
      BY <2>1, <2>2 DEF IInv
  <1>2. ASSUME NEW a \in Ask, RegisterRefused(a) PROVE IInv'
    <2>1. TypeOK'
      BY <1>2 DEF IInv, TypeOK, RegisterRefused
    <2>2. SentSettled'
      BY <1>2 DEF IInv, TypeOK, SentSettled, Settled, RegisterRefused
    <2> QED
      BY <2>1, <2>2 DEF IInv
  <1>3. ASSUME NEW a \in Ask, Receive(a) PROVE IInv'
    <2>1. TypeOK'
      BY <1>3 DEF IInv, TypeOK, Receive
    <2>2. SentSettled'
      BY <1>3 DEF IInv, TypeOK, SentSettled, Settled, Receive
    <2> QED
      BY <2>1, <2>2 DEF IInv
  <1>4. ASSUME NEW a \in Ask, Leave(a) PROVE IInv'
    <2>1. TypeOK'
      BY <1>4 DEF IInv, TypeOK, Leave
    <2>2. SentSettled'
      BY <1>4 DEF IInv, TypeOK, SentSettled, Settled, Leave
    <2> QED
      BY <2>1, <2>2 DEF IInv
  <1>5. ASSUME NEW a \in Ask, ContextDone(a) PROVE IInv'
    BY <1>5 DEF IInv, TypeOK, SentSettled, Settled, ContextDone
  <1>6. ASSUME NEW a \in Ask, Deadline(a) PROVE IInv'
    BY <1>6 DEF IInv, TypeOK, SentSettled, Settled, Deadline
  <1>7. CASE SweepExpired
    <2>1. TypeOK'
      BY <1>7 DEF IInv, TypeOK, SweepExpired, Sweepable
    <2>2. SentSettled'
      BY <1>7 DEF IInv, TypeOK, SentSettled, Settled, SweepExpired, Sweepable
    <2> QED
      BY <2>1, <2>2 DEF IInv
  <1>8. ASSUME NEW c \in Caller, Send(c) PROVE IInv'
    <2>1. call[c].ask \in Ask /\ call[c].val \in Value /\ Settled(call[c].ask)
      BY <1>8 DEF IInv, TypeOK, SentSettled, Send
    <2>2. TypeOK'
      BY <1>8, <2>1 DEF IInv, TypeOK, Send, Idle
    <2>3. SentSettled'
      BY <1>8, <2>1 DEF IInv, TypeOK, SentSettled, Settled, Send, Idle
    <2> QED
      BY <2>2, <2>3 DEF IInv
  <1>9. ASSUME NEW c \in Caller, ResolveStep(c) PROVE IInv'
    <2>1. call[c].ask \in Ask /\ call[c].val \in Value
      BY <1>9 DEF IInv, TypeOK, ResolveStep
    <2>2. CASE Decide(c, call[c].ask, "answered", call[c].val)
      BY <2>1, <2>2, DecideIInv
    <2>3. CASE /\ call' = [call EXCEPT ![c] = Idle]
               /\ UNCHANGED <<status, answer, partial, chan, waiter, ctx, due>>
      BY <2>3 DEF IInv, TypeOK, SentSettled, Settled, Idle
    <2> QED
      BY <1>9, <2>2, <2>3 DEF ResolveStep
  <1>10. ASSUME NEW c \in Caller, NEW a \in Ask, Resolve(c, a) PROVE IInv'
    BY <1>10, Values, DecideIInv DEF Resolve
  <1>11. ASSUME NEW c \in Caller, NEW a \in Ask, Decline(c, a) PROVE IInv'
    BY <1>11, Values, DecideIInv DEF Decline
  <1>12. ASSUME NEW c \in Caller, NEW a \in Ask, Dismiss(c, a) PROVE IInv'
    <2> DEFINE v == [kind |-> "dismissed", got |-> partial[a]]
    <2>1. v \in Value
      BY Values DEF IInv, TypeOK
    <2> HIDE DEF v
    <2>2. call' = [call EXCEPT ![c] = [pc |-> "resolve", ask |-> a, val |-> v]]
      BY <1>12 DEF Dismiss, v
    <2> QED
      BY <1>12, <2>1, <2>2 DEF IInv, TypeOK, SentSettled, Settled, Dismiss
  <1>13. ASSUME NEW c \in Caller, NEW a \in Ask, NEW q \in Question, NEW m \in BOOLEAN,
                RecordStep(c, a, q, m)
         PROVE  IInv'
    <2> DEFINE got == [x \in DOMAIN partial[a] \cup {q} |-> IF x = q THEN m ELSE partial[a][x]]
               v == [kind |-> "complete", got |-> got]
    <2>a. partial[a] \in Given
      BY DEF IInv, TypeOK
    <2>b. got \in Given
      BY <2>a, GivenStep
    <2>1. got \in Given /\ v \in Value
      <3> HIDE DEF got
      <3> QED
        BY <2>b, Values
    <2>2. /\ partial' = [partial EXCEPT ![a] = got]
          /\ \/ call' = call
             \/ call' = [call EXCEPT ![c] = [pc |-> "resolve", ask |-> a, val |-> v]]
      BY <1>13 DEF RecordStep, Snapshot
    <2> HIDE DEF got, v
    <2>3. TypeOK'
      <3>1. partial' \in [Ask -> Given]
        BY <2>1, <2>2 DEF IInv, TypeOK
      <3>2. /\ call' \in [Caller -> [pc : {"idle", "send", "resolve"}, ask : Ask \cup {None},
                                     val : Value \cup {NoValue}]]
            /\ \A k \in Caller : call'[k].pc # "idle" => call'[k].ask \in Ask /\ call'[k].val \in Value
        BY <2>1, <2>2 DEF IInv, TypeOK
      <3>3. UNCHANGED <<status, answer, chan, waiter, ctx, due>>
        BY <1>13 DEF RecordStep
      <3> QED
        BY <3>1, <3>2, <3>3 DEF IInv, TypeOK
    <2>4. SentSettled'
      BY <1>13, <2>1, <2>2 DEF IInv, TypeOK, SentSettled, Settled, RecordStep
    <2> QED
      BY <2>3, <2>4 DEF IInv
  <1>14. CASE UNCHANGED vars
    BY <1>14 DEF IInv, TypeOK, SentSettled, Settled, vars
  <1> QED
    BY <1>1, <1>2, <1>3, <1>4, <1>5, <1>6, <1>7, <1>8, <1>9, <1>10, <1>11, <1>12,
       <1>13, <1>14 DEF Next

\* Every state of the registry is of its type: a sweep expires deferred asks
\* only, and only a dialog has a waiter (SweepExpired, Park).
THEOREM AskTypes == Spec => []TypeOK
  <1>1. IInv => TypeOK
    BY DEF IInv
  <1> QED
    BY <1>1, InitIInv, NextIInv, PTL DEF Spec

\* Resolve and Decline settle a question under the lock before they send.
THEOREM AskSentSettled == Spec => []SentSettled
  <1>1. IInv => SentSettled
    BY DEF IInv
  <1> QED
    BY <1>1, InitIInv, NextIInv, PTL DEF Spec

-----------------------------------------------------------------------------
(* Racing steps of a wizard.                                               *)

\* Nothing is recorded for an ask before it is put.
Unasked == \A a \in Ask : status[a] = "none" => partial[a] = [q \in {} |-> TRUE]

\* The step that completes a wizard is on its way to settle it.
Resolving(a) == \E c \in Caller : call[c].pc = "resolve" /\ call[c].ask = a

BatchInv == IInv /\ Unasked /\ BatchSettles

LEMMA InitBatch == StartsVisible /\ Init => BatchInv
  <1> SUFFICES ASSUME Init PROVE BatchInv
    OBVIOUS
  <1>1. Unasked
    BY DEF Init, Unasked
  <1>2. BatchSettles
    BY AskAssumption DEF Init, BatchSettles, Pending
  <1> QED
    BY <1>1, <1>2, InitIInv DEF BatchInv

\* An ask whose record is as it was and that nobody put keeps its resolver, unless
\* the resolver was the one that moved.
LEMMA BatchSame ==
    ASSUME BatchInv, NEW a \in Wizard,
           partial'[a] = partial[a],
           Pending(a)' => Pending(a),
           \A c \in Caller : call[c].pc = "resolve" /\ call[c].ask = a => call'[c] = call[c]
    PROVE  Pending(a)' /\ BatchComplete(partial[a])' => Resolving(a)'
  <1> SUFFICES ASSUME Pending(a)', BatchComplete(partial[a])' PROVE Resolving(a)'
    OBVIOUS
  <1>1. BatchComplete(partial[a])
    BY DEF BatchComplete, Visible
  <1>2. PICK c \in Caller : call[c].pc = "resolve" /\ call[c].ask = a
    BY <1>1 DEF BatchInv, BatchSettles
  <1> QED
    BY <1>2 DEF Resolving

LEMMA NextBatch == StartsVisible /\ BatchInv /\ [Next]_vars => BatchInv'
  <1> SUFFICES ASSUME StartsVisible, BatchInv, [Next]_vars PROVE Unasked' /\ BatchSettles'
    BY NextIInv DEF BatchInv
  <1> USE AskAssumption DEF Ask
  <1>a. SUFFICES Unasked' /\ \A a \in Wizard : Pending(a)' /\ BatchComplete(partial[a])' => Resolving(a)'
    BY DEF BatchSettles, Resolving
  <1> DEFINE Goal == Unasked' /\ \A a \in Wizard : Pending(a)' /\ BatchComplete(partial[a])' => Resolving(a)'
  <1>1. ASSUME NEW a \in Ask, Register(a) PROVE Goal
    <2>1. Unasked'
      BY <1>1 DEF Register, Unasked, BatchInv, IInv, TypeOK
    <2>2. ASSUME NEW b \in Wizard, b # a
          PROVE  Pending(b)' /\ BatchComplete(partial[b])' => Resolving(b)'
      BY <1>1, <2>2, BatchSame DEF Register, Pending, BatchInv, IInv, TypeOK
    <2>3. ~BatchComplete(partial[a])'
      <3>1. partial'[a] = [q \in {} |-> TRUE]
        BY <1>1 DEF Register, BatchInv, Unasked
      <3>2. DOMAIN partial'[a] = {}
        BY <3>1
      <3> QED
        BY <3>2 DEF BatchComplete, Visible, StartsVisible
    <2> QED
      BY <2>1, <2>2, <2>3
  <1>2. ASSUME UNCHANGED <<partial, call>>,
               \A a \in Ask : status'[a] = status[a] \/ status'[a] \notin {"none", "pending"}
        PROVE  Goal
    <2>1. Unasked'
      BY <1>2 DEF Unasked, BatchInv
    <2>2. ASSUME NEW b \in Wizard
          PROVE  Pending(b)' /\ BatchComplete(partial[b])' => Resolving(b)'
      BY <1>2, BatchSame DEF Pending
    <2> QED
      BY <2>1, <2>2
  <1>3. ASSUME NEW c \in Caller, call[c].pc # "resolve", UNCHANGED <<status, partial>>,
               \A k \in Caller \ {c} : call'[k] = call[k]
        PROVE  Goal
    <2>1. Unasked'
      BY <1>3 DEF Unasked, BatchInv
    <2>2. ASSUME NEW b \in Wizard
          PROVE  Pending(b)' /\ BatchComplete(partial[b])' => Resolving(b)'
      BY <1>3, BatchSame DEF Pending
    <2> QED
      BY <2>1, <2>2
  <1>4. ASSUME NEW c \in Caller, NEW a \in Ask, NEW v, NEW st \in {"answered", "declined"},
               Decide(c, a, st, v), call[c].pc = "resolve" => call[c].ask = a
        PROVE  Goal
    <2>1. /\ \A b \in Ask : status'[b] = IF b = a THEN st ELSE status[b]
          /\ \A k \in Caller \ {c} : call'[k] = call[k]
          /\ partial' = partial
      BY <1>4 DEF Decide, BatchInv, IInv, TypeOK
    <2>2. Unasked'
      BY <2>1 DEF Unasked, BatchInv
    <2>3. ASSUME NEW b \in Wizard
          PROVE  Pending(b)' /\ BatchComplete(partial[b])' => Resolving(b)'
      <3>1. CASE b = a
        BY <2>1, <3>1 DEF Pending
      <3>2. CASE b # a
        BY <1>4, <2>1, <3>2, BatchSame DEF Pending
      <3> QED
        BY <3>1, <3>2
    <2> QED
      BY <2>2, <2>3
  <1>5. ASSUME NEW c \in Caller, ResolveStep(c) PROVE Goal
    <2>1. call[c].ask \in Ask /\ call[c].pc = "resolve"
      BY <1>5 DEF BatchInv, IInv, TypeOK, ResolveStep
    <2>2. CASE Decide(c, call[c].ask, "answered", call[c].val)
      BY <2>1, <2>2, <1>4
    <2>3. CASE /\ ~Open(call[c].ask)
               /\ call' = [call EXCEPT ![c] = Idle]
               /\ UNCHANGED <<status, answer, partial, chan, waiter, ctx, due>>
      <3>1. \A k \in Caller \ {c} : call'[k] = call[k]
        BY <2>3 DEF BatchInv, IInv, TypeOK
      <3>2. Unasked'
        BY <2>3 DEF Unasked, BatchInv
      <3>3. ASSUME NEW b \in Wizard
            PROVE  Pending(b)' /\ BatchComplete(partial[b])' => Resolving(b)'
        <4>1. CASE b = call[c].ask
          BY <2>3, <4>1 DEF Pending, Open
        <4>2. CASE b # call[c].ask
          BY <2>3, <3>1, <4>2, BatchSame DEF Pending
        <4> QED
          BY <4>1, <4>2
      <3> QED
        BY <3>2, <3>3
    <2> QED
      BY <1>5, <2>2, <2>3 DEF ResolveStep
  <1>6. ASSUME NEW c \in Caller, NEW a \in Ask, NEW q \in Question, NEW m \in BOOLEAN,
               RecordStep(c, a, q, m)
        PROVE  Goal
    <2> DEFINE got == [x \in DOMAIN partial[a] \cup {q} |-> IF x = q THEN m ELSE partial[a][x]]
               v == [kind |-> "complete", got |-> got]
    <2>1. /\ call[c].pc = "idle" /\ Pending(a)
          /\ partial' = [partial EXCEPT ![a] = got]
          /\ status' = status
          /\ call' = IF ~BatchComplete(got) THEN call
                     ELSE [call EXCEPT ![c] = [pc |-> "resolve", ask |-> a, val |-> v]]
      BY <1>6 DEF RecordStep, Snapshot, Idle
    <2> HIDE DEF got, v
    <2>2. /\ partial'[a] = got /\ \A b \in Ask \ {a} : partial'[b] = partial[b]
          /\ \A k \in Caller \ {c} : call'[k] = call[k]
          /\ BatchComplete(got) => call'[c] = [pc |-> "resolve", ask |-> a, val |-> v]
      BY <2>1 DEF BatchInv, IInv, TypeOK
    <2>3. Unasked'
      BY <2>1, <2>2 DEF Unasked, BatchInv, Pending
    <2>4. BatchComplete(partial[a])' => Resolving(a)'
      <3> SUFFICES ASSUME BatchComplete(partial[a])' PROVE Resolving(a)'
        OBVIOUS
      <3>1. BatchComplete(got)
        BY <2>2 DEF BatchComplete, Visible
      <3> QED
        BY <2>2, <3>1 DEF Resolving
    <2>5. ASSUME NEW b \in Wizard, b # a
          PROVE  Pending(b)' /\ BatchComplete(partial[b])' => Resolving(b)'
      BY <2>1, <2>2, <2>5, BatchSame DEF Pending
    <2> QED
      BY <2>3, <2>4, <2>5
  <1> HIDE DEF Goal
  <1>7. ASSUME NEW a \in Ask,
               RegisterRefused(a) \/ Receive(a) \/ Leave(a) \/ ContextDone(a) \/ Deadline(a)
        PROVE  Goal
    BY <1>7, <1>2 DEF RegisterRefused, Receive, Leave, ContextDone, Deadline, BatchInv, IInv, TypeOK
  <1>8. ASSUME SweepExpired PROVE Goal
    BY <1>8, <1>2 DEF SweepExpired
  <1>9. ASSUME NEW c \in Caller, Send(c) PROVE Goal
    BY <1>9, <1>3 DEF Send, BatchInv, IInv, TypeOK
  <1>10. ASSUME NEW c \in Caller, NEW a \in Ask, Resolve(c, a) \/ Decline(c, a) PROVE Goal
    BY <1>10, <1>4 DEF Resolve, Decline, Idle
  <1>11. ASSUME NEW c \in Caller, NEW a \in Ask, Dismiss(c, a) PROVE Goal
    BY <1>11, <1>3 DEF Dismiss, Idle, BatchInv, IInv, TypeOK
  <1>12. ASSUME UNCHANGED vars PROVE Goal
    BY <1>12, <1>2 DEF vars
  <1>13. Goal
    BY <1>1, <1>5, <1>6, <1>7, <1>8, <1>9, <1>10, <1>11, <1>12 DEF Next
  <1> QED
    BY <1>13 DEF Goal

\* registry.go:369-406: whatever steps race, a wizard whose visible questions are all
\* answered is being settled: each step judges the snapshot it made under the lock, so
\* the last one sees them all. Needs a question that is visible from the start.
THEOREM AskBatchSettles == StartsVisible => (Spec => []BatchSettles)
  <1> SUFFICES ASSUME StartsVisible PROVE Spec => []BatchSettles
    OBVIOUS
  <1>1. Init => BatchInv
    BY InitBatch
  <1>2. BatchInv /\ [Next]_vars => BatchInv'
    BY NextBatch
  <1>3. BatchInv => BatchSettles
    BY DEF BatchInv
  <1> QED
    BY <1>1, <1>2, <1>3, PTL DEF Spec

-----------------------------------------------------------------------------
(* The refinement. A step of the registry that the contract does not see   *)
(* leaves the mapped variables as they are.                                *)

LEMMA Stutter ==
    ASSUME UNCHANGED <<waiter, answer>>, \A a \in Ask : Phase(a)' = Phase(a)
    PROVE  UNCHANGED Contract!vars
  <1>1. [a \in Ask |-> Phase(a)]' = [a \in Ask |-> Phase(a)]
    OBVIOUS
  <1>2. [a \in Ask |-> Hearing(a)]' = [a \in Ask |-> Hearing(a)]
    BY DEF Hearing
  <1> QED
    BY <1>1, <1>2 DEF Contract!vars

LEMMA DecideSettles ==
    ASSUME IInv, NEW c \in Caller, NEW a \in Ask, NEW v \in Value,
           NEW st \in {"answered", "declined"}, Decide(c, a, st, v)
    PROVE  Contract!Settle({a})
  <1>1. Phase(a) = "open"
    BY DEF Decide, Open, Pending, Phase
  <1>2. [x \in Ask |-> Phase(x)]' = [x \in Ask |-> IF x \in {a} THEN "settled" ELSE Phase(x)]
    BY DEF Decide, Phase, IInv, TypeOK
  <1>3. /\ answer' \in [Ask -> (Value \cup {Expiry}) \cup {NoValue}]
        /\ answer'[a] = v
        /\ \A x \in Ask \ {a} : answer'[x] = answer[x]
    BY DEF Decide, IInv, TypeOK
  <1>4. [x \in Ask |-> Hearing(x)]' = [x \in Ask |-> Hearing(x)]
    BY DEF Decide, Hearing
  <1> QED
    BY <1>1, <1>2, <1>3, <1>4 DEF Contract!Settle

LEMMA StepRefines == IInv /\ [Next]_vars => [Contract!Next]_(Contract!vars)
  <1> SUFFICES ASSUME IInv, [Next]_vars PROVE Contract!Next \/ UNCHANGED Contract!vars
    OBVIOUS
  <1> DEFINE ph == [a \in Ask |-> Phase(a)]
             hr == [a \in Ask |-> Hearing(a)]
  <1>1. ASSUME NEW a \in Ask, Register(a) PROVE Contract!Put(a)
    <2>1. ph[a] = "unasked"
      BY <1>1 DEF Register, Phase
    <2>2. ph' = [ph EXCEPT ![a] = "open"]
      BY <1>1 DEF Register, Phase, IInv, TypeOK
    <2>3. hr' = [hr EXCEPT ![a] = IF a \in Dialog THEN "waiting" ELSE "away"]
      BY <1>1 DEF Register, Hearing, IInv, TypeOK
    <2> QED
      BY <1>1, <2>1, <2>2, <2>3 DEF Contract!Put, Register
  <1>2. ASSUME NEW a \in Ask, RegisterRefused(a) PROVE UNCHANGED Contract!vars
    <2>1. \A x \in Ask : Phase(x)' = Phase(x)
      BY <1>2 DEF RegisterRefused, Phase, IInv, TypeOK
    <2> QED
      BY <1>2, <2>1, Stutter DEF RegisterRefused
  <1>3. ASSUME NEW a \in Ask, Receive(a) PROVE Contract!Hear(a)
    <2>1. Settled(a)
      BY <1>3 DEF Receive, IInv, SentSettled
    <2>2. ph[a] = "settled" /\ hr[a] = "waiting"
      BY <1>3, <2>1 DEF Receive, Settled, Phase, Hearing
    <2>3. hr' = [hr EXCEPT ![a] = "heard"]
      BY <1>3 DEF Receive, Hearing, IInv, TypeOK
    <2>4. ph' = ph
      BY <1>3 DEF Receive, Phase
    <2> QED
      BY <1>3, <2>2, <2>3, <2>4 DEF Contract!Hear, Receive
  <1>4. ASSUME NEW a \in Ask, Leave(a) PROVE Contract!Leave(a)
    <2>1. hr[a] = "waiting"
      BY <1>4 DEF Leave, Hearing
    <2>2. hr' = [hr EXCEPT ![a] = "left"]
      BY <1>4 DEF Leave, Hearing, IInv, TypeOK
    <2>3. ph' = [ph EXCEPT ![a] = "settled"]
      BY <1>4 DEF Leave, Phase, IInv, TypeOK
    <2> QED
      BY <1>4, <2>1, <2>2, <2>3 DEF Contract!Leave, Leave
  <1>5. ASSUME UNCHANGED <<status, answer, waiter>> PROVE UNCHANGED Contract!vars
    BY <1>5, Stutter DEF Phase
  <1>6. CASE SweepExpired
    <2>1. Sweepable \in SUBSET Ask /\ Sweepable # {}
      BY <1>6 DEF SweepExpired, Sweepable, Ask
    <2>2. \A a \in Sweepable : ph[a] = "open"
      BY <2>1 DEF Sweepable, Pending, Phase
    <2>3. ph' = [a \in Ask |-> IF a \in Sweepable THEN "settled" ELSE ph[a]]
      BY <1>6 DEF SweepExpired, Phase
    <2>4. /\ answer' \in [Ask -> (Value \cup {Expiry}) \cup {NoValue}]
          /\ \A a \in Sweepable : answer'[a] \in Value \cup {Expiry}
          /\ \A a \in Ask \ Sweepable : answer'[a] = answer[a]
      BY <1>6, <2>1 DEF SweepExpired, IInv, TypeOK
    <2>5. hr' = hr
      BY <1>6 DEF SweepExpired, Hearing
    <2>6. Contract!Settle(Sweepable)
      BY <2>1, <2>2, <2>3, <2>4, <2>5 DEF Contract!Settle
    <2> QED
      BY <2>1, <2>6 DEF Contract!Next
  <1>7. ASSUME NEW c \in Caller, ResolveStep(c) PROVE Contract!Next \/ UNCHANGED Contract!vars
    <2>1. call[c].ask \in Ask /\ call[c].val \in Value
      BY <1>7 DEF IInv, TypeOK, ResolveStep
    <2>2. CASE Decide(c, call[c].ask, "answered", call[c].val)
      <3>1. Contract!Settle({call[c].ask})
        BY <2>1, <2>2, DecideSettles
      <3> QED
        BY <2>1, <3>1 DEF Contract!Next
    <2>3. CASE UNCHANGED <<status, answer, partial, chan, waiter, ctx, due>>
      BY <2>3, <1>5
    <2> QED
      BY <1>7, <2>2, <2>3 DEF ResolveStep
  <1>8. ASSUME NEW c \in Caller, NEW a \in Ask, Resolve(c, a) \/ Decline(c, a)
        PROVE  Contract!Next
    <2>1. Contract!Settle({a})
      BY <1>8, Values, DecideSettles DEF Resolve, Decline
    <2> QED
      BY <2>1 DEF Contract!Next
  <1>9. ASSUME NEW c \in Caller, NEW a \in Ask, Dismiss(c, a)
        PROVE  UNCHANGED Contract!vars
    BY <1>9, <1>5 DEF Dismiss
  <1>10. ASSUME NEW c \in Caller, NEW a \in Ask, NEW q \in Question, NEW m \in BOOLEAN,
                RecordStep(c, a, q, m)
         PROVE  UNCHANGED Contract!vars
    BY <1>10, <1>5 DEF RecordStep
  <1>11. ASSUME NEW c \in Caller, Send(c) PROVE UNCHANGED Contract!vars
    BY <1>11, <1>5 DEF Send
  <1>12. ASSUME NEW a \in Ask, ContextDone(a) \/ Deadline(a) PROVE UNCHANGED Contract!vars
    BY <1>12, <1>5 DEF ContextDone, Deadline
  <1>13. ASSUME UNCHANGED vars PROVE UNCHANGED Contract!vars
    BY <1>13, <1>5 DEF vars
  <1>14. ASSUME NEW a \in Ask, Contract!Put(a) \/ Contract!Hear(a) \/ Contract!Leave(a)
         PROVE  Contract!Next
    BY <1>14 DEF Contract!Next
  <1> HIDE DEF ph, hr
  <1> QED
    BY <1>1, <1>2, <1>3, <1>4, <1>6, <1>7, <1>8, <1>9, <1>10, <1>11, <1>12,
       <1>13, <1>14 DEF Next

LEMMA InitRefines == Init => Contract!Init
  BY DEF Init, Contract!Init, Phase, Hearing

\* The registry implements its contract: a question gets at most one outcome,
\* which stays, and whoever waits in Park hears a settled question or leaves.
THEOREM AskKeepsOnce == Spec => KeepsOnce
  BY InitIInv, NextIInv, InitRefines, StepRefines, PTL DEF Spec, KeepsOnce, Contract!Spec
=============================================================================
