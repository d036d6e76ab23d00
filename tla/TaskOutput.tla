----------------------------- MODULE TaskOutput -----------------------------
(***************************************************************************)
(* The output of one background task and the kenaz__monitor calls that     *)
(* read it: the lines AppendLine numbers and broadcasts (core/tasks/       *)
(* registry.go, subscriber.go), and the drain and watch modes of           *)
(* core/tools/monitor/tool.go with the per-session offset they share.      *)
(*                                                                         *)
(* A line is its offset; all that is kept of its text is whether the       *)
(* watched regex matches it.  A step is what happens under one lock, or one *)
(* read of the offset store.  A turn's tool calls run in parallel, so two   *)
(* calls may share a session.                                              *)
(***************************************************************************)
EXTENDS Integers, Sequences

CONSTANTS
    Writer,     \* the line writers: stdout and stderr
    Reader,     \* kenaz__monitor calls that may be under way together
    Session,    \* the sessions they belong to
    SessionOf,  \* Reader -> Session
    Until,      \* Reader -> what its watches may wait for: [regex: one is given, exit: the end of the task]
    Buffer,     \* capacity of a subscriber's channel (256 in the code)
    MaxReturned, \* maxReturnedLines: lines one answer holds (2000 in the code)
    MaxLines,   \* bound: lines the task writes
    MaxCalls    \* bound: monitor calls made

ASSUME OutputAssumption ==
    /\ SessionOf \in [Reader -> Session]
    /\ Until \in [Reader -> SUBSET [regex : BOOLEAN, exit : BOOLEAN]]
    /\ {Buffer, MaxReturned, MaxLines, MaxCalls} \subseteq Nat

VARIABLES
    lines,   \* entry.lines: offset i is lines[i + 1], TRUE when the regex matches it
    writer,  \* Writer -> the offset it has appended and not broadcast yet, or -1
    task,    \* "running"; "exit": Wait returned; "cut": ended by Abort or a deadline
    offset,  \* the offset store: Session -> first offset not yet drained
    call,    \* Reader -> the call's program counter and locals
    told,    \* Session -> the lines its finished calls returned (history)
    cut,     \* Session -> the lines they left out, as answers marked truncated (history)
    leapt,   \* Session -> a live line ran ahead of the offset, or a watch was cancelled (history)
    calls    \* calls made so far

vars == <<lines, writer, task, offset, call, told, cut, leapt, calls>>

Offsets == 0 .. MaxLines - 1

Results == {"drained", "regex", "exit", "timeout", "cancelled"}

\* Where a call is, what it holds, and its subscription.
Call ==
    [pc : {"idle", "drain", "draintail", "drainset", "watch", "watchtail", "watchset",
           "subscribe", "add", "loop", "line", "finaltail", "finalset"},
     at : 0 .. MaxLines,                \* the offset read, then the one to set
     got : Seq(Offsets),                \* collectedLines, in the order they were read
     snap : BOOLEAN,                    \* the task had ended when the watch began
     regex : BOOLEAN, want : BOOLEAN,   \* what the watch waits for
     sub : {"no", "in", "closed"},      \* its channel
     queue : Seq(Offsets),
     line : Offsets \cup {-1},          \* the live line in hand
     out : Results \cup {"none"}]       \* how the last call ended

\* No call under way; out is how the last one ended.
Idle(out) ==
    [pc |-> "idle", at |-> 0, got |-> <<>>, snap |-> FALSE, regex |-> FALSE,
     want |-> FALSE, sub |-> "no", queue |-> <<>>, line |-> -1, out |-> out]

Init ==
    /\ lines = <<>>
    /\ writer = [w \in Writer |-> -1]
    /\ task = "running"
    /\ offset = [s \in Session |-> 0]
    /\ call = [r \in Reader |-> Idle("none")]
    /\ told = [s \in Session |-> {}]
    /\ cut = [s \in Session |-> {}]
    /\ leapt = [s \in Session |-> FALSE]
    /\ calls = 0

Ended == task # "running"

\* Tail: the lines from an offset on, and the offset to go on from.
TailFrom(from) == [k \in 1 .. Len(lines) - from |-> from + k - 1]

NextOffset(from) == IF TailFrom(from) = <<>> THEN from ELSE Len(lines)

Hit(i) == lines[i + 1]

\* The lines of a sequence, and those an answer keeps of them: the last MaxReturned.
Lines(q) == {q[k] : k \in 1 .. Len(q)}

convertLines(q) == {q[k] : k \in {j \in 1 .. Len(q) : Len(q) - j < MaxReturned}}
-----------------------------------------------------------------------------
(* The task. *)

\* lineWriter.Write, AppendLine: the line is numbered under linesMu ...
AppendLine(w) ==
    /\ writer[w] = -1
    /\ task # "exit"
    /\ Len(lines) < MaxLines
    /\ \E hit \in BOOLEAN : lines' = Append(lines, hit)
    /\ writer' = [writer EXCEPT ![w] = Len(lines)]
    /\ UNCHANGED <<task, offset, call, told, cut, leapt, calls>>

\* Mutant of Delivered: the channel is taken to be unbounded.
MutDeliveredUnbounded(c, i) == IF c.sub = "in" THEN [c EXCEPT !.queue = Append(@, i)] ELSE c

\* One subscriber's channel: a full one drops the line.
Delivered(c, i) == IF c.sub = "in" /\ Len(c.queue) < Buffer
                   THEN [c EXCEPT !.queue = Append(@, i)] ELSE c

\* ... and broadcast under the lock of the subscriber set.
Broadcast(w) ==
    /\ writer[w] # -1
    /\ call' = [r \in Reader |-> Delivered(call[r], writer[w])]
    /\ writer' = [writer EXCEPT ![w] = -1]
    /\ UNCHANGED <<lines, task, offset, told, cut, leapt, calls>>

\* closeAll: every subscribed channel is closed and leaves the set.
ClosedAll == [r \in Reader |-> IF call[r].sub = "in" THEN [call[r] EXCEPT !.sub = "closed"] ELSE call[r]]

\* End after Wait, which returns when both writers are done; or Abort, or End at the
\* deadline, which do not wait for them.
End ==
    /\ ~Ended
    /\ \/ /\ \A w \in Writer : writer[w] = -1
          /\ task' = "exit"
       \/ task' = "cut"
    /\ call' = ClosedAll
    /\ UNCHANGED <<lines, writer, offset, told, cut, leapt, calls>>
-----------------------------------------------------------------------------
(* A call. *)

Step(r, c) == call' = [call EXCEPT ![r] = c]

SetOffset(r, n) == offset' = [offset EXCEPT ![SessionOf[r]] = n]

\* The call returns: its subscription is cancelled, and its session is told the last of
\* the lines it collected.  The offset has moved past all of them.
Return(r, out) ==
    LET kept == convertLines(call[r].got)
    IN  /\ Step(r, Idle(out))
        /\ told' = [told EXCEPT ![SessionOf[r]] = @ \cup kept]
        /\ cut' = [cut EXCEPT ![SessionOf[r]] = @ \cup (Lines(call[r].got) \ kept)]

\* t.offsets.Get
ReadOffset(r, from, to) ==
    /\ call[r].pc = from
    /\ Step(r, [call[r] EXCEPT !.pc = to, !.at = offset[SessionOf[r]]])
    /\ UNCHANGED <<lines, writer, task, offset, told, cut, leapt, calls>>

\* t.reg.Tail
ReadTail(r, from, to) ==
    /\ call[r].pc = from
    /\ Step(r, [call[r] EXCEPT !.pc = to, !.got = @ \o TailFrom(call[r].at),
                               !.at = NextOffset(@)])
    /\ UNCHANGED <<lines, writer, task, offset, told, cut, leapt, calls>>

\* Call, mode "drain".
DrainStart(r) ==
    /\ call[r].pc = "idle"
    /\ calls < MaxCalls
    /\ calls' = calls + 1
    /\ Step(r, [Idle("none") EXCEPT !.pc = "drain"])
    /\ UNCHANGED <<lines, writer, task, offset, told, cut, leapt>>

DrainGet(r) == ReadOffset(r, "drain", "draintail")

DrainTail(r) == ReadTail(r, "draintail", "drainset")

\* Mutant of DrainSet: the offset moves to the lines there are now.
MutDrainSetLate(r) ==
    /\ call[r].pc = "drainset"
    /\ SetOffset(r, Len(lines))
    /\ Return(r, "drained")
    /\ UNCHANGED <<lines, writer, task, leapt, calls>>

DrainSet(r) ==
    /\ call[r].pc = "drainset"
    /\ SetOffset(r, call[r].at)
    /\ Return(r, "drained")
    /\ UNCHANGED <<lines, writer, task, leapt, calls>>

\* Call, mode "watch": the snapshot of the task.
WatchStart(r) ==
    /\ call[r].pc = "idle"
    /\ calls < MaxCalls
    /\ calls' = calls + 1
    /\ \E u \in Until[r] :
          Step(r, [Idle("none") EXCEPT !.pc = "watch", !.snap = Ended, !.regex = u.regex, !.want = u.exit])
    /\ UNCHANGED <<lines, writer, task, offset, told, cut, leapt>>

WatchGet(r) == ReadOffset(r, "watch", "watchtail")

WatchTail(r) == ReadTail(r, "watchtail", "watchset")

Matched(r, got) == call[r].regex /\ \E i \in got : Hit(i)

EndResult(r) == IF call[r].want THEN "exit" ELSE "timeout"

\* The offset moves past the buffered lines; a match among them, or a task that had
\* ended when the watch began, ends it.
WatchSet(r) ==
    /\ call[r].pc = "watchset"
    /\ SetOffset(r, call[r].at)
    /\ \/ /\ Matched(r, Lines(call[r].got))
          /\ Return(r, "regex")
       \/ /\ ~Matched(r, Lines(call[r].got))
          /\ call[r].snap
          /\ Return(r, EndResult(r))
       \/ /\ ~Matched(r, Lines(call[r].got))
          /\ ~call[r].snap
          /\ Step(r, [call[r] EXCEPT !.pc = "subscribe", !.at = 0])
          /\ UNCHANGED <<told, cut>>
    /\ UNCHANGED <<lines, writer, task, leapt, calls>>

\* Subscribe: the unlocked look at the task; one that ended since the snapshot ends
\* the watch with "exit" whatever it waits for ...
Subscribe(r) ==
    /\ call[r].pc = "subscribe"
    /\ \/ /\ Ended
          /\ Return(r, "exit")
       \/ /\ ~Ended
          /\ Step(r, [call[r] EXCEPT !.pc = "add"])
          /\ UNCHANGED <<told, cut>>
    /\ UNCHANGED <<lines, writer, task, offset, leapt, calls>>

\* ... and the channel joins the set.
AddChannel(r) ==
    /\ call[r].pc = "add"
    /\ Step(r, [call[r] EXCEPT !.pc = "loop", !.sub = "in"])
    /\ UNCHANGED <<lines, writer, task, offset, told, cut, leapt, calls>>

\* A live line is taken off the channel ...
TakeLine(r) ==
    /\ call[r].pc = "loop"
    /\ call[r].queue # <<>>
    /\ LET i == Head(call[r].queue)
       IN  Step(r, [call[r] EXCEPT !.pc = "line", !.queue = Tail(@), !.line = i, !.got = Append(@, i)])
    /\ UNCHANGED <<lines, writer, task, offset, told, cut, leapt, calls>>

\* ... and the offset is set behind it; a match ends the watch.
SetLine(r) ==
    /\ call[r].pc = "line"
    /\ SetOffset(r, call[r].line + 1)
    /\ leapt' = [leapt EXCEPT ![SessionOf[r]] = @ \/ call[r].line > offset[SessionOf[r]]]
    /\ \/ /\ Matched(r, {call[r].line})
          /\ Return(r, "regex")
       \/ /\ ~Matched(r, {call[r].line})
          /\ Step(r, [call[r] EXCEPT !.pc = "loop", !.line = -1])
          /\ UNCHANGED <<told, cut>>
    /\ UNCHANGED <<lines, writer, task, calls>>

\* The channel is closed and empty: what is left in the buffer is drained.
Closed(r) ==
    /\ call[r].sub = "closed"
    /\ call[r].queue = <<>>
    /\ ReadOffset(r, "loop", "finaltail")

FinalTail(r) == ReadTail(r, "finaltail", "finalset")

FinalSet(r) ==
    /\ call[r].pc = "finalset"
    /\ SetOffset(r, call[r].at)
    /\ Return(r, EndResult(r))
    /\ UNCHANGED <<lines, writer, task, leapt, calls>>

\* Mutant of Timer: the timer only guards a channel that is still in the set.
MutTimerOpen(r) ==
    /\ call[r].pc = "loop"
    /\ call[r].sub = "in"
    /\ ~Ended
    /\ Return(r, "timeout")
    /\ UNCHANGED <<lines, writer, task, offset, leapt, calls>>

\* Mutant of Timer: the expired watch answers like one whose task ended.
MutTimerExit(r) ==
    /\ call[r].pc = "loop"
    /\ Return(r, EndResult(r))
    /\ UNCHANGED <<lines, writer, task, offset, leapt, calls>>

Timer(r) ==
    /\ call[r].pc = "loop"
    /\ Return(r, "timeout")
    /\ UNCHANGED <<lines, writer, task, offset, leapt, calls>>

\* The caller's context ends: the lines collected are thrown away.
Cancel(r) ==
    /\ call[r].pc = "loop"
    /\ Step(r, Idle("cancelled"))
    /\ leapt' = [leapt EXCEPT ![SessionOf[r]] = TRUE]
    /\ UNCHANGED <<lines, writer, task, offset, told, cut, calls>>
-----------------------------------------------------------------------------
Drain(r) == DrainStart(r) \/ DrainGet(r) \/ DrainTail(r) \/ DrainSet(r)

Watch(r) ==
    \/ WatchStart(r)
    \/ WatchGet(r)
    \/ WatchTail(r)
    \/ WatchSet(r)
    \/ Subscribe(r)
    \/ AddChannel(r)
    \/ TakeLine(r)
    \/ SetLine(r)
    \/ Closed(r)
    \/ FinalTail(r)
    \/ FinalSet(r)
    \/ Timer(r)
    \/ Cancel(r)

Next ==
    \/ \E w \in Writer : AppendLine(w) \/ Broadcast(w)
    \/ End
    \/ \E r \in Reader : Drain(r) \/ Watch(r)

Spec == Init /\ [][Next]_vars

\* A call runs on, and in its loop a closed channel or the timer ends the wait; nothing
\* is asked of the task.
Fairness ==
    \A r \in Reader :
        WF_vars(\/ call[r].pc \notin {"idle", "loop"} /\ (Drain(r) \/ Watch(r))
                \/ Closed(r)
                \/ Timer(r))

FairSpec == Spec /\ Fairness
-----------------------------------------------------------------------------
(* Correctness. *)

\* Every variable keeps its type; a channel holds at most Buffer lines, and a call
\* holds only lines that were written.
TypeOK ==
    /\ lines \in Seq(BOOLEAN) /\ Len(lines) <= MaxLines
    /\ writer \in [Writer -> Offsets \cup {-1}]
    /\ task \in {"running", "exit", "cut"}
    /\ offset \in [Session -> 0 .. MaxLines]
    /\ told \in [Session -> SUBSET Offsets]
    /\ cut \in [Session -> SUBSET Offsets]
    /\ leapt \in [Session -> BOOLEAN]
    /\ calls \in 0 .. MaxCalls
    /\ call \in [Reader -> Call]
    /\ \A r \in Reader :
          /\ Lines(call[r].got) \subseteq 0 .. Len(lines) - 1
          /\ Len(call[r].queue) <= Buffer

\* The lines a session was told, knows to be left out, or that a call of it holds.
Known(s) ==
    told[s] \cup cut[s] \cup
        {i \in Offsets : \E r \in Reader : SessionOf[r] = s /\ i \in Lines(call[r].got)}

\* Lines below a session's offset that are none of these: no drain will return them and
\* no answer hints at them.
Lost(s) == {i \in Offsets : i < offset[s]} \ Known(s)

\* tool.go:232-237, 272-275, 343-345, 367-369: however drains, watches, writers and
\* the end of the task interleave, and even though two calls of a session set its
\* offset back and forth, a line below the offset was returned, is held by a call, or
\* was left out by an answer that said so (convertLines, 416-428), unless a live line
\* ran ahead of the offset or a cancelled watch threw away what it had read.
LossNeedsLeap == \A s \in Session : ~leapt[s] => Lost(s) = {}

\* tool.go:295-304, 318-330, 341-357: a watch that reports an exit is right, by
\* whichever of its three ways it learned of it.
ExitHonest == \A r \in Reader : call[r].out = "exit" => Ended

\* tool.go:334, 384-391: a watch returns even when the task ended between the look of
\* Subscribe and the Add, so that its channel is never closed.
WatchEnds == \A r \in Reader : call[r].pc # "idle" ~> call[r].pc = "idle"

\* The inductive form of the two: what a call has read of the offset is known up to
\* there, and it waits on a closed channel only when the task has ended.
Upto(s, n) == \A i \in Offsets : i < n => i \in Known(s)

Reading == {"draintail", "drainset", "watchtail", "watchset", "finaltail", "finalset"}

KnownInv ==
    \A s \in Session : ~leapt[s] =>
        /\ Upto(s, offset[s])
        /\ \A r \in Reader : SessionOf[r] = s /\ call[r].pc \in Reading => Upto(s, call[r].at)

OutputInv ==
    /\ TypeOK
    /\ \A w \in Writer : writer[w] < Len(lines)
    /\ \A r \in Reader :
          /\ \A k \in 1 .. Len(call[r].queue) : call[r].queue[k] < Len(lines)
          /\ call[r].pc = "idle" => call[r].got = <<>>
          /\ call[r].pc = "line" => call[r].line \in Lines(call[r].got)
          /\ call[r].snap \/ call[r].sub = "closed" \/ call[r].out = "exit" => Ended
          /\ call[r].pc \in {"finaltail", "finalset"} => Ended
    /\ KnownInv

\* tool.go:7, 230: drain returns all output since the last call (of more than
\* maxReturnedLines, 43-45, it says Truncated); a line that a full
\* channel drops is retained for drain calls (subscriber.go:35-37).
NoLineLost == \A s \in Session : Lost(s) = {}

\* tool.go:9-11: a watch ends with "exit" only when until.exit is true.
ExitWanted == [][\A r \in Reader : call'[r].out = "exit" /\ call[r].out # "exit" => call[r].want]_vars

\* tool.go:9-10: a watch that reads a line the regex matches says so.
MatchTold ==
    [][\A r \in Reader : call'[r].out \in {"exit", "timeout"} /\ call[r].out = "none" /\ call[r].regex
           => \A i \in Lines(call[r].got) : ~Hit(i)]_vars
=============================================================================
