-------------------------- MODULE TaskOutputProofs --------------------------
(***************************************************************************)
(* The output of a background task, for any number of streams, monitor     *)
(* calls and sessions, any channel capacity and any bounds: types, honest  *)
(* exits, and that no line is lost unnoticed unless a live line ran ahead  *)
(* of the offset of its session or a watch was cancelled.                  *)
(***************************************************************************)
EXTENDS TaskOutput, TLAPS

\* What KnownInv leaves of OutputInv: one call's part, and all of it.
CallInv(r) ==
    /\ \A k \in 1 .. Len(call[r].queue) : call[r].queue[k] < Len(lines)
    /\ call[r].pc = "idle" => call[r].got = <<>>
    /\ call[r].pc = "line" => call[r].line \in Lines(call[r].got)
    /\ call[r].snap \/ call[r].sub = "closed" \/ call[r].out = "exit" => Ended
    /\ call[r].pc \in {"finaltail", "finalset"} => Ended

Shape ==
    /\ TypeOK
    /\ \A w \in Writer : writer[w] < Len(lines)
    /\ \A r \in Reader : CallInv(r)

LEMMA InvParts == OutputInv <=> Shape /\ KnownInv
BY DEF OutputInv, Shape, CallInv

LEMMA InvPartsNext == Shape' /\ KnownInv' => OutputInv'
BY DEF OutputInv, Shape, CallInv

\* The lines of a sequence, of two put together and of one more line; Tail returns those
\* from its offset on.
LEMMA LinesOf == \A q \in Seq(Offsets) : Lines(q) \subseteq Offsets
BY DEF Lines

LEMMA LinesNone == Lines(<<>>) = {}
BY DEF Lines

LEMMA LinesCat ==
    ASSUME NEW p \in Seq(Offsets), NEW q \in Seq(Offsets)
    PROVE  p \o q \in Seq(Offsets) /\ Lines(p \o q) = Lines(p) \cup Lines(q)
<1>1. /\ p \o q \in Seq(Offsets) /\ Len(p \o q) = Len(p) + Len(q) /\ Len(p) \in Nat /\ Len(q) \in Nat
      /\ \A k \in 1 .. Len(p) : (p \o q)[k] = p[k]
      /\ \A k \in Len(p) + 1 .. Len(p) + Len(q) : (p \o q)[k] = q[k - Len(p)]
    OBVIOUS
<1>2. ASSUME NEW k \in 1 .. Len(q) PROVE (p \o q)[Len(p) + k] = q[k] /\ Len(p) + k \in 1 .. Len(p \o q)
    BY <1>1
<1>3. ASSUME NEW k \in 1 .. Len(p \o q) PROVE k \in 1 .. Len(p) \/ k - Len(p) \in 1 .. Len(q)
    BY <1>1
<1>4. Lines(p) \cup Lines(q) \subseteq Lines(p \o q)
    BY <1>1, <1>2 DEF Lines
<1>5. Lines(p \o q) \subseteq Lines(p) \cup Lines(q)
    BY <1>1, <1>3 DEF Lines
<1> QED
    BY <1>1, <1>4, <1>5

LEMMA LinesAppend ==
    ASSUME NEW p \in Seq(Offsets), NEW i \in Offsets
    PROVE  Append(p, i) \in Seq(Offsets) /\ Lines(Append(p, i)) = Lines(p) \cup {i}
BY DEF Lines

LEMMA TailLines ==
    ASSUME lines \in Seq(BOOLEAN), Len(lines) <= MaxLines, NEW from \in 0 .. MaxLines
    PROVE  /\ TailFrom(from) \in Seq(Offsets)
           /\ Lines(TailFrom(from)) = from .. Len(lines) - 1
           /\ (TailFrom(from) = <<>>) <=> (Len(lines) <= from)
<1> DEFINE n == Len(lines)
           f == TailFrom(from)
<1>0. n \in Nat /\ MaxLines \in Nat /\ from \in Nat
    BY OutputAssumption
<1>1. CASE n <= from
    <2>1. f = [k \in 1 .. 0 |-> from + k - 1]
        BY <1>0, <1>1 DEF TailFrom
    <2>2. f = <<>>
        BY <2>1
    <2>3. from .. n - 1 = {}
        BY <1>0, <1>1
    <2>4. <<>> \in Seq(Offsets) /\ Lines(f) = {}
        BY <2>2, LinesNone
    <2> HIDE DEF n, f
    <2>5. f \in Seq(Offsets) /\ Lines(f) = from .. n - 1
        BY <2>2, <2>3, <2>4
    <2> QED
        BY <1>1, <2>2, <2>5 DEF n, f
<1>2. CASE n > from
    <2> DEFINE m == n - from
    <2>1. m \in Nat /\ m > 0
        BY <1>0, <1>2
    <2>2. f = [k \in 1 .. m |-> from + k - 1]
        BY DEF TailFrom
    <2>3. \A k \in 1 .. m : from + k - 1 \in Offsets /\ from + k - 1 \in from .. n - 1
        BY <1>0, <2>1 DEF Offsets
    <2>4. \A i \in from .. n - 1 : i - from + 1 \in 1 .. m /\ from + (i - from + 1) - 1 = i
        BY <1>0, <2>1
    <2> HIDE DEF n, m, f
    <2>5. f \in Seq(Offsets) /\ Len(f) = m /\ \A k \in 1 .. m : f[k] = from + k - 1
        <3>1. f \in [1 .. m -> Offsets] /\ \A k \in 1 .. m : f[k] = from + k - 1
            BY <2>2, <2>3
        <3> QED
            BY <2>1, <3>1
    <2>6. Lines(f) = from .. n - 1
        BY <2>3, <2>4, <2>5 DEF Lines
    <2> QED
        BY <1>0, <1>2, <2>1, <2>5, <2>6 DEF n, f
<1> QED
    BY <1>0, <1>1, <1>2

LEMMA IdleType == \A out \in Results \cup {"none"} : Idle(out) \in Call
BY OutputAssumption DEF Idle, Call, Offsets, Results

\* A step of one call, which leaves the lines, the writers and the task alone.
LEMMA CallKept ==
    ASSUME Shape, NEW r \in Reader, NEW c \in Call, Step(r, c),
           UNCHANGED <<lines, writer, task>>,
           offset' \in [Session -> 0 .. MaxLines],
           told' \in [Session -> SUBSET Offsets], cut' \in [Session -> SUBSET Offsets],
           leapt' \in [Session -> BOOLEAN], calls' \in 0 .. MaxCalls,
           Lines(c.got) \subseteq 0 .. Len(lines) - 1, Len(c.queue) <= Buffer,
           \A k \in 1 .. Len(c.queue) : c.queue[k] < Len(lines),
           c.pc = "idle" => c.got = <<>>, c.pc = "line" => c.line \in Lines(c.got),
           c.snap \/ c.sub = "closed" \/ c.out = "exit" => Ended,
           c.pc \in {"finaltail", "finalset"} => Ended
    PROVE  Shape' /\ call'[r] = c /\ \A q \in Reader \ {r} : call'[q] = call[q]
<1> USE DEF Shape, TypeOK, Step
<1>1. call' \in [Reader -> Call] /\ call'[r] = c /\ \A q \in Reader \ {r} : call'[q] = call[q]
    OBVIOUS
<1>2. Ended' = Ended
    BY DEF Ended
<1>3. \A q \in Reader : CallInv(q)'
    BY <1>1, <1>2 DEF CallInv
<1>4. \A q \in Reader : Lines(call'[q].got) \subseteq 0 .. Len(lines) - 1 /\ Len(call'[q].queue) <= Buffer
    BY <1>1
<1> QED
    BY <1>1, <1>3, <1>4

\* A call that returns: its record is that of an idle call.
LEMMA ReturnKept ==
    ASSUME Shape, NEW r \in Reader, NEW out \in Results \cup {"none"}, Step(r, Idle(out)),
           UNCHANGED <<lines, writer, task>>,
           offset' \in [Session -> 0 .. MaxLines],
           told' \in [Session -> SUBSET Offsets], cut' \in [Session -> SUBSET Offsets],
           leapt' \in [Session -> BOOLEAN], calls' \in 0 .. MaxCalls,
           out = "exit" => Ended
    PROVE  Shape' /\ call'[r] = Idle(out) /\ \A q \in Reader \ {r} : call'[q] = call[q]
<1>1. Idle(out) \in Call
    BY IdleType
<1>2. /\ Idle(out).got = <<>> /\ Idle(out).queue = <<>> /\ Idle(out).pc = "idle"
      /\ ~Idle(out).snap /\ Idle(out).sub = "no" /\ Idle(out).out = out
    BY DEF Idle
<1>3. Len(Idle(out).queue) <= Buffer /\ \A k \in 1 .. Len(Idle(out).queue) : Idle(out).queue[k] < Len(lines)
    BY <1>2, OutputAssumption
<1>4. Idle(out).snap \/ Idle(out).sub = "closed" \/ Idle(out).out = "exit" => Ended
    BY <1>2
<1>5. /\ Lines(Idle(out).got) \subseteq 0 .. Len(lines) - 1
      /\ Idle(out).pc = "idle" => Idle(out).got = <<>>
      /\ Idle(out).pc = "line" => Idle(out).line \in Lines(Idle(out).got)
      /\ Idle(out).pc \in {"finaltail", "finalset"} => Ended
    BY <1>2, LinesNone
<1> QED
    BY <1>1, <1>3, <1>4, <1>5, CallKept

LEMMA TaskShape ==
    ASSUME Shape, (\E w \in Writer : AppendLine(w) \/ Broadcast(w)) \/ End
    PROVE  Shape'
<1> USE DEF Shape, TypeOK
<1>1. ASSUME NEW w \in Writer, AppendLine(w) PROVE Shape'
    <2>1. PICK hit \in BOOLEAN : lines' = Append(lines, hit)
        BY <1>1 DEF AppendLine
    <2>2. lines' \in Seq(BOOLEAN) /\ Len(lines') = Len(lines) + 1 /\ Len(lines) \in Nat
        BY <2>1
    <2>3. Len(lines) \in Offsets /\ Len(lines') <= MaxLines
        BY <1>1, <2>2, OutputAssumption DEF AppendLine, Offsets
    <2>4. writer' \in [Writer -> Offsets \cup {-1}] /\ \A v \in Writer : writer'[v] < Len(lines')
        BY <1>1, <2>2, <2>3 DEF AppendLine, Offsets
    <2>5. \A r \in Reader : CallInv(r)'
        <3> SUFFICES ASSUME NEW r \in Reader PROVE CallInv(r)'
            OBVIOUS
        <3>1. call[r].queue \in Seq(Offsets)
            BY DEF Call
        <3>2. \A k \in 1 .. Len(call[r].queue) : call[r].queue[k] \in Nat
            BY <3>1, OutputAssumption DEF Offsets
        <3> QED
            BY <1>1, <2>2, <3>2 DEF AppendLine, CallInv, Ended
    <2>6. \A r \in Reader : Lines(call[r].got) \subseteq 0 .. Len(lines') - 1
        <3>1. 0 .. Len(lines) - 1 \subseteq 0 .. Len(lines') - 1
            BY <2>2
        <3>2. \A r \in Reader : Lines(call[r].got) \subseteq 0 .. Len(lines) - 1
            OBVIOUS
        <3> QED
            BY <3>1, <3>2
    <2> QED
        BY <1>1, <2>2, <2>3, <2>4, <2>5, <2>6 DEF AppendLine
<1>2. ASSUME NEW w \in Writer, Broadcast(w) PROVE Shape'
    <2>1. writer[w] \in Offsets /\ writer[w] < Len(lines)
        BY <1>2 DEF Broadcast
    <2>2. ASSUME NEW r \in Reader
          PROVE  /\ call'[r] \in Call /\ CallInv(r)'
                 /\ call'[r].got = call[r].got /\ Len(call'[r].queue) <= Buffer
        <3> DEFINE c == call[r]
        <3>0. c \in Call /\ CallInv(r) /\ Len(c.queue) <= Buffer /\ c.queue \in Seq(Offsets)
            BY DEF Call
        <3>1. call'[r] = Delivered(c, writer[w])
            BY <1>2 DEF Broadcast
        <3>2. CASE call'[r] = c
            BY <1>2, <3>0, <3>2 DEF Broadcast, CallInv, Ended
        <3>3. CASE call'[r] # c
            <4>1. Len(c.queue) < Buffer /\ call'[r] = [c EXCEPT !.queue = Append(@, writer[w])]
                BY <3>1, <3>3 DEF Delivered
            <4> DEFINE q == Append(c.queue, writer[w])
            <4>2. q \in Seq(Offsets) /\ Len(q) = Len(c.queue) + 1
                BY <2>1, <3>0
            <4>3. \A k \in 1 .. Len(q) : q[k] < Len(lines)
                BY <2>1, <3>0, <4>2 DEF CallInv
            <4>4. call'[r].queue = q /\ call'[r] \in Call
                BY <4>1, <4>2, <3>0 DEF Call
            <4>5. /\ call'[r].got = c.got /\ call'[r].pc = c.pc /\ call'[r].line = c.line
                  /\ call'[r].snap = c.snap /\ call'[r].sub = c.sub /\ call'[r].out = c.out
                BY <4>1, <3>0 DEF Call
            <4>6. Len(q) <= Buffer
                BY <4>1, <4>2, <3>0, OutputAssumption
            <4> HIDE DEF q, c
            <4> QED
                BY <1>2, <3>0, <4>3, <4>4, <4>5, <4>6 DEF Broadcast, CallInv, Ended, c
        <3> QED
            BY <3>2, <3>3
    <2>3. call' \in [Reader -> Call]
        BY <1>2, <2>2 DEF Broadcast
    <2>4. writer' \in [Writer -> Offsets \cup {-1}] /\ \A v \in Writer : writer'[v] < Len(lines)
        BY <1>2 DEF Broadcast
    <2> QED
        BY <1>2, <2>2, <2>3, <2>4 DEF Broadcast
<1>3. ASSUME End PROVE Shape'
    <2>1. ASSUME NEW r \in Reader
          PROVE  /\ call'[r] \in Call /\ CallInv(r)'
                 /\ call'[r].got = call[r].got /\ call'[r].queue = call[r].queue
        <3> DEFINE c == call[r]
        <3>0. c \in Call /\ CallInv(r)
            OBVIOUS
        <3>1. call'[r] = c \/ call'[r] = [c EXCEPT !.sub = "closed"]
            BY <1>3 DEF End, ClosedAll
        <3>2. /\ call'[r] \in Call
              /\ call'[r].got = c.got /\ call'[r].queue = c.queue /\ call'[r].pc = c.pc
              /\ call'[r].line = c.line /\ call'[r].snap = c.snap /\ call'[r].out = c.out
            BY <3>0, <3>1 DEF Call
        <3> HIDE DEF c
        <3> QED
            BY <1>3, <3>0, <3>2 DEF End, Ended, CallInv, c
    <2>2. call' \in [Reader -> Call]
        BY <1>3, <2>1 DEF End, ClosedAll
    <2> QED
        BY <1>3, <2>1, <2>2 DEF End
<1> QED
    BY <1>1, <1>2, <1>3

-----------------------------------------------------------------------------
(* What is known of the lines below the offsets. *)

\* A step of call r that forgets nothing its session knew, and sets or reads no
\* offset beyond what it then knows.
LEMMA KnownKept ==
    ASSUME Shape, Shape', KnownInv, NEW r \in Reader,
           \A q \in Reader \ {r} : call'[q] = call[q],
           \A s \in Session : leapt[s] => leapt'[s],
           \A s \in Session \ {SessionOf[r]} : 
               offset'[s] = offset[s] /\ told'[s] = told[s] /\ cut'[s] = cut[s],
           ~leapt'[SessionOf[r]] =>
               /\ told[SessionOf[r]] \cup cut[SessionOf[r]] \cup Lines(call[r].got)
                      \subseteq told'[SessionOf[r]] \cup cut'[SessionOf[r]] \cup Lines(call'[r].got)
               /\ \A i \in Offsets : i < offset'[SessionOf[r]] => i \in Known(SessionOf[r]) \cup Lines(call'[r].got)
               /\ call'[r].pc \in Reading =>
                     \A i \in Offsets : i < call'[r].at => i \in Known(SessionOf[r]) \cup Lines(call'[r].got)
    PROVE  KnownInv'
<1> DEFINE S == SessionOf[r]
<1>0. S \in Session /\ \A q \in Reader : SessionOf[q] \in Session
    BY OutputAssumption
<1>1. \A q \in Reader : Lines(call[q].got) \subseteq Offsets /\ Lines(call'[q].got) \subseteq Offsets
    BY LinesOf DEF Shape, TypeOK, Call
<1>2. ASSUME NEW s \in Session, ~leapt'[s] PROVE Known(s) \subseteq Known(s)'
    <2>1. CASE s = S
        BY <1>1, <1>2, <2>1 DEF Known
    <2>2. CASE s # S
        BY <1>1, <1>2, <2>2 DEF Known
    <2> QED
        BY <2>1, <2>2
<1>3. Lines(call'[r].got) \subseteq Known(S)'
    BY <1>1 DEF Known
<1>4. ASSUME NEW s \in Session, ~leapt'[s] PROVE \A i \in Offsets : i < offset'[s] => i \in Known(s)'
    <2>1. CASE s = S
        BY <1>2, <1>3, <1>4, <2>1
    <2>2. CASE s # S
        BY <1>2, <1>4, <2>2 DEF KnownInv, Upto
    <2> QED
        BY <2>1, <2>2
<1>5. ASSUME NEW s \in Session, ~leapt'[s], NEW q \in Reader, SessionOf[q] = s, call'[q].pc \in Reading
      PROVE  \A i \in Offsets : i < call'[q].at => i \in Known(s)'
    <2>1. CASE q = r
        BY <1>2, <1>3, <1>5, <2>1
    <2>2. CASE q # r
        BY <1>2, <1>5, <2>2 DEF KnownInv, Upto
    <2> QED
        BY <2>1, <2>2
<1> QED
    BY <1>4, <1>5 DEF KnownInv, Upto

\* The task knows nothing of calls: it changes no offset and no call's lines.
LEMMA TaskKnown ==
    ASSUME Shape, KnownInv, (\E w \in Writer : AppendLine(w) \/ Broadcast(w)) \/ End
    PROVE  KnownInv'
<1>1. UNCHANGED <<offset, told, cut, leapt>>
    BY DEF AppendLine, Broadcast, End
<1>2. ASSUME NEW r \in Reader
      PROVE  call'[r].got = call[r].got /\ call'[r].pc = call[r].pc /\ call'[r].at = call[r].at
    <2>0. call[r] \in Call
        BY DEF Shape, TypeOK
    <2>1. CASE \E w \in Writer : AppendLine(w)
        BY <2>1 DEF AppendLine
    <2>2. ASSUME NEW w \in Writer, Broadcast(w)
          PROVE  call'[r] = call[r] \/ call'[r] = [call[r] EXCEPT !.queue = Append(@, writer[w])]
        BY <2>2 DEF Broadcast, Delivered
    <2>3. CASE End
        BY <2>0, <2>3 DEF End, ClosedAll, Call
    <2> QED
        BY <2>0, <2>1, <2>2, <2>3 DEF Call
<1> QED
    BY <1>1, <1>2 DEF KnownInv, Upto, Known

-----------------------------------------------------------------------------
(* The steps of a call. *)

LEMMA ReadOffsetInv ==
    ASSUME OutputInv, NEW r \in Reader, NEW from, NEW to \in Reading, ReadOffset(r, from, to),
           to \in {"finaltail", "finalset"} => Ended
    PROVE  OutputInv'
<1> DEFINE S == SessionOf[r]
           c == [call[r] EXCEPT !.pc = to, !.at = offset[S]]
<1>0. Shape /\ KnownInv /\ S \in Session /\ call[r] \in Call /\ CallInv(r)
    BY InvParts, OutputAssumption DEF Shape, TypeOK
<1>1. c \in Call /\ c.pc = to /\ c.at = offset[S] /\ c.got = call[r].got /\ c.queue = call[r].queue
      /\ c.snap = call[r].snap /\ c.sub = call[r].sub /\ c.out = call[r].out
    BY <1>0 DEF Shape, TypeOK, Call, Reading
<1>2. Step(r, c) /\ UNCHANGED <<lines, writer, task, offset, told, cut, leapt, calls>>
    BY DEF ReadOffset
<1>3. to # "idle" /\ to # "line"
    BY DEF Reading
<1> HIDE DEF c
<1>4. Shape' /\ call'[r] = c /\ \A q \in Reader \ {r} : call'[q] = call[q]
    BY <1>0, <1>1, <1>2, <1>3, CallKept DEF Shape, TypeOK, CallInv
<1>5. \A i \in Offsets : i < offset[S] /\ ~leapt[S] => i \in Known(S)
    BY <1>0 DEF KnownInv, Upto
<1>6. KnownInv'
    BY <1>0, <1>1, <1>2, <1>4, <1>5, KnownKept
<1> QED
    BY <1>4, <1>6, InvPartsNext

LEMMA ReadTailInv ==
    ASSUME OutputInv, NEW r \in Reader, NEW from \in Reading, NEW to \in Reading, ReadTail(r, from, to),
           to \in {"finaltail", "finalset"} => Ended
    PROVE  OutputInv'
<1> DEFINE S == SessionOf[r]
           n == NextOffset(call[r].at)
           got == call[r].got \o TailFrom(call[r].at)
           c == [call[r] EXCEPT !.pc = to, !.got = got, !.at = n]
<1>0. Shape /\ KnownInv /\ S \in Session /\ call[r] \in Call /\ CallInv(r)
    BY InvParts, OutputAssumption DEF Shape, TypeOK
<1>1. /\ Len(lines) \in Nat /\ Len(lines) <= MaxLines /\ MaxLines \in Nat
      /\ call[r].at \in 0 .. MaxLines /\ Lines(call[r].got) \subseteq 0 .. Len(lines) - 1
    BY <1>0, OutputAssumption DEF Shape, TypeOK, Call
<1>a. /\ TailFrom(call[r].at) \in Seq(Offsets) /\ call[r].got \in Seq(Offsets)
      /\ Lines(TailFrom(call[r].at)) = call[r].at .. Len(lines) - 1
      /\ (TailFrom(call[r].at) = <<>>) <=> (Len(lines) <= call[r].at)
    BY <1>0, <1>1, TailLines DEF Shape, TypeOK, Call
<1>b. got \in Seq(Offsets) /\ Lines(got) = Lines(call[r].got) \cup (call[r].at .. Len(lines) - 1)
    BY <1>a, LinesCat
<1>2. Lines(got) \subseteq 0 .. Len(lines) - 1 /\ n \in 0 .. MaxLines
    BY <1>1, <1>a, <1>b DEF NextOffset, Offsets
<1>3. \A i \in Offsets : i < n => i < call[r].at \/ i \in Lines(got)
    BY <1>1, <1>a, <1>b DEF NextOffset, Offsets
<1>4. Step(r, c) /\ UNCHANGED <<lines, writer, task, offset, told, cut, leapt, calls>> /\ call[r].pc = from
    BY DEF ReadTail
<1> HIDE DEF n, got
<1>5. c \in Call /\ c.pc = to /\ c.at = n /\ c.got = got /\ c.queue = call[r].queue
      /\ c.snap = call[r].snap /\ c.sub = call[r].sub /\ c.out = call[r].out
    BY <1>0, <1>2, <1>b DEF Call, Reading
<1>6. to # "idle" /\ to # "line"
    BY DEF Reading
<1> HIDE DEF c
<1>7. Shape' /\ call'[r] = c /\ \A q \in Reader \ {r} : call'[q] = call[q]
    BY <1>0, <1>2, <1>4, <1>5, <1>6, CallKept DEF Shape, TypeOK, CallInv
<1>8. ~leapt[S] => \A i \in Offsets : (i < offset[S] \/ i < call[r].at) => i \in Known(S)
    BY <1>0, <1>4 DEF KnownInv, Upto
<1>9. Lines(call[r].got) \subseteq Lines(got)
    BY <1>b
<1>10. KnownInv'
    BY <1>0, <1>3, <1>4, <1>5, <1>7, <1>8, <1>9, KnownKept
<1> QED
    BY <1>7, <1>10, InvPartsNext

\* A call that returns, after it has set the offset no further than is known.
LEMMA ReturnInv ==
    ASSUME OutputInv, NEW r \in Reader, NEW out \in Results, Return(r, out),
           UNCHANGED <<lines, writer, task, calls>>, out = "exit" => Ended,
           offset' \in [Session -> 0 .. MaxLines], leapt' \in [Session -> BOOLEAN],
           \A s \in Session : leapt[s] => leapt'[s],
           \A s \in Session \ {SessionOf[r]} : offset'[s] = offset[s],
           ~leapt'[SessionOf[r]] =>
               \A i \in Offsets : i < offset'[SessionOf[r]] => i \in Known(SessionOf[r])
    PROVE  OutputInv'
<1> DEFINE S == SessionOf[r]
           kept == convertLines(call[r].got)
           rest == Lines(call[r].got) \ kept
<1>0. Shape /\ KnownInv /\ S \in Session /\ call[r] \in Call /\ told \in [Session -> SUBSET Offsets]
      /\ cut \in [Session -> SUBSET Offsets] /\ calls \in 0 .. MaxCalls
    BY InvParts, OutputAssumption DEF Shape, TypeOK
<1>1. /\ Step(r, Idle(out)) /\ told' = [told EXCEPT ![S] = @ \cup kept]
      /\ cut' = [cut EXCEPT ![S] = @ \cup rest]
    BY DEF Return
<1>2. Lines(call[r].got) \subseteq Offsets /\ kept \subseteq Lines(call[r].got)
    BY <1>0, LinesOf DEF Call, convertLines, Lines
<1> HIDE DEF kept
<1>3. /\ told' \in [Session -> SUBSET Offsets] /\ told'[S] = told[S] \cup kept
      /\ cut' \in [Session -> SUBSET Offsets] /\ cut'[S] = cut[S] \cup rest
      /\ \A s \in Session \ {S} : told'[s] = told[s] /\ cut'[s] = cut[s]
    BY <1>0, <1>1, <1>2
<1>a. told[S] \cup cut[S] \cup Lines(call[r].got) \subseteq told'[S] \cup cut'[S]
    BY <1>3
<1>4. Shape' /\ call'[r] = Idle(out) /\ \A q \in Reader \ {r} : call'[q] = call[q]
    BY <1>0, <1>1, <1>3, ReturnKept
<1>5. call'[r].pc \notin Reading
    BY <1>4 DEF Idle, Reading
<1>6. KnownInv'
    BY <1>0, <1>3, <1>4, <1>5, <1>a, KnownKept
<1> QED
    BY <1>4, <1>6, InvPartsNext

\* A call that moves on: it keeps its lines, its queue, its snapshot and its
\* channel, unless the channel is new, and reads no offset.
LEMMA MoveInv ==
    ASSUME OutputInv, NEW r \in Reader, NEW c \in Call, Step(r, c),
           UNCHANGED <<lines, writer, task, told, cut, calls>>,
           c.pc \notin Reading \cup {"idle", "line"}, c.got = call[r].got, c.queue = call[r].queue,
           c.snap = call[r].snap, c.out = call[r].out, c.sub \in {call[r].sub, "in"},
           offset' \in [Session -> 0 .. MaxLines], leapt' \in [Session -> BOOLEAN],
           \A s \in Session : leapt[s] => leapt'[s],
           \A s \in Session \ {SessionOf[r]} : offset'[s] = offset[s],
           ~leapt'[SessionOf[r]] =>
               \A i \in Offsets : i < offset'[SessionOf[r]] => i \in Known(SessionOf[r])
    PROVE  OutputInv'
<1>0. Shape /\ KnownInv /\ call[r] \in Call /\ CallInv(r) /\ Len(call[r].queue) <= Buffer
      /\ Lines(call[r].got) \subseteq 0 .. Len(lines) - 1 /\ told \in [Session -> SUBSET Offsets]
      /\ cut \in [Session -> SUBSET Offsets] /\ calls \in 0 .. MaxCalls
    BY InvParts DEF Shape, TypeOK
<1>1. c.pc \notin {"idle", "line", "finaltail", "finalset"}
    BY DEF Reading
<1>2. Shape' /\ call'[r] = c /\ \A q \in Reader \ {r} : call'[q] = call[q]
    BY <1>0, <1>1, CallKept DEF CallInv
<1>3. KnownInv'
    BY <1>0, <1>2, KnownKept
<1> QED
    BY <1>2, <1>3, InvPartsNext

\* The offset below which a call's session knows everything, before it is set.
LEMMA KnownBelow ==
    ASSUME OutputInv, NEW r \in Reader
    PROVE  /\ SessionOf[r] \in Session
           /\ offset[SessionOf[r]] \in 0 .. MaxLines
           /\ call[r].at \in 0 .. MaxLines
           /\ ~leapt[SessionOf[r]] =>
                 /\ \A i \in Offsets : i < offset[SessionOf[r]] => i \in Known(SessionOf[r])
                 /\ call[r].pc \in Reading =>
                       \A i \in Offsets : i < call[r].at => i \in Known(SessionOf[r])
<1>1. KnownInv /\ TypeOK /\ SessionOf[r] \in Session
    BY OutputAssumption DEF OutputInv
<1>2. call[r].at \in 0 .. MaxLines
    BY <1>1 DEF TypeOK, Call
<1> QED
    BY <1>1, <1>2 DEF KnownInv, Upto, TypeOK

\* What SetOffset does for the lemmas above.
LEMMA OffsetSet ==
    ASSUME OutputInv, NEW r \in Reader, NEW n \in 0 .. MaxLines, SetOffset(r, n)
    PROVE  /\ offset' \in [Session -> 0 .. MaxLines]
           /\ offset'[SessionOf[r]] = n
           /\ \A s \in Session \ {SessionOf[r]} : offset'[s] = offset[s]
BY KnownBelow DEF OutputInv, TypeOK, SetOffset

LEMMA StartInv ==
    ASSUME OutputInv, NEW r \in Reader, DrainStart(r) \/ WatchStart(r)
    PROVE  OutputInv'
<1>0. Shape /\ KnownInv /\ TypeOK /\ CallInv(r) /\ SessionOf[r] \in Session /\ call[r].got = <<>>
    BY InvParts, OutputAssumption DEF Shape, CallInv, DrainStart, WatchStart
<1>1. UNCHANGED <<lines, writer, task, offset, told, cut, leapt>> /\ calls' \in 0 .. MaxCalls
    <2>1. calls \in 0 .. MaxCalls /\ MaxCalls \in Nat
        BY <1>0, OutputAssumption DEF TypeOK
    <2>2. /\ UNCHANGED <<lines, writer, task, offset, told, cut, leapt>>
          /\ calls < MaxCalls /\ calls' = calls + 1
        BY DEF DrainStart, WatchStart
    <2> QED
        BY <2>1, <2>2
<1>2. PICK c \in Call : /\ Step(r, c)
                        /\ c.pc \in {"drain", "watch"} /\ c.got = <<>> /\ c.queue = <<>>
                        /\ c.sub = "no" /\ c.out = "none"
                        /\ c.snap => Ended
    <2>1. CASE DrainStart(r)
        <3> DEFINE d == [Idle("none") EXCEPT !.pc = "drain"]
        <3>1. d \in Call /\ d.pc = "drain" /\ d.got = <<>> /\ d.queue = <<>> /\ ~d.snap /\ d.sub = "no" /\ d.out = "none"
            BY IdleType DEF Idle, Call
        <3>2. Step(r, d)
            BY <2>1 DEF DrainStart
        <3> HIDE DEF d
        <3> QED
            BY <3>1, <3>2
    <2>2. CASE WatchStart(r)
        <3>1. PICK u \in Until[r] : Step(r, [Idle("none") EXCEPT !.pc = "watch", !.snap = Ended,
                                                              !.regex = u.regex, !.want = u.exit])
            BY <2>2 DEF WatchStart
        <3> DEFINE d == [Idle("none") EXCEPT !.pc = "watch", !.snap = Ended, !.regex = u.regex, !.want = u.exit]
        <3>2. u.regex \in BOOLEAN /\ u.exit \in BOOLEAN /\ Ended \in BOOLEAN
            BY OutputAssumption DEF Ended
        <3>3. d \in Call /\ d.pc = "watch" /\ d.got = <<>> /\ d.queue = <<>> /\ d.snap = Ended /\ d.sub = "no"
              /\ d.out = "none"
            BY IdleType, <3>2 DEF Idle, Call
        <3> HIDE DEF d
        <3> QED
            BY <3>1, <3>3 DEF d
    <2> QED
        BY <2>1, <2>2
<1>3. Len(c.queue) <= Buffer /\ \A k \in 1 .. Len(c.queue) : c.queue[k] < Len(lines)
    BY <1>2, OutputAssumption
<1>4. Shape' /\ call'[r] = c /\ \A q \in Reader \ {r} : call'[q] = call[q]
    BY <1>0, <1>1, <1>2, <1>3, CallKept DEF TypeOK
<1>5. KnownInv'
    BY <1>0, <1>1, <1>2, <1>4, KnownBelow, KnownKept DEF Reading
<1> QED
    BY <1>4, <1>5, InvPartsNext

\* DrainSet, FinalSet and WatchSet: the offset that was read is set.
LEMMA SetInv ==
    ASSUME OutputInv, NEW r \in Reader, DrainSet(r) \/ WatchSet(r) \/ FinalSet(r)
    PROVE  OutputInv'
<1>0. TypeOK /\ call[r] \in Call /\ CallInv(r) /\ leapt \in [Session -> BOOLEAN]
    BY InvParts DEF Shape, TypeOK
<1>1. call[r].pc \in Reading /\ SetOffset(r, call[r].at) /\ UNCHANGED <<lines, writer, task, leapt, calls>>
    BY DEF DrainSet, WatchSet, FinalSet, Reading
<1>2. /\ offset' \in [Session -> 0 .. MaxLines]
      /\ \A s \in Session \ {SessionOf[r]} : offset'[s] = offset[s]
      /\ ~leapt'[SessionOf[r]] => \A i \in Offsets : i < offset'[SessionOf[r]] => i \in Known(SessionOf[r])
    BY <1>1, KnownBelow, OffsetSet
<1>3. ASSUME NEW out \in Results, Return(r, out), out = "exit" => Ended PROVE OutputInv'
    BY <1>0, <1>1, <1>2, <1>3, ReturnInv
<1>4. EndResult(r) \in Results
    BY DEF EndResult, Results
<1>5. CASE DrainSet(r)
    <2>1. Return(r, "drained")
        BY <1>5 DEF DrainSet
    <2> QED
        BY <1>3, <2>1 DEF Results
<1>6. CASE FinalSet(r)
    <2>1. Return(r, EndResult(r)) /\ Ended
        BY <1>0, <1>6 DEF FinalSet, CallInv
    <2> QED
        BY <1>3, <1>4, <2>1
<1>7. CASE WatchSet(r)
    <2>1. CASE Return(r, "regex")
        BY <1>3, <2>1 DEF Results
    <2>2. CASE call[r].snap /\ Return(r, EndResult(r))
        BY <1>0, <1>3, <1>4, <2>2 DEF CallInv
    <2>3. CASE Step(r, [call[r] EXCEPT !.pc = "subscribe", !.at = 0]) /\ UNCHANGED <<told, cut>>
        <3> DEFINE c == [call[r] EXCEPT !.pc = "subscribe", !.at = 0]
        <3>1. c \in Call /\ c.pc = "subscribe" /\ c.got = call[r].got /\ c.queue = call[r].queue
              /\ c.snap = call[r].snap /\ c.out = call[r].out /\ c.sub = call[r].sub
            <4>1. 0 \in 0 .. MaxLines
                BY OutputAssumption
            <4> QED
                BY <1>0, <4>1 DEF Call
        <3>2. Step(r, c) /\ UNCHANGED <<told, cut>>
            BY <2>3
        <3> HIDE DEF c
        <3>3. c.pc \notin Reading \cup {"idle", "line"} /\ c.sub \in {call[r].sub, "in"}
            BY <3>1 DEF Reading
        <3> QED
            BY <1>0, <1>1, <1>2, <3>1, <3>2, <3>3, MoveInv
    <2> QED
        BY <1>7, <2>1, <2>2, <2>3 DEF WatchSet
<1> QED
    BY <1>5, <1>6, <1>7

\* Subscribe, the timer, a channel that joins the set: no offset moves.
LEMMA WaitInv ==
    ASSUME OutputInv, NEW r \in Reader, Subscribe(r) \/ AddChannel(r) \/ Timer(r)
    PROVE  OutputInv'
<1>0. call[r] \in Call /\ leapt \in [Session -> BOOLEAN] /\ offset \in [Session -> 0 .. MaxLines]
    BY DEF OutputInv, TypeOK
<1>1. UNCHANGED <<lines, writer, task, offset, leapt, calls>>
    BY DEF Subscribe, AddChannel, Timer
<1>2. ASSUME NEW out \in Results, Return(r, out), out = "exit" => Ended PROVE OutputInv'
    BY <1>0, <1>1, <1>2, KnownBelow, ReturnInv
<1>3. ASSUME NEW c \in Call, Step(r, c), UNCHANGED <<told, cut>>, c.pc \in {"add", "loop"}, c.got = call[r].got,
             c.queue = call[r].queue, c.snap = call[r].snap, c.out = call[r].out, c.sub \in {call[r].sub, "in"}
      PROVE  OutputInv'
    <2>1. c.pc \notin Reading \cup {"idle", "line"}
        BY <1>3 DEF Reading
    <2> QED
        BY <1>0, <1>1, <1>3, <2>1, KnownBelow, MoveInv
<1>4. CASE Subscribe(r)
    <2>1. CASE Ended /\ Return(r, "exit")
        BY <1>2, <2>1 DEF Results
    <2>2. CASE Step(r, [call[r] EXCEPT !.pc = "add"]) /\ UNCHANGED <<told, cut>>
        <3> DEFINE c == [call[r] EXCEPT !.pc = "add"]
        <3>1. c \in Call /\ c.pc = "add" /\ c.got = call[r].got /\ c.queue = call[r].queue
              /\ c.snap = call[r].snap /\ c.out = call[r].out /\ c.sub = call[r].sub
            BY <1>0 DEF Call
        <3>2. Step(r, c) /\ UNCHANGED <<told, cut>>
            BY <2>2
        <3> HIDE DEF c
        <3> QED
            BY <1>3, <3>1, <3>2
    <2> QED
        BY <1>4, <2>1, <2>2 DEF Subscribe
<1>5. CASE AddChannel(r)
    <2> DEFINE c == [call[r] EXCEPT !.pc = "loop", !.sub = "in"]
    <2>1. c \in Call /\ c.pc = "loop" /\ c.got = call[r].got /\ c.queue = call[r].queue
          /\ c.snap = call[r].snap /\ c.out = call[r].out /\ c.sub = "in"
        BY <1>0 DEF Call
    <2>2. Step(r, c) /\ UNCHANGED <<told, cut>>
        BY <1>5 DEF AddChannel
    <2> HIDE DEF c
    <2> QED
        BY <1>3, <2>1, <2>2
<1>6. CASE Timer(r)
    <2>1. Return(r, "timeout")
        BY <1>6 DEF Timer
    <2> QED
        BY <1>2, <2>1 DEF Results
<1> QED
    BY <1>4, <1>5, <1>6

\* A cancelled watch throws its lines away, and its session may lose them.
LEMMA CancelInv ==
    ASSUME OutputInv, NEW r \in Reader, Cancel(r)
    PROVE  OutputInv'
<1>0. Shape /\ KnownInv /\ TypeOK /\ SessionOf[r] \in Session
    BY InvParts, OutputAssumption DEF Shape
<1>1. /\ Step(r, Idle("cancelled")) /\ UNCHANGED <<lines, writer, task, offset, told, cut, calls>>
      /\ leapt' = [leapt EXCEPT ![SessionOf[r]] = TRUE]
    BY DEF Cancel
<1>2. /\ leapt' \in [Session -> BOOLEAN] /\ leapt'[SessionOf[r]]
      /\ \A s \in Session : leapt[s] => leapt'[s]
    BY <1>0, <1>1 DEF TypeOK
<1>3. Shape' /\ \A q \in Reader \ {r} : call'[q] = call[q]
    BY <1>0, <1>1, <1>2, ReturnKept DEF TypeOK, Results
<1>4. KnownInv'
    BY <1>0, <1>1, <1>2, <1>3, KnownKept
<1> QED
    BY <1>3, <1>4, InvPartsNext

\* A live line: it is one of the call's lines before the offset is set behind it.
LEMMA TakeInv ==
    ASSUME OutputInv, NEW r \in Reader, TakeLine(r)
    PROVE  OutputInv'
<1> DEFINE q == call[r].queue
           i == Head(q)
           got == Append(call[r].got, i)
           c == [call[r] EXCEPT !.pc = "line", !.queue = Tail(q), !.line = i, !.got = got]
<1>0. /\ Shape /\ KnownInv /\ TypeOK /\ SessionOf[r] \in Session /\ call[r] \in Call /\ CallInv(r)
      /\ Lines(call[r].got) \subseteq 0 .. Len(lines) - 1 /\ Len(q) <= Buffer
    BY InvParts, OutputAssumption DEF Shape, TypeOK
<1>1. Step(r, c) /\ UNCHANGED <<lines, writer, task, offset, told, cut, leapt, calls>>
    BY DEF TakeLine
<1>2. q \in Seq(Offsets) /\ q # <<>> /\ \A k \in 1 .. Len(q) : q[k] < Len(lines)
    BY <1>0 DEF TakeLine, Call, CallInv
<1>3. /\ i \in Offsets /\ i < Len(lines) /\ Tail(q) \in Seq(Offsets) /\ Len(Tail(q)) = Len(q) - 1
      /\ \A k \in 1 .. Len(Tail(q)) : Tail(q)[k] = q[k + 1]
    BY <1>2
<1>4. Len(Tail(q)) <= Buffer /\ \A k \in 1 .. Len(Tail(q)) : Tail(q)[k] < Len(lines)
    <2>1. Len(q) \in Nat /\ Buffer \in Nat
        BY <1>2, OutputAssumption
    <2> HIDE DEF q
    <2> QED
        BY <1>0, <1>2, <1>3, <2>1
<1>5. /\ got \in Seq(Offsets) /\ Lines(got) = Lines(call[r].got) \cup {i}
      /\ Lines(got) \subseteq 0 .. Len(lines) - 1
    <2>1. Len(lines) \in Nat /\ Offsets \subseteq Nat /\ call[r].got \in Seq(Offsets)
        BY <1>0, OutputAssumption DEF TypeOK, Offsets, Call
    <2> HIDE DEF i
    <2> QED
        BY <1>0, <1>3, <2>1, LinesAppend
<1> HIDE DEF q, i, got
<1>6. c \in Call /\ c.pc = "line" /\ c.got = got /\ c.queue = Tail(q) /\ c.line = i
      /\ c.snap = call[r].snap /\ c.sub = call[r].sub /\ c.out = call[r].out
    BY <1>0, <1>3, <1>5 DEF Call
<1> HIDE DEF c
<1>7. Shape' /\ call'[r] = c /\ \A p \in Reader \ {r} : call'[p] = call[p]
    BY <1>0, <1>1, <1>4, <1>5, <1>6, CallKept DEF TypeOK, CallInv
<1>8. KnownInv'
    BY <1>0, <1>1, <1>5, <1>6, <1>7, KnownBelow, KnownKept DEF Reading
<1> QED
    BY <1>7, <1>8, InvPartsNext

\* The offset is set behind the live line; what a line ahead of it skips is not known.
LEMMA SetLineInv ==
    ASSUME OutputInv, NEW r \in Reader, SetLine(r)
    PROVE  OutputInv'
<1> DEFINE S == SessionOf[r]
           i == call[r].line
<1>0. /\ TypeOK /\ S \in Session /\ call[r] \in Call /\ i \in Lines(call[r].got) /\ Lines(call[r].got) \subseteq Offsets
      /\ offset[S] \in 0 .. MaxLines /\ leapt \in [Session -> BOOLEAN] /\ MaxLines \in Nat
    BY InvParts, KnownBelow, LinesOf, OutputAssumption DEF Shape, TypeOK, CallInv, Call, SetLine
<1>1. i \in Offsets /\ i \in Int /\ i + 1 \in 0 .. MaxLines
    BY <1>0 DEF Offsets
<1>2. SetOffset(r, i + 1) /\ leapt' = [leapt EXCEPT ![S] = @ \/ i > offset[S]]
      /\ UNCHANGED <<lines, writer, task, calls>>
    BY DEF SetLine
<1>3. /\ offset' \in [Session -> 0 .. MaxLines] /\ offset'[S] = i + 1
      /\ \A s \in Session \ {S} : offset'[s] = offset[s]
    BY <1>1, <1>2, OffsetSet
<1>4. /\ leapt' \in [Session -> BOOLEAN] /\ \A s \in Session : leapt[s] => leapt'[s]
      /\ leapt'[S] = (leapt[S] \/ i > offset[S])
    BY <1>0, <1>2
<1>5. i \in Known(S)
    BY <1>0, <1>1 DEF Known
<1>6. ~leapt'[S] => \A j \in Offsets : j < offset'[S] => j \in Known(S)
    <2> SUFFICES ASSUME ~leapt'[S], NEW j \in Offsets, j < i + 1 PROVE j \in Known(S)
        BY <1>3
    <2>1. ~leapt[S] /\ i <= offset[S] /\ j \in Int /\ offset[S] \in Int
        BY <1>0, <1>1, <1>4 DEF Offsets
    <2>2. j < offset[S] \/ j = i
        BY <1>1, <2>1
    <2> QED
        BY <1>5, <2>1, <2>2, KnownBelow
<1>7. CASE Return(r, "regex")
    BY <1>2, <1>3, <1>4, <1>6, <1>7, ReturnInv DEF Results
<1>8. CASE Step(r, [call[r] EXCEPT !.pc = "loop", !.line = -1]) /\ UNCHANGED <<told, cut>>
    <2> DEFINE c == [call[r] EXCEPT !.pc = "loop", !.line = -1]
    <2>1. c \in Call /\ c.pc = "loop" /\ c.got = call[r].got /\ c.queue = call[r].queue
          /\ c.snap = call[r].snap /\ c.out = call[r].out /\ c.sub = call[r].sub
        BY <1>0 DEF Call
    <2>2. Step(r, c)
        BY <1>8
    <2> HIDE DEF c
    <2>3. c.pc \notin Reading \cup {"idle", "line"} /\ c.sub \in {call[r].sub, "in"}
        BY <2>1 DEF Reading
    <2> QED
        BY <1>2, <1>3, <1>4, <1>6, <1>8, <2>1, <2>2, <2>3, MoveInv
<1> QED
    BY <1>7, <1>8 DEF SetLine

-----------------------------------------------------------------------------
(* The theorems. *)

LEMMA OutputInvInit == Init => OutputInv
<1> SUFFICES ASSUME Init PROVE OutputInv
    OBVIOUS
<1> USE DEF Init
<1>1. Idle("none") \in Call /\ Idle("none").got = <<>> /\ Idle("none").queue = <<>> /\ Idle("none").pc = "idle"
      /\ Idle("none").snap = FALSE /\ Idle("none").sub = "no" /\ Idle("none").out = "none"
    BY IdleType DEF Idle
<1>2. TypeOK
    <2>1. lines \in Seq(BOOLEAN) /\ Len(lines) = 0
        OBVIOUS
    <2> QED
        BY <1>1, <2>1, LinesNone, OutputAssumption DEF TypeOK
<1>3. \A w \in Writer : writer[w] < Len(lines)
    <2>1. Len(lines) = 0
        OBVIOUS
    <2>2. \A w \in Writer : writer[w] = -1
        OBVIOUS
    <2> HIDE DEF Init
    <2>3. -1 < Len(lines)
        BY <2>1
    <2> QED
        BY <2>2, <2>3
<1>4. \A r \in Reader : CallInv(r)
    BY <1>1 DEF CallInv
<1>5. KnownInv
    BY <1>1, OutputAssumption DEF KnownInv, Upto, Reading, Offsets
<1> QED
    BY <1>2, <1>3, <1>4, <1>5, InvParts DEF Shape

LEMMA OutputInvStep ==
    ASSUME OutputInv, [Next]_vars
    PROVE  OutputInv'
<1>0. Shape /\ KnownInv
    BY InvParts
<1>1. CASE UNCHANGED vars
    BY <1>1 DEF vars, OutputInv, TypeOK, KnownInv, Upto, Known, Ended
<1>2. CASE (\E w \in Writer : AppendLine(w) \/ Broadcast(w)) \/ End
    BY <1>0, <1>2, TaskShape, TaskKnown, InvPartsNext
<1>3. ASSUME NEW r \in Reader, Drain(r) \/ Watch(r) PROVE OutputInv'
    <2>0. CallInv(r)
        BY <1>0 DEF Shape
    <2>1. CASE DrainStart(r) \/ WatchStart(r)
        BY <2>1, StartInv
    <2>2. CASE DrainGet(r)
        BY <2>2, ReadOffsetInv DEF DrainGet, Reading
    <2>3. CASE WatchGet(r)
        BY <2>3, ReadOffsetInv DEF WatchGet, Reading
    <2>4. CASE Closed(r)
        <3>1. Ended /\ ReadOffset(r, "loop", "finaltail")
            BY <2>0, <2>4 DEF Closed, CallInv
        <3> QED
            BY <3>1, ReadOffsetInv DEF Reading
    <2>5. CASE DrainTail(r)
        BY <2>5, ReadTailInv DEF DrainTail, Reading
    <2>6. CASE WatchTail(r)
        BY <2>6, ReadTailInv DEF WatchTail, Reading
    <2>7. CASE FinalTail(r)
        <3>1. Ended /\ ReadTail(r, "finaltail", "finalset")
            BY <2>0, <2>7 DEF FinalTail, ReadTail, CallInv
        <3> QED
            BY <3>1, ReadTailInv DEF Reading
    <2>8. CASE DrainSet(r) \/ WatchSet(r) \/ FinalSet(r)
        BY <2>8, SetInv
    <2>9. CASE Subscribe(r) \/ AddChannel(r) \/ Timer(r)
        BY <2>9, WaitInv
    <2>10. CASE Cancel(r)
        BY <2>10, CancelInv
    <2>11. CASE TakeLine(r)
        BY <2>11, TakeInv
    <2>12. CASE SetLine(r)
        BY <2>12, SetLineInv
    <2> QED
        BY <1>3, <2>1, <2>2, <2>3, <2>4, <2>5, <2>6, <2>7, <2>8, <2>9, <2>10, <2>11, <2>12 DEF Drain, Watch
<1> QED
    BY <1>1, <1>2, <1>3 DEF Next

\* OutputInv holds throughout: the three theorems below are parts of it.
THEOREM OutputInvariant == Spec => []OutputInv
<1>1. OutputInv /\ [Next]_vars => OutputInv'
    BY OutputInvStep
<1> QED
    BY OutputInvInit, <1>1, PTL DEF Spec

\* Types, for every number of writers, calls and sessions and every channel capacity:
\* a channel of subscriber.go never holds more than its capacity, and a monitor call
\* returns only lines AppendLine has numbered.
THEOREM OutputTypes == Spec => []TypeOK
<1>1. OutputInv => TypeOK
    BY DEF OutputInv
<1> QED
    BY OutputInvariant, <1>1, PTL

\* A watch of monitor/tool.go that answers "exit" is right, by whichever of its
\* three ways it learned that the task ended.
THEOREM OutputExitHonest == Spec => []ExitHonest
<1>1. OutputInv => ExitHonest
    BY DEF OutputInv, ExitHonest
<1> QED
    BY OutputInvariant, <1>1, PTL

\* A line below the offset of a session was returned by one of its calls, is held by one
\* of them, or was left out of an answer that said Truncated (tool.go:416-428), unless a
\* live line ran ahead of the offset or a watch was cancelled.
THEOREM OutputNoLoss == Spec => []LossNeedsLeap
<1>1. OutputInv => LossNeedsLeap
    BY DEF OutputInv, KnownInv, Upto, LossNeedsLeap, Lost
<1> QED
    BY OutputInvariant, <1>1, PTL
=============================================================================
