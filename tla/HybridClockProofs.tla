------------------------- MODULE HybridClockProofs -------------------------
(***************************************************************************)
(* Theorems about HybridClock, for every width of the counter and every    *)
(* set of wall-clock values.                                               *)
(***************************************************************************)
EXTENDS HybridClock, TLAPS

\* A bumped stamp is a stamp, and sorts after the one it was made from: an
\* overflow of the counter moves the wall part (bumpLocked).
LEMMA BumpLemma ==
    ASSUME NEW p \in Stamp
    PROVE  Bump(p) \in Stamp /\ After(Bump(p), p)
  BY ClockConstants DEF Bump, Stamp, After

\* The order of stamps is transitive and has no cycles.
LEMMA AfterOrder ==
    ASSUME NEW a \in Stamp, NEW b \in Stamp, NEW c \in Stamp
    PROVE  /\ After(a, b) => ~After(b, a)
           /\ After(a, b) /\ ~After(c, b) => ~After(c, a)
           /\ ~After(b, a) /\ ~After(c, b) => ~After(c, a)
  BY DEF Stamp, After

\* What is not after b is before whatever is after b.
LEMMA AfterTrans ==
    ASSUME NEW a \in Stamp, NEW b \in Stamp, NEW c \in Stamp, After(a, b), ~After(c, b)
    PROVE  After(a, c)
  BY DEF Stamp, After

\* A tick hands out a stamp after the clock, whatever the machine's clock says.
LEMMA TickedLemma ==
    ASSUME NEW p \in Stamp, now \in Nat
    PROVE  Ticked(p) \in Stamp /\ After(Ticked(p), p)
  <1>1. CASE now > p[1]
    BY <1>1, ClockConstants DEF Ticked, Stamp, After
  <1>2. CASE ~(now > p[1])
    BY <1>2, BumpLemma DEF Ticked
  <1>3. QED BY <1>1, <1>2

\* The receive rule moves the clock past itself and past the remote stamp.
LEMMA ObservedLemma ==
    ASSUME NEW p \in Stamp, NEW r \in Stamp, now \in Nat
    PROVE  /\ Observed(p, r) \in Stamp
           /\ After(Observed(p, r), p)
           /\ After(Observed(p, r), r)
  <1> DEFINE top == IF After(r, p) THEN r ELSE p
  <1>1. top \in Stamp /\ ~After(p, top) /\ ~After(r, top)
    BY DEF Stamp, After
  <1>2. Observed(p, r) = Ticked(top)
    BY DEF Observed, Ticked
  <1> HIDE DEF top
  <1>3. Ticked(top) \in Stamp /\ After(Ticked(top), top)
    BY <1>1, TickedLemma
  <1>4. QED
    BY <1>1, <1>2, <1>3, AfterTrans

-----------------------------------------------------------------------------
(* Type correctness.                                                       *)

\* What a tick or an observation of r leaves: the clock at p, the stamp k kept.
Moved(p, k) == up /\ Set(p) /\ Save(p) /\ Keep(k) /\ UNCHANGED <<up, now, lost>>

LEMMA TickMoves ==
    ASSUME TypeOK, Tick
    PROVE  \E p \in Stamp : Moved(p, p) /\ After(p, <<wall, counter>>)
  <1> DEFINE q == <<wall, counter>>
  <1>1. q \in Stamp
    BY DEF TypeOK, Stamp
  <1>2. Ticked(q) \in Stamp /\ After(Ticked(q), q)
    BY <1>1, TickedLemma DEF TypeOK
  <1>3. Moved(Ticked(q), Ticked(q))
    BY DEF Tick, Moved
  <1>4. QED
    BY <1>2, <1>3

LEMMA ObserveMoves ==
    ASSUME TypeOK, NEW r \in Wall \X (0 .. MaxCounter), Observe(r)
    PROVE  /\ r \in Stamp
           /\ \E p \in Stamp : /\ Moved(p, r)
                              /\ After(p, <<wall, counter>>) /\ After(p, r)
  <1> DEFINE q == <<wall, counter>>
  <1>1. q \in Stamp
    BY DEF TypeOK, Stamp
  <1>2. r \in Stamp
    BY ClockConstants DEF Stamp
  <1>3. Observed(q, r) \in Stamp /\ After(Observed(q, r), q) /\ After(Observed(q, r), r)
    BY <1>1, <1>2, ObservedLemma DEF TypeOK
  <1>4. Moved(Observed(q, r), r)
    BY DEF Observe, Moved
  <1>5. QED
    BY <1>2, <1>3, <1>4

LEMMA MovedType ==
    ASSUME TypeOK, NEW p \in Stamp, NEW k \in Stamp, Moved(p, k)
    PROVE  TypeOK'
  <1>1. wall' \in Nat /\ counter' \in 0 .. MaxCounter
    BY DEF Moved, Set, Stamp
  <1>2. stamps' \subseteq Stamp
    BY DEF Moved, Keep, TypeOK
  <1>3. /\ file' \in [st : {"missing", "bad", "ok"}, w : Nat, c : 0 .. MaxCounter]
        /\ saveErr' \in BOOLEAN /\ recovered' \in BOOLEAN
    <2>1. CASE /\ file' = [st |-> "ok", w |-> p[1], c |-> p[2]]
               /\ saveErr' = FALSE /\ recovered' = FALSE
      BY <2>1 DEF Stamp
    <2>2. CASE saveErr' = TRUE /\ UNCHANGED <<file, recovered>>
      BY <2>2 DEF TypeOK
    <2>3. QED
      BY <2>1, <2>2 DEF Moved, Save
  <1>4. up' \in BOOLEAN /\ lost' \in BOOLEAN /\ now' \in Nat
    BY DEF Moved, TypeOK
  <1>5. QED
    BY <1>1, <1>2, <1>3, <1>4 DEF TypeOK

LEMMA TypeStep ==
    ASSUME TypeOK, [Next]_vars
    PROVE  TypeOK'
  <1>1. CASE Tick
    BY <1>1, TickMoves, MovedType
  <1>2. ASSUME NEW r \in Wall \X (0 .. MaxCounter), Observe(r)
        PROVE  TypeOK'
    BY <1>2, ObserveMoves, MovedType
  <1>3. CASE Adjust
    BY <1>3, ClockConstants DEF Adjust, TypeOK
  <1>4. CASE Crash
    BY <1>4 DEF Crash, TypeOK
  <1>5. CASE Damage
    <2>1. /\ file' = Missing \/ file' = [st |-> "bad", w |-> 0, c |-> 0]
          /\ lost' = TRUE \/ lost' = lost
      BY <1>5 DEF Damage
    <2>2. file' \in [st : {"missing", "bad", "ok"}, w : Nat, c : 0 .. MaxCounter]
      BY <2>1, ClockConstants DEF Missing
    <2>3. lost' \in BOOLEAN
      BY <2>1, Zenon DEF TypeOK
    <2>4. QED
      BY <1>5, <2>2, <2>3, Zenon DEF Damage, TypeOK
  <1>6. CASE NewHLC
    BY <1>6 DEF NewHLC, Set, TypeOK
  <1>7. CASE RecoverHLC
    <2>0. PICK read \in SUBSET stamps : (\E f \in Floor(read) : Set(f)) /\ lost' = (lost \/ read # stamps)
      BY <1>7 DEF RecoverHLC
    <2>1. PICK f \in Floor(read) : Set(f)
      BY <2>0
    <2>2. f \in Stamp
      BY ClockConstants DEF Floor, Stamp, TypeOK
    <2>3. wall' \in Nat /\ counter' \in 0 .. MaxCounter
      BY <2>1, <2>2 DEF Set, Stamp
    <2>4. lost' \in BOOLEAN
      BY <2>0, Zenon
    <2>5. QED
      BY <1>7, <2>3, <2>4 DEF RecoverHLC, TypeOK
  <1>8. CASE UNCHANGED vars
    BY <1>8 DEF vars, TypeOK
  <1>9. QED
    BY <1>1, <1>2, <1>3, <1>4, <1>5, <1>6, <1>7, <1>8 DEF Next

LEMMA InitInv ==
    ASSUME Init
    PROVE  CoversInv
  <1>1. TypeOK
    <2>1. up \in BOOLEAN /\ saveErr \in BOOLEAN /\ recovered \in BOOLEAN /\ lost \in BOOLEAN
      BY Zenon DEF Init
    <2>2. wall \in Nat /\ counter \in 0 .. MaxCounter /\ now \in Nat
      BY ClockConstants DEF Init
    <2>3. file \in [st : {"missing", "bad", "ok"}, w : Nat, c : 0 .. MaxCounter]
      BY ClockConstants DEF Init, Missing
    <2>4. stamps \subseteq Stamp
      BY Zenon DEF Init
    <2>5. QED
      BY <2>1, <2>2, <2>3, <2>4 DEF TypeOK
  <1>2. stamps = {}
    BY DEF Init
  <1>3. QED
    BY <1>1, <1>2 DEF CoversInv, Covers

\* Every reachable state is well typed: however long the counter runs, it fits
\* the digits of its field (bumpLocked).
THEOREM ClockTypes == Spec => []TypeOK
  <1>1. Init => TypeOK
    BY InitInv DEF CoversInv
  <1>2. TypeOK /\ [Next]_vars => TypeOK'
    BY TypeStep
  <1>3. QED
    BY <1>1, <1>2, PTL DEF Spec

-----------------------------------------------------------------------------
(* The clock is past every stamp that is held.                             *)

LEMMA MovedCovers ==
    ASSUME CoversInv, NEW p \in Stamp, NEW k \in Stamp, Moved(p, k),
           After(p, <<wall, counter>>), ~After(k, p)
    PROVE  CoversInv'
  <1> DEFINE q == <<wall, counter>>
  <1>1. TypeOK' /\ TypeOK
    BY MovedType DEF CoversInv
  <1>2. q \in Stamp
    BY <1>1 DEF TypeOK, Stamp
  <1>3. up /\ up' = up /\ lost' = lost
    BY DEF Moved
  <1>4. p = <<wall', counter'>>
    BY DEF Moved, Set, Stamp
  <1>5. ASSUME ~lost, NEW s \in stamps'
        PROVE  ~After(s, p)
    <2>1. CASE s \in stamps
      <3>1. s \in Stamp /\ ~After(s, q)
        BY <1>1, <1>3, <1>5, <2>1 DEF CoversInv, Covers, Covered, TypeOK
      <3>2. QED
        BY <1>2, <3>1, AfterOrder
    <2>2. CASE s = k
      BY <2>2
    <2>3. QED
      BY <1>5, <2>1, <2>2 DEF Moved, Keep
  <1>6. Covers'
    BY <1>3, <1>4, <1>5 DEF Covers, Covered
  <1>7. ASSUME ~lost', ~saveErr' \/ ~up', NEW s \in stamps'
        PROVE  ~After(s, <<file.w, file.c>>')
    <2>1. file' = [st |-> "ok", w |-> p[1], c |-> p[2]]
      BY <1>3, <1>7 DEF Moved, Save
    <2>2. <<file.w, file.c>>' = p
      BY <2>1 DEF Stamp
    <2>3. QED
      BY <1>3, <1>5, <1>7, <2>2
  <1>8. QED
    BY <1>1, <1>6, <1>7 DEF CoversInv

LEMMA CoversStep ==
    ASSUME CoversInv, [Next]_vars
    PROVE  CoversInv'
  <1>1. TypeOK /\ TypeOK'
    BY TypeStep DEF CoversInv
  <1>2. CASE Tick
    <2>1. PICK p \in Stamp : Moved(p, p) /\ After(p, <<wall, counter>>)
      BY <1>1, <1>2, TickMoves
    <2>2. ~After(p, p)
      BY AfterOrder
    <2>3. QED
      BY <2>1, <2>2, MovedCovers
  <1>3. ASSUME NEW r \in Wall \X (0 .. MaxCounter), Observe(r)
        PROVE  CoversInv'
    <2>1. r \in Stamp
      BY <1>1, <1>3, ObserveMoves
    <2>2. PICK p \in Stamp : Moved(p, r) /\ After(p, <<wall, counter>>) /\ After(p, r)
      BY <1>1, <1>3, ObserveMoves
    <2>3. ~After(r, p)
      BY <2>1, <2>2, AfterOrder
    <2>4. QED
      BY <2>1, <2>2, <2>3, MovedCovers
  <1>4. CASE Adjust \/ UNCHANGED vars
    BY <1>1, <1>4 DEF Adjust, vars, CoversInv, Covers, Covered
  <1>5. CASE Crash
    BY <1>1, <1>5 DEF Crash, CoversInv, Covers, Covered, TypeOK
  <1>6. CASE Damage
    BY <1>1, <1>6 DEF Damage, Missing, CoversInv, Covers, Covered
  <1>7. CASE NewHLC
    <2>1. /\ wall' = file.w /\ counter' = file.c /\ file' = file
          /\ stamps' = stamps /\ lost' = lost /\ ~up /\ file.st # "bad"
      BY <1>7 DEF NewHLC, Set
    <2>2. ~lost => \A s \in stamps : ~After(s, <<file.w, file.c>>)
      BY <2>1 DEF CoversInv
    <2>3. QED
      BY <1>1, <2>1, <2>2 DEF CoversInv, Covers, Covered
  <1>8. CASE RecoverHLC
    <2>0. PICK read \in SUBSET stamps : (\E f \in Floor(read) : Set(f)) /\ lost' = (lost \/ read # stamps)
      BY <1>8 DEF RecoverHLC
    <2>1. PICK f \in Floor(read) : Set(f)
      BY <2>0
    <2>2. f \in Stamp
      BY <1>1, ClockConstants DEF Floor, Stamp, TypeOK
    <2>3. f = <<wall', counter'>>
      BY <2>1, <2>2 DEF Set, Stamp
    <2>4. stamps' = stamps /\ file' = file /\ file.st = "bad"
      BY <1>8 DEF RecoverHLC
    <2>5. ~lost' => read = stamps /\ ~lost
      BY <2>0
    <2>6. Covers'
      BY <2>1, <2>3, <2>4, <2>5 DEF Floor, Covers, Covered
    <2>7. QED
      BY <1>1, <2>4, <2>5, <2>6 DEF CoversInv
  <1>9. QED
    BY <1>2, <1>3, <1>4, <1>5, <1>6, <1>7, <1>8 DEF Next

\* The clock of a running process is past every stamp the store and the queued
\* forgets hold, through restarts and a rebuilt state file, unless a process died with
\* a clock it had failed to save, the file was deleted, or the clock was rebuilt from
\* a part of the stamps (NewHLC, RecoverHLC, saveLocked).
THEOREM ClockCovers == Spec => []Covers
  <1>1. Init => CoversInv
    BY InitInv
  <1>2. CoversInv /\ [Next]_vars => CoversInv'
    BY CoversStep
  <1>3. CoversInv => Covers
    BY DEF CoversInv
  <1>4. QED
    BY <1>1, <1>2, <1>3, PTL DEF Spec

-----------------------------------------------------------------------------
(* The clock goes forward.                                                 *)

LEMMA MovedForward ==
    ASSUME NEW p \in Stamp, NEW k \in Stamp, Moved(p, k),
           After(p, <<wall, counter>>), ~After(k, p)
    PROVE  /\ After(<<wall', counter'>>, <<wall, counter>>)
           /\ \A s \in stamps' \ stamps : ~After(s, <<wall', counter'>>)
  <1>1. p = <<wall', counter'>>
    BY DEF Moved, Set, Stamp
  <1>2. \A s \in stamps' \ stamps : s = k
    BY DEF Moved, Keep
  <1>3. QED
    BY <1>1, <1>2

\* A running clock never goes back, and what is stored is never after it, so
\* the next local edit sorts after all this device has seen (Tick, Observe).
THEOREM ClockForward == Spec => EditsWin
  <1> DEFINE Step == up /\ up' =>
          /\ <<wall', counter'>> = <<wall, counter>> \/ After(<<wall', counter'>>, <<wall, counter>>)
          /\ \A s \in stamps' \ stamps : ~After(s, <<wall', counter'>>)
  <1>1. ASSUME TypeOK, [Next]_vars
        PROVE  [Step]_vars
    <2>1. CASE Tick
      <3>1. PICK p \in Stamp : Moved(p, p) /\ After(p, <<wall, counter>>)
        BY <1>1, <2>1, TickMoves
      <3>2. ~After(p, p)
        BY AfterOrder
      <3>3. QED
        BY <3>1, <3>2, MovedForward
    <2>2. ASSUME NEW r \in Wall \X (0 .. MaxCounter), Observe(r)
          PROVE  Step
      <3>1. r \in Stamp
        BY <1>1, <2>2, ObserveMoves
      <3>2. PICK p \in Stamp : Moved(p, r) /\ After(p, <<wall, counter>>) /\ After(p, r)
        BY <1>1, <2>2, ObserveMoves
      <3>3. ~After(r, p)
        BY <3>1, <3>2, AfterOrder
      <3>4. QED
        BY <3>1, <3>2, <3>3, MovedForward
    <2>3. CASE Adjust \/ UNCHANGED vars
      BY <2>3 DEF Adjust, vars
    <2>4. CASE Crash \/ Damage \/ NewHLC \/ RecoverHLC
      BY <2>4 DEF Crash, Damage, NewHLC, RecoverHLC
    <2>5. QED
      BY <1>1, <2>1, <2>2, <2>3, <2>4 DEF Next
  <1>2. TypeOK /\ [Next]_vars => [Step]_vars
    BY <1>1
  <1>3. QED
    BY <1>2, ClockTypes, PTL DEF Spec, EditsWin
=============================================================================
