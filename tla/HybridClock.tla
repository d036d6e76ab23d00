---------------------------- MODULE HybridClock ----------------------------
(***************************************************************************)
(* The hybrid logical clock of a device (core/memory/hlc.go) and the way   *)
(* it is opened (openMemoryClock in core/rpc/api.go). It stamps every      *)
(* local edit of a memory; the merge keeps the edit with the larger stamp. *)
(*                                                                         *)
(* A stamp is written with fixed-width fields, so the order of the strings *)
(* is the order of the pairs <<wall, counter>> below; the node id, which   *)
(* only breaks ties between devices, is left out. The wall clock of the    *)
(* machine moves in any direction. A save of the state file may fail, the  *)
(* process may die, and the file may be unreadable, or gone, when it is    *)
(* next opened.                                                            *)
(***************************************************************************)
EXTENDS Integers

CONSTANTS
    MaxCounter,     \* HLCMaxCounter, the largest counter the format can carry
    Wall,           \* values the machine's clock and remote stamps take
    MaxWall         \* bound: the wall part at which the model stops ticking

ASSUME ClockConstants ==
    /\ MaxCounter \in Nat /\ MaxWall \in Nat
    /\ Wall \subseteq Nat

VARIABLES
    up,         \* the process runs
    wall,       \* h.wallMS
    counter,    \* h.counter
    saveErr,    \* h.saveErr # nil
    recovered,  \* h.recovered
    file,       \* memory_hlc.json: [st |-> "missing" | "bad" | "ok", w, c]
    now,        \* the machine's clock
    stamps,     \* stamps on rows of the store and on queued forgets
    lost        \* history: the process died with a clock it could not save, its file was
                \* deleted, or a rebuilt clock could not read every stamp

vars == <<up, wall, counter, saveErr, recovered, file, now, stamps, lost>>

Stamp == Nat \X (0 .. MaxCounter)

\* HLCAfter, on pairs.
After(a, b) == a[1] > b[1] \/ (a[1] = b[1] /\ a[2] > b[2])

Covered(s) == ~After(s, <<wall, counter>>)

Missing == [st |-> "missing", w |-> 0, c |-> 0]

Init ==
    /\ up = TRUE /\ wall = 0 /\ counter = 0
    /\ saveErr = FALSE /\ recovered = FALSE /\ lost = FALSE
    /\ file = Missing
    /\ now \in Wall
    /\ stamps = {}

-----------------------------------------------------------------------------

\* Mutant of Bump: the counter outgrows its field.
MutBumpWide(p) == <<p[1], p[2] + 1>>

\* bumpLocked: a counter that would outgrow its field moves the wall part.
Bump(p) == IF p[2] + 1 > MaxCounter THEN <<p[1] + 1, 0>> ELSE <<p[1], p[2] + 1>>

\* Mutant of Ticked: a machine clock that is not behind is taken as it is.
MutTickedNow(p) == IF now >= p[1] THEN <<now, 0>> ELSE Bump(p)

Ticked(p) == IF now > p[1] THEN <<now, 0>> ELSE Bump(p)

\* The receive rule: past the local clock, the remote stamp and the machine.
Observed(p, r) ==
    LET top == IF After(r, p) THEN r ELSE p
    IN  IF now > top[1] THEN <<now, 0>> ELSE Bump(top)

\* saveLocked: the file is replaced, or the failure is kept for HealthErr.
Save(p) ==
    \/ /\ file' = [st |-> "ok", w |-> p[1], c |-> p[2]]
       /\ saveErr' = FALSE /\ recovered' = FALSE
    \/ saveErr' = TRUE /\ UNCHANGED <<file, recovered>>

Set(p) == wall' = p[1] /\ counter' = p[2]

\* The store of the caller: a row keeps the new stamp instead of an older one,
\* and rows may go at any time.
Keep(s) == \E S \in SUBSET stamps : stamps' = S \cup {s}

\* Tick, for a local edit that is then stored.
Tick ==
    /\ up /\ wall < MaxWall
    /\ LET p == Ticked(<<wall, counter>>)
       IN  Set(p) /\ Save(p) /\ Keep(p)
    /\ UNCHANGED <<up, now, lost>>

\* Observe, for a pulled record that is then stored.
Observe(r) ==
    /\ up /\ wall < MaxWall
    /\ LET p == Observed(<<wall, counter>>, r)
       IN  Set(p) /\ Save(p)
    /\ Keep(r)
    /\ UNCHANGED <<up, now, lost>>

\* The machine's clock moves, in either direction.
Adjust == now' \in Wall /\ UNCHANGED <<up, wall, counter, saveErr, recovered, file, stamps, lost>>

Crash ==
    /\ up
    /\ up' = FALSE
    /\ lost' = (lost \/ saveErr)
    /\ UNCHANGED <<wall, counter, saveErr, recovered, file, now, stamps>>

\* The state file is damaged or deleted while nobody runs. External.
Damage ==
    /\ ~up /\ file.st = "ok"
    /\ \/ file' = [st |-> "bad", w |-> 0, c |-> 0] /\ UNCHANGED lost
       \/ file' = Missing /\ lost' = TRUE
    /\ UNCHANGED <<up, wall, counter, saveErr, recovered, now, stamps>>

\* openMemoryClock with a readable state file (or none: a fresh clock).
NewHLC ==
    /\ ~up /\ file.st # "bad"
    /\ Set(<<file.w, file.c>>)
    /\ up' = TRUE /\ saveErr' = FALSE /\ recovered' = FALSE
    /\ UNCHANGED <<file, now, stamps, lost>>

\* Mutant of Floor: a damaged file is taken for a fresh clock.
MutFloorZero(read) == {<<0, 0>>}

\* The largest of the stamps that were read, or the zero stamp.
Floor(read) == {f \in read \cup {<<0, 0>>} : \A s \in read : ~After(s, f)}

\* A store that cannot be listed, or an outbox that cannot be opened, gives no stamps.
RecoverHLC ==
    /\ ~up /\ file.st = "bad"
    /\ \E read \in SUBSET stamps :
          /\ \E f \in Floor(read) : Set(f)
          /\ lost' = (lost \/ read # stamps)
    /\ up' = TRUE /\ saveErr' = FALSE /\ recovered' = TRUE
    /\ UNCHANGED <<file, now, stamps>>

\* HealthErr: what the sync lane reports as degraded.
HealthErr == saveErr \/ recovered

Next ==
    \/ Tick \/ (\E r \in Wall \X (0 .. MaxCounter) : Observe(r))
    \/ Adjust \/ Crash \/ Damage \/ NewHLC \/ RecoverHLC

Spec == Init /\ [][Next]_vars

-----------------------------------------------------------------------------
(* Properties.                                                             *)

\* Every part has its type; the counter fits the six digits of its field
\* (bumpLocked, hlc.go:231-237).
TypeOK ==
    /\ up \in BOOLEAN /\ saveErr \in BOOLEAN /\ recovered \in BOOLEAN /\ lost \in BOOLEAN
    /\ wall \in Nat /\ counter \in 0 .. MaxCounter
    /\ file \in [st : {"missing", "bad", "ok"}, w : Nat, c : 0 .. MaxCounter]
    /\ now \in Nat
    /\ stamps \subseteq Stamp

\* hlc.go:107-131, 173-199, 274-287: the running clock is past every stamp the store
\* holds, its own and pulled ones, across restarts and a damaged file, unless a process
\* died with a clock state it had failed to save, the file was deleted, or the clock was
\* rebuilt without the stamps it could not read.
Covers == up /\ ~lost => \A s \in stamps : Covered(s)

\* While the process runs the clock only goes forward, whatever the machine's
\* clock does, and a pulled stamp that is stored is behind it: the next edit
\* wins over what was there (Tick, Observe).
EditsWin ==
    [][up /\ up' =>
          /\ <<wall', counter'>> = <<wall, counter>> \/ After(<<wall', counter'>>, <<wall, counter>>)
          /\ \A s \in stamps' \ stamps : ~After(s, <<wall', counter'>>)]_vars

\* The inductive form of Covers: while nothing was lost, a readable file says
\* what the clock says, or a save has failed and the process still runs.
CoversInv ==
    /\ TypeOK
    /\ Covers
    /\ ~lost /\ file.st # "bad" /\ (~saveErr \/ ~up) =>
          \A s \in stamps : ~After(s, <<file.w, file.c>>)

\* A clock that reports no fault is past every stamp the store holds.
HealthyCovers == up /\ ~HealthErr => \A s \in stamps : Covered(s)
=============================================================================
