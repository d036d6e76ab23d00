-------------------------- MODULE RunManagerProofs --------------------------
(***************************************************************************)
(* The run manager for every graph, any number of questions, legs and      *)
(* restarts: whatever verbs, timers and workers race, one of them at a     *)
(* time may move the run on.                                               *)
(***************************************************************************)
EXTENDS RunManager, FiniteSetTheorems, TLAPS

\* A verb that took the run out of its pause and has not started the next leg.
Turn(n) == call[n].pc \in {"inject", "spawn"}

\* The run is moved on by the worker of the latest leg, by one verb, or by nobody
\* because it is paused.
Baton ==
    /\ \A l \in Leg : Active(l) => l = leg /\ state # "paused" /\ \A n \in Decision : ~Turn(n)
    /\ \A n \in Decision : Turn(n) => state # "paused"
    /\ \A n, k \in Decision : Turn(n) /\ Turn(k) => n = k

\* A restart leaves nobody that could.
Restarted ==
    crashes # 0 =>
        /\ state \in {"abandoned", "gone"}
        /\ \A l \in Leg : worker[l].pc = "none"
        /\ \A n \in Decision : call[n].pc = "idle"

\* What a leg is parked on stays open until the leg has reported.
ParkedOpen ==
    \A l \in Leg :
        /\ Active(l) => \A n \in worker[l].park : answer[n] = "pending"
        /\ worker[l].pc = "paused" => worker[l].park # {} /\ (~LogFails => last = "paused")

\* A verdict is given to an open question, and what is recorded stays.
VerdictKept ==
    \A n \in Decision :
        /\ decided[n] \in {0, 1}
        /\ crashes = 0 =>
            /\ decided[n] # 0 => answer[n] \notin Open \/ call[n].pc = "inject"
            /\ call[n].pc = "inject" => answer[n] = "pending" /\ call[n].verdict \in Verdicts
            /\ call[n].pc \in {"spawn", "audit"} =>
                   answer[n] = call[n].verdict /\ call[n].verdict \in Verdicts
            /\ audited[n] # "none" => answer[n] = audited[n]

PauseLogged == state = "paused" /\ ~LogFails => last = "paused"

RunInv == TypeOK /\ Baton /\ Restarted /\ ParkedOpen /\ VerdictKept /\ PausedOnOne /\ PauseLogged

-----------------------------------------------------------------------------
(* The question that is surfaced.                                          *)

\* A nonempty set of numbers has a least one: the intervals below its members
\* are finite and ordered by inclusion.
LEMMA LeastExists ==
    ASSUME NEW S \in SUBSET Nat, S # {}
    PROVE  \E n \in S : \A m \in S : n <= m
  <1> DEFINE T == {1 .. n : n \in S}
             R == StrictSubsetOrdering(Nat)
  <1>1. T \subseteq FiniteSubsetsOf(Nat)
    <2>1. \A n \in S : IsFiniteSet(1 .. n) /\ 1 .. n \subseteq Nat
      BY FS_Interval
    <2> QED
      BY <2>1 DEF FiniteSubsetsOf
  <1>2. T # {}
    OBVIOUS
  <1>3. IsWellFoundedOn(R, FiniteSubsetsOf(Nat))
    BY FS_StrictSubsetOrderingWellFounded
  <1>4. \E x \in T : \A y \in T : ~(<<y, x>> \in R)
    <2> HIDE DEF T, R
    <2> QED
      BY <1>1, <1>2, <1>3, WFMin
  <1>5. PICK n \in S : \A y \in T : ~(<<y, 1 .. n>> \in R)
    BY <1>4
  <1>6. ASSUME NEW m \in S PROVE n <= m
    <2>1. SUFFICES ASSUME m < n PROVE FALSE
      OBVIOUS
    <2>2. 1 .. m \subseteq 1 .. n /\ n \in 1 .. n /\ n \notin 1 .. m
      BY <2>1
    <2>3. <<1 .. m, 1 .. n>> \in R
      <3>1. 1 .. m \in SUBSET Nat /\ 1 .. n \in SUBSET Nat
        OBVIOUS
      <3> QED
        BY <2>2, <3>1 DEF StrictSubsetOrdering
    <2> QED
      BY <1>5, <2>3
  <1> QED
    BY <1>6

LEMMA DecisionNode ==
    /\ Decision \subseteq Nat \ {None}
    /\ None \notin Approval /\ None \notin Ask
  BY RunAssumption DEF Decision

LEMMA LeastIn ==
    ASSUME NEW S \in SUBSET Decision, S # {}
    PROVE  Least(S) \in S
  <1>1. S \in SUBSET Nat
    BY DecisionNode
  <1>2. \E n \in S : \A m \in S : n <= m
    BY <1>1, LeastExists
  <1> QED
    BY <1>2 DEF Least

-----------------------------------------------------------------------------
(* Types.                                                                  *)

WorkerType ==
    [pc : {"none", "spawned", "run", "paused", "completed", "failed", "schedule", "install",
           "ended"},
     open : SUBSET Node, done : SUBSET Node, park : SUBSET Decision,
     node : Approval \cup {None}]

CallType == [pc : {"idle", "inject", "spawn", "audit"}, verdict : Verdicts \cup {"none"}]

LEMMA NoLegType ==
    /\ NoLeg \in WorkerType /\ NoLeg.pc = "none"
    /\ Spawned \in WorkerType /\ Spawned.pc = "spawned" /\ Spawned.park = {}
    /\ NoCall \in CallType /\ NoCall.pc = "idle"
    /\ [NoLeg EXCEPT !.pc = "ended"] \in WorkerType
    /\ [NoLeg EXCEPT !.pc = "schedule"] \in WorkerType
  BY DEF NoLeg, Spawned, NoCall, WorkerType, CallType

LEMMA RunInit == Init => RunInv
  <1> SUFFICES ASSUME Init PROVE RunInv
    OBVIOUS
  <1>0. 1 \in Leg
    BY RunAssumption DEF Leg
  <1> USE DEF Init
  <1>1. TypeOK
    <2>1. worker \in [Leg -> WorkerType]
      BY NoLegType
    <2>2. call \in [Decision -> CallType]
      BY NoLegType
    <2>3. crashes \in 0 .. MaxCrashes
      BY RunAssumption
    <2> QED
      BY <1>0, <2>1, <2>2, <2>3 DEF TypeOK, WorkerType, CallType, Open
  <1> USE <1>0 DEF None, Spawned, NoLeg, NoCall
  <1>2. Baton
    BY DEF Baton, Active, Turn
  <1>3. Restarted /\ ParkedOpen /\ VerdictKept /\ PausedOnOne /\ PauseLogged
    BY DEF Restarted, ParkedOpen, VerdictKept, PausedOnOne, PauseLogged, Active
  <1> QED
    BY <1>1, <1>2, <1>3 DEF RunInv

-----------------------------------------------------------------------------
(* The steps.                                                              *)

LEMMA EnterKept ==
    ASSUME RunInv, NEW l \in Leg, Enter(l)
    PROVE  RunInv'
  <1> USE DecisionNode, NoLegType DEF RunInv, entry, timers, trail
  <1> DEFINE w == [worker[l] EXCEPT !.pc = "run", !.open = Enabled({})]
  <1>1. TypeOK'
    <2>1. worker \in [Leg -> WorkerType]
      BY DEF TypeOK, WorkerType
    <2>2. w \in WorkerType
      BY <2>1 DEF TypeOK, WorkerType, Enter, Enabled
    <2>3. worker' = [worker EXCEPT ![l] = w]
      BY DEF Enter, Enabled
    <2>4. worker' \in [Leg -> WorkerType]
      <3> HIDE DEF w
      <3> QED
        BY <2>1, <2>2, <2>3
    <2> QED
      BY <2>4 DEF TypeOK, WorkerType, Enter, Enabled
  <1>2. Baton'
    BY DEF TypeOK, Baton, Active, Turn, Enter, Enabled
  <1>3. Restarted'
    BY DEF TypeOK, Baton, Restarted, Active, Enter, Enabled
  <1>4. ParkedOpen'
    BY DEF TypeOK, ParkedOpen, Baton, Active, Turn, Enter, Enabled
  <1>5. VerdictKept'
    BY DEF TypeOK, VerdictKept, Baton, Restarted, PausedOnOne, Active, Turn, Open, Verdicts,
           Enter, Enabled
  <1>6. PausedOnOne'
    BY DEF TypeOK, PausedOnOne, Baton, VerdictKept, Active, Turn, Enter, Enabled
  <1>7. PauseLogged'
    BY DEF TypeOK, PauseLogged, Baton, Active, Enter, Enabled
  <1> QED
    BY <1>1, <1>2, <1>3, <1>4, <1>5, <1>6, <1>7 DEF RunInv

LEMMA FireKept ==
    ASSUME RunInv, NEW l \in Leg, NEW n \in Node, Fire(l, n)
    PROVE  RunInv'
  <1> USE DecisionNode, NoLegType DEF RunInv, entry, timers, trail
  <1> DEFINE w == [worker[l] EXCEPT !.done = @ \cup {n},
                                    !.open = IF worker[l].park = {} THEN Enabled(worker[l].done \cup {n}) ELSE @]
  <1>1. TypeOK'
    <2>1. worker \in [Leg -> WorkerType]
      BY DEF TypeOK, WorkerType
    <2>2. w \in WorkerType
      BY <2>1 DEF TypeOK, WorkerType, Fire, Enabled
    <2>3. worker' = [worker EXCEPT ![l] = w]
      BY DEF Fire, Enabled
    <2>4. worker' \in [Leg -> WorkerType]
      <3> HIDE DEF w
      <3> QED
        BY <2>1, <2>2, <2>3
    <2> QED
      BY <2>4 DEF TypeOK, WorkerType, Fire, Enabled
  <1>2. Baton'
    BY DEF TypeOK, Baton, Active, Turn, Fire, Enabled
  <1>3. Restarted'
    BY DEF TypeOK, Baton, Restarted, Active, Fire, Enabled
  <1>4. ParkedOpen'
    BY DEF TypeOK, ParkedOpen, Baton, Active, Turn, Fire, Enabled
  <1>5. VerdictKept'
    BY DEF TypeOK, VerdictKept, Baton, Restarted, PausedOnOne, Active, Turn, Open, Verdicts, Fire,
           Enabled
  <1>6. PausedOnOne'
    BY DEF TypeOK, PausedOnOne, Baton, VerdictKept, Active, Turn, Fire, Enabled
  <1>7. PauseLogged'
    BY DEF TypeOK, PauseLogged, Baton, Active, Fire, Enabled
  <1> QED
    BY <1>1, <1>2, <1>3, <1>4, <1>5, <1>6, <1>7 DEF RunInv

LEMMA ParkKept ==
    ASSUME RunInv, NEW l \in Leg, NEW n \in Node, Park(l, n)
    PROVE  RunInv'
  <1> USE DecisionNode, NoLegType DEF RunInv, entry, timers, trail
  <1> DEFINE w == [worker[l] EXCEPT !.park = @ \cup {n}]
  <1>1. TypeOK'
    <2>1. worker \in [Leg -> WorkerType]
      BY DEF TypeOK, WorkerType
    <2>2. w \in WorkerType
      BY <2>1 DEF TypeOK, WorkerType, Park
    <2>3. worker' = [worker EXCEPT ![l] = w]
      BY DEF Park
    <2>4. worker' \in [Leg -> WorkerType]
      <3> HIDE DEF w
      <3> QED
        BY <2>1, <2>2, <2>3
    <2> QED
      BY <2>4 DEF TypeOK, WorkerType, Open, Park
  <1>2. Baton'
    BY DEF TypeOK, Baton, Active, Turn, Park
  <1>3. Restarted'
    BY DEF TypeOK, Baton, Restarted, Active, Park
  <1>4. ParkedOpen'
    BY DEF TypeOK, ParkedOpen, Baton, Active, Turn, Park
  <1>5. VerdictKept'
    BY DEF TypeOK, VerdictKept, Baton, Restarted, PausedOnOne, Active, Turn, Open, Verdicts, Park
  <1>6. PausedOnOne'
    BY DEF TypeOK, PausedOnOne, Baton, VerdictKept, Active, Turn, Park
  <1>7. PauseLogged'
    BY DEF TypeOK, PauseLogged, Baton, Active, Park
  <1> QED
    BY <1>1, <1>2, <1>3, <1>4, <1>5, <1>6, <1>7 DEF RunInv

LEMMA KernelReturnKept ==
    ASSUME RunInv, NEW l \in Leg, NEW result \in {"paused", "completed", "failed"},
        KernelReturn(l, result)
    PROVE  RunInv'
  <1> USE DecisionNode, NoLegType DEF RunInv, entry, timers, trail
  <1> DEFINE w == [worker[l] EXCEPT !.pc = result]
  <1>1. TypeOK'
    <2>1. worker \in [Leg -> WorkerType]
      BY DEF TypeOK, WorkerType
    <2>2. w \in WorkerType
      BY <2>1 DEF TypeOK, WorkerType, KernelReturn
    <2>3. worker' = [worker EXCEPT ![l] = w]
      BY DEF KernelReturn
    <2>4. worker' \in [Leg -> WorkerType]
      <3> HIDE DEF w
      <3> QED
        BY <2>1, <2>2, <2>3
    <2>5. last' \in {"none", "start", "event", "paused", "complete", "abandoned"}
      BY DEF TypeOK, KernelReturn
    <2> HIDE DEF w
    <2> QED
      BY <2>4, <2>5 DEF TypeOK, WorkerType, KernelReturn
  <1>2. Baton'
    BY DEF TypeOK, Baton, Active, Turn, KernelReturn
  <1>3. Restarted'
    BY DEF TypeOK, Baton, Restarted, Active, KernelReturn
  <1>4. ParkedOpen'
    BY DEF TypeOK, ParkedOpen, Baton, Active, Turn, KernelReturn
  <1>5. VerdictKept'
    BY DEF TypeOK, VerdictKept, Baton, Restarted, PausedOnOne, Active, Turn, Open, Verdicts,
           KernelReturn
  <1>6. PausedOnOne'
    BY DEF TypeOK, PausedOnOne, Baton, VerdictKept, Active, Turn, KernelReturn
  <1>7. PauseLogged'
    BY DEF TypeOK, PauseLogged, Baton, Active, KernelReturn
  <1> QED
    BY <1>1, <1>2, <1>3, <1>4, <1>5, <1>6, <1>7 DEF RunInv

LEMMA ReportKept ==
    ASSUME RunInv, NEW l \in Leg, Report(l)
    PROVE  RunInv'
  <1> USE DecisionNode, NoLegType DEF RunInv, entry, timers, trail
  <1>1. TypeOK'
    <2>1. worker' \in [Leg -> WorkerType]
      BY DEF TypeOK, WorkerType, Report
    <2>2. pendingAsk' \in Ask \cup {None} /\ pendingApproval' \in Approval \cup {None}
      <3> DEFINE S == {n \in Decision : answer[n] = "pending"}
      <3>1. Least(S) \in S \cup {None}
        BY LeastIn DEF Least
      <3>2. Least(S) \in Ask \cup Approval \cup {None}
        BY <3>1 DEF Decision
      <3> HIDE DEF S
      <3> QED
        BY <3>2 DEF TypeOK, Report, Snapshot, S
    <2> QED
      BY <2>1, <2>2 DEF TypeOK, WorkerType, Report
  <1>2. Baton'
    BY DEF TypeOK, Baton, Active, Turn, Report
  <1>3. Restarted'
    BY DEF TypeOK, Baton, Restarted, Active, Report
  <1>4. ParkedOpen'
    BY DEF TypeOK, ParkedOpen, Baton, Active, Turn, Report
  <1>5. VerdictKept'
    BY DEF TypeOK, VerdictKept, Baton, Restarted, PausedOnOne, Active, Turn, Open, Verdicts, Report
  <1>6. PausedOnOne'
    <2> DEFINE S == {n \in Decision : answer[n] = "pending"}
    <2>1. CASE worker[l].pc = "paused"
      <3>1. worker[l].park # {} /\ \A n \in worker[l].park : n \in S
        BY <2>1 DEF TypeOK, ParkedOpen, Active
      <3>2. Least(S) \in S
        BY <3>1, LeastIn
      <3>3. answer[Least(S)] = "pending" /\ Least(S) # None /\ Least(S) \in Ask \cup Approval
        BY <3>2 DEF Decision
      <3>4. /\ pendingApproval' = IF Least(S) \in Approval THEN Least(S) ELSE None
            /\ pendingAsk' = IF Least(S) \in Approval THEN None ELSE Least(S)
            /\ answer' = answer
        BY <2>1 DEF Report, Snapshot
      <3> HIDE DEF S
      <3> QED
        BY <3>3, <3>4 DEF PausedOnOne
    <2>2. CASE worker[l].pc # "paused"
      BY <2>2 DEF PausedOnOne, Report
    <2> QED
      BY <2>1, <2>2
  <1>7. PauseLogged'
    BY DEF TypeOK, PauseLogged, ParkedOpen, Report
  <1> QED
    BY <1>1, <1>2, <1>3, <1>4, <1>5, <1>6, <1>7 DEF RunInv

LEMMA ScheduleReadKept ==
    ASSUME RunInv, NEW l \in Leg, ScheduleRead(l)
    PROVE  RunInv'
  <1> USE DecisionNode, NoLegType DEF RunInv, entry, timers, trail
  <1> DEFINE w == [worker[l] EXCEPT !.pc = IF Arms(pendingApproval) THEN "install" ELSE "ended",
                                    !.node = IF Arms(pendingApproval) THEN pendingApproval
                                    ELSE None]
  <1>1. TypeOK'
    <2>1. worker \in [Leg -> WorkerType]
      BY DEF TypeOK, WorkerType
    <2>2. w \in WorkerType
      BY <2>1 DEF TypeOK, WorkerType, ScheduleRead, Arms
    <2>3. worker' = [worker EXCEPT ![l] = w]
      BY DEF ScheduleRead, Arms
    <2>4. worker' \in [Leg -> WorkerType]
      <3> HIDE DEF w
      <3> QED
        BY <2>1, <2>2, <2>3
    <2> QED
      BY <2>4 DEF TypeOK, WorkerType, ScheduleRead, Arms
  <1>2. Baton'
    BY DEF TypeOK, Baton, Active, Turn, ScheduleRead, Arms
  <1>3. Restarted'
    BY DEF TypeOK, Baton, Restarted, Active, ScheduleRead, Arms
  <1>4. ParkedOpen'
    BY DEF TypeOK, ParkedOpen, Baton, Active, Turn, ScheduleRead, Arms
  <1>5. VerdictKept'
    BY DEF TypeOK, VerdictKept, Baton, Restarted, PausedOnOne, Active, Turn, Open, Verdicts,
           ScheduleRead, Arms
  <1>6. PausedOnOne'
    BY DEF TypeOK, PausedOnOne, Baton, VerdictKept, Active, Turn, ScheduleRead, Arms
  <1>7. PauseLogged'
    BY DEF TypeOK, PauseLogged, Baton, Active, ScheduleRead, Arms
  <1> QED
    BY <1>1, <1>2, <1>3, <1>4, <1>5, <1>6, <1>7 DEF RunInv

LEMMA ScheduleInstallKept ==
    ASSUME RunInv, NEW l \in Leg, ScheduleInstall(l)
    PROVE  RunInv'
  <1> USE DecisionNode, NoLegType DEF RunInv, entry, timers, trail
  <1> DEFINE w == [worker[l] EXCEPT !.pc = "ended", !.node = None]
  <1>1. TypeOK'
    <2>1. worker \in [Leg -> WorkerType]
      BY DEF TypeOK, WorkerType
    <2>2. w \in WorkerType
      BY <2>1 DEF TypeOK, WorkerType, ScheduleInstall
    <2>3. worker' = [worker EXCEPT ![l] = w]
      BY DEF ScheduleInstall
    <2>4. worker' \in [Leg -> WorkerType]
      <3> HIDE DEF w
      <3> QED
        BY <2>1, <2>2, <2>3
    <2> QED
      BY <2>4 DEF TypeOK, WorkerType, ScheduleInstall
  <1>2. Baton'
    BY DEF TypeOK, Baton, Active, Turn, ScheduleInstall
  <1>3. Restarted'
    BY DEF TypeOK, Baton, Restarted, Active, ScheduleInstall
  <1>4. ParkedOpen'
    BY DEF TypeOK, ParkedOpen, Baton, Active, Turn, ScheduleInstall
  <1>5. VerdictKept'
    BY DEF TypeOK, VerdictKept, Baton, Restarted, PausedOnOne, Active, Turn, Open, Verdicts,
           ScheduleInstall
  <1>6. PausedOnOne'
    BY DEF TypeOK, PausedOnOne, Baton, VerdictKept, Active, Turn, ScheduleInstall
  <1>7. PauseLogged'
    BY DEF TypeOK, PauseLogged, Baton, Active, ScheduleInstall
  <1> QED
    BY <1>1, <1>2, <1>3, <1>4, <1>5, <1>6, <1>7 DEF RunInv

LEMMA ApplyKept ==
    ASSUME RunInv, NEW n \in Approval, NEW v \in Verdicts, Apply(n, v),
        callback' \in [Leg -> Approval \cup {None}]
    PROVE  RunInv'
  <1> USE DecisionNode, NoLegType DEF RunInv, entry, timers, trail
  <1> DEFINE c == [pc |-> "inject", verdict |-> v]
  <1>1. TypeOK'
    <2>1. call \in [Decision -> CallType]
      BY DEF TypeOK, CallType
    <2>2. c \in CallType
      BY <2>1 DEF CallType, Verdicts, Decision, Apply, Accepts, StopTimer
    <2>3. call' = [call EXCEPT ![n] = c]
      BY DEF Apply, Accepts, StopTimer
    <2>4. call' \in [Decision -> CallType]
      <3> HIDE DEF c
      <3> QED
        BY <2>1, <2>2, <2>3 DEF Decision
    <2> QED
      BY <2>4 DEF TypeOK, CallType, Verdicts, Decision, Apply, Accepts, StopTimer
  <1>2. Baton'
    BY DEF TypeOK, Baton, Active, Turn, Apply, Accepts, StopTimer
  <1>3. Restarted'
    BY DEF TypeOK, Baton, Restarted, Active, Apply, Accepts, StopTimer
  <1>4. ParkedOpen'
    BY DEF TypeOK, ParkedOpen, Baton, Active, Turn, Apply, Accepts, StopTimer
  <1>5. VerdictKept'
    BY DEF TypeOK, VerdictKept, Baton, Restarted, PausedOnOne, Active, Turn, Open, Verdicts,
           Apply, Accepts, StopTimer
  <1>6. PausedOnOne'
    BY DEF TypeOK, PausedOnOne, Baton, VerdictKept, Active, Turn, Apply, Accepts, StopTimer
  <1>7. PauseLogged'
    BY DEF TypeOK, PauseLogged, Baton, Active, Apply, Accepts, StopTimer
  <1> QED
    BY <1>1, <1>2, <1>3, <1>4, <1>5, <1>6, <1>7 DEF RunInv

LEMMA TimerFiresKept ==
    ASSUME RunInv, NEW l \in Leg, TimerFires(l)
    PROVE  RunInv'
  <1> USE DecisionNode, NoLegType DEF RunInv, entry, timers, trail
  <1>1. TypeOK'
    BY DEF TypeOK, WorkerType, CallType, TimerFires
  <1>2. Baton'
    BY DEF TypeOK, Baton, Active, Turn, TimerFires
  <1>3. Restarted'
    BY DEF TypeOK, Baton, Restarted, Active, TimerFires
  <1>4. ParkedOpen'
    BY DEF TypeOK, ParkedOpen, Baton, Active, Turn, TimerFires
  <1>5. VerdictKept'
    BY DEF TypeOK, VerdictKept, Baton, Restarted, PausedOnOne, Active, Turn, Open, Verdicts,
           TimerFires
  <1>6. PausedOnOne'
    BY DEF TypeOK, PausedOnOne, Baton, VerdictKept, Active, Turn, TimerFires
  <1>7. PauseLogged'
    BY DEF TypeOK, PauseLogged, Baton, Active, TimerFires
  <1> QED
    BY <1>1, <1>2, <1>3, <1>4, <1>5, <1>6, <1>7 DEF RunInv

LEMMA ResumeRunKept ==
    ASSUME RunInv, ResumeRun
    PROVE  RunInv'
  <1> USE DecisionNode, NoLegType DEF RunInv, entry, timers, trail
  <1> DEFINE c == [pc |-> "inject", verdict |-> "text"]
  <1>1. TypeOK'
    <2>1. call \in [Decision -> CallType]
      BY DEF TypeOK, CallType
    <2>2. c \in CallType
      BY <2>1 DEF CallType, Verdicts, Decision, ResumeRun
    <2>3. call' = [call EXCEPT ![pendingAsk] = c]
      BY DEF ResumeRun
    <2>4. call' \in [Decision -> CallType]
      <3> HIDE DEF c
      <3> QED
        BY <2>1, <2>2, <2>3 DEF Decision
    <2> QED
      BY <2>4 DEF TypeOK, CallType, Verdicts, Decision, ResumeRun
  <1>2. Baton'
    BY DEF TypeOK, Baton, Active, Turn, ResumeRun
  <1>3. Restarted'
    BY DEF TypeOK, Baton, Restarted, Active, ResumeRun
  <1>4. ParkedOpen'
    BY DEF TypeOK, ParkedOpen, Baton, Active, Turn, ResumeRun
  <1>5. VerdictKept'
    BY DEF TypeOK, VerdictKept, Baton, Restarted, PausedOnOne, Active, Turn, Open, Verdicts,
           ResumeRun
  <1>6. PausedOnOne'
    BY DEF TypeOK, PausedOnOne, Baton, VerdictKept, Active, Turn, ResumeRun
  <1>7. PauseLogged'
    BY DEF TypeOK, PauseLogged, Baton, Active, ResumeRun
  <1> QED
    BY <1>1, <1>2, <1>3, <1>4, <1>5, <1>6, <1>7 DEF RunInv

LEMMA InjectKept ==
    ASSUME RunInv, NEW n \in Decision, Inject(n)
    PROVE  RunInv'
  <1> USE DecisionNode, NoLegType DEF RunInv, entry, timers, trail
  <1> DEFINE c == IF answer[n] \in Open \/ n \in Ask THEN [call[n] EXCEPT !.pc = "spawn"]
                                                                          ELSE NoCall
  <1>1. TypeOK'
    <2>1. call \in [Decision -> CallType]
      BY DEF TypeOK, CallType
    <2>2. c \in CallType
      BY <2>1 DEF CallType, Verdicts, Decision, Inject
    <2>3. call' = [call EXCEPT ![n] = c]
      BY DEF Inject
    <2>4. call' \in [Decision -> CallType]
      <3> HIDE DEF c
      <3> QED
        BY <2>1, <2>2, <2>3 DEF Decision
    <2>5. answer' \in [Decision -> Open \cup Verdicts]
      BY DEF TypeOK, VerdictKept, Restarted, Inject
    <2> QED
      BY <2>4, <2>5 DEF TypeOK, CallType, Inject
  <1>2. Baton'
    BY DEF TypeOK, Baton, Active, Turn, Inject
  <1>3. Restarted'
    BY DEF TypeOK, Baton, Restarted, Active, Inject
  <1>4. ParkedOpen'
    BY DEF TypeOK, ParkedOpen, Baton, Active, Turn, Inject
  <1>5. VerdictKept'
    <2>1. crashes = 0 /\ answer[n] = "pending" /\ call[n].verdict \in Verdicts
      BY DEF TypeOK, VerdictKept, Restarted, Inject
    <2>2. /\ answer' = [answer EXCEPT ![n] = call[n].verdict]
          /\ call' = [call EXCEPT ![n].pc = "spawn"]
          /\ UNCHANGED <<crashes, decided, audited>>
      BY <2>1 DEF Inject, Open
    <2> QED
      BY <2>1, <2>2 DEF TypeOK, VerdictKept, Open, Verdicts
  <1>6. PausedOnOne'
    BY DEF TypeOK, PausedOnOne, Baton, VerdictKept, Active, Turn, Inject
  <1>7. PauseLogged'
    BY DEF TypeOK, PauseLogged, Baton, Active, Inject
  <1> QED
    BY <1>1, <1>2, <1>3, <1>4, <1>5, <1>6, <1>7 DEF RunInv

LEMMA SpawnKept ==
    ASSUME RunInv, NEW n \in Decision, Spawn(n)
    PROVE  RunInv'
  <1> USE DecisionNode, NoLegType DEF RunInv, entry, timers, trail
  <1> DEFINE c == IF n \in Approval THEN [call[n] EXCEPT !.pc = "audit"] ELSE NoCall
  <1>1. TypeOK'
    <2>1. call \in [Decision -> CallType]
      BY DEF TypeOK, CallType
    <2>2. c \in CallType
      BY <2>1 DEF CallType, Verdicts, Decision, Spawn
    <2>3. call' = [call EXCEPT ![n] = c]
      BY DEF Spawn
    <2>4. call' \in [Decision -> CallType]
      <3> HIDE DEF c
      <3> QED
        BY <2>1, <2>2, <2>3 DEF Decision
    <2>5. worker' \in [Leg -> WorkerType]
      BY DEF TypeOK, WorkerType, Spawn
    <2> QED
      BY <2>4, <2>5 DEF TypeOK, CallType, WorkerType, Spawn
  <1>2. Baton'
    BY DEF TypeOK, Baton, Active, Turn, Spawn
  <1>3. Restarted'
    BY DEF TypeOK, Baton, Restarted, Active, Spawn
  <1>4. ParkedOpen'
    BY DEF TypeOK, ParkedOpen, Baton, Active, Turn, Spawn
  <1>5. VerdictKept'
    BY DEF TypeOK, VerdictKept, Baton, Restarted, PausedOnOne, Active, Turn, Open, Verdicts, Spawn
  <1>6. PausedOnOne'
    BY DEF TypeOK, PausedOnOne, Baton, VerdictKept, Active, Turn, Spawn
  <1>7. PauseLogged'
    BY DEF TypeOK, PauseLogged, Baton, Active, Spawn
  <1> QED
    BY <1>1, <1>2, <1>3, <1>4, <1>5, <1>6, <1>7 DEF RunInv

LEMMA AuditKept ==
    ASSUME RunInv, NEW n \in Decision, Audit(n)
    PROVE  RunInv'
  <1> USE DecisionNode, NoLegType DEF RunInv, entry, timers, trail
  <1> DEFINE c == NoCall
  <1>1. TypeOK'
    <2>1. call \in [Decision -> CallType]
      BY DEF TypeOK, CallType
    <2>2. c \in CallType
      BY <2>1 DEF CallType, Verdicts, Decision, Audit
    <2>3. call' = [call EXCEPT ![n] = c]
      BY DEF Audit
    <2>4. call' \in [Decision -> CallType]
      <3> HIDE DEF c
      <3> QED
        BY <2>1, <2>2, <2>3 DEF Decision
    <2> QED
      BY <2>4 DEF TypeOK, CallType, Verdicts, Decision, Audit
  <1>2. Baton'
    BY DEF TypeOK, Baton, Active, Turn, Audit
  <1>3. Restarted'
    BY DEF TypeOK, Baton, Restarted, Active, Audit
  <1>4. ParkedOpen'
    BY DEF TypeOK, ParkedOpen, Baton, Active, Turn, Audit
  <1>5. VerdictKept'
    BY DEF TypeOK, VerdictKept, Baton, Restarted, PausedOnOne, Active, Turn, Open, Verdicts, Audit
  <1>6. PausedOnOne'
    BY DEF TypeOK, PausedOnOne, Baton, VerdictKept, Active, Turn, Audit
  <1>7. PauseLogged'
    BY DEF TypeOK, PauseLogged, Baton, Active, Audit
  <1> QED
    BY <1>1, <1>2, <1>3, <1>4, <1>5, <1>6, <1>7 DEF RunInv

LEMMA CancelRunKept ==
    ASSUME RunInv, CancelRun
    PROVE  RunInv'
  <1> USE DecisionNode, NoLegType DEF RunInv, entry, timers, trail
  <1>1. TypeOK'
    BY DEF TypeOK, WorkerType, CallType, CancelRun, StopTimer
  <1>2. Baton'
    BY DEF TypeOK, Baton, Active, Turn, CancelRun, StopTimer
  <1>3. Restarted'
    BY DEF TypeOK, Baton, Restarted, Active, CancelRun, StopTimer
  <1>4. ParkedOpen'
    BY DEF TypeOK, ParkedOpen, Baton, Active, Turn, CancelRun, StopTimer
  <1>5. VerdictKept'
    BY DEF TypeOK, VerdictKept, Baton, Restarted, PausedOnOne, Active, Turn, Open, Verdicts,
           CancelRun, StopTimer
  <1>6. PausedOnOne'
    BY DEF TypeOK, PausedOnOne, Baton, VerdictKept, Active, Turn, CancelRun, StopTimer
  <1>7. PauseLogged'
    BY DEF TypeOK, PauseLogged, Baton, Active, CancelRun, StopTimer
  <1> QED
    BY <1>1, <1>2, <1>3, <1>4, <1>5, <1>6, <1>7 DEF RunInv

LEMMA CrashKept ==
    ASSUME RunInv, Crash
    PROVE  RunInv'
  <1> USE DecisionNode, NoLegType DEF RunInv, entry, timers, trail
  <1>1. TypeOK'
    <2>1. worker' \in [Leg -> WorkerType] /\ call' \in [Decision -> CallType]
      BY DEF Crash
    <2>2. crashes' \in 0 .. MaxCrashes
      BY RunAssumption DEF TypeOK, Crash
    <2> QED
      BY <2>1, <2>2 DEF TypeOK, WorkerType, CallType, Open, Crash, Abandoned
  <1>2. Baton'
    BY DEF TypeOK, Baton, Active, Turn, Crash, Abandoned
  <1>3. Restarted'
    BY DEF TypeOK, Baton, Restarted, Active, Crash, Abandoned
  <1>4. ParkedOpen'
    BY DEF TypeOK, ParkedOpen, Baton, Active, Turn, Crash, Abandoned
  <1>5. VerdictKept'
    BY DEF TypeOK, VerdictKept, Baton, Restarted, PausedOnOne, Active, Turn, Open, Verdicts,
           Crash, Abandoned
  <1>6. PausedOnOne'
    BY DEF TypeOK, PausedOnOne, Baton, VerdictKept, Active, Turn, Crash, Abandoned
  <1>7. PauseLogged'
    BY DEF TypeOK, PauseLogged, Baton, Active, Crash, Abandoned
  <1> QED
    BY <1>1, <1>2, <1>3, <1>4, <1>5, <1>6, <1>7 DEF RunInv

LEMMA RunStep == RunInv /\ [Next]_vars => RunInv'
  <1> SUFFICES ASSUME RunInv, [Next]_vars PROVE RunInv'
    OBVIOUS
  <1>1. ASSUME NEW l \in Leg, Work(l) PROVE RunInv'
    BY <1>1, EnterKept, FireKept, ParkKept, KernelReturnKept, ReportKept, ScheduleReadKept,
       ScheduleInstallKept DEF Work
  <1>2. ASSUME NEW l \in Leg, TimeoutApproval(l) PROVE RunInv'
    <2>1. callback[l] \in Approval
      BY <1>2 DEF TimeoutApproval, RunInv, TypeOK
    <2>2. callback' \in [Leg -> Approval \cup {None}]
      BY <1>2 DEF TimeoutApproval, RunInv, TypeOK
    <2>3. CASE Apply(callback[l], TimedVerdict(callback[l]))
      <3>1. TimedVerdict(callback[l]) \in Verdicts
        BY DEF TimedVerdict, Verdicts
      <3> QED
        BY <2>1, <2>2, <2>3, <3>1, ApplyKept
    <2>4. CASE UNCHANGED <<entry, trail, approvalTimer, timer, leg, dead, worker, call, answer,
        last>>
      BY <2>2, <2>4 DEF RunInv, TypeOK, Baton, Restarted, ParkedOpen, VerdictKept, PausedOnOne,
                        PauseLogged, Active, Turn, entry, trail
    <2> QED
      BY <1>2, <2>3, <2>4 DEF TimeoutApproval
  <1>3. ASSUME NEW n \in Decision, Serve(n) PROVE RunInv'
    BY <1>3, InjectKept, SpawnKept, AuditKept DEF Serve
  <1>4. ASSUME NEW n \in Approval, NEW v \in {"approved", "rejected"}, ResolveApproval(n, v)
        PROVE  RunInv'
    <2>1. v \in Verdicts
      BY DEF Verdicts
    <2>2. callback' \in [Leg -> Approval \cup {None}]
      BY <1>4 DEF ResolveApproval, RunInv, TypeOK
    <2> QED
      BY <1>4, <2>1, <2>2, ApplyKept DEF ResolveApproval
  <1>5. CASE UNCHANGED vars
    BY <1>5 DEF RunInv, TypeOK, Baton, Restarted, ParkedOpen, VerdictKept, PausedOnOne,
                PauseLogged, Active, Turn, vars, entry, timers, trail
  <1> QED
    BY <1>1, <1>2, <1>3, <1>4, <1>5, TimerFiresKept, ResumeRunKept, CancelRunKept, CrashKept
       DEF Next, Timed, User

-----------------------------------------------------------------------------
(* Results.                                                                *)

\* Entry, workers, timers and registry keep their types: an approval is never
\* surfaced as an ask, and no timer is set for anything but an approval.
THEOREM RunTypes == Spec => []TypeOK
  <1>1. RunInv => TypeOK
    BY DEF RunInv
  <1> QED
    BY <1>1, RunInit, RunStep, PTL DEF Spec

\* manager.go:933-974, 1082-1130: two legs of a run never execute at the same time,
\* because a leg is started only by the one verb that took the run out of a pause.
THEOREM RunOneLeg == Spec => []OneLeg
  <1>1. RunInv => OneLeg
    BY DEF RunInv, Baton, OneLeg
  <1> QED
    BY <1>1, RunInit, RunStep, PTL DEF Spec

\* manager.go:1064-1074, 1158-1166: a question is decided once, whether by a human
\* or by a timer, and the audit trail carries the verdict the executor acts on.
THEOREM RunOneVerdict == Spec => []OneVerdict
  <1>1. RunInv => OneVerdict
    BY DEF RunInv, VerdictKept, OneVerdict
  <1> QED
    BY <1>1, RunInit, RunStep, PTL DEF Spec

\* manager.go:195-201: a paused run waits for exactly one question, which is still
\* open in the registry.
THEOREM RunPausedOnOne == Spec => []PausedOnOne
  <1>1. RunInv => PausedOnOne
    BY DEF RunInv
  <1> QED
    BY <1>1, RunInit, RunStep, PTL DEF Spec

\* manager.go:276-289: a run that was paused when the process died is reported as
\* abandoned after the restart, if the log takes the events of pauses.
THEOREM RunRestartTells == ~LogFails /\ Spec => RestartTells
  <1> SUFFICES ASSUME ~LogFails PROVE Spec => RestartTells
    OBVIOUS
  <1>1. ASSUME RunInv, [Next]_vars, crashes' # crashes, state = "paused"
        PROVE  Status' = "abandoned"
    <2>1. Crash
      BY <1>1 DEF Next, Work, Timed, Serve, User, Enter, Fire, Park, KernelReturn, Report,
                  ScheduleRead, ScheduleInstall, TimerFires, TimeoutApproval, Apply, Inject, Spawn,
                  Audit, ResolveApproval, ResumeRun, CancelRun, vars, trail
    <2>2. last = "paused"
      BY <1>1 DEF RunInv, PauseLogged
    <2>3. state' = "abandoned"
      BY <2>1, <2>2 DEF Crash, Abandoned
    <2> QED
      BY <2>3 DEF Status
  <1>2. RunInv /\ [Next]_vars => [crashes' # crashes /\ state = "paused" => Status' = "abandoned"]_vars
    BY <1>1
  <1> QED
    BY <1>2, RunInit, RunStep, PTL DEF Spec, RestartTells

=============================================================================
