----------------------------- MODULE RunManager -----------------------------
(***************************************************************************)
(* One graph run as core/rpc/views/agentgraph/manager.go drives it: the    *)
(* runEntry, the worker goroutine of each leg (runWorker for the first,    *)
(* resumeWorker after each pause), the question registry the ask and       *)
(* approval executors park on, the RPC verbs of the user, the approval     *)
(* timers and a restart of the process.                                    *)
(*                                                                         *)
(* A leg of the kernel is abstracted to what the manager can see of it:    *)
(* nodes fire along the edges, a question without an answer parks the leg, *)
(* and a leg returns completed, paused or failed (AgentKernel has the      *)
(* scheduler itself).  Runs share nothing but the registry, whose keys     *)
(* carry the run id, so one run stands for all.                            *)
(***************************************************************************)
EXTENDS Integers, FiniteSets

CONSTANTS
    Node,         \* the nodes of the graph; their ids are ordered
    Ask,          \* the ask nodes
    Approval,     \* the approval nodes
    Edge,         \* pairs <<from, to>>; an approval's edges leave its "approved" port
    AutoWindow,   \* approvals with auto_approve_window_seconds > 0
    Timeout,      \* approvalTimeout > 0
    Failing,      \* whether executors may fail
    LogFails,     \* whether the log may refuse the event of a pause
    MaxLegs,      \* bound: the legs of a run
    MaxCrashes    \* bound: restarts of the process

Decision == Ask \cup Approval
Leg == 1..MaxLegs

\* No node and no leg: both are counted from 1.
None == 0

ASSUME RunAssumption ==
    /\ IsFiniteSet(Node) /\ Node \subseteq Nat \ {None}
    /\ Ask \subseteq Node /\ Approval \subseteq Node /\ Ask \cap Approval = {}
    /\ Edge \subseteq Node \X Node
    /\ AutoWindow \subseteq Approval
    /\ Timeout \in BOOLEAN /\ Failing \in BOOLEAN /\ LogFails \in BOOLEAN
    /\ MaxCrashes \in Nat
    /\ MaxLegs \in Nat \ {0}

VARIABLES
    \* the runEntry
    state, pendingAsk, pendingApproval, approvalTimer,
    leg,          \* the leg entry.cancel belongs to
    dead,         \* legs whose context is cancelled
    worker,       \* Leg -> its worker goroutine
    timer,        \* Leg -> the approval a live timer armed by that worker is for
    callback,     \* Leg -> the approval whose fired timer is about to be applied
    call,         \* Decision -> the verb applying an answer to it
    answer,       \* the registry: "none", "pending" or the answer
    last,         \* the last event of the run in the durable log
    crashes,
    cancelled,    \* history: CancelRun stopped a live run
    decided,      \* history: how many verdicts were accepted for a node
    audited       \* the audit record of a node's verdict

entry == <<state, pendingAsk, pendingApproval>>
timers == <<approvalTimer, timer, callback>>
trail == <<crashes, cancelled, decided, audited>>
vars == <<entry, timers, trail, leg, dead, worker, call, answer, last>>

Verdicts == {"approved", "rejected", "autoApproved", "autoRejected", "text"}
Open == {"none", "pending"}
NoLeg == [pc |-> "none", open |-> {}, done |-> {}, park |-> {}, node |-> None]
NoCall == [pc |-> "idle", verdict |-> "none"]

Spawned == [NoLeg EXCEPT !.pc = "spawned"]

\* Nodes whose in-edges have all reported in: an approval is no EdgeRouter, so
\* its verdict does not matter here.
Enabled(done) == {n \in Node : \A p \in Node : <<p, n>> \in Edge => p \in done}

\* snapshotDecision: the pending question with the least node id.
Least(S) == IF S = {} THEN None ELSE CHOOSE n \in S : \A m \in S : n <= m

\* The verdict the timer of an approval carries.
TimedVerdict(n) == IF n \in AutoWindow THEN "autoApproved" ELSE "autoRejected"

Init ==
    /\ state = "running" /\ pendingAsk = None /\ pendingApproval = None
    /\ approvalTimer = None
    /\ leg = 1
    /\ dead = {}
    /\ worker = [l \in Leg |-> IF l = 1 THEN Spawned ELSE NoLeg]
    /\ timer = [l \in Leg |-> None]
    /\ callback = [l \in Leg |-> None]
    /\ call = [n \in Decision |-> NoCall]
    /\ answer = [n \in Decision |-> "none"]
    /\ last = "none"
    /\ crashes = 0
    /\ cancelled = FALSE
    /\ decided = [n \in Decision |-> 0]
    /\ audited = [n \in Decision |-> "none"]
-----------------------------------------------------------------------------
(* The worker goroutine of a leg: Kernel.Run or Kernel.Resume ... *)

Enter(l) ==
    /\ worker[l].pc = "spawned"
    /\ worker' = [worker EXCEPT ![l].pc = "run", ![l].open = Enabled({})]
    /\ last' = "start"
    /\ UNCHANGED <<entry, timers, trail, leg, dead, call, answer>>

\* A node completes; a decision only when its answer is recorded.  Once the leg
\* is pausing nothing new is dispatched.
Fire(l, n) ==
    LET w == worker[l] IN
    /\ w.pc = "run"
    /\ n \in w.open \ (w.done \cup w.park)
    /\ n \in Decision => answer[n] \notin Open
    /\ worker' = [worker EXCEPT ![l].done = @ \cup {n},
                      ![l].open = IF w.park = {} THEN Enabled(w.done \cup {n}) ELSE @]
    /\ last' = "event"
    /\ UNCHANGED <<entry, timers, trail, leg, dead, call, answer>>

\* A question without an answer is registered, once, and parks the leg.
Park(l, n) ==
    LET w == worker[l] IN
    /\ w.pc = "run"
    /\ n \in w.open \ (w.done \cup w.park)
    /\ n \in Decision /\ answer[n] \in Open
    /\ answer' = [answer EXCEPT ![n] = "pending"]
    /\ worker' = [worker EXCEPT ![l].park = @ \cup {n}]
    /\ last' = "event"
    /\ UNCHANGED <<entry, timers, trail, leg, dead, call>>

\* The kernel returns: ErrPaused, nil, or an error (of an executor, or because
\* the context was cancelled). It pauses even if the pause cannot be logged.
KernelReturn(l, result) ==
    LET w == worker[l] IN
    /\ w.pc = "run"
    /\ \/ result = "paused" /\ w.park # {} /\ last' \in {"paused"} \cup (IF LogFails THEN {last} ELSE {})
       \/ result = "completed" /\ w.park = {} /\ w.open \subseteq w.done /\ last' = "complete"
       \/ result = "failed" /\ (Failing \/ l \in dead) /\ last' = "event"
    /\ worker' = [worker EXCEPT ![l].pc = result]
    /\ UNCHANGED <<entry, timers, trail, leg, dead, call, answer>>

(* ... and what runWorker and resumeWorker do with the result. *)

\* Mutant of Snapshot: every pending question is surfaced, an approval first.
MutSnapshotBoth(S) ==
    /\ pendingApproval' = Least(S \cap Approval)
    /\ pendingAsk' = Least(S \cap Ask)

\* snapshotDecision: the one question that is surfaced, by the kind of its node.
Snapshot(S) ==
    /\ pendingApproval' = IF Least(S) \in Approval THEN Least(S) ELSE None
    /\ pendingAsk' = IF Least(S) \in Approval THEN None ELSE Least(S)

\* The entry takes the result, whatever its state has become meanwhile.
Report(l) ==
    LET result == worker[l].pc
        pending == {n \in Decision : answer[n] = "pending"} IN
    /\ result \in {"paused", "completed", "failed"}
    /\ state' = result
    /\ IF result = "paused" THEN Snapshot(pending) ELSE UNCHANGED <<pendingAsk, pendingApproval>>
    /\ worker' = [worker EXCEPT ![l] = [NoLeg EXCEPT !.pc =
                      IF result = "paused" /\ pendingApproval' # None THEN "schedule" ELSE "ended"]]
    /\ dead' = dead \ {l}
    /\ UNCHANGED <<timers, trail, leg, call, answer, last>>

\* Mutant of Arms: only a node with a window of its own gets a timer.
MutArmsWindowOnly(n) == n \in AutoWindow

\* The approval has a deadline: its own window, or the fallback.
Arms(n) == n \in AutoWindow \/ (n # None /\ Timeout)

\* scheduleApprovalTimeout reads the approval that is pending by now and starts
\* the timer ...
ScheduleRead(l) ==
    LET n == pendingApproval
        arms == Arms(n) IN
    /\ worker[l].pc = "schedule"
    /\ timer' = IF arms THEN [timer EXCEPT ![l] = n] ELSE timer
    /\ worker' = [worker EXCEPT ![l].pc = IF arms THEN "install" ELSE "ended",
                                  ![l].node = IF arms THEN n ELSE None]
    /\ UNCHANGED <<entry, trail, approvalTimer, callback, leg, dead, call, answer, last>>

\* ... and installs it when that approval is still pending, else stops it.
ScheduleInstall(l) ==
    LET same == pendingApproval = worker[l].node IN
    /\ worker[l].pc = "install"
    /\ approvalTimer' = IF same THEN l ELSE approvalTimer
    /\ timer' = IF same THEN timer ELSE [timer EXCEPT ![l] = None]
    /\ worker' = [worker EXCEPT ![l].pc = "ended", ![l].node = None]
    /\ UNCHANGED <<entry, trail, callback, leg, dead, call, answer, last>>
-----------------------------------------------------------------------------
(* Answers: Graph_Resume, Graph_ResolveApproval and the timers. *)

StopTimer ==
    /\ approvalTimer' = None
    /\ timer' = IF approvalTimer = None THEN timer ELSE [timer EXCEPT ![approvalTimer] = None]

\* Mutant of Accepts: a paused run accepts a verdict for whatever is pending.
MutAcceptsAny(n) == state = "paused" /\ pendingAsk = None /\ pendingApproval # None

\* applyApprovalVerdict's checks: the run is paused on this approval.
Accepts(n) == state = "paused" /\ pendingAsk = None /\ pendingApproval = n

\* The locked half of applyApprovalVerdict.
Apply(n, v) ==
    /\ Accepts(n)
    /\ state' = "running"
    /\ pendingApproval' = None
    /\ call' = [call EXCEPT ![n] = [pc |-> "inject", verdict |-> v]]
    /\ decided' = [decided EXCEPT ![n] = @ + 1]
    /\ StopTimer
    /\ UNCHANGED <<pendingAsk, leg, dead, worker, answer, last, crashes, cancelled, audited>>

ResolveApproval(n, v) == Apply(n, v) /\ UNCHANGED callback

\* A timer goes off; its callback is a goroutine of its own.
TimerFires(l) ==
    /\ timer[l] # None
    /\ callback[l] = None
    /\ timer' = [timer EXCEPT ![l] = None]
    /\ callback' = [callback EXCEPT ![l] = timer[l]]
    /\ UNCHANGED <<entry, trail, approvalTimer, leg, dead, worker, call, answer, last>>

\* timeoutApproval: the verdict of the timer, unless the run moved on.
TimeoutApproval(l) ==
    /\ callback[l] # None
    /\ callback' = [callback EXCEPT ![l] = None]
    /\ \/ Apply(callback[l], TimedVerdict(callback[l]))
       \/ /\ ~Accepts(callback[l])
          /\ UNCHANGED <<entry, trail, approvalTimer, timer, leg, dead, worker, call, answer, last>>

\* Mutant of ResumeRun: the run is not flipped back to running.
MutResumeRunUnflipped ==
    /\ state = "paused" /\ pendingApproval = None /\ pendingAsk # None
    /\ call' = [call EXCEPT ![pendingAsk] = [pc |-> "inject", verdict |-> "text"]]
    /\ UNCHANGED <<entry, timers, trail, leg, dead, worker, answer, last>>

\* resumeRun: the answer to the pending ask.
ResumeRun ==
    /\ state = "paused" /\ pendingApproval = None /\ pendingAsk # None
    /\ state' = "running"
    /\ pendingAsk' = None
    /\ call' = [call EXCEPT ![pendingAsk] = [pc |-> "inject", verdict |-> "text"]]
    /\ decided' = [decided EXCEPT ![pendingAsk] = @ + 1]
    /\ UNCHANGED <<pendingApproval, timers, leg, dead, worker, answer, last, crashes, cancelled, audited>>

\* Registry.Resolve: refused when the question is no longer open, which ends an
\* approval's call and is ignored for an ask.
Inject(n) ==
    /\ call[n].pc = "inject"
    /\ answer' = IF answer[n] \in Open THEN [answer EXCEPT ![n] = call[n].verdict] ELSE answer
    /\ call' = [call EXCEPT ![n] =
                    IF answer[n] \in Open \/ n \in Ask THEN [@ EXCEPT !.pc = "spawn"] ELSE NoCall]
    /\ UNCHANGED <<entry, timers, trail, leg, dead, worker, last>>

\* Mutant of Spawn: the worker is never started.
MutSpawnNone(n) ==
    /\ call[n].pc = "spawn"
    /\ leg + 1 \in Leg
    /\ leg' = leg + 1
    /\ call' = [call EXCEPT ![n] = NoCall]
    /\ UNCHANGED <<entry, timers, trail, dead, worker, answer, last>>

\* A fresh context, entry.cancel, and the next worker.
Spawn(n) ==
    /\ call[n].pc = "spawn"
    /\ leg + 1 \in Leg
    /\ leg' = leg + 1
    /\ worker' = [worker EXCEPT ![leg + 1] = Spawned]
    /\ call' = [call EXCEPT ![n] = IF n \in Approval THEN [@ EXCEPT !.pc = "audit"] ELSE NoCall]
    /\ UNCHANGED <<entry, timers, trail, dead, answer, last>>

Audit(n) ==
    /\ call[n].pc = "audit"
    /\ audited' = [audited EXCEPT ![n] = call[n].verdict]
    /\ call' = [call EXCEPT ![n] = NoCall]
    /\ UNCHANGED <<entry, timers, leg, dead, worker, answer, last, crashes, cancelled, decided>>

\* A leg whose kernel or whose report is still to come.
Active(l) == worker[l].pc \in {"spawned", "run", "paused", "completed", "failed"}

\* cancelRun: entry.cancel is the latest leg's; the pending question stays.
CancelRun ==
    LET live == state \in {"running", "paused"} IN
    /\ dead' = dead \cup {l \in Leg : l = leg /\ Active(l)}
    /\ StopTimer
    /\ state' = IF live THEN "failed" ELSE state
    /\ cancelled' = (cancelled \/ live)
    /\ UNCHANGED <<pendingAsk, pendingApproval, callback, leg, worker, call, answer, last,
                   crashes, decided, audited>>
-----------------------------------------------------------------------------
(* The process dies and starts again: registry, timers and goroutines are    *)
(* gone; rehydrateAbandonedRuns marks the run when its log ends in a pause.  *)

\* Mutant of Abandoned: only runs that are already marked are found.
MutAbandonedMarked == last = "abandoned"

\* PausedRunIDs finds the run.
Abandoned == last \in {"paused", "abandoned"}

Crash ==
    /\ crashes < MaxCrashes
    /\ crashes' = crashes + 1
    /\ state' = IF Abandoned THEN "abandoned" ELSE "gone"
    /\ last' = IF Abandoned THEN "abandoned" ELSE last
    /\ pendingAsk' = None /\ pendingApproval' = None /\ approvalTimer' = None
    /\ leg' = None
    /\ dead' = {}
    /\ worker' = [l \in Leg |-> NoLeg]
    /\ timer' = [l \in Leg |-> None]
    /\ callback' = [l \in Leg |-> None]
    /\ call' = [n \in Decision |-> NoCall]
    /\ answer' = [n \in Decision |-> "none"]
    /\ UNCHANGED <<cancelled, decided, audited>>

\* runStatus: the entry, or statusFromLog when there is none.
Status ==
    CASE state # "gone" -> state
      [] state = "gone" /\ last = "complete" -> "completed"
      [] OTHER -> "failed"
-----------------------------------------------------------------------------
Work(l) ==
    \/ Enter(l)
    \/ \E n \in Node : Fire(l, n) \/ Park(l, n)
    \/ \E result \in {"paused", "completed", "failed"} : KernelReturn(l, result)
    \/ Report(l)
    \/ ScheduleRead(l)
    \/ ScheduleInstall(l)

Timed(l) == TimerFires(l) \/ TimeoutApproval(l)

Serve(n) == Inject(n) \/ Spawn(n) \/ Audit(n)

User ==
    \/ \E n \in Approval, v \in {"approved", "rejected"} : ResolveApproval(n, v)
    \/ ResumeRun
    \/ CancelRun

Next ==
    \/ \E l \in Leg : Work(l) \/ Timed(l)
    \/ \E n \in Decision : Serve(n)
    \/ User
    \/ Crash

Spec == Init /\ [][Next]_vars

\* Goroutines run, executors return and timers go off; users and crashes owe
\* nothing.
Fairness ==
    /\ \A l \in Leg : WF_vars(Work(l)) /\ WF_vars(Timed(l))
    /\ \A n \in Decision : WF_vars(Serve(n))

FairSpec == Spec /\ Fairness
-----------------------------------------------------------------------------
(* Correctness. *)

\* Every field of the entry, the workers, the timers and the registry keeps its
\* type: an approval is never surfaced as an ask, nor a timer set for a non-node.
TypeOK ==
    /\ state \in {"running", "paused", "completed", "failed", "abandoned", "gone"}
    /\ pendingAsk \in Ask \cup {None}
    /\ pendingApproval \in Approval \cup {None}
    /\ approvalTimer \in Leg \cup {None}
    /\ leg \in Leg \cup {None}
    /\ dead \subseteq Leg
    /\ worker \in [Leg -> [pc : {"none", "spawned", "run", "paused", "completed", "failed",
                                 "schedule", "install", "ended"},
                           open : SUBSET Node, done : SUBSET Node, park : SUBSET Decision,
                           node : Approval \cup {None}]]
    /\ timer \in [Leg -> Approval \cup {None}]
    /\ callback \in [Leg -> Approval \cup {None}]
    /\ call \in [Decision -> [pc : {"idle", "inject", "spawn", "audit"},
                              verdict : Verdicts \cup {"none"}]]
    /\ answer \in [Decision -> Open \cup Verdicts]
    /\ last \in {"none", "start", "event", "paused", "complete", "abandoned"}
    /\ crashes \in 0..MaxCrashes
    /\ cancelled \in BOOLEAN
    /\ decided \in [Decision -> Nat]
    /\ audited \in [Decision -> Verdicts \cup {"none"}]

\* manager.go:933-974, 1082-1130: whatever verbs, timers and cancels race, the
\* legs of a run follow one another; two kernels never share its Env.
OneLeg == \A l, k \in Leg : Active(l) /\ Active(k) => l = k

\* manager.go:1064-1074, 1158-1166: a human and a timer never both decide an
\* approval, and the audit trail carries the verdict the executor acts on.
OneVerdict ==
    \A n \in Decision :
        /\ decided[n] <= 1
        /\ crashes = 0 /\ audited[n] # "none" => answer[n] = audited[n]

\* manager.go:195-201: a run is paused on exactly one question, and that question
\* is still open in the registry, so the run can always be continued.
PausedOnOne ==
    state = "paused" =>
        /\ (pendingAsk = None) # (pendingApproval = None)
        /\ \A n \in Decision : n \in {pendingAsk, pendingApproval} => answer[n] = "pending"

\* manager.go:276-289: a run that was waiting for a human when the process died is
\* reported as abandoned afterwards; it is never silently dropped, as long as the log
\* takes the events of pauses (a refused one is ignored, kernel.go:972-975).
RestartTells == [][crashes' # crashes /\ state = "paused" => Status' = "abandoned"]_vars

\* manager.go:105-110: an approval the run is paused on is decided without a
\* human, unless the run is stopped.
PausedEnds ==
    \A n \in Approval : (state = "paused" /\ pendingApproval = n)
                            ~> ~(state = "paused" /\ pendingApproval = n)

\* manager.go:823-930: a run that is said to be running reaches an outcome.
RunningEnds == state = "running" ~> state # "running"

\* api.go:349: CancelRun stops the run; it does not come back to wait for an
\* answer or to run on.
CancelSticks == cancelled => state \notin {"running", "paused"}

\* manager.go:101-108: no approval that was asked for sits unresolved for ever.
ApprovalBounded ==
    \A n \in Approval : answer[n] = "pending" ~>
        (answer[n] # "pending" \/ state \in {"failed", "abandoned", "gone"})

\* exec_control.go:1640-1642: a node wired to the approved port of a rejected
\* approval does not fire.
RejectedStops ==
    [][\A l \in Leg, e \in Edge :
          e[1] \in Approval /\ e[2] \in worker'[l].done \ worker[l].done
              => answer[e[1]] \in {"approved", "autoApproved"}]_vars

\* manager.go:203-206: the approval timer never fires against a run that moved on.
TimerInTime ==
    [][\A l \in Leg : callback[l] = None /\ callback'[l] # None =>
           state = "paused" /\ pendingApproval = callback'[l]]_vars
=============================================================================
