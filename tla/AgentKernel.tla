---------------------------- MODULE AgentKernel ----------------------------
(***************************************************************************)
(* The graph scheduler of core/agentgraph/kernel.go: Kernel.Run walks a    *)
(* DAG of nodes with one dispatch goroutine per firing, a counting         *)
(* semaphore, conditional edges (skip propagation), and backtracking       *)
(* (rewinding a node and everything downstream of it).                     *)
(*                                                                         *)
(* A goroutine is identified with the semaphore slot it holds: the parent  *)
(* acquires the slot before `go dispatch`, and the goroutine gives it back *)
(* in its last deferred call.  One action is one stretch of dispatch       *)
(* between two points where another goroutine can be seen: the locked      *)
(* check at the top, the executor call, the stale-generation guard, the    *)
(* unlocked backtrack validation, the locked commit, and each blocking     *)
(* `sem <-` of the launch loop.                                            *)
(***************************************************************************)
EXTENDS Integers, FiniteSets

CONSTANTS
    Node,            \* the nodes the kernel walks (Loop/Retry bodies excluded)
    Edge,            \* pairs <<from, to>>; parallel port edges are one pair
    Entry,           \* env.Graph.Entrypoints
    LiveSets,        \* LiveSets[n]: the successor sets a firing of n may keep live
    Rewind,          \* Rewind[n]: the backtrack targets a firing of n may request
    BadTarget,       \* a target that is hidden in a body or does not exist
    None,            \* no node
    Slot,            \* the maxInFlight semaphore slots
    MaxBacktracks,   \* Budget.MaxBacktracksPerRun after defaulting
    Faults,          \* which of "error", "park", "pausederr", "budget", "log" may happen
    MaxResumes       \* bound: how often a paused run is resumed

Succ(n) == {m \in Node : <<n, m>> \in Edge}
Pred(n) == {m \in Node : <<m, n>> \in Edge}

\* Reach: every set that holds the first node and is closed under Edge holds the second.
Reach ==
    {e \in Node \X Node : \A S \in SUBSET Node :
        (e[1] \in S /\ \A m \in S : Succ(m) \subseteq S) => e[2] \in S}

ASSUME GraphAssumption ==
    /\ IsFiniteSet(Node)
    /\ Edge \subseteq Node \X Node
    /\ \A e \in Edge : <<e[2], e[1]>> \notin Reach
    /\ Entry \subseteq Node
    /\ LiveSets \in [Node -> SUBSET SUBSET Node]
    /\ \A n \in Node : LiveSets[n] # {} /\ \A L \in LiveSets[n] : L \subseteq Succ(n)
    /\ Rewind \in [Node -> SUBSET (Node \cup {BadTarget})]
    /\ BadTarget \notin Node
    /\ None \notin Node \cup {BadTarget}

\* A rewind target is an UpstreamNode of the requester (or unrelated to it), never
\* a node the requester itself feeds.
ASSUME RewindAssumption == \A n \in Node : Rewind[n] \cap Succ(n) = {}

ASSUME BoundAssumption ==
    /\ MaxBacktracks \in Nat
    /\ MaxResumes \in Nat
    /\ Faults \subseteq {"error", "park", "pausederr", "budget", "log"}

VARIABLES
    phase,       \* "running", or what Run returned: "complete", "paused", "failed"
    seeds,       \* entrypoints Run's own loop has still to launch
    completed,   \* Run's completed map (skipped nodes included)
    skipped,     \* Run's skipped map
    inFlight,    \* Run's inFlight map
    inDeg,       \* Run's inDeg map
    liveIn,      \* Run's liveIn map
    generation,  \* Run's generation map
    firstErr,    \* firstErr # nil
    pause,       \* Run's pause flag
    backtracks,  \* env.Counters.BacktracksUsed
    outs,        \* env.State.values: the successors a node's recorded outputs feed
    logged,      \* nodes with a node_complete row in the EventLog
    resumes,     \* resumes so far
    task,        \* Slot -> the dispatch goroutine holding the slot
    ver,         \* history: how many times SetOutputs ran for a node
    used         \* history: used[n][p] is the ver[p] that n's recorded outputs came from

traversal == <<completed, skipped, inDeg, liveIn, generation>>
control == <<phase, seeds, resumes>>
state == <<outs, logged, ver, used>>
vars == <<traversal, control, state, inFlight, firstErr, pause, backtracks, task>>

NoNode == [m \in Node |-> 0]

\* A free slot; every field of a finished goroutine is forgotten.
Idle == [pc |-> "idle", node |-> None, gen |-> 0, inputs |-> NoNode,
         live |-> {}, target |-> None, btErr |-> FALSE, park |-> FALSE,
         queue |-> {}, gens |-> NoNode]

\* dispatch(n, g), freshly spawned on a slot its parent acquired.
Spawned(n, g) == [Idle EXCEPT !.pc = "start", !.node = n, !.gen = g]

\* dispatch has gathered its inputs and entered the executor.
Entered(t, in) == [t EXCEPT !.pc = "exec", !.inputs = in]

\* The executor has returned Result r: live successors L, backtrack request req.
Returned(t, L, req, park) ==
    [t EXCEPT !.pc = IF req = None THEN "commit" ELSE "resolve",
              !.live = L, !.target = req, !.park = park]

\* The backtrack request is validated: target is None when it is not honoured.
Resolved(t, target, err) == [t EXCEPT !.pc = "commit", !.target = target, !.btErr = err]

\* Mutant of Launching: a goroutine with nothing left to launch keeps its slot.
MutLaunchingLeak(t, q, g) ==
    [Idle EXCEPT !.pc = "launch", !.node = t.node, !.gen = t.gen, !.queue = q, !.gens = g]

\* A goroutine in its launch loop: q is toLaunch, g the generations captured with it.
Launching(t, q, g) ==
    IF q = {} THEN Idle
    ELSE [Idle EXCEPT !.pc = "launch", !.node = t.node, !.gen = t.gen,
                      !.queue = q, !.gens = g]
-----------------------------------------------------------------------------
(* Pure helpers of the kernel. *)

\* descendantsInclusive
DescendantsInclusive(target) == {n \in Node : <<target, n>> \in Reach}

\* Mutant of RearmedInDeg: edges inside the rewound set are not waited for again.
MutRearmedForgetful(m, R, C) == Cardinality({p \in Pred(m) : p \notin R /\ p \notin C})

\* In-degree of m after a rewind of the set R, when C has completed.
RearmedInDeg(m, R, C) == Cardinality({p \in Pred(m) : p \in R \/ p \notin C})

\* Live arrivals m keeps from completed predecessors outside R (edgeWasLive).
RearmedLiveIn(m, R, C, K) ==
    Cardinality({p \in Pred(m) : p \notin R /\ p \in C /\ p \notin K /\ m \in outs[p]})

\* The promotion worklist, started by n with live successors L, in a state with
\* the given completed set C, in-degrees d and live counts v.  Dead(m, S): m closes
\* with no live arrival once n and the skipped set S have reported in.
Arrivals(m, S) == Cardinality(Pred(m) \cap S)
\* Mutant of LiveArrivals: every edge counts as live.
MutLiveAlways(m, n, L) == 1

LiveArrivals(m, n, L) == IF m \in L THEN 1 ELSE 0

Dead(m, n, L, S, C, d, v) ==
    /\ m \notin C
    /\ m \notin inFlight
    /\ Pred(m) \cap ({n} \cup S) # {}
    /\ d[m] - Arrivals(m, {n} \cup S) <= 0
    /\ v[m] + LiveArrivals(m, n, L) <= 0

\* Mutant of Promotable: a node that is already in flight is launched again.
MutPromotableInFlight(m, d, v) == d[m] <= 0 /\ v[m] > 0

\* m closes with a live arrival and is not already in flight: it is launched.
Promotable(m, d, v) == m \notin inFlight /\ d[m] <= 0 /\ v[m] > 0

\* Mutant of SkipClosure: a dead branch is not propagated.
MutSkipNothing(n, L, C, d, v) == {}

\* What the worklist skips: as the graph is acyclic, the only set that holds
\* exactly the nodes that are dead once it has reported in.
SkipClosure(n, L, C, d, v) ==
    Node \cap CHOOSE S \in SUBSET (Node \ C) :
                  S = {m \in Node : Dead(m, n, L, S, C, d, v)}
-----------------------------------------------------------------------------
(* Run: seeding, waiting and returning. *)

\* The maps Run builds before its first dispatch, with every entrypoint claimed.
FreshRun ==
    /\ phase' = "running"
    /\ seeds' = Entry
    /\ completed' = {}
    /\ skipped' = {}
    /\ inFlight' = Entry
    /\ inDeg' = [n \in Node |-> IF n \in Entry THEN 0 ELSE Cardinality(Pred(n))]
    /\ liveIn' = NoNode
    /\ generation' = NoNode
    /\ firstErr' = FALSE
    /\ pause' = FALSE

Init ==
    /\ phase = "running"
    /\ seeds = Entry
    /\ completed = {}
    /\ skipped = {}
    /\ inFlight = Entry
    /\ inDeg = [n \in Node |-> IF n \in Entry THEN 0 ELSE Cardinality(Pred(n))]
    /\ liveIn = NoNode
    /\ generation = NoNode
    /\ firstErr = FALSE
    /\ pause = FALSE
    /\ backtracks = 0
    /\ outs = [n \in Node |-> {}]
    /\ logged = {}
    /\ resumes = 0
    /\ task = [s \in Slot |-> Idle]
    /\ ver = NoNode
    /\ used = [n \in Node |-> NoNode]

\* Run's seed loop: `sem <-` blocks until a slot is free.
SeedLaunch(n, s) ==
    /\ n \in seeds
    /\ task[s].pc = "idle"
    /\ seeds' = seeds \ {n}
    /\ task' = [task EXCEPT ![s] = Spawned(n, generation[n])]
    /\ UNCHANGED <<traversal, state, phase, resumes, inFlight, firstErr, pause, backtracks>>

\* wg.Wait returns: a pause wins over an error.
Finish ==
    /\ phase = "running"
    /\ seeds = {}
    /\ \A s \in Slot : task[s].pc = "idle"
    /\ phase' = IF pause THEN "paused" ELSE IF firstErr THEN "failed" ELSE "complete"
    /\ UNCHANGED <<traversal, state, seeds, resumes, inFlight, firstErr, pause, backtracks, task>>

\* Mutant of Resume: the outputs of the paused run survive.
MutResumeKeepsOutputs ==
    /\ phase = "paused"
    /\ resumes < MaxResumes
    /\ resumes' = resumes + 1
    /\ outs' = outs
    /\ FreshRun
    /\ UNCHANGED <<logged, ver, used, backtracks, task>>

\* Resume: RebuildState overwrites the outputs of every logged node with an empty
\* map, then Run starts over with fresh maps.
Resume ==
    /\ phase = "paused"
    /\ resumes < MaxResumes
    /\ resumes' = resumes + 1
    /\ outs' = [n \in Node |-> IF n \in logged THEN {} ELSE outs[n]]
    /\ FreshRun
    /\ UNCHANGED <<logged, ver, used, backtracks, task>>
-----------------------------------------------------------------------------
(* dispatch *)

\* The top of dispatch: nothing runs once the run is stopping.
StartStopped(s) ==
    /\ task[s].pc = "start"
    /\ firstErr \/ pause
    /\ task' = [task EXCEPT ![s] = Idle]
    /\ UNCHANGED <<traversal, control, state, inFlight, firstErr, pause, backtracks>>

\* checkBudget or the executor lookup fails; inFlight stays set.
StartRefused(s) ==
    /\ task[s].pc = "start"
    /\ ~firstErr /\ ~pause
    /\ "budget" \in Faults
    /\ firstErr' = TRUE
    /\ task' = [task EXCEPT ![s] = Idle]
    /\ UNCHANGED <<traversal, control, state, inFlight, pause, backtracks>>

\* Inputs are gathered from the recorded outputs of every in-edge, skipped or
\* not, and the executor is entered.
Begin(s) ==
    LET n == task[s].node IN
    /\ task[s].pc = "start"
    /\ ~firstErr /\ ~pause
    /\ task' = [task EXCEPT ![s] =
                    Entered(task[s], [p \in Node |->
                        IF p \in Pred(n) /\ n \in outs[p] THEN ver[p] ELSE 0])]
    /\ UNCHANGED <<traversal, control, state, inFlight, firstErr, pause, backtracks>>

\* The executor fails (isPause: with ErrPaused, from a nested Ask).
ExecError(s, isPause) ==
    /\ task[s].pc = "exec"
    /\ IF isPause THEN "pausederr" \in Faults ELSE "error" \in Faults
    /\ inFlight' = inFlight \ {task[s].node}
    /\ pause' = (pause \/ (isPause /\ ~firstErr))
    /\ firstErr' = (firstErr \/ ~isPause)
    /\ task' = [task EXCEPT ![s] = Idle]
    /\ UNCHANGED <<traversal, control, state, backtracks>>

\* SetOutputs, and the append of node_complete, which may fail.
RecordOutputs(s, L, logOk) ==
    LET n == task[s].node IN
    /\ logOk \/ "log" \in Faults
    /\ outs' = [outs EXCEPT ![n] = L]
    /\ ver' = [ver EXCEPT ![n] = @ + 1]
    /\ used' = [used EXCEPT ![n] = task[s].inputs]
    /\ logged' = IF logOk THEN logged \cup {n} ELSE logged
    /\ firstErr' = (firstErr \/ ~logOk)

\* The in-degree of a superseded node closed while it was stuck in flight.
RefireNow(n) == n \notin completed /\ inDeg[n] <= 0

\* The executor returns after a rewind superseded it: the stale-generation guard
\* frees the node and re-fires it when its in-degree has already closed.
ExecStale(s, L, logOk) ==
    LET n == task[s].node
        refireNow == RefireNow(n) IN
    /\ task[s].pc = "exec"
    /\ generation[n] # task[s].gen
    /\ RecordOutputs(s, L, logOk)
    /\ inFlight' = IF refireNow THEN inFlight ELSE inFlight \ {n}
    /\ task' = [task EXCEPT ![s] =
                    Launching(task[s], IF refireNow THEN {n} ELSE {}, generation)]
    /\ UNCHANGED <<traversal, control, pause, backtracks>>

\* The executor returns in its own generation; req is the backtrack target it
\* asks for (None when it asks for none), park is Result.Pause.
ExecOk(s, L, logOk, req, park) ==
    LET n == task[s].node IN
    /\ task[s].pc = "exec"
    /\ generation[n] = task[s].gen
    /\ park => "park" \in Faults /\ req = None
    /\ RecordOutputs(s, L, logOk)
    /\ inFlight' = inFlight \ {n}
    /\ task' = [task EXCEPT ![s] = Returned(task[s], L, req, park)]
    /\ UNCHANGED <<traversal, control, pause, backtracks>>
-----------------------------------------------------------------------------
(* Backtrack validation, outside the lock. *)

\* A target that cannot be rewound to fails the run at the commit.
ResolveBadTarget(s) ==
    /\ task[s].pc = "resolve"
    /\ task[s].target = BadTarget
    /\ task' = [task EXCEPT ![s] = Resolved(task[s], None, TRUE)]
    /\ UNCHANGED <<traversal, control, state, inFlight, firstErr, pause, backtracks>>

\* Mutant of ResolveCharge: the cap is compared before the charge.
MutResolveOffByOne(s, logOk) ==
    LET granted == backtracks <= MaxBacktracks IN
    /\ task[s].pc = "resolve"
    /\ task[s].target # BadTarget
    /\ logOk \/ (granted /\ "log" \in Faults)
    /\ backtracks' = backtracks + 1
    /\ task' = [task EXCEPT ![s] =
                    Resolved(task[s], IF granted THEN task[s].target ELSE None,
                             ~granted \/ ~logOk)]
    /\ UNCHANGED <<traversal, control, state, inFlight, firstErr, pause>>

\* AddBacktrack charges the counter; over the cap the request becomes an error.
ResolveCharge(s, logOk) ==
    LET granted == backtracks + 1 <= MaxBacktracks IN
    /\ task[s].pc = "resolve"
    /\ task[s].target # BadTarget
    /\ logOk \/ (granted /\ "log" \in Faults)
    /\ backtracks' = backtracks + 1
    /\ task' = [task EXCEPT ![s] =
                    Resolved(task[s], IF granted THEN task[s].target ELSE None,
                             ~granted \/ ~logOk)]
    /\ UNCHANGED <<traversal, control, state, inFlight, firstErr, pause>>
-----------------------------------------------------------------------------
(* The commit, under the lock: honour the backtrack, complete the node,      *)
(* promote its successors and claim what is to be launched. A refused batch *)
(* of skips is noted with it; the code notes it right after the unlock.      *)

RefireSet(s) ==
    IF task[s].target = None THEN {} ELSE DescendantsInclusive(task[s].target)

Commit(s, logOk) ==
    LET t == task[s]
        n == t.node
        R == RefireSet(s)
        C == completed \ R
        K == skipped \ R
        d == [m \in Node |-> IF m \in R THEN RearmedInDeg(m, R, C) ELSE inDeg[m]]
        v == [m \in Node |-> IF m \in R THEN RearmedLiveIn(m, R, C, K) ELSE liveIn[m]]
        g == [m \in Node |-> IF m \in R THEN generation[m] + 1 ELSE generation[m]]
        backtrackReady == t.target # None /\ d[t.target] <= 0 /\ t.target \notin inFlight
        Done == IF n \in R THEN C ELSE C \cup {n}
        promotes == n \notin R /\ ~t.park
        S == IF promotes THEN SkipClosure(n, t.live, Done, d, v) ELSE {}
        from == IF promotes THEN {n} \cup S ELSE {}
        open == {m \in Node \ Done : Pred(m) \cap from # {}}
        d2 == [m \in Node |-> IF m \in open THEN d[m] - Arrivals(m, from) ELSE d[m]]
        v2 == [m \in Node |-> IF m \in open THEN v[m] + LiveArrivals(m, n, t.live) ELSE v[m]]
        ready == {m \in open : Promotable(m, d2, v2)}
        q == IF t.park THEN {} ELSE ready \cup (IF backtrackReady THEN {t.target} ELSE {})
    IN
    /\ t.pc = "commit"
    /\ logOk \/ (S # {} /\ "log" \in Faults)
    /\ completed' = Done \cup S
    /\ skipped' = K \cup S
    /\ generation' = g
    /\ inDeg' = d2
    /\ liveIn' = v2
    /\ inFlight' = inFlight \cup q
    /\ firstErr' = (firstErr \/ t.btErr \/ ~logOk)
    /\ pause' = (pause \/ t.park)
    /\ task' = [task EXCEPT ![s] = Launching(t, q, g)]
    /\ UNCHANGED <<control, state, backtracks>>

\* The launch loop: the goroutine keeps its own slot while `sem <-` waits for
\* another one, and ends after its last launch.
Launch(s, n, u) ==
    /\ task[s].pc = "launch"
    /\ n \in task[s].queue
    /\ task[u].pc = "idle"
    /\ task' = [task EXCEPT ![u] = Spawned(n, task[s].gens[n]),
                            ![s] = Launching(task[s], task[s].queue \ {n}, task[s].gens)]
    /\ UNCHANGED <<traversal, control, state, inFlight, firstErr, pause, backtracks>>
-----------------------------------------------------------------------------
Start(s) == StartStopped(s) \/ StartRefused(s) \/ Begin(s)

Return(s) ==
    \/ \E isPause \in BOOLEAN : ExecError(s, isPause)
    \/ \E L \in LiveSets[task[s].node], logOk \in BOOLEAN :
        \/ ExecStale(s, L, logOk)
        \/ \E req \in Rewind[task[s].node] \cup {None}, park \in BOOLEAN :
               ExecOk(s, L, logOk, req, park)

Resolve(s) == ResolveBadTarget(s) \/ \E logOk \in BOOLEAN : ResolveCharge(s, logOk)

Dispatch(s) ==
    \/ Start(s)
    \/ task[s].pc = "exec" /\ Return(s)
    \/ Resolve(s)
    \/ \E logOk \in BOOLEAN : Commit(s, logOk)
    \/ \E n \in Node, u \in Slot : Launch(s, n, u)

Run == Finish \/ \E n \in Node, s \in Slot : SeedLaunch(n, s)

Next == Run \/ Resume \/ \E s \in Slot : Dispatch(s)

Spec == Init /\ [][Next]_vars

\* Executors return and the Go scheduler runs every goroutine; nothing obliges a
\* user to resume a paused run.
Fairness == WF_vars(Run) /\ \A s \in Slot : WF_vars(Dispatch(s))

FairSpec == Spec /\ Fairness
-----------------------------------------------------------------------------
(* Correctness. *)

TaskType ==
    [pc : {"idle", "start", "exec", "resolve", "commit", "launch"},
     node : Node \cup {None}, gen : Nat, inputs : [Node -> Nat],
     live : SUBSET Node, target : Node \cup {BadTarget, None},
     btErr : BOOLEAN, park : BOOLEAN,
     queue : SUBSET Node, gens : [Node -> Nat]]

\* Every variable has the shape the maps and goroutines of Run have; a slot that
\* is not free runs a dispatch of some node, and no unvalidated backtrack target
\* reaches the commit.
TypeOK ==
    /\ phase \in {"running", "complete", "paused", "failed"}
    /\ seeds \subseteq Node
    /\ completed \subseteq Node
    /\ skipped \subseteq Node
    /\ inFlight \subseteq Node
    /\ inDeg \in [Node -> Int]
    /\ liveIn \in [Node -> Nat]
    /\ generation \in [Node -> Nat]
    /\ firstErr \in BOOLEAN
    /\ pause \in BOOLEAN
    /\ backtracks \in Nat
    /\ outs \in [Node -> SUBSET Node]
    /\ logged \subseteq Node
    /\ resumes \in 0..MaxResumes
    /\ task \in [Slot -> TaskType]
    /\ \A s \in Slot : task[s].pc # "idle" => task[s].node \in Node
    /\ \A s \in Slot : task[s].pc = "commit" => task[s].target # BadTarget
    /\ ver \in [Node -> Nat]
    /\ used \in [Node -> [Node -> Nat]]

Executing(s) == task[s].pc \in {"start", "exec"}

\* kernel.go:306-318: a node is never dispatched while an earlier dispatch of it
\* is still executing, whatever rewinds arrive in between.
NoDoubleDispatch ==
    \A s, u \in Slot :
        Executing(s) /\ Executing(u) /\ task[s].node = task[u].node => s = u

\* kernel.go:320-323: every claim on a node (a seed, an executing dispatch, a place
\* in a launch queue) holds its inFlight bit ...
Claimed ==
    /\ seeds \subseteq inFlight
    /\ \A s \in Slot : Executing(s) => task[s].node \in inFlight
    /\ \A s \in Slot : task[s].queue \subseteq inFlight

\* ... there is one claim on a node at a time ...
Exclusive ==
    /\ NoDoubleDispatch
    /\ \A s \in Slot : Executing(s) => task[s].node \notin seeds
    /\ \A s \in Slot : task[s].queue \cap seeds = {}
    /\ \A s, u \in Slot : Executing(s) => task[s].node \notin task[u].queue
    /\ \A s, u \in Slot : s # u => task[s].queue \cap task[u].queue = {}

\* ... and when Run has returned no goroutine of it is left.
Quiet ==
    /\ \A s \in Slot : task[s].pc # "launch" => task[s].queue = {}
    /\ phase # "running" => seeds = {} /\ \A s \in Slot : task[s].pc = "idle"

\* kernel.go:306-331: the bookkeeping that rules out a double dispatch.
ClaimInv == Claimed /\ Exclusive /\ Quiet

\* kernel.go:155-156: an executor is entered in the current generation only when
\* every node feeding it has completed or was skipped.
ReadyInputs ==
    [][\A s \in Slot :
          LET n == task[s].node IN
          /\ task[s].pc = "start"
          /\ task'[s].pc = "exec"
          /\ task[s].gen = generation[n]
          => n \in Entry \/ Pred(n) \subseteq completed]_vars

\* kernel.go:1717-1720: a skipped branch contributes an empty entry to its join,
\* never a value.
NoPhantomInput ==
    [][\A s \in Slot : task[s].pc = "start" /\ task'[s].pc = "exec" =>
           \A p \in Pred(task[s].node) \cap skipped : task'[s].inputs[p] = 0]_vars

\* The same, while no rewind was granted: a resume may flip a decision, and the
\* branch it leaves still has no value for the join.
NoPhantomResume ==
    [][backtracks' = 0 =>
        \A s \in Slot : task[s].pc = "start" /\ task'[s].pc = "exec" =>
           \A p \in Pred(task[s].node) \cap skipped : task'[s].inputs[p] = 0]_vars

\* validator.go:415-433: a required input port has an in-edge unless its node is an
\* entrypoint.  A node without required inputs may still be an orphan, which Run
\* never launches (kernel.go:267-273 seeds the entrypoints only).  No orphans:
Rooted == \A n \in Node : Pred(n) = {} => n \in Entry

\* The run goes on: nothing has failed or parked.
Going == phase = "running" /\ ~firstErr /\ ~pause

\* kernel.go:306-331: while the run goes on, an inFlight bit has a holder: a seed,
\* an executing dispatch or a launch queue will clear it.
Held(m) ==
    \/ m \in seeds
    \/ \E s \in Slot : Executing(s) /\ task[s].node = m
    \/ \E s \in Slot : m \in task[s].queue

\* A dispatch of m has returned and is on its way to the commit.
Returning(m) == \E s \in Slot : task[s].node = m /\ task[s].pc \in {"resolve", "commit"}

\* kernel.go:306-331: while the run goes on, a node that has not completed is in
\* flight, is about to commit, or waits for a predecessor; and it never waits for
\* more arrivals than it has predecessors that have still to complete.
SettleInv ==
    Going =>
        /\ \A m \in inFlight : Held(m)
        /\ \A m \in Node \ completed :
               /\ m \in inFlight \/ Returning(m) \/ inDeg[m] > 0
               /\ inDeg[m] <= Cardinality(Pred(m) \ completed)

\* kernel.go:151-156: a run that returns nil has settled every node: a rewind,
\* a skip or a superseded dispatch never strands one.
CompleteRun == phase = "complete" => completed = Node

\* kernel.go:296-297: in a completed run the skipped nodes are exactly the ones
\* that no live edge reached.
SkipExact ==
    phase = "complete" =>
        \A n \in Node \ Entry :
            n \in skipped <=> \A p \in Pred(n) \ skipped : n \notin outs[p]

\* kernel.go:617-624: superseded data never marks a node done: in a completed run
\* each node ran on the final outputs of the predecessors that reached it.
FreshRunComplete ==
    phase = "complete" =>
        \A n \in Node \ skipped : \A p \in Pred(n) \ skipped :
            n \in outs[p] => used[n][p] = ver[p]

\* kernel.go:1470-1474: rewinds are bounded, so a node fires at most once more
\* than the backtracks the run was granted (per Run).
FiringBound ==
    resumes = 0 => \A n \in Node :
        ver[n] <= 1 + (IF backtracks < MaxBacktracks THEN backtracks ELSE MaxBacktracks)

\* kernel.go:151-153: Run returns; it never waits on itself.
Termination == <>(phase # "running")

\* kernel.go:1017-1018: a resumed run re-fires unfinished nodes only.
ResumeKeepsCompleted ==
    [][resumes > 0 => \A n \in logged : ver'[n] = ver[n]]_vars
=============================================================================
