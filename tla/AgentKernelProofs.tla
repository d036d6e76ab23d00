------------------------- MODULE AgentKernelProofs -------------------------
(* What holds of the kernel for every graph, every number of slots and every *)
(* bound: its types, that a node is never dispatched twice at once, and, in   *)
(* the second part, its order on the graphs whose rewinds stay apart.         *)
EXTENDS AgentKernel, FiniteSetTheorems, TLAPS

\* The in-degree of a node is a natural number, since graphs are finite.
LEMMA CountType ==
    ASSUME NEW S \in SUBSET Node
    PROVE  Cardinality(S) \in Nat
  <1>1. IsFiniteSet(Node) BY GraphAssumption
  <1>2. IsFiniteSet(S) BY <1>1, FS_Subset
  <1> QED BY <1>2, FS_CardinalityType

LEMMA PredType == ASSUME NEW n PROVE Pred(n) \in SUBSET Node
  BY DEF Pred

LEMMA NoNodeType == NoNode \in [Node -> Nat]
  BY DEF NoNode

LEMMA IdleType == Idle \in TaskType
  BY NoNodeType DEF Idle, TaskType

LEMMA SpawnedType ==
    ASSUME NEW n \in Node, NEW g \in Nat
    PROVE  /\ Spawned(n, g) \in TaskType
           /\ Spawned(n, g).pc = "start"
           /\ Spawned(n, g).node = n
           /\ Spawned(n, g).queue = {}
  BY NoNodeType DEF Spawned, Idle, TaskType

LEMMA LaunchingType ==
    ASSUME NEW t \in TaskType, t.node \in Node, NEW q \in SUBSET Node,
           NEW g \in [Node -> Nat]
    PROVE  /\ Launching(t, q, g) \in TaskType
           /\ Launching(t, q, g).pc \in {"idle", "launch"}
           /\ Launching(t, q, g).pc # "idle" => Launching(t, q, g).node \in Node
           /\ Launching(t, q, g).queue = q
           /\ Launching(t, q, g).pc # "launch" => q = {}
  <1>1. CASE q = {}
    BY <1>1, IdleType DEF Launching, Idle
  <1>2. CASE q # {}
    BY <1>2, NoNodeType DEF Launching, Idle, TaskType
  <1> QED BY <1>1, <1>2

LEMMA EnteredType ==
    ASSUME NEW t \in TaskType, NEW in \in [Node -> Nat]
    PROVE  /\ Entered(t, in) \in TaskType
           /\ Entered(t, in).pc = "exec"
           /\ Entered(t, in).node = t.node
           /\ Entered(t, in).queue = t.queue
  BY DEF Entered, TaskType

LEMMA ReturnedType ==
    ASSUME NEW t \in TaskType, NEW L \in SUBSET Node,
           NEW req \in Node \cup {BadTarget, None}, NEW park \in BOOLEAN
    PROVE  /\ Returned(t, L, req, park) \in TaskType
           /\ Returned(t, L, req, park).pc \in {"commit", "resolve"}
           /\ Returned(t, L, req, park).pc = "commit" => req = None
           /\ Returned(t, L, req, park).target = req
           /\ Returned(t, L, req, park).node = t.node
           /\ Returned(t, L, req, park).queue = t.queue
  BY DEF Returned, TaskType

\* The two markers are no nodes and differ.
LEMMA Distinct == BadTarget \notin Node /\ None \notin Node /\ None # BadTarget
  BY GraphAssumption

LEMMA ResolvedType ==
    ASSUME NEW t \in TaskType, NEW target \in Node \cup {None}, NEW err \in BOOLEAN
    PROVE  /\ Resolved(t, target, err) \in TaskType
           /\ Resolved(t, target, err).pc = "commit"
           /\ Resolved(t, target, err).target = target
           /\ Resolved(t, target, err).node = t.node
           /\ Resolved(t, target, err).queue = t.queue
  BY DEF Resolved, TaskType

\* A resolved request never carries the bad target into the commit.
LEMMA ResolvedSafe ==
    ASSUME NEW t \in TaskType, t.node \in Node,
           NEW target \in Node \cup {None}, NEW err \in BOOLEAN
    PROVE  /\ Resolved(t, target, err) \in TaskType
           /\ Resolved(t, target, err).node \in Node
           /\ Resolved(t, target, err).target # BadTarget
  BY ResolvedType, Distinct

LEMMA RearmedTypes ==
    ASSUME NEW m, NEW R, NEW C, NEW K
    PROVE  /\ RearmedInDeg(m, R, C) \in Nat
           /\ RearmedLiveIn(m, R, C, K) \in Nat
           /\ Arrivals(m, R) \in Nat
  <1>1. /\ {p \in Pred(m) : p \in R \/ p \notin C} \in SUBSET Node
        /\ {p \in Pred(m) : p \notin R /\ p \in C /\ p \notin K /\ m \in outs[p]} \in SUBSET Node
        /\ Pred(m) \cap R \in SUBSET Node
    BY DEF Pred
  <1> QED BY <1>1, CountType DEF RearmedInDeg, RearmedLiveIn, Arrivals

LEMMA SkipClosureType ==
    ASSUME NEW n, NEW L, NEW C, NEW d, NEW v
    PROVE  SkipClosure(n, L, C, d, v) \in SUBSET Node
  BY DEF SkipClosure

LEMMA RefireSetType == ASSUME NEW s PROVE RefireSet(s) \in SUBSET Node
  BY DEF RefireSet, DescendantsInclusive

\* A commit claims only nodes that nobody else has claimed.
LEMMA CommitClaims ==
    ASSUME TypeOK, NEW s \in Slot, NEW logOk \in BOOLEAN, Commit(s, logOk)
    PROVE  \E q \in SUBSET Node, g \in [Node -> Nat] :
               /\ q \cap inFlight = {}
               /\ inFlight' = inFlight \cup q
               /\ task' = [task EXCEPT ![s] = Launching(task[s], q, g)]
  <1> DEFINE t == task[s]
             n == t.node
             R == RefireSet(s)
             C == completed \ R
             K == skipped \ R
             d == [m \in Node |-> IF m \in R THEN RearmedInDeg(m, R, C) ELSE inDeg[m]]
             v == [m \in Node |-> IF m \in R THEN RearmedLiveIn(m, R, C, K) ELSE liveIn[m]]
             g == [m \in Node |-> IF m \in R THEN generation[m] + 1 ELSE generation[m]]
             backtrackReady == t.target # None /\ d[t.target] <= 0 /\ t.target \notin inFlight
             Done == IF n \in R THEN C ELSE C \cup {n}
             promotes == n \notin R /\ ~t.park
             S == IF promotes THEN SkipClosure(n, t.live, Done, d, v) ELSE {}
             from == IF promotes THEN {n} \cup S ELSE {}
             open == {m \in Node \ Done : Pred(m) \cap from # {}}
             d2 == [m \in Node |-> IF m \in open THEN d[m] - Arrivals(m, from) ELSE d[m]]
             v2 == [m \in Node |-> IF m \in open THEN v[m] + LiveArrivals(m, n, t.live) ELSE v[m]]
             ready == {m \in open : Promotable(m, d2, v2)}
             q == IF t.park THEN {} ELSE ready \cup (IF backtrackReady THEN {t.target} ELSE {})
  <1>1. /\ t.pc = "commit"
        /\ inFlight' = inFlight \cup q
        /\ task' = [task EXCEPT ![s] = Launching(task[s], q, g)]
    BY DEF Commit
  <1>2. t.target \in Node \cup {None}
    BY <1>1 DEF TypeOK, TaskType
  <1>3. g \in [Node -> Nat]
    <2> HIDE DEF R
    <2> QED BY DEF TypeOK
  <1>4. q \in SUBSET Node /\ q \cap inFlight = {}
    <2> HIDE DEF d, d2, v2, open
    <2>1. open \in SUBSET Node BY DEF open
    <2> QED BY <1>2, <2>1 DEF Promotable
  <1> HIDE DEF t, n, R, C, K, d, v, g, backtrackReady, Done, promotes, S, from, open, d2, v2, ready, q
  <1> QED BY <1>1, <1>3, <1>4

\* What a commit does to the traversal, in types.
LEMMA CommitType ==
    ASSUME TypeOK, NEW s \in Slot, NEW logOk \in BOOLEAN, Commit(s, logOk)
    PROVE  TypeOK'
  <1> DEFINE t == task[s]
             n == t.node
             R == RefireSet(s)
             C == completed \ R
             K == skipped \ R
             d == [m \in Node |-> IF m \in R THEN RearmedInDeg(m, R, C) ELSE inDeg[m]]
             v == [m \in Node |-> IF m \in R THEN RearmedLiveIn(m, R, C, K) ELSE liveIn[m]]
             g == [m \in Node |-> IF m \in R THEN generation[m] + 1 ELSE generation[m]]
             backtrackReady == t.target # None /\ d[t.target] <= 0 /\ t.target \notin inFlight
             Done == IF n \in R THEN C ELSE C \cup {n}
             promotes == n \notin R /\ ~t.park
             S == IF promotes THEN SkipClosure(n, t.live, Done, d, v) ELSE {}
             from == IF promotes THEN {n} \cup S ELSE {}
             open == {m \in Node \ Done : Pred(m) \cap from # {}}
             d2 == [m \in Node |-> IF m \in open THEN d[m] - Arrivals(m, from) ELSE d[m]]
             v2 == [m \in Node |-> IF m \in open THEN v[m] + LiveArrivals(m, n, t.live) ELSE v[m]]
             ready == {m \in open : Promotable(m, d2, v2)}
             q == IF t.park THEN {} ELSE ready \cup (IF backtrackReady THEN {t.target} ELSE {})
  <1>1. /\ t.pc = "commit"
        /\ completed' = Done \cup S
        /\ skipped' = K \cup S
        /\ generation' = g
        /\ inDeg' = d2
        /\ liveIn' = v2
        /\ inFlight' = inFlight \cup q
        /\ firstErr' = (firstErr \/ t.btErr \/ ~logOk)
        /\ pause' = (pause \/ t.park)
        /\ task' = [task EXCEPT ![s] = Launching(t, q, g)]
        /\ UNCHANGED <<control, state, backtracks>>
    BY DEF Commit
  <1>2. t \in TaskType /\ n \in Node /\ t.target \in Node \cup {None} /\ t.live \in SUBSET Node
    BY <1>1 DEF TypeOK, TaskType
  <1>3. R \in SUBSET Node
    BY RefireSetType
  <1>4. d \in [Node -> Int] /\ v \in [Node -> Nat] /\ g \in [Node -> Nat]
    <2>1. \A m \in Node : RearmedInDeg(m, R, C) \in Nat /\ RearmedLiveIn(m, R, C, K) \in Nat
      BY RearmedTypes
    <2> HIDE DEF R, C, K
    <2>2. d \in [Node -> Int]
      BY <2>1 DEF TypeOK
    <2>3. v \in [Node -> Nat]
      BY <2>1 DEF TypeOK
    <2>4. g \in [Node -> Nat]
      BY DEF TypeOK
    <2> HIDE DEF d, v, g
    <2> QED BY <2>2, <2>3, <2>4
  <1>5. S \in SUBSET Node /\ Done \in SUBSET Node /\ K \in SUBSET Node
    BY <1>2, SkipClosureType DEF TypeOK
  <1>6. d2 \in [Node -> Int]
    <2>1. \A m \in Node : d[m] \in Int /\ Arrivals(m, from) \in Nat
      BY <1>4, RearmedTypes
    <2> HIDE DEF d, from, open
    <2> QED BY <2>1
  <1>7. v2 \in [Node -> Nat]
    <2>1. \A m \in Node : v[m] \in Nat /\ LiveArrivals(m, n, t.live) \in Nat
      BY <1>4 DEF LiveArrivals
    <2> HIDE DEF v, open
    <2> QED BY <2>1
  <1>8. q \in SUBSET Node
    BY <1>2
  <1> HIDE DEF t, n, R, C, K, d, v, g, backtrackReady, Done, promotes, S, from, open, d2, v2, ready, q
  <1>9. /\ Launching(t, q, g) \in TaskType
        /\ Launching(t, q, g).pc # "idle" => Launching(t, q, g).node \in Node
        /\ Launching(t, q, g).pc # "commit"
    <2>1. n = t.node BY DEF n
    <2> QED BY <2>1, <1>2, <1>4, <1>8, LaunchingType
  <1>10. /\ task' \in [Slot -> TaskType]
         /\ \A u \in Slot : task'[u].pc # "idle" => task'[u].node \in Node
         /\ \A u \in Slot : task'[u].pc = "commit" => task'[u].target # BadTarget
    BY <1>1, <1>9 DEF TypeOK
  <1>11. firstErr' \in BOOLEAN /\ pause' \in BOOLEAN
    BY <1>1
  <1> QED
    BY <1>1, <1>2, <1>4, <1>5, <1>6, <1>7, <1>8, <1>10, <1>11 DEF TypeOK, control, state

LEMMA InitType == Init => TypeOK
  <1> SUFFICES ASSUME Init PROVE TypeOK
    OBVIOUS
  <1>1. task \in [Slot -> TaskType] /\ \A s \in Slot : task[s].pc = "idle"
    BY IdleType DEF Init, Idle
  <1>2. \A n \in Node : Cardinality(Pred(n)) \in Nat
    BY PredType, CountType
  <1>3. inDeg \in [Node -> Int]
    BY <1>2 DEF Init
  <1>4. /\ liveIn \in [Node -> Nat]
        /\ generation \in [Node -> Nat]
        /\ ver \in [Node -> Nat]
        /\ used \in [Node -> [Node -> Nat]]
    BY NoNodeType DEF Init
  <1>5. outs \in [Node -> SUBSET Node] /\ resumes \in 0..MaxResumes /\ backtracks \in Nat
    BY BoundAssumption DEF Init
  <1>6. /\ seeds \subseteq Node /\ completed \subseteq Node /\ skipped \subseteq Node
        /\ inFlight \subseteq Node /\ logged \subseteq Node
    BY GraphAssumption DEF Init
  <1>7. /\ phase \in {"running", "complete", "paused", "failed"}
        /\ firstErr \in BOOLEAN /\ pause \in BOOLEAN
    BY DEF Init
  <1> QED
    BY <1>1, <1>3, <1>4, <1>5, <1>6, <1>7 DEF TypeOK

\* The task of one goroutine changes.
LEMMA OneTask ==
    ASSUME TypeOK, NEW s \in Slot, NEW r \in TaskType,
           r.pc # "idle" => r.node \in Node,
           r.pc = "commit" => r.target # BadTarget,
           task' = [task EXCEPT ![s] = r]
    PROVE  /\ task' \in [Slot -> TaskType]
           /\ \A u \in Slot : task'[u].pc # "idle" => task'[u].node \in Node
           /\ \A u \in Slot : task'[u].pc = "commit" => task'[u].target # BadTarget
  BY DEF TypeOK

LEMMA RecordOutputsType ==
    ASSUME TypeOK, NEW s \in Slot, task[s].node \in Node, NEW L \in SUBSET Node,
           NEW logOk \in BOOLEAN, RecordOutputs(s, L, logOk)
    PROVE  /\ outs' \in [Node -> SUBSET Node]
           /\ ver' \in [Node -> Nat]
           /\ used' \in [Node -> [Node -> Nat]]
           /\ logged' \subseteq Node
           /\ firstErr' \in BOOLEAN
  <1>1. task[s].inputs \in [Node -> Nat]
    BY DEF TypeOK, TaskType
  <1> QED BY <1>1 DEF TypeOK, RecordOutputs

LEMMA LiveSetType ==
    ASSUME NEW n \in Node, NEW L \in LiveSets[n]
    PROVE  L \in SUBSET Node
  BY GraphAssumption

\* Type correctness is inductive.
LEMMA TypeStep == TypeOK /\ [Next]_vars => TypeOK'
  <1> SUFFICES ASSUME TypeOK, [Next]_vars PROVE TypeOK'
    OBVIOUS
  <1> USE DEF traversal, control, state
  <1>1. CASE Finish
    BY <1>1 DEF TypeOK, Finish
  <1>2. ASSUME NEW n \in Node, NEW s \in Slot, SeedLaunch(n, s) PROVE TypeOK'
    <2>1. generation[n] \in Nat BY DEF TypeOK
    <2>2. task' = [task EXCEPT ![s] = Spawned(n, generation[n])] BY <1>2 DEF SeedLaunch
    <2>3. /\ task' \in [Slot -> TaskType]
          /\ \A u \in Slot : task'[u].pc # "idle" => task'[u].node \in Node
          /\ \A u \in Slot : task'[u].pc = "commit" => task'[u].target # BadTarget
      <3>1. Spawned(n, generation[n]) \in TaskType /\ Spawned(n, generation[n]).node \in Node
            /\ Spawned(n, generation[n]).pc = "start"
        BY <2>1, SpawnedType
      <3> QED BY <2>2, <3>1, OneTask
    <2> QED BY <1>2, <2>3 DEF TypeOK, SeedLaunch
  <1>3. CASE Resume
    <2>1. \A n \in Node : Cardinality(Pred(n)) \in Nat
      BY PredType, CountType
    <2>2. inDeg' \in [Node -> Int]
      BY <1>3, <2>1 DEF Resume, FreshRun
    <2>3. outs' \in [Node -> SUBSET Node]
      BY <1>3 DEF Resume, TypeOK
    <2>4. resumes' \in 0..MaxResumes
      BY <1>3, BoundAssumption DEF Resume, TypeOK
    <2> QED
      BY <1>3, <2>2, <2>3, <2>4, NoNodeType, GraphAssumption DEF TypeOK, Resume, FreshRun
  <1>4. ASSUME NEW s \in Slot, StartStopped(s) \/ StartRefused(s) PROVE TypeOK'
    <2>1. task' = [task EXCEPT ![s] = Idle] BY <1>4 DEF StartStopped, StartRefused
    <2>2. /\ task' \in [Slot -> TaskType]
          /\ \A u \in Slot : task'[u].pc # "idle" => task'[u].node \in Node
          /\ \A u \in Slot : task'[u].pc = "commit" => task'[u].target # BadTarget
      <3>1. Idle.pc = "idle" BY DEF Idle
      <3> QED BY <2>1, <3>1, IdleType, OneTask
    <2> QED BY <1>4, <2>2 DEF TypeOK, StartStopped, StartRefused
  <1>5. ASSUME NEW s \in Slot, Begin(s) PROVE TypeOK'
    <2> DEFINE in == [p \in Node |->
                        IF p \in Pred(task[s].node) /\ task[s].node \in outs[p] THEN ver[p] ELSE 0]
    <2>1. in \in [Node -> Nat] BY DEF TypeOK
    <2>2. task' = [task EXCEPT ![s] = Entered(task[s], in)] BY <1>5 DEF Begin
    <2>3. task[s] \in TaskType /\ task[s].node \in Node BY <1>5 DEF TypeOK, Begin
    <2> HIDE DEF in
    <2>4. /\ task' \in [Slot -> TaskType]
          /\ \A u \in Slot : task'[u].pc # "idle" => task'[u].node \in Node
          /\ \A u \in Slot : task'[u].pc = "commit" => task'[u].target # BadTarget
      BY <2>1, <2>2, <2>3, EnteredType, OneTask
    <2> QED BY <1>5, <2>4 DEF TypeOK, Begin
  <1>6. ASSUME NEW s \in Slot, NEW isPause \in BOOLEAN, ExecError(s, isPause) PROVE TypeOK'
    <2>1. task' = [task EXCEPT ![s] = Idle] BY <1>6 DEF ExecError
    <2>2. /\ task' \in [Slot -> TaskType]
          /\ \A u \in Slot : task'[u].pc # "idle" => task'[u].node \in Node
          /\ \A u \in Slot : task'[u].pc = "commit" => task'[u].target # BadTarget
      <3>1. Idle.pc = "idle" BY DEF Idle
      <3> QED BY <2>1, <3>1, IdleType, OneTask
    <2>3. firstErr' \in BOOLEAN /\ pause' \in BOOLEAN
      BY <1>6 DEF ExecError
    <2> QED BY <1>6, <2>2, <2>3 DEF TypeOK, ExecError
  <1>7. ASSUME NEW s \in Slot, task[s].pc = "exec", NEW L \in LiveSets[task[s].node],
               NEW logOk \in BOOLEAN, ExecStale(s, L, logOk)
        PROVE  TypeOK'
    <2> DEFINE n == task[s].node
               q == IF RefireNow(n) THEN {n} ELSE {}
    <2>1. task' = [task EXCEPT ![s] = Launching(task[s], q, generation)]
      BY <1>7 DEF ExecStale
    <2>2. task[s] \in TaskType /\ n \in Node BY <1>7 DEF TypeOK
    <2>3. q \in SUBSET Node /\ generation \in [Node -> Nat] BY <2>2 DEF TypeOK
    <2>4. L \in SUBSET Node BY <2>2, LiveSetType
    <2>5. /\ outs' \in [Node -> SUBSET Node]
          /\ ver' \in [Node -> Nat]
          /\ used' \in [Node -> [Node -> Nat]]
          /\ logged' \subseteq Node
          /\ firstErr' \in BOOLEAN
      BY <1>7, <2>2, <2>4, RecordOutputsType DEF ExecStale
    <2>6. inFlight' \subseteq Node
      BY <1>7 DEF ExecStale, TypeOK
    <2> HIDE DEF q
    <2>7. /\ task' \in [Slot -> TaskType]
          /\ \A u \in Slot : task'[u].pc # "idle" => task'[u].node \in Node
          /\ \A u \in Slot : task'[u].pc = "commit" => task'[u].target # BadTarget
      <3>1. /\ Launching(task[s], q, generation) \in TaskType
            /\ Launching(task[s], q, generation).pc # "idle"
                  => Launching(task[s], q, generation).node \in Node
            /\ Launching(task[s], q, generation).pc # "commit"
        BY <2>2, <2>3, LaunchingType
      <3> QED BY <2>1, <3>1, OneTask
    <2> QED BY <1>7, <2>5, <2>6, <2>7 DEF TypeOK, ExecStale
  <1>8. ASSUME NEW s \in Slot, task[s].pc = "exec", NEW L \in LiveSets[task[s].node],
               NEW logOk \in BOOLEAN, NEW req \in Rewind[task[s].node] \cup {None},
               NEW park \in BOOLEAN, ExecOk(s, L, logOk, req, park)
        PROVE  TypeOK'
    <2>1. task' = [task EXCEPT ![s] = Returned(task[s], L, req, park)] BY <1>8 DEF ExecOk
    <2>2. task[s] \in TaskType /\ task[s].node \in Node BY <1>8 DEF TypeOK
    <2>3. L \in SUBSET Node BY <2>2, LiveSetType
    <2>4. req \in Node \cup {BadTarget, None} BY <2>2, GraphAssumption
    <2>5. /\ outs' \in [Node -> SUBSET Node]
          /\ ver' \in [Node -> Nat]
          /\ used' \in [Node -> [Node -> Nat]]
          /\ logged' \subseteq Node
          /\ firstErr' \in BOOLEAN
      BY <1>8, <2>2, <2>3, RecordOutputsType DEF ExecOk
    <2>6. inFlight' \subseteq Node
      BY <1>8 DEF ExecOk, TypeOK
    <2>7. /\ task' \in [Slot -> TaskType]
          /\ \A u \in Slot : task'[u].pc # "idle" => task'[u].node \in Node
          /\ \A u \in Slot : task'[u].pc = "commit" => task'[u].target # BadTarget
      <3>1. /\ Returned(task[s], L, req, park) \in TaskType
            /\ Returned(task[s], L, req, park).node \in Node
            /\ Returned(task[s], L, req, park).pc = "commit"
                  => Returned(task[s], L, req, park).target # BadTarget
        BY <2>2, <2>3, <2>4, ReturnedType, Distinct
      <3> QED BY <2>1, <3>1, OneTask
    <2> QED BY <1>8, <2>5, <2>6, <2>7 DEF TypeOK, ExecOk
  <1>9. ASSUME NEW s \in Slot, ResolveBadTarget(s) PROVE TypeOK'
    <2>1. task' = [task EXCEPT ![s] = Resolved(task[s], None, TRUE)]
      BY <1>9 DEF ResolveBadTarget
    <2>2. task[s] \in TaskType /\ task[s].node \in Node BY <1>9 DEF TypeOK, ResolveBadTarget
    <2>3. /\ task' \in [Slot -> TaskType]
          /\ \A u \in Slot : task'[u].pc # "idle" => task'[u].node \in Node
          /\ \A u \in Slot : task'[u].pc = "commit" => task'[u].target # BadTarget
      <3>1. /\ Resolved(task[s], None, TRUE) \in TaskType
            /\ Resolved(task[s], None, TRUE).node \in Node
            /\ Resolved(task[s], None, TRUE).target # BadTarget
        BY <2>2, ResolvedSafe
      <3> QED BY <2>1, <3>1, OneTask
    <2> QED BY <1>9, <2>3 DEF TypeOK, ResolveBadTarget
  <1>10. ASSUME NEW s \in Slot, NEW logOk \in BOOLEAN, ResolveCharge(s, logOk) PROVE TypeOK'
    <2> DEFINE granted == backtracks + 1 <= MaxBacktracks
               target == IF granted THEN task[s].target ELSE None
               err == ~granted \/ ~logOk
    <2>1. task' = [task EXCEPT ![s] = Resolved(task[s], target, err)]
      BY <1>10 DEF ResolveCharge
    <2>2. task[s] \in TaskType /\ task[s].node \in Node BY <1>10 DEF TypeOK, ResolveCharge
    <2>3. target \in Node \cup {None} /\ err \in BOOLEAN
      BY <1>10, <2>2 DEF ResolveCharge, TaskType
    <2> HIDE DEF granted, target, err
    <2>4. /\ task' \in [Slot -> TaskType]
          /\ \A u \in Slot : task'[u].pc # "idle" => task'[u].node \in Node
          /\ \A u \in Slot : task'[u].pc = "commit" => task'[u].target # BadTarget
      <3>1. /\ Resolved(task[s], target, err) \in TaskType
            /\ Resolved(task[s], target, err).node \in Node
            /\ Resolved(task[s], target, err).target # BadTarget
        BY <2>2, <2>3, ResolvedSafe
      <3> QED BY <2>1, <3>1, OneTask
    <2> QED BY <1>10, <2>4 DEF TypeOK, ResolveCharge
  <1>11. ASSUME NEW s \in Slot, NEW logOk \in BOOLEAN, Commit(s, logOk) PROVE TypeOK'
    BY <1>11, CommitType
  <1>12. ASSUME NEW s \in Slot, NEW n \in Node, NEW u \in Slot, Launch(s, n, u) PROVE TypeOK'
    <2>1. /\ task[s] \in TaskType /\ task[s].node \in Node
          /\ task[s].gens[n] \in Nat /\ task[s].gens \in [Node -> Nat]
          /\ task[s].queue \ {n} \in SUBSET Node
      BY <1>12 DEF TypeOK, TaskType, Launch
    <2> DEFINE child == Spawned(n, task[s].gens[n])
               rest == Launching(task[s], task[s].queue \ {n}, task[s].gens)
    <2>2. task' = [task EXCEPT ![u] = child, ![s] = rest]
      BY <1>12 DEF Launch
    <2>3. child \in TaskType /\ child.node \in Node /\ child.pc # "commit"
      BY <2>1, SpawnedType
    <2>4. rest \in TaskType /\ (rest.pc # "idle" => rest.node \in Node) /\ rest.pc # "commit"
      BY <2>1, LaunchingType
    <2> HIDE DEF child, rest
    <2>5. /\ task' \in [Slot -> TaskType]
          /\ \A w \in Slot : task'[w].pc # "idle" => task'[w].node \in Node
          /\ \A w \in Slot : task'[w].pc = "commit" => task'[w].target # BadTarget
      BY <2>2, <2>3, <2>4 DEF TypeOK
    <2> QED BY <1>12, <2>5 DEF TypeOK, Launch
  <1>13. CASE UNCHANGED vars
    BY <1>13 DEF TypeOK, vars
  <1> QED
    BY <1>1, <1>2, <1>3, <1>4, <1>5, <1>6, <1>7, <1>8, <1>9, <1>10, <1>11, <1>12, <1>13
    DEF Next, Run, Dispatch, Start, Return, Resolve

\* The maps of Run and the goroutines on its slots always have their types, and
\* no unvalidated backtrack target reaches a commit.
THEOREM TypeCorrect == Spec => []TypeOK
  BY InitType, TypeStep, PTL DEF Spec

(***************************************************************************)
(* One claim per node.  NoDoubleDispatch is not inductive: a launch queue  *)
(* or a seed could hold a node that is already executing.  ClaimInv adds   *)
(* those places and ties all of them to the inFlight bit.                  *)
(***************************************************************************)
LEMMA InitClaim == Init => ClaimInv
  <1> SUFFICES ASSUME Init PROVE ClaimInv
    OBVIOUS
  <1>1. \A s \in Slot : task[s].pc = "idle" /\ task[s].queue = {}
    BY DEF Init, Idle
  <1>2. seeds = inFlight /\ phase = "running"
    BY DEF Init
  <1> QED BY <1>1, <1>2 DEF ClaimInv, Claimed, Exclusive, Quiet, NoDoubleDispatch, Executing

\* A goroutine moves: it keeps its claim, gives it up, or turns it and fresh
\* claims into the queue q.
LEMMA ClaimMove ==
    ASSUME TypeOK, ClaimInv, NEW s \in Slot, task[s].pc # "idle", task[s].pc # "launch",
           NEW r, NEW q, r.queue = q,
           r.pc # "launch" => q = {},
           r.pc \in {"start", "exec"} => Executing(s) /\ r.node = task[s].node
                                         /\ task[s].node \in inFlight',
           \A m \in q : m \in inFlight' /\ (m \notin inFlight \/ (Executing(s) /\ m = task[s].node)),
           \A m \in inFlight : m \in inFlight' \/ (Executing(s) /\ m = task[s].node),
           task' = [task EXCEPT ![s] = r],
           seeds' = seeds, phase' = phase
    PROVE  ClaimInv'
  <1>1. task \in [Slot -> TaskType] BY DEF TypeOK
  <1>2. task'[s] = r /\ \A u \in Slot : u # s => task'[u] = task[u]
    BY <1>1
  <1>3. phase = "running" /\ task[s].queue = {}
    BY DEF ClaimInv, Quiet
  <1>4. Claimed'
    BY <1>2, <1>3 DEF ClaimInv, Claimed, Exclusive, NoDoubleDispatch, Executing
  <1>5. NoDoubleDispatch'
    BY <1>2, <1>3 DEF ClaimInv, Exclusive, NoDoubleDispatch, Executing
  <1>6. \A u \in Slot : Executing(u)' => task'[u].node \notin seeds'
    BY <1>2, <1>3 DEF ClaimInv, Exclusive, Executing
  <1>7. \A u \in Slot : task'[u].queue \cap seeds' = {}
    <2>1. q \cap seeds = {}
      BY DEF ClaimInv, Claimed, Exclusive
    <2> QED BY <1>2, <2>1 DEF ClaimInv, Exclusive
  <1>8. \A u, w \in Slot : Executing(u)' => task'[u].node \notin task'[w].queue
    <2> SUFFICES ASSUME NEW u \in Slot, NEW w \in Slot, Executing(u)',
                        task'[u].node \in task'[w].queue
                 PROVE  FALSE
      OBVIOUS
    <2>1. CASE u = s
      BY <1>2, <1>3, <2>1 DEF ClaimInv, Exclusive, Executing
    <2>2. CASE u # s /\ w # s
      BY <1>2, <2>2 DEF ClaimInv, Exclusive, Executing
    <2>3. CASE u # s /\ w = s
      BY <1>2, <2>3 DEF ClaimInv, Claimed, Exclusive, NoDoubleDispatch, Executing
    <2> QED BY <2>1, <2>2, <2>3
  <1>9. \A u, w \in Slot : u # w => task'[u].queue \cap task'[w].queue = {}
    <2>1. \A u \in Slot : u # s => task[u].queue \cap q = {}
      BY DEF ClaimInv, Claimed, Exclusive
    <2> QED BY <1>2, <2>1 DEF ClaimInv, Exclusive
  <1>10. Quiet'
    BY <1>2, <1>3 DEF ClaimInv, Quiet
  <1> QED BY <1>4, <1>5, <1>6, <1>7, <1>8, <1>9, <1>10 DEF ClaimInv, Exclusive, Executing

LEMMA ClaimStep == TypeOK /\ ClaimInv /\ [Next]_vars => ClaimInv'
  <1> SUFFICES ASSUME TypeOK, ClaimInv, [Next]_vars PROVE ClaimInv'
    OBVIOUS
  <1> USE DEF traversal, control, state
  <1>t. task \in [Slot -> TaskType] /\ \A u \in Slot : task[u] \in TaskType
    BY DEF TypeOK
  <1>i. Idle.pc = "idle" /\ Idle.queue = {}
    BY DEF Idle
  <1>1. CASE Finish
    BY <1>1 DEF Finish, ClaimInv, Claimed, Exclusive, Quiet, NoDoubleDispatch, Executing
  <1>2. ASSUME NEW n \in Node, NEW s \in Slot, SeedLaunch(n, s) PROVE ClaimInv'
    <2> DEFINE r == Spawned(n, generation[n])
    <2>1. r.pc = "start" /\ r.node = n /\ r.queue = {}
      <3>1. generation[n] \in Nat BY DEF TypeOK
      <3> QED BY <3>1, SpawnedType
    <2> HIDE DEF r
    <2>2. task'[s] = r /\ \A u \in Slot : u # s => task'[u] = task[u]
      BY <1>2, <1>t DEF SeedLaunch, r
    <2>3. /\ n \in seeds /\ seeds' = seeds \ {n} /\ inFlight' = inFlight /\ phase' = phase
          /\ task[s].pc = "idle"
      BY <1>2 DEF SeedLaunch
    <2>4. phase = "running"
      BY <2>3 DEF ClaimInv, Quiet
    <2>5. Claimed'
      BY <2>1, <2>2, <2>3 DEF ClaimInv, Claimed, Executing
    <2>6. Exclusive'
      BY <2>1, <2>2, <2>3 DEF ClaimInv, Claimed, Exclusive, NoDoubleDispatch, Executing
    <2>7. Quiet'
      BY <2>1, <2>2, <2>3, <2>4 DEF ClaimInv, Quiet
    <2> QED BY <2>5, <2>6, <2>7 DEF ClaimInv
  <1>3. CASE Resume
    <2>1. \A u \in Slot : task'[u].pc = "idle" /\ task'[u].queue = {}
      BY <1>3 DEF Resume, ClaimInv, Quiet
    <2>2. seeds' = inFlight' /\ phase' = "running"
      BY <1>3 DEF Resume, FreshRun
    <2> QED BY <2>1, <2>2 DEF ClaimInv, Claimed, Exclusive, Quiet, NoDoubleDispatch, Executing
  <1>4. ASSUME NEW s \in Slot, StartStopped(s) \/ StartRefused(s) PROVE ClaimInv'
    BY <1>4, <1>i, ClaimMove DEF StartStopped, StartRefused
  <1>5. ASSUME NEW s \in Slot, Begin(s) PROVE ClaimInv'
    <2> DEFINE in == [p \in Node |->
                        IF p \in Pred(task[s].node) /\ task[s].node \in outs[p] THEN ver[p] ELSE 0]
               r == Entered(task[s], in)
    <2>1. in \in [Node -> Nat] BY DEF TypeOK
    <2>2. /\ task' = [task EXCEPT ![s] = r] /\ inFlight' = inFlight
          /\ seeds' = seeds /\ phase' = phase /\ task[s].pc = "start"
      BY <1>5 DEF Begin
    <2> HIDE DEF in
    <2>3. r.pc = "exec" /\ r.node = task[s].node /\ r.queue = {}
      BY <1>t, <2>1, <2>2, EnteredType DEF ClaimInv, Quiet
    <2>4. Executing(s) /\ task[s].node \in inFlight
      BY <2>2 DEF ClaimInv, Claimed, Executing
    <2> HIDE DEF r
    <2> QED BY <2>2, <2>3, <2>4, ClaimMove
  <1>6. ASSUME NEW s \in Slot, NEW isPause \in BOOLEAN, ExecError(s, isPause) PROVE ClaimInv'
    <2>1. Executing(s) BY <1>6 DEF ExecError, Executing
    <2> QED BY <1>6, <1>i, <2>1, ClaimMove DEF ExecError
  <1>7. ASSUME NEW s \in Slot, task[s].pc = "exec", NEW L \in LiveSets[task[s].node],
               NEW logOk \in BOOLEAN, ExecStale(s, L, logOk)
        PROVE  ClaimInv'
    <2> DEFINE n == task[s].node
               again == RefireNow(n)
               q == IF again THEN {n} ELSE {}
               r == Launching(task[s], q, generation)
    <2>1. /\ task' = [task EXCEPT ![s] = r] /\ seeds' = seeds /\ phase' = phase
          /\ inFlight' = IF again THEN inFlight ELSE inFlight \ {n}
      BY <1>7 DEF ExecStale
    <2>2. n \in Node /\ generation \in [Node -> Nat] BY <1>7 DEF TypeOK
    <2>3. r.pc \in {"idle", "launch"} /\ r.queue = q /\ (r.pc # "launch" => q = {})
      <3>1. q \in SUBSET Node BY <2>2
      <3> HIDE DEF q
      <3> QED BY <1>t, <2>2, <3>1, LaunchingType
    <2>4. Executing(s) /\ n \in inFlight
      BY <1>7 DEF ClaimInv, Claimed, Executing
    <2>5. /\ \A m \in q : m \in inFlight' /\ m = n
          /\ \A m \in inFlight : m \in inFlight' \/ m = n
      BY <2>1, <2>4
    <2> HIDE DEF q, r, again
    <2> QED BY <1>7, <2>1, <2>3, <2>4, <2>5, ClaimMove
  <1>8. ASSUME NEW s \in Slot, task[s].pc = "exec", NEW L \in LiveSets[task[s].node],
               NEW logOk \in BOOLEAN, NEW req \in Rewind[task[s].node] \cup {None},
               NEW park \in BOOLEAN, ExecOk(s, L, logOk, req, park)
        PROVE  ClaimInv'
    <2> DEFINE r == Returned(task[s], L, req, park)
    <2>1. /\ task' = [task EXCEPT ![s] = r] /\ seeds' = seeds /\ phase' = phase
          /\ inFlight' = inFlight \ {task[s].node}
      BY <1>8 DEF ExecOk
    <2>2. task[s].node \in Node BY <1>8 DEF TypeOK
    <2>3. L \in SUBSET Node /\ req \in Node \cup {BadTarget, None}
      BY <2>2, LiveSetType, GraphAssumption
    <2>4. r.pc \in {"commit", "resolve"} /\ r.queue = {}
      BY <1>8, <1>t, <2>3, ReturnedType DEF ClaimInv, Quiet
    <2>5. Executing(s) BY <1>8 DEF Executing
    <2> HIDE DEF r
    <2> QED BY <1>8, <2>1, <2>4, <2>5, ClaimMove
  <1>9. ASSUME NEW s \in Slot, ResolveBadTarget(s) PROVE ClaimInv'
    <2> DEFINE r == Resolved(task[s], None, TRUE)
    <2>1. /\ task' = [task EXCEPT ![s] = r] /\ seeds' = seeds /\ phase' = phase
          /\ inFlight' = inFlight /\ task[s].pc = "resolve"
      BY <1>9 DEF ResolveBadTarget
    <2>2. r.pc = "commit" /\ r.queue = {}
      <3>1. task[s] \in TaskType /\ task[s].queue = {}
        BY <1>t, <2>1 DEF ClaimInv, Quiet
      <3>2. TRUE \in BOOLEAN /\ None \in Node \cup {None}
        OBVIOUS
      <3> QED BY <3>1, <3>2, ResolvedType
    <2> HIDE DEF r
    <2> QED BY <2>1, <2>2, ClaimMove
  <1>10. ASSUME NEW s \in Slot, NEW logOk \in BOOLEAN, ResolveCharge(s, logOk) PROVE ClaimInv'
    <2> DEFINE granted == backtracks + 1 <= MaxBacktracks
               target == IF granted THEN task[s].target ELSE None
               err == ~granted \/ ~logOk
               r == Resolved(task[s], target, err)
    <2>1. /\ task' = [task EXCEPT ![s] = r] /\ seeds' = seeds /\ phase' = phase
          /\ inFlight' = inFlight /\ task[s].pc = "resolve" /\ task[s].target # BadTarget
      BY <1>10 DEF ResolveCharge
    <2>2. target \in Node \cup {None} /\ err \in BOOLEAN
      BY <1>t, <2>1 DEF TaskType
    <2> HIDE DEF target, err
    <2>3. r.pc = "commit" /\ r.queue = {}
      BY <1>t, <2>1, <2>2, ResolvedType DEF ClaimInv, Quiet
    <2> HIDE DEF r
    <2> QED BY <2>1, <2>3, ClaimMove
  <1>11. ASSUME NEW s \in Slot, NEW logOk \in BOOLEAN, Commit(s, logOk) PROVE ClaimInv'
    <2>1. PICK q \in SUBSET Node, g \in [Node -> Nat] :
              /\ q \cap inFlight = {}
              /\ inFlight' = inFlight \cup q
              /\ task' = [task EXCEPT ![s] = Launching(task[s], q, g)]
      BY <1>11, CommitClaims
    <2>2. /\ task[s].pc = "commit" /\ seeds' = seeds /\ phase' = phase
      BY <1>11 DEF Commit
    <2> DEFINE r == Launching(task[s], q, g)
    <2>3. r.pc \in {"idle", "launch"} /\ r.queue = q /\ (r.pc # "launch" => q = {})
      <3>1. task[s].node \in Node BY <2>2 DEF TypeOK
      <3> QED BY <1>t, <3>1, LaunchingType
    <2>4. task' = [task EXCEPT ![s] = r] BY <2>1
    <2> HIDE DEF r
    <2> QED BY <2>1, <2>2, <2>3, <2>4, ClaimMove
  <1>12. ASSUME NEW s \in Slot, NEW n \in Node, NEW u \in Slot, Launch(s, n, u) PROVE ClaimInv'
    <2> DEFINE child == Spawned(n, task[s].gens[n])
               rest == Launching(task[s], task[s].queue \ {n}, task[s].gens)
    <2>1. /\ task[s].node \in Node /\ task[s].gens[n] \in Nat
          /\ task[s].gens \in [Node -> Nat] /\ task[s].queue \ {n} \in SUBSET Node
      BY <1>12 DEF TypeOK, TaskType, Launch
    <2>2. child.pc = "start" /\ child.node = n /\ child.queue = {}
      BY <2>1, SpawnedType
    <2>3. /\ rest.pc \in {"idle", "launch"} /\ rest.queue = task[s].queue \ {n}
          /\ rest.pc # "launch" => task[s].queue \ {n} = {}
      BY <1>t, <2>1, LaunchingType
    <2>4. /\ task[s].pc = "launch" /\ n \in task[s].queue /\ task[u].pc = "idle"
          /\ inFlight' = inFlight /\ seeds' = seeds /\ phase' = phase
          /\ task' = [task EXCEPT ![u] = child, ![s] = rest]
      BY <1>12 DEF Launch
    <2> HIDE DEF child, rest
    <2>5. /\ s # u /\ task'[u] = child /\ task'[s] = rest
          /\ \A w \in Slot : w # s /\ w # u => task'[w] = task[w]
      BY <1>t, <2>4
    <2>6. phase = "running" /\ task[u].queue = {}
      BY <2>4 DEF ClaimInv, Quiet
    <2>7. Claimed'
      <3>1. n \in inFlight /\ task[s].queue \subseteq inFlight /\ seeds \subseteq inFlight
        BY <2>4 DEF ClaimInv, Claimed
      <3>2. \A w \in Slot : Executing(w)' => task'[w].node \in inFlight'
        <4> SUFFICES ASSUME NEW w \in Slot, Executing(w)' PROVE task'[w].node \in inFlight'
          OBVIOUS
        <4>1. CASE w = u
          BY <2>2, <2>4, <2>5, <3>1, <4>1
        <4>2. CASE w = s
          BY <2>3, <2>5, <4>2 DEF Executing
        <4>3. CASE w # u /\ w # s
          <5>1. task'[w] = task[w] BY <2>5, <4>3
          <5>2. Executing(w) BY <5>1 DEF Executing
          <5> QED BY <2>4, <5>1, <5>2 DEF ClaimInv, Claimed
        <4> QED BY <4>1, <4>2, <4>3
      <3>3. \A w \in Slot : task'[w].queue \subseteq inFlight'
        BY <2>2, <2>3, <2>4, <2>5, <3>1 DEF ClaimInv, Claimed
      <3> QED BY <2>4, <3>1, <3>2, <3>3 DEF Claimed, Executing
    <2>8. NoDoubleDispatch'
      <3>1. \A w \in Slot : Executing(w)' /\ w # u =>
                Executing(w) /\ task'[w] = task[w] /\ task[w].node # n
        <4> SUFFICES ASSUME NEW w \in Slot, Executing(w)', w # u
                     PROVE  Executing(w) /\ task'[w] = task[w] /\ task[w].node # n
          OBVIOUS
        <4>1. w # s BY <2>3, <2>5 DEF Executing
        <4>2. task'[w] = task[w] BY <2>5, <4>1
        <4>3. Executing(w) BY <4>2 DEF Executing
        <4>4. task[w].node \notin task[s].queue BY <4>3 DEF ClaimInv, Exclusive
        <4> QED BY <2>4, <4>2, <4>3, <4>4
      <3>2. task'[u].node = n BY <2>2, <2>5
      <3>3. \A w, x \in Slot :
                Executing(w) /\ Executing(x) /\ task[w].node = task[x].node => w = x
        BY DEF ClaimInv, Exclusive, NoDoubleDispatch
      <3>4. \A w, x \in Slot :
                Executing(w)' /\ Executing(x)' /\ task'[w].node = task'[x].node => w = x
        BY <3>1, <3>2, <3>3
      <3> QED BY <3>4 DEF NoDoubleDispatch, Executing
    <2>9. \A w \in Slot : Executing(w)' => task'[w].node \notin seeds'
      <3>1. n \notin seeds
        BY <2>4 DEF ClaimInv, Exclusive
      <3> SUFFICES ASSUME NEW w \in Slot, Executing(w)' PROVE task'[w].node \notin seeds'
        OBVIOUS
      <3>2. CASE w = u
        BY <2>2, <2>4, <2>5, <3>1, <3>2
      <3>3. CASE w = s
        BY <2>3, <2>5, <3>3 DEF Executing
      <3>4. CASE w # u /\ w # s
        <4>1. task'[w] = task[w] BY <2>5, <3>4
        <4>2. Executing(w) BY <4>1 DEF Executing
        <4> QED BY <2>4, <4>1, <4>2 DEF ClaimInv, Exclusive
      <3> QED BY <3>2, <3>3, <3>4
    <2>10. \A w \in Slot : task'[w].queue \cap seeds' = {}
      BY <2>2, <2>3, <2>4, <2>5 DEF ClaimInv, Exclusive
    <2>11. \A w, x \in Slot : Executing(w)' => task'[w].node \notin task'[x].queue
      <3> SUFFICES ASSUME NEW w \in Slot, NEW x \in Slot, Executing(w)'
                   PROVE  task'[w].node \notin task'[x].queue
        OBVIOUS
      <3>1. task'[x].queue \subseteq task[x].queue
        BY <2>2, <2>3, <2>5
      <3>2. CASE w = u
        <4>1. task'[w].node = n BY <2>2, <2>5, <3>2
        <4>2. n \notin task'[s].queue BY <2>3, <2>5
        <4>3. x # s => n \notin task[x].queue
          BY <2>4 DEF ClaimInv, Exclusive
        <4> QED BY <3>1, <4>1, <4>2, <4>3
      <3>3. CASE w = s
        BY <2>3, <2>5, <3>3 DEF Executing
      <3>4. CASE w # u /\ w # s
        <4>1. task'[w] = task[w] BY <2>5, <3>4
        <4>2. Executing(w) BY <4>1 DEF Executing
        <4>3. task[w].node \notin task[x].queue BY <4>2 DEF ClaimInv, Exclusive
        <4> QED BY <3>1, <4>1, <4>3
      <3> QED BY <3>2, <3>3, <3>4
    <2>12. \A w, x \in Slot : w # x => task'[w].queue \cap task'[x].queue = {}
      <3>1. \A w \in Slot : task'[w].queue \subseteq task[w].queue
        BY <2>2, <2>3, <2>5
      <3>2. \A w, x \in Slot : w # x => task[w].queue \cap task[x].queue = {}
        BY DEF ClaimInv, Exclusive
      <3> QED BY <3>1, <3>2
    <2>13. Quiet'
      BY <2>2, <2>3, <2>4, <2>5, <2>6 DEF ClaimInv, Quiet
    <2> QED BY <2>7, <2>8, <2>9, <2>10, <2>11, <2>12, <2>13 DEF ClaimInv, Exclusive, Executing
  <1>13. CASE UNCHANGED vars
    BY <1>13 DEF vars, ClaimInv, Claimed, Exclusive, Quiet, NoDoubleDispatch, Executing
  <1> QED
    BY <1>1, <1>2, <1>3, <1>4, <1>5, <1>6, <1>7, <1>8, <1>9, <1>10, <1>11, <1>12, <1>13
    DEF Next, Run, Dispatch, Start, Return, Resolve

\* Every claim on a node holds its inFlight bit and is the only one.
THEOREM ClaimsExclusive == Spec => []ClaimInv
  BY InitType, TypeStep, InitClaim, ClaimStep, PTL DEF Spec

\* Whatever rewinds, skips, errors and resumes happen, on whatever graph, two
\* dispatches of one node never execute at the same time.
THEOREM NeverDoubleDispatched == Spec => []NoDoubleDispatch
  <1>1. ClaimInv => NoDoubleDispatch
    BY DEF ClaimInv, Exclusive
  <1> QED BY <1>1, ClaimsExclusive, PTL
-----------------------------------------------------------------------------
(* The graph: reachability, and a first unsettled node.                      *)

LEMMA ReachReflexive == \A n \in Node : <<n, n>> \in Reach
  BY DEF Reach

LEMMA ReachEdge ==
    ASSUME NEW n \in Node, NEW m \in Node, <<n, m>> \in Edge
    PROVE  <<n, m>> \in Reach
  BY DEF Reach, Succ

LEMMA ReachTransitive ==
    ASSUME NEW x \in Node, NEW y \in Node, NEW z \in Node,
           <<x, y>> \in Reach, <<y, z>> \in Reach
    PROVE  <<x, z>> \in Reach
  BY DEF Reach

\* A node of a rewound set other than the target has a predecessor in the set.
LEMMA RewoundPred ==
    ASSUME NEW t \in Node, NEW m \in DescendantsInclusive(t), m # t
    PROVE  Pred(m) \cap DescendantsInclusive(t) # {}
  <1> SUFFICES ASSUME Pred(m) \cap DescendantsInclusive(t) = {} PROVE FALSE
    OBVIOUS
  <1> DEFINE S == DescendantsInclusive(t) \ {m}
  <1>1. m \in Node /\ <<t, m>> \in Reach
    BY DEF DescendantsInclusive
  <1>2. S \in SUBSET Node /\ t \in S
    BY ReachReflexive DEF DescendantsInclusive
  <1>3. ASSUME NEW x \in S, NEW y \in Succ(x) PROVE y \in S
    <2>1. x \in Node /\ y \in Node /\ <<x, y>> \in Edge /\ <<t, x>> \in Reach
      BY <1>3 DEF DescendantsInclusive, Succ
    <2>2. <<t, y>> \in Reach
      BY <2>1, ReachEdge, ReachTransitive
    <2>3. y # m
      BY <2>1 DEF Pred, DescendantsInclusive
    <2> QED BY <2>1, <2>2, <2>3 DEF DescendantsInclusive
  <1>4. m \in S
    <2> HIDE DEF S
    <2>1. \A x \in S : Succ(x) \subseteq S
      BY <1>3
    <2>2. \A Q \in SUBSET Node : (t \in Q /\ \A x \in Q : Succ(x) \subseteq Q) => m \in Q
      BY <1>1 DEF Reach
    <2> QED BY <1>2, <2>1, <2>2
  <1> QED BY <1>4

\* The graph is finite and acyclic: every nonempty set of nodes has a node that no
\* other node of the set feeds.
LEMMA FirstNode ==
    ASSUME NEW U \in SUBSET Node, U # {}
    PROVE  \E m \in U : Pred(m) \cap U = {}
  <1> DEFINE Up(m) == {x \in Node : <<x, m>> \in Reach}
             T == {Up(m) : m \in U}
             R == StrictSubsetOrdering(Node)
  <1>1. T \subseteq FiniteSubsetsOf(Node)
    <2>1. \A m \in U : IsFiniteSet(Up(m)) /\ Up(m) \subseteq Node
      BY GraphAssumption, FS_Subset
    <2> QED BY <2>1 DEF FiniteSubsetsOf
  <1>2. T # {}
    OBVIOUS
  <1>3. IsWellFoundedOn(R, FiniteSubsetsOf(Node))
    BY FS_StrictSubsetOrderingWellFounded
  <1>4. \E x \in T : \A y \in T : ~(<<y, x>> \in R)
    <2> HIDE DEF T, R
    <2> QED BY <1>1, <1>2, <1>3, WFMin
  <1>5. PICK m \in U : \A y \in T : ~(<<y, Up(m)>> \in R)
    BY <1>4
  <1>6. ASSUME NEW p \in Pred(m) \cap U PROVE FALSE
    <2>1. p \in Node /\ m \in Node /\ <<p, m>> \in Edge
      BY DEF Pred
    <2>2. <<p, m>> \in Reach /\ <<m, m>> \in Reach
      BY <2>1, ReachEdge, ReachReflexive
    <2>3. <<m, p>> \notin Reach
      <3>1. \A e \in Edge : <<e[2], e[1]>> \notin Reach
        BY GraphAssumption
      <3> QED BY <2>1, <3>1
    <2>4. Up(p) \subseteq Up(m)
      BY <2>1, <2>2, ReachTransitive
    <2>5. m \in Up(m) /\ m \notin Up(p)
      BY <2>1, <2>2, <2>3
    <2>6. <<Up(p), Up(m)>> \in R
      <3>1. Up(p) \in SUBSET Node /\ Up(m) \in SUBSET Node
        OBVIOUS
      <3> HIDE DEF Up
      <3> QED BY <2>4, <2>5, <3>1 DEF StrictSubsetOrdering
    <2>7. Up(p) \in T
      OBVIOUS
    <2> QED BY <1>5, <2>6, <2>7
  <1> QED BY <1>6

-----------------------------------------------------------------------------
(* Counting predecessors.                                                    *)

LEMMA PredFinite == ASSUME NEW m, NEW C
                    PROVE  IsFiniteSet(Pred(m)) /\ IsFiniteSet(Pred(m) \ C)
                           /\ IsFiniteSet(Pred(m) \cap C)
  <1>1. Pred(m) \subseteq Node /\ Pred(m) \ C \subseteq Node /\ Pred(m) \cap C \subseteq Node
    BY DEF Pred
  <1> QED BY <1>1, GraphAssumption, FS_Subset

\* The predecessors still to complete, when F completes on top of C: at most the
\* arrivals from F are gone.
LEMMA WaitLess ==
    ASSUME NEW m, NEW C, NEW F
    PROVE  /\ Cardinality(Pred(m) \ C) \in Nat
           /\ Cardinality(Pred(m) \ (C \cup F)) \in Nat
           /\ Arrivals(m, F) \in Nat
           /\ Cardinality(Pred(m) \ C) - Arrivals(m, F)
                  <= Cardinality(Pred(m) \ (C \cup F))
  <1> DEFINE A == Pred(m) \ C
             B == Pred(m) \cap F
             D == Pred(m) \ (C \cup F)
  <1>1. IsFiniteSet(A) /\ IsFiniteSet(B) /\ IsFiniteSet(D)
    BY PredFinite
  <1>2. A \subseteq D \cup B
    OBVIOUS
  <1> HIDE DEF A, B, D
  <1>3. Cardinality(A) \in Nat /\ Cardinality(B) \in Nat /\ Cardinality(D) \in Nat
        /\ Cardinality(D \cap B) \in Nat
    BY <1>1, FS_CardinalityType, FS_Intersection
  <1>4. /\ IsFiniteSet(D \cup B)
        /\ Cardinality(D \cup B) = Cardinality(D) + Cardinality(B) - Cardinality(D \cap B)
    BY <1>1, FS_Union
  <1>5. Cardinality(A) <= Cardinality(D \cup B)
    BY <1>2, <1>4, FS_Subset
  <1>6. Cardinality(A) - Cardinality(B) <= Cardinality(D)
    BY <1>3, <1>4, <1>5
  <1> QED BY <1>3, <1>6 DEF A, B, D, Arrivals

\* Fewer completed nodes, more to wait for.
LEMMA WaitMore ==
    ASSUME NEW m, NEW C, NEW D, D \subseteq C
    PROVE  /\ Cardinality(Pred(m) \ C) \in Nat
           /\ Cardinality(Pred(m) \ D) \in Nat
           /\ Cardinality(Pred(m) \ C) <= Cardinality(Pred(m) \ D)
  <1>1. Pred(m) \ C \subseteq Pred(m) \ D
    OBVIOUS
  <1>2. IsFiniteSet(Pred(m) \ C) /\ IsFiniteSet(Pred(m) \ D)
    BY PredFinite
  <1> QED BY <1>1, <1>2, FS_Subset, FS_CardinalityType

\* A node that waits has a predecessor to wait for.
LEMMA WaitsForSome ==
    ASSUME NEW m, NEW C
    PROVE  Cardinality(Pred(m) \ C) > 0 <=> Pred(m) \ C # {}
  <1>1. IsFiniteSet(Pred(m) \ C)
    BY PredFinite
  <1>2. Cardinality(Pred(m) \ C) \in Nat /\ (Cardinality(Pred(m) \ C) = 0 <=> Pred(m) \ C = {})
    BY <1>1, FS_CardinalityType, FS_EmptySet
  <1> QED BY <1>2

\* A rewind re-arms the in-degree of a node to the predecessors still to complete.
LEMMA RearmedWaits ==
    ASSUME NEW m, NEW R, NEW C, C \cap R = {}
    PROVE  RearmedInDeg(m, R, C) = Cardinality(Pred(m) \ C)
  <1>1. {p \in Pred(m) : p \in R \/ p \notin C} = Pred(m) \ C
    OBVIOUS
  <1> QED BY <1>1 DEF RearmedInDeg

-----------------------------------------------------------------------------
(* The skip worklist.                                                        *)

\* What has reported in stays in: the more nodes are skipped, the more are dead.
LEMMA DeadMonotone ==
    ASSUME NEW n, NEW L, NEW C, NEW d \in [Node -> Int], NEW v, NEW m \in Node,
           NEW A, NEW B, A \subseteq B, Dead(m, n, L, A, C, d, v)
    PROVE  Dead(m, n, L, B, C, d, v)
  <1> DEFINE X == Pred(m) \cap ({n} \cup A)
             Y == Pred(m) \cap ({n} \cup B)
  <1>1. X \subseteq Y /\ IsFiniteSet(X) /\ IsFiniteSet(Y)
    BY PredFinite
  <1>2. Cardinality(X) \in Nat /\ Cardinality(Y) \in Nat /\ Cardinality(X) <= Cardinality(Y)
    <2> HIDE DEF X, Y
    <2> QED BY <1>1, FS_Subset, FS_CardinalityType
  <1>3. d[m] \in Int /\ d[m] - Cardinality(X) <= 0
    BY DEF Dead, Arrivals
  <1>4. d[m] - Cardinality(Y) <= 0
    <2> HIDE DEF X, Y
    <2> QED BY <1>2, <1>3
  <1>5. Y # {}
    BY <1>1 DEF Dead
  <1> QED BY <1>4, <1>5 DEF Dead, Arrivals

\* The worklist ends: a set that holds exactly the nodes it makes dead exists (the
\* union of the sets whose nodes it keeps dead), so SkipClosure is one.
LEMMA SkipFixpoint ==
    ASSUME NEW n, NEW L, NEW C, NEW d \in [Node -> Int], NEW v
    PROVE  LET S == SkipClosure(n, L, C, d, v)
           IN  S \subseteq Node \ C /\ S = {m \in Node : Dead(m, n, L, S, C, d, v)}
  <1> DEFINE F(S) == {m \in Node : Dead(m, n, L, S, C, d, v)}
             W == {S \in SUBSET Node : S \subseteq F(S)}
             G == UNION W
  <1>1. ASSUME NEW A, NEW B, A \subseteq B PROVE F(A) \subseteq F(B)
    BY <1>1, DeadMonotone
  <1>2. \A S : F(S) \subseteq Node \ C
    BY DEF Dead
  <1> HIDE DEF F
  <1>3. G \subseteq F(G)
    <2> SUFFICES ASSUME NEW S \in W PROVE S \subseteq F(G)
      OBVIOUS
    <2>1. S \subseteq F(S) /\ S \subseteq G
      OBVIOUS
    <2> QED BY <1>1, <2>1
  <1>4. F(G) \subseteq F(F(G))
    BY <1>1, <1>3
  <1>5. F(G) \in W
    BY <1>2, <1>4
  <1>6. F(G) \subseteq G
    BY <1>5
  <1>7. G = F(G) /\ G \in SUBSET (Node \ C)
    BY <1>2, <1>3, <1>6
  <1> DEFINE H == CHOOSE S \in SUBSET (Node \ C) : S = F(S)
  <1>8. H \in SUBSET (Node \ C) /\ H = F(H)
    <2> HIDE DEF G
    <2> QED BY <1>7
  <1>9. SkipClosure(n, L, C, d, v) = H
    <2>1. SkipClosure(n, L, C, d, v) = Node \cap H
      BY DEF SkipClosure, F
    <2> HIDE DEF H
    <2> QED BY <1>8, <2>1
  <1> HIDE DEF H
  <1> QED BY <1>8, <1>9 DEF F

-----------------------------------------------------------------------------
(* A run that returns nil has settled every node.                            *)

\* Run's fresh maps: the entrypoints are claimed, every other node waits.
LEMMA FreshSettles ==
    ASSUME Rooted, seeds = Entry, inFlight = Entry, completed = {},
           inDeg = [n \in Node |-> IF n \in Entry THEN 0 ELSE Cardinality(Pred(n))]
    PROVE  SettleInv
  <1>1. \A m \in inFlight : Held(m)
    BY DEF Held
  <1>2. ASSUME NEW m \in Node
        PROVE  /\ m \in inFlight \/ inDeg[m] > 0
               /\ inDeg[m] <= Cardinality(Pred(m) \ completed)
    <2>1. Pred(m) \ completed = Pred(m)
      OBVIOUS
    <2>2. Cardinality(Pred(m)) \in Nat
      BY PredType, CountType
    <2>3. m \notin Entry => Cardinality(Pred(m)) > 0
      BY <2>1, WaitsForSome DEF Rooted
    <2> QED BY <2>1, <2>2, <2>3
  <1> QED BY <1>1, <1>2 DEF SettleInv

LEMMA FreshSettlesNext ==
    ASSUME Rooted, seeds' = Entry, inFlight' = Entry, completed' = {},
           inDeg' = [n \in Node |-> IF n \in Entry THEN 0 ELSE Cardinality(Pred(n))]
    PROVE  SettleInv'
  <1>1. \A m \in inFlight' : Held(m)'
    BY DEF Held
  <1>2. ASSUME NEW m \in Node
        PROVE  /\ m \in inFlight' \/ inDeg'[m] > 0
               /\ inDeg'[m] <= Cardinality(Pred(m) \ completed')
    <2>1. Pred(m) \ completed' = Pred(m)
      OBVIOUS
    <2>2. Cardinality(Pred(m)) \in Nat
      BY PredType, CountType
    <2>3. m \notin Entry => Cardinality(Pred(m)) > 0
      <3>1. Pred(m) \ {} = Pred(m)
        OBVIOUS
      <3> QED BY <3>1, WaitsForSome DEF Rooted
    <2> QED BY <2>1, <2>2, <2>3
  <1> QED BY <1>1, <1>2 DEF SettleInv

\* One goroutine moves and the traversal maps stay: its claim is kept, handed to
\* its launch queue, given up for the commit, or given up by a node that waits.
LEMMA SettleMove ==
    ASSUME TypeOK, SettleInv, Going, NEW s \in Slot, NEW r,
           task' = [task EXCEPT ![s] = r],
           completed' = completed, inDeg' = inDeg, seeds' = seeds,
           inFlight' \subseteq inFlight,
           \A m \in inFlight' :
               (Executing(s) /\ task[s].node = m) \/ m \in task[s].queue =>
                   (r.pc \in {"start", "exec"} /\ r.node = m) \/ m \in r.queue,
           \A m \in (inFlight \ inFlight') \ completed :
               (r.pc \in {"resolve", "commit"} /\ r.node = m) \/ inDeg[m] > 0,
           task[s].pc \in {"resolve", "commit"} =>
               r.pc \in {"resolve", "commit"} /\ r.node = task[s].node
    PROVE  SettleInv'
  <1>1. task'[s] = r /\ \A u \in Slot : u # s => task'[u] = task[u]
    BY DEF TypeOK
  <1>2. ASSUME NEW m \in inFlight' PROVE Held(m)'
    <2>1. Held(m)
      BY DEF SettleInv
    <2>2. CASE m \in seeds
      BY <2>2 DEF Held
    <2>3. ASSUME NEW u \in Slot, (Executing(u) /\ task[u].node = m) \/ m \in task[u].queue
          PROVE  Held(m)'
      <3>1. CASE u = s
        BY <1>1, <2>3, <3>1 DEF Held, Executing
      <3>2. CASE u # s
        BY <1>1, <2>3, <3>2 DEF Held, Executing
      <3> QED BY <3>1, <3>2
    <2> QED BY <2>1, <2>2, <2>3 DEF Held
  <1>3. ASSUME NEW m \in Node \ completed
        PROVE  m \in inFlight' \/ Returning(m)' \/ inDeg[m] > 0
    <2>1. CASE m \in inFlight
      BY <1>1, <2>1 DEF Returning
    <2>2. ASSUME NEW u \in Slot, task[u].node = m, task[u].pc \in {"resolve", "commit"}
          PROVE  Returning(m)'
      BY <1>1, <2>2 DEF Returning
    <2>3. m \in inFlight \/ Returning(m) \/ inDeg[m] > 0
      BY DEF SettleInv
    <2> QED BY <2>1, <2>2, <2>3 DEF Returning
  <1>4. \A m \in Node \ completed : inDeg[m] <= Cardinality(Pred(m) \ completed)
    BY DEF SettleInv
  <1> QED BY <1>2, <1>3, <1>4 DEF SettleInv

\* The commit: what it does to a node that is left unsettled.
LEMMA CommitSettles ==
    ASSUME TypeOK, ClaimInv, SettleInv, Going, NEW s \in Slot, NEW logOk \in BOOLEAN,
           Commit(s, logOk), Going'
    PROVE  SettleInv'
  <1> DEFINE t == task[s]
             n == t.node
             R == RefireSet(s)
             C == completed \ R
             K == skipped \ R
             d == [m \in Node |-> IF m \in R THEN RearmedInDeg(m, R, C) ELSE inDeg[m]]
             v == [m \in Node |-> IF m \in R THEN RearmedLiveIn(m, R, C, K) ELSE liveIn[m]]
             g == [m \in Node |-> IF m \in R THEN generation[m] + 1 ELSE generation[m]]
             backtrackReady == t.target # None /\ d[t.target] <= 0 /\ t.target \notin inFlight
             Done == IF n \in R THEN C ELSE C \cup {n}
             promotes == n \notin R /\ ~t.park
             S == IF promotes THEN SkipClosure(n, t.live, Done, d, v) ELSE {}
             from == IF promotes THEN {n} \cup S ELSE {}
             open == {m \in Node \ Done : Pred(m) \cap from # {}}
             d2 == [m \in Node |-> IF m \in open THEN d[m] - Arrivals(m, from) ELSE d[m]]
             v2 == [m \in Node |-> IF m \in open THEN v[m] + LiveArrivals(m, n, t.live) ELSE v[m]]
             ready == {m \in open : Promotable(m, d2, v2)}
             q == IF t.park THEN {} ELSE ready \cup (IF backtrackReady THEN {t.target} ELSE {})
             r == Launching(t, q, g)
  <1>1. /\ t.pc = "commit"
        /\ completed' = Done \cup S
        /\ inDeg' = d2
        /\ inFlight' = inFlight \cup q
        /\ pause' = (pause \/ t.park)
        /\ task' = [task EXCEPT ![s] = r]
        /\ seeds' = seeds
    BY DEF Commit, control
  <1>2. t \in TaskType /\ n \in Node /\ t.target \in Node \cup {None}
    BY <1>1 DEF TypeOK, TaskType
  <1>3. t.park = FALSE
    BY <1>1, <1>2 DEF Going, TaskType
  <1>4. R \in SUBSET Node
    BY RefireSetType
  <1>5. d \in [Node -> Int] /\ v \in [Node -> Nat] /\ g \in [Node -> Nat]
    <2>1. \A m \in Node : RearmedInDeg(m, R, C) \in Nat /\ RearmedLiveIn(m, R, C, K) \in Nat
      BY RearmedTypes
    <2> HIDE DEF R, C, K
    <2>2. d \in [Node -> Int]
      BY <2>1 DEF TypeOK
    <2>3. v \in [Node -> Nat]
      BY <2>1 DEF TypeOK
    <2>4. g \in [Node -> Nat]
      BY DEF TypeOK
    <2> HIDE DEF d, v, g
    <2> QED BY <2>2, <2>3, <2>4
  <1>6. promotes => /\ S \subseteq Node \ Done
                    /\ S = {m \in Node : Dead(m, n, t.live, S, Done, d, v)}
    <2> HIDE DEF d, v, Done, R
    <2> QED BY <1>5, SkipFixpoint
  <1>7. \A m \in Node : d[m] \in Int /\ v[m] \in Nat
    BY <1>5
  \* Before the promotion: what the rewind leaves a node to wait for.
  <1>8. \A m \in Node \ C : d[m] <= Cardinality(Pred(m) \ C)
    <2> SUFFICES ASSUME NEW m \in Node \ C PROVE d[m] <= Cardinality(Pred(m) \ C)
      OBVIOUS
    <2>1. CASE m \in R
      <3>1. RearmedInDeg(m, R, C) = Cardinality(Pred(m) \ C)
        BY RearmedWaits
      <3>2. d[m] = RearmedInDeg(m, R, C)
        BY <2>1
      <3>3. Cardinality(Pred(m) \ C) \in Nat
        BY PredFinite, FS_CardinalityType
      <3> QED BY <3>1, <3>2, <3>3
    <2>2. CASE m \notin R
      <3>1. m \in Node \ completed /\ d[m] = inDeg[m]
        BY <2>2
      <3>2. inDeg[m] \in Int /\ inDeg[m] <= Cardinality(Pred(m) \ completed)
        BY <3>1 DEF SettleInv, TypeOK
      <3>3. /\ Cardinality(Pred(m) \ completed) \in Nat
            /\ Cardinality(Pred(m) \ C) \in Nat
            /\ Cardinality(Pred(m) \ completed) <= Cardinality(Pred(m) \ C)
        BY WaitMore
      <3> HIDE DEF C, d
      <3> QED BY <3>1, <3>2, <3>3
    <2> QED BY <2>1, <2>2
  \* A node of the rewound set is the target or waits for another one.
  <1>9. \A m \in R : m = t.target \/ d[m] > 0
    <2> SUFFICES ASSUME NEW m \in R, m # t.target PROVE d[m] > 0
      OBVIOUS
    <2>1. t.target \in Node /\ R = DescendantsInclusive(t.target)
      BY <1>2 DEF RefireSet
    <2>2. Pred(m) \cap R # {}
      BY <2>1, RewoundPred
    <2>3. Pred(m) \ C # {}
      BY <2>2
    <2>4. m \in Node /\ d[m] = RearmedInDeg(m, R, C) /\ RearmedInDeg(m, R, C) = Cardinality(Pred(m) \ C)
      BY <1>4, RearmedWaits
    <2> QED BY <2>3, <2>4, WaitsForSome
  <1>10. completed' = C \cup (IF n \in R THEN {} ELSE from)
    BY <1>1, <1>3
  <1>11. from = IF n \in R THEN {} ELSE {n} \cup S
    BY <1>3
  <1>12. completed' = C \cup from
    BY <1>10, <1>11
  <1>13. \A m \in Node : d2[m] = IF m \in open THEN d[m] - Arrivals(m, from) ELSE d[m]
    <2> HIDE DEF open, d, from
    <2> QED OBVIOUS
  <1>14. ASSUME NEW m \in Node \ completed'
         PROVE  d2[m] <= Cardinality(Pred(m) \ completed')
    <2>1. m \in Node \ C
      BY <1>12
    <2>2. /\ Cardinality(Pred(m) \ C) \in Nat
          /\ Cardinality(Pred(m) \ completed') \in Nat
          /\ Arrivals(m, from) \in Nat
          /\ Cardinality(Pred(m) \ C) - Arrivals(m, from) <= Cardinality(Pred(m) \ completed')
      <3> HIDE DEF C, from
      <3> QED BY <1>12, WaitLess
    <2>3. d[m] \in Int /\ d[m] <= Cardinality(Pred(m) \ C)
      BY <1>7, <1>8, <2>1
    <2>4. CASE m \in open
      <3>1. d2[m] = d[m] - Arrivals(m, from)
        BY <1>13, <2>4
      <3> HIDE DEF d, d2, C, from
      <3> QED BY <2>2, <2>3, <3>1
    <2>5. CASE m \notin open
      <3>1. Pred(m) \cap from = {}
        <4>1. m \notin Done
          BY <1>1
        <4> HIDE DEF Done, from
        <4> QED BY <2>5, <4>1
      <3>2. Pred(m) \ completed' = Pred(m) \ C
        <4> HIDE DEF C, from
        <4> QED BY <1>12, <3>1
      <3>3. d2[m] = d[m]
        BY <1>13, <2>5
      <3> HIDE DEF d, d2, C
      <3> QED BY <2>3, <3>2, <3>3
    <2> QED BY <2>4, <2>5
  <1>15. /\ task'[s] = r
         /\ \A u \in Slot : u # s => task'[u] = task[u]
    <2> HIDE DEF r
    <2> QED BY <1>1 DEF TypeOK
  <1>16. r.queue = q
    <2>1. q \in SUBSET Node
      BY <1>2
    <2> HIDE DEF q, g
    <2> QED BY <1>2, <1>5, <2>1, LaunchingType
  <1>17. ASSUME NEW m \in Node \ completed', d2[m] <= 0, m \notin inFlight'
         PROVE  Returning(m)'
    <2>1. m \notin Done /\ m \notin S /\ m \notin C /\ m \notin inFlight /\ m \notin q
      BY <1>1, <1>12, <1>17
    <2>2. m \notin open
      <3> SUFFICES ASSUME m \in open PROVE FALSE
        OBVIOUS
      <3>1. d[m] - Arrivals(m, from) <= 0 /\ Pred(m) \cap from # {} /\ m \in Node
        BY <1>13, <1>17
      <3>2. ~(v2[m] > 0)
        BY <1>3, <1>17, <2>1 DEF Promotable
      <3>3. v2[m] = v[m] + LiveArrivals(m, n, t.live)
        <4> HIDE DEF open, v
        <4> QED BY <3>1
      <3>4. v[m] \in Nat /\ LiveArrivals(m, n, t.live) \in Nat
        BY <1>7 DEF LiveArrivals
      <3>5. v[m] + LiveArrivals(m, n, t.live) <= 0
        <4> HIDE DEF v, v2
        <4> QED BY <3>2, <3>3, <3>4
      <3>6. promotes /\ from = {n} \cup S
        BY <3>1
      <3>7. Dead(m, n, t.live, S, Done, d, v)
        <4> HIDE DEF d, v, S, from, Done
        <4> QED BY <2>1, <3>1, <3>5, <3>6 DEF Dead
      <3>8. m \in S
        <4> HIDE DEF d, v, S, Done, promotes
        <4> QED BY <1>6, <3>1, <3>6, <3>7
      <3> QED BY <2>1, <3>8
    <2>3. d[m] <= 0
      BY <1>13, <1>17, <2>2
    <2>4. m \notin R
      <3> SUFFICES ASSUME m \in R PROVE FALSE
        OBVIOUS
      <3>1. m = t.target
        <4>1. m = t.target \/ d[m] > 0
          BY <1>9
        <4>2. d[m] \in Int
          BY <1>7
        <4> HIDE DEF d
        <4> QED BY <2>3, <4>1, <4>2
      <3>2. t.target # None
        BY <1>17, <3>1, Distinct
      <3>3. backtrackReady
        <4> HIDE DEF d
        <4> QED BY <2>1, <2>3, <3>1, <3>2
      <3> QED BY <1>3, <2>1, <3>1, <3>3
    <2>5. m \notin completed /\ inDeg[m] <= 0
      BY <2>1, <2>3, <2>4
    <2>6. Returning(m)
      <3>1. inDeg[m] \in Int
        BY DEF TypeOK
      <3>2. m \in Node \ completed /\ m \notin inFlight /\ ~(inDeg[m] > 0)
        BY <2>1, <2>5, <3>1
      <3>3. \A x \in Node \ completed : x \in inFlight \/ Returning(x) \/ inDeg[x] > 0
        BY DEF SettleInv
      <3> QED BY <3>2, <3>3
    <2>7. m # n
      BY <2>1, <2>4
    <2> HIDE DEF r
    <2>8. PICK u \in Slot : task[u].node = m /\ task[u].pc \in {"resolve", "commit"}
      BY <2>6 DEF Returning
    <2>9. task'[u] = task[u]
      BY <1>15, <2>7, <2>8
    <2> QED BY <2>8, <2>9 DEF Returning
  <1> HIDE DEF t, n, R, C, K, d, v, g, backtrackReady, Done, promotes, S, from, open, d2, v2, ready, q, r
  <1>18. ASSUME NEW m \in inFlight' PROVE Held(m)'
    <2>1. CASE m \in q
      BY <1>15, <1>16, <2>1 DEF Held
    <2>2. CASE m \in inFlight
      <3>1. Held(m)
        BY <2>2 DEF SettleInv
      <3>2. ASSUME NEW u \in Slot, (Executing(u) /\ task[u].node = m) \/ m \in task[u].queue
            PROVE  Held(m)'
        <4>1. u # s
          BY <1>1, <3>2 DEF t, Executing, ClaimInv, Quiet
        <4> QED BY <1>15, <3>2, <4>1 DEF Held, Executing
      <3> QED BY <1>1, <3>1, <3>2 DEF Held
    <2> QED BY <1>1, <2>1, <2>2
  <1>19. ASSUME NEW m \in Node \ completed' PROVE m \in inFlight' \/ Returning(m)' \/ d2[m] > 0
    <2>1. d2[m] \in Int
      BY <1>1, CommitType DEF TypeOK
    <2> QED BY <1>17, <2>1
  <1> QED BY <1>1, <1>14, <1>18, <1>19 DEF SettleInv

\* Every other step.
LEMMA SettleStep == Rooted /\ TypeOK /\ ClaimInv /\ SettleInv /\ [Next]_vars => SettleInv'
  <1> SUFFICES ASSUME Rooted, TypeOK, ClaimInv, SettleInv, [Next]_vars PROVE SettleInv'
    OBVIOUS
  <1> USE DEF traversal, control, state
  <1>t. task \in [Slot -> TaskType] /\ \A u \in Slot : task[u] \in TaskType
    BY DEF TypeOK
  <1>1. CASE Finish
    <2>1. phase' # "running"
      BY <1>1 DEF Finish
    <2> QED BY <2>1 DEF SettleInv, Going
  <1>2. CASE Resume
    BY <1>2, FreshSettlesNext DEF Resume, FreshRun
  <1>n. SUFFICES ASSUME Going', ~Resume PROVE SettleInv'
    BY <1>2 DEF SettleInv
  <1>3. ASSUME NEW n \in Node, NEW s \in Slot, SeedLaunch(n, s) PROVE SettleInv'
    <2> DEFINE r == Spawned(n, generation[n])
    <2>1. r.pc = "start" /\ r.node = n
      <3>1. generation[n] \in Nat BY DEF TypeOK
      <3> QED BY <3>1, SpawnedType
    <2> HIDE DEF r
    <2>2. task'[s] = r /\ \A u \in Slot : u # s => task'[u] = task[u]
      BY <1>3, <1>t DEF SeedLaunch, r
    <2>3. /\ seeds' = seeds \ {n} /\ inFlight' = inFlight /\ task[s].pc = "idle"
          /\ completed' = completed /\ inDeg' = inDeg
      BY <1>3 DEF SeedLaunch
    <2>4. Going
      BY <1>3, <1>n DEF SeedLaunch, Going
    <2>5. task[s].queue = {}
      BY <2>3 DEF ClaimInv, Quiet
    <2>6. ASSUME NEW m \in inFlight PROVE Held(m)'
      <3>1. Held(m)
        BY <2>4 DEF SettleInv
      <3>2. CASE m = n
        BY <2>1, <2>2, <3>2 DEF Held, Executing
      <3>3. CASE m # n /\ m \in seeds
        BY <2>3, <3>3 DEF Held
      <3>4. ASSUME NEW u \in Slot, (Executing(u) /\ task[u].node = m) \/ m \in task[u].queue
            PROVE  Held(m)'
        <4>1. u # s
          BY <2>3, <2>5, <3>4 DEF Executing
        <4> QED BY <2>2, <3>4, <4>1 DEF Held, Executing
      <3> QED BY <3>1, <3>2, <3>3, <3>4 DEF Held
    <2>7. \A m \in Node : Returning(m) => Returning(m)'
      BY <2>2, <2>3 DEF Returning
    <2> QED BY <2>3, <2>4, <2>6, <2>7 DEF SettleInv
  <1>4. ASSUME NEW s \in Slot, StartStopped(s) \/ StartRefused(s) PROVE SettleInv'
    <2>1. ~Going'
      BY <1>4 DEF StartStopped, StartRefused, Going
    <2> QED BY <2>1 DEF SettleInv
  <1>5. ASSUME NEW s \in Slot, Begin(s) PROVE SettleInv'
    <2> DEFINE in == [p \in Node |->
                        IF p \in Pred(task[s].node) /\ task[s].node \in outs[p] THEN ver[p] ELSE 0]
               r == Entered(task[s], in)
    <2>1. in \in [Node -> Nat] BY DEF TypeOK
    <2>2. /\ task' = [task EXCEPT ![s] = r] /\ inFlight' = inFlight /\ seeds' = seeds
          /\ completed' = completed /\ inDeg' = inDeg /\ task[s].pc = "start"
      BY <1>5 DEF Begin
    <2> HIDE DEF in
    <2>3. r.pc = "exec" /\ r.node = task[s].node /\ r.queue = task[s].queue
      BY <1>t, <2>1, EnteredType
    <2>4. Going
      BY <1>5, <1>n DEF Begin, Going
    <2> HIDE DEF r
    <2> QED BY <2>2, <2>3, <2>4, SettleMove
  <1>6. ASSUME NEW s \in Slot, NEW isPause \in BOOLEAN, ExecError(s, isPause) PROVE SettleInv'
    <2>1. ~Going'
      BY <1>6 DEF ExecError, Going
    <2> QED BY <2>1 DEF SettleInv
  <1>7. ASSUME NEW s \in Slot, task[s].pc = "exec", NEW L \in LiveSets[task[s].node],
               NEW logOk \in BOOLEAN, ExecStale(s, L, logOk)
        PROVE  SettleInv'
    <2> DEFINE n == task[s].node
               again == RefireNow(n)
               q == IF again THEN {n} ELSE {}
               r == Launching(task[s], q, generation)
    <2>1. /\ task' = [task EXCEPT ![s] = r] /\ seeds' = seeds
          /\ completed' = completed /\ inDeg' = inDeg
          /\ inFlight' = IF again THEN inFlight ELSE inFlight \ {n}
      BY <1>7 DEF ExecStale
    <2>2. n \in Node /\ generation \in [Node -> Nat] BY <1>7 DEF TypeOK
    <2>3. r.queue = q
      <3>1. q \in SUBSET Node BY <2>2
      <3> HIDE DEF q
      <3> QED BY <1>t, <2>2, <3>1, LaunchingType
    <2>4. Going
      BY <1>7, <1>n DEF ExecStale, RecordOutputs, Going
    <2>5. task[s].queue = {}
      BY <1>7 DEF ClaimInv, Quiet
    <2>6. ASSUME NEW m \in inFlight', (Executing(s) /\ task[s].node = m) \/ m \in task[s].queue
          PROVE  m \in r.queue
      BY <2>1, <2>3, <2>5, <2>6
    <2>7. ASSUME NEW m \in (inFlight \ inFlight') \ completed PROVE inDeg[m] > 0
      <3>1. m = n /\ ~again
        BY <2>1
      <3>2. inDeg[n] \in Int
        BY <2>2 DEF TypeOK
      <3> QED BY <3>1, <3>2 DEF RefireNow
    <2>8. inFlight' \subseteq inFlight
      BY <2>1
    <2> HIDE DEF n, again, q, r
    <2> QED BY <1>7, <2>1, <2>4, <2>6, <2>7, <2>8, SettleMove
  <1>8. ASSUME NEW s \in Slot, task[s].pc = "exec", NEW L \in LiveSets[task[s].node],
               NEW logOk \in BOOLEAN, NEW req \in Rewind[task[s].node] \cup {None},
               NEW park \in BOOLEAN, ExecOk(s, L, logOk, req, park)
        PROVE  SettleInv'
    <2> DEFINE r == Returned(task[s], L, req, park)
    <2>1. /\ task' = [task EXCEPT ![s] = r] /\ seeds' = seeds
          /\ completed' = completed /\ inDeg' = inDeg
          /\ inFlight' = inFlight \ {task[s].node}
      BY <1>8 DEF ExecOk
    <2>2. task[s].node \in Node BY <1>8 DEF TypeOK
    <2>3. L \in SUBSET Node /\ req \in Node \cup {BadTarget, None}
      BY <2>2, LiveSetType, GraphAssumption
    <2>4. r.pc \in {"commit", "resolve"} /\ r.node = task[s].node
      BY <1>t, <2>3, ReturnedType
    <2>5. Going
      BY <1>8, <1>n DEF ExecOk, RecordOutputs, Going
    <2>6. task[s].queue = {}
      BY <1>8 DEF ClaimInv, Quiet
    <2> HIDE DEF r
    <2> QED BY <1>8, <2>1, <2>4, <2>5, <2>6, SettleMove
  <1>9. ASSUME NEW s \in Slot, ResolveBadTarget(s) PROVE SettleInv'
    <2> DEFINE r == Resolved(task[s], None, TRUE)
    <2>1. /\ task' = [task EXCEPT ![s] = r] /\ seeds' = seeds
          /\ completed' = completed /\ inDeg' = inDeg
          /\ inFlight' = inFlight /\ task[s].pc = "resolve"
      BY <1>9 DEF ResolveBadTarget
    <2>2. r.pc = "commit" /\ r.node = task[s].node /\ r.queue = task[s].queue
      <3>1. TRUE \in BOOLEAN /\ None \in Node \cup {None}
        OBVIOUS
      <3> QED BY <1>t, <3>1, ResolvedType
    <2>3. Going
      BY <1>9, <1>n DEF ResolveBadTarget, Going
    <2> HIDE DEF r
    <2> QED BY <2>1, <2>2, <2>3, SettleMove DEF Executing
  <1>10. ASSUME NEW s \in Slot, NEW logOk \in BOOLEAN, ResolveCharge(s, logOk) PROVE SettleInv'
    <2> DEFINE granted == backtracks + 1 <= MaxBacktracks
               target == IF granted THEN task[s].target ELSE None
               err == ~granted \/ ~logOk
               r == Resolved(task[s], target, err)
    <2>1. /\ task' = [task EXCEPT ![s] = r] /\ seeds' = seeds
          /\ completed' = completed /\ inDeg' = inDeg
          /\ inFlight' = inFlight /\ task[s].pc = "resolve" /\ task[s].target # BadTarget
      BY <1>10 DEF ResolveCharge
    <2>2. target \in Node \cup {None} /\ err \in BOOLEAN
      BY <1>t, <2>1 DEF TaskType
    <2> HIDE DEF target, err
    <2>3. r.pc = "commit" /\ r.node = task[s].node /\ r.queue = task[s].queue
      BY <1>t, <2>2, ResolvedType
    <2>4. Going
      BY <1>10, <1>n DEF ResolveCharge, Going
    <2> HIDE DEF r
    <2> QED BY <2>1, <2>3, <2>4, SettleMove DEF Executing
  <1>11. ASSUME NEW s \in Slot, NEW logOk \in BOOLEAN, Commit(s, logOk) PROVE SettleInv'
    <2>1. Going
      BY <1>11, <1>n DEF Commit, Going
    <2> QED BY <1>11, <1>n, <2>1, CommitSettles
  <1>12. ASSUME NEW s \in Slot, NEW n \in Node, NEW u \in Slot, Launch(s, n, u) PROVE SettleInv'
    <2> DEFINE child == Spawned(n, task[s].gens[n])
               rest == Launching(task[s], task[s].queue \ {n}, task[s].gens)
    <2>1. /\ task[s].node \in Node /\ task[s].gens[n] \in Nat
          /\ task[s].gens \in [Node -> Nat] /\ task[s].queue \ {n} \in SUBSET Node
      BY <1>12 DEF TypeOK, TaskType, Launch
    <2>2. child.pc = "start" /\ child.node = n
      BY <2>1, SpawnedType
    <2>3. rest.queue = task[s].queue \ {n}
      BY <1>t, <2>1, LaunchingType
    <2>4. /\ task[s].pc = "launch" /\ n \in task[s].queue /\ task[u].pc = "idle"
          /\ inFlight' = inFlight /\ seeds' = seeds
          /\ completed' = completed /\ inDeg' = inDeg
          /\ task' = [task EXCEPT ![u] = child, ![s] = rest]
      BY <1>12 DEF Launch
    <2> HIDE DEF child, rest
    <2>5. /\ s # u /\ task'[u] = child /\ task'[s] = rest
          /\ \A w \in Slot : w # s /\ w # u => task'[w] = task[w]
      BY <1>t, <2>4
    <2>6. Going /\ task[u].queue = {}
      BY <1>12, <1>n, <2>4 DEF ClaimInv, Quiet, Launch, Going
    <2>7. ASSUME NEW m \in inFlight PROVE Held(m)'
      <3>1. Held(m)
        BY <2>6 DEF SettleInv
      <3>2. CASE m = n
        BY <2>2, <2>5, <3>2 DEF Held, Executing
      <3>3. CASE m \in seeds
        BY <2>4, <3>3 DEF Held
      <3>4. ASSUME m # n, NEW w \in Slot,
                   (Executing(w) /\ task[w].node = m) \/ m \in task[w].queue
            PROVE  Held(m)'
        <4>1. w # u
          BY <2>4, <2>6, <3>4 DEF Executing
        <4>2. CASE w = s
          BY <2>3, <2>4, <2>5, <3>4, <4>2 DEF Held, Executing
        <4>3. CASE w # s
          BY <2>5, <3>4, <4>1, <4>3 DEF Held, Executing
        <4> QED BY <4>2, <4>3
      <3> QED BY <3>1, <3>2, <3>3, <3>4 DEF Held
    <2>8. \A m \in Node : Returning(m) => Returning(m)'
      BY <2>4, <2>5 DEF Returning
    <2> QED BY <2>4, <2>6, <2>7, <2>8 DEF SettleInv
  <1>13. CASE UNCHANGED vars
    BY <1>13 DEF vars, SettleInv, Going, Held, Returning, Executing
  <1> QED
    BY <1>1, <1>2, <1>3, <1>4, <1>5, <1>6, <1>7, <1>8, <1>9, <1>10, <1>11, <1>12, <1>13
    DEF Next, Run, Dispatch, Start, Return, Resolve

\* When Run returns nil, nothing is in flight, so a node left over would wait for
\* another node left over: there is no first one.
LEMMA SettledAtFinish ==
    ASSUME TypeOK, ClaimInv, SettleInv, Finish, phase' = "complete"
    PROVE  completed = Node
  <1>1. Going /\ seeds = {} /\ \A s \in Slot : task[s].pc = "idle"
    BY DEF Finish, Going
  <1>2. \A s \in Slot : task[s].queue = {}
    BY <1>1 DEF ClaimInv, Quiet
  <1>3. inFlight = {} /\ \A m \in Node : ~Returning(m)
    BY <1>1, <1>2 DEF SettleInv, Held, Returning, Executing
  <1>4. ASSUME NEW m \in Node \ completed PROVE Pred(m) \cap (Node \ completed) # {}
    <2>1. inDeg[m] \in Int /\ inDeg[m] > 0 /\ inDeg[m] <= Cardinality(Pred(m) \ completed)
      BY <1>1, <1>3 DEF SettleInv, TypeOK
    <2>2. Cardinality(Pred(m) \ completed) \in Nat
      BY WaitMore
    <2>3. Pred(m) \ completed # {}
      BY <2>1, <2>2, WaitsForSome
    <2> QED BY <2>3 DEF Pred
  <1>5. Node \ completed = {}
    <2> SUFFICES ASSUME Node \ completed # {} PROVE FALSE
      OBVIOUS
    <2> QED BY <1>4, FirstNode
  <1> QED BY <1>5 DEF TypeOK

LEMMA CompleteStep ==
    TypeOK /\ ClaimInv /\ SettleInv /\ CompleteRun /\ [Next]_vars => CompleteRun'
  <1> SUFFICES ASSUME TypeOK, ClaimInv, SettleInv, CompleteRun, [Next]_vars,
                      phase' = "complete"
               PROVE  completed' = Node
    BY DEF CompleteRun
  <1> USE DEF traversal, control, state
  <1>1. CASE Finish
    BY <1>1, SettledAtFinish DEF Finish
  <1>2. CASE Resume
    BY <1>2 DEF Resume, FreshRun
  <1>3. CASE UNCHANGED vars
    BY <1>3 DEF vars, CompleteRun
  <1>4. ASSUME NEW n \in Node, NEW s \in Slot, SeedLaunch(n, s) PROVE completed' = Node
    BY <1>4 DEF SeedLaunch, CompleteRun
  <1>5. ASSUME NEW s \in Slot, Dispatch(s) PROVE completed' = Node
    <2>1. phase' = phase
      BY <1>5 DEF Dispatch, Start, Return, Resolve, StartStopped, StartRefused, Begin, ExecError,
                  ExecStale, ExecOk, ResolveBadTarget, ResolveCharge, Commit, Launch
    <2>2. task[s].pc # "idle"
      BY <1>5 DEF Dispatch, Start, Return, Resolve, StartStopped, StartRefused, Begin,
                  ResolveBadTarget, ResolveCharge, Commit, Launch
    <2> QED BY <2>1, <2>2 DEF ClaimInv, Quiet
  <1> QED BY <1>1, <1>2, <1>3, <1>4, <1>5 DEF Next, Run

\* A run that returns nil has settled every node, on every graph whose parentless
\* nodes are entrypoints: no rewind, skip or superseded dispatch strands one.
THEOREM RunSettlesAll == Rooted => (Spec => []CompleteRun)
  <1>1. Rooted /\ Init => SettleInv
    BY FreshSettles DEF Init
  <1>2. Init => CompleteRun
    BY DEF Init, CompleteRun
  <1>3. SUFFICES ASSUME Rooted PROVE Spec => []CompleteRun
    OBVIOUS
  <1>4. Init => TypeOK /\ ClaimInv /\ SettleInv /\ CompleteRun
    BY <1>1, <1>2, <1>3, InitType, InitClaim
  <1>5. TypeOK /\ ClaimInv /\ SettleInv /\ CompleteRun /\ [Next]_vars
            => (TypeOK /\ ClaimInv /\ SettleInv /\ CompleteRun)'
    BY <1>3, TypeStep, ClaimStep, SettleStep, CompleteStep
  <1> QED BY <1>4, <1>5, PTL DEF Spec

-----------------------------------------------------------------------------
(* What holds of the kernel on the graphs where a rewind meets no other       *)
(* dispatch: nodes run in dependency order, on fresh inputs, a bounded number *)
(* of times, and the skipped ones are the ones no live edge reached. On other *)
(* graphs kernel_missing, kernel_window, kernel_bound, kernel_skip and        *)
(* kernel_target give counterexamples.                                        *)

\* The entrypoints are exactly the nodes without predecessors.
EntryRoots == \A n \in Node : Pred(n) = {} <=> n \in Entry

\* A node that may ask for a rewind is downstream of every other node: a review at
\* the end of the graph, so nothing runs beside it when the rewind is committed.
ReviewLast ==
    \A n \in Node : Rewind[n] \cap Node # {} => \A m \in Node : <<m, n>> \in Reach

\* No decision lies upstream of a rewind target: every edge on the way to it is
\* live whatever the executors keep, so the target is never a skipped node.
SureTargets ==
    \A n \in Node : \A x \in Rewind[n] \cap Node : \A m \in Node :
        <<m, x>> \in Reach => \A p \in Pred(m) : \A L \in LiveSets[p] : m \in L

\* Either no rewind was charged yet or the graph keeps rewinds apart.
Tame == ReviewLast \/ backtracks = 0

\* The executor of slot s has returned and the node is not yet committed.
Ret(s) == task[s].pc \in {"resolve", "commit"}

\* The node is somewhere between its launch and its commit.
Active(m) == m \in inFlight \/ Returning(m)

\* A node waits at least for its predecessors that have still to complete.
Waits == \A m \in Node \ completed : inDeg[m] >= Cardinality(Pred(m) \ completed)

\* A node is launched after everything that feeds it, and once.
Ordered ==
    /\ \A m \in Node : Active(m) => m \notin completed /\ Pred(m) \subseteq completed
    /\ \A m \in completed : Pred(m) \subseteq completed
    /\ \A s, u \in Slot : Ret(s) /\ Ret(u) /\ task[s].node = task[u].node => s = u
    /\ \A s \in Slot : Ret(s) => task[s].node \notin inFlight

\* No dispatch is superseded.
Current ==
    /\ \A s \in Slot : Executing(s) => task[s].gen = generation[task[s].node]
    /\ \A s \in Slot : \A n \in task[s].queue : task[s].gens[n] = generation[n]

\* A rewind in progress was asked for and charged.
Asked ==
    \A s \in Slot : Ret(s) /\ task[s].target # None =>
        /\ task[s].target \in Rewind[task[s].node]
        /\ task[s].pc = "commit" => backtracks >= 1

\* Where rewinds are kept apart, arrivals are not missed and launches are in order.
OrderInv == Tame => Waits /\ Ordered /\ Current

\* p has completed by firing, and its recorded outputs feed m.
Feeds(p, m) == p \in Pred(m) \cap completed /\ p \notin skipped /\ m \in outs[p]

\* What n was, or would be, given by p.
Given(n, p) == IF n \in outs[p] THEN ver[p] ELSE 0

\* What a node ran on is what its predecessors have recorded.
Fresh ==
    /\ \A s \in Slot : task[s].pc = "exec" =>
           \A p \in Pred(task[s].node) : task[s].inputs[p] = Given(task[s].node, p)
    /\ \A n \in Node : n \in completed \ skipped \/ Returning(n) =>
           \A p \in Pred(n) : used[n][p] = Given(n, p)

\* The same for what nodes ran on.
FreshInv == Tame => Fresh /\ skipped \subseteq completed

\* Live arrivals are counted, and decide between a skip and a launch.
LiveInv ==
    (ReviewLast /\ SureTargets /\ ~pause) =>
        /\ \A s \in Slot : Ret(s) => task[s].live = outs[task[s].node]
        /\ \A m \in Node : m \in completed \ skipped \/ Returning(m) => outs[m] \in LiveSets[m]
        /\ \A m \in Node \ completed : liveIn[m] > 0 <=> \E p \in Node : Feeds(p, m)
        /\ \A m \in Node \ Entry : Active(m) => \E p \in Node : Feeds(p, m)
        /\ \A m \in completed \ Entry : m \notin skipped <=> \E p \in Node : Feeds(p, m)
        /\ skipped \cap Entry = {}

\* The rewinds that were let through: backtracks counts the refused request too.
Granted == IF backtracks < MaxBacktracks THEN backtracks ELSE MaxBacktracks

\* A node fires once and once more for each rewind; between the grant of a rewind and
\* its commit no node has used up what the grant allows.
FiringInv ==
    (Tame /\ resumes = 0) =>
        /\ \A n \in Node : ver[n] <= Granted + (IF n \in completed \/ Returning(n) THEN 1 ELSE 0)
        /\ (\E s \in Slot : task[s].pc = "commit" /\ task[s].target # None) =>
               \A n \in Node : ver[n] <= Granted

\* Until a rewind is charged, a node has outputs only if it fired in this run.
PhantomInv ==
    (backtracks = 0 /\ "log" \notin Faults) =>
        \A p \in Node : outs[p] # {} => p \in logged /\ (p \in completed \ skipped \/ Returning(p))

\* The inductive invariant of this module, relative to those of AgentKernelProofs.
KernelInv == Asked /\ OrderInv /\ FreshInv /\ LiveInv /\ FiringInv /\ PhantomInv

-----------------------------------------------------------------------------
(* Counting arrivals.                                                        *)

\* The predecessors still to complete when F completes on top of C.
LEMMA WaitExact ==
    ASSUME NEW m, NEW C, NEW F, F \cap C = {}
    PROVE  /\ Cardinality(Pred(m) \ C) \in Nat
           /\ Arrivals(m, F) \in Nat
           /\ Cardinality(Pred(m) \ (C \cup F)) = Cardinality(Pred(m) \ C) - Arrivals(m, F)
  <1> DEFINE A == Pred(m) \ C
  <1>1. IsFiniteSet(A)
    BY PredFinite
  <1>2. A \ F = Pred(m) \ (C \cup F) /\ A \cap F = Pred(m) \cap F
    OBVIOUS
  <1>3. Cardinality(A \ F) = Cardinality(A) - Cardinality(A \cap F)
    <2> HIDE DEF A
    <2> QED BY <1>1, FS_Difference
  <1>4. Cardinality(A) \in Nat /\ Cardinality(Pred(m) \cap F) \in Nat
    BY <1>1, PredFinite, FS_CardinalityType
  <1> QED BY <1>2, <1>3, <1>4 DEF Arrivals

\* A node whose in-degree closes has had all its predecessors report in.
LEMMA AllArrived ==
    ASSUME NEW m, NEW C, NEW F, F \cap C = {}, NEW i \in Int,
           i >= Cardinality(Pred(m) \ C), i - Arrivals(m, F) <= 0
    PROVE  Pred(m) \subseteq C \cup F
  <1>1. /\ Cardinality(Pred(m) \ C) \in Nat
        /\ Arrivals(m, F) \in Nat
        /\ Cardinality(Pred(m) \ (C \cup F)) = Cardinality(Pred(m) \ C) - Arrivals(m, F)
    BY WaitExact
  <1>2. ~(Cardinality(Pred(m) \ (C \cup F)) > 0)
    BY <1>1
  <1>3. Pred(m) \ (C \cup F) = {}
    BY <1>2, WaitsForSome
  <1> QED BY <1>3

\* No node feeds itself.
LEMMA NoSelfEdge == \A n \in Node : n \notin Pred(n)
  <1> SUFFICES ASSUME NEW n \in Node, n \in Pred(n) PROVE FALSE
    OBVIOUS
  <1>1. <<n, n>> \in Edge
    BY DEF Pred
  <1>2. \A e \in Edge : <<e[2], e[1]>> \notin Reach
    BY GraphAssumption
  <1> QED BY <1>1, <1>2, ReachReflexive

\* What a rewound set holds, its successors too.
LEMMA RewoundClosed ==
    ASSUME NEW x \in Node, NEW m \in Node, NEW p \in Pred(m), p \in DescendantsInclusive(x)
    PROVE  m \in DescendantsInclusive(x)
  <1>1. p \in Node /\ <<p, m>> \in Edge /\ <<x, p>> \in Reach
    BY DEF Pred, DescendantsInclusive
  <1>2. <<x, m>> \in Reach
    BY <1>1, ReachEdge, ReachTransitive
  <1> QED BY <1>2 DEF DescendantsInclusive

-----------------------------------------------------------------------------
(* The two kinds of commit.                                                  *)

\* A commit that rewinds nothing: n and the branch S it kills report in, and the
\* nodes of q are claimed.
ForwardStep(s, S, q) ==
    LET n == task[s].node
        from == IF task[s].park THEN {} ELSE {n} \cup S
        L == task[s].live
    IN  /\ completed' = completed \cup {n} \cup S
        /\ skipped' = skipped \cup S
        /\ generation' = generation
        /\ inFlight' = inFlight \cup q
        /\ task' = [task EXCEPT ![s] = Launching(task[s], q, generation)]
        /\ S \cap (completed \cup {n}) = {}
        /\ \A m \in S : /\ m \notin inFlight
                        /\ Pred(m) \cap from # {}
                        /\ inDeg[m] - Arrivals(m, from) <= 0
                        /\ liveIn[m] + LiveArrivals(m, n, L) <= 0
        /\ \A m \in q : /\ m \notin completed \cup {n}
                        /\ Pred(m) \cap from # {}
                        /\ inDeg'[m] <= 0
                        /\ liveIn'[m] > 0
        /\ \A m \in Node : Pred(m) \cap from # {} /\ m \notin completed \cup {n} =>
               /\ inDeg'[m] = inDeg[m] - Arrivals(m, from)
               /\ liveIn'[m] = liveIn[m] + LiveArrivals(m, n, L)
        /\ \A m \in Node : Pred(m) \cap from = {} =>
               inDeg'[m] = inDeg[m] /\ liveIn'[m] = liveIn[m]

LEMMA CommitForward ==
    ASSUME TypeOK, NEW s \in Slot, NEW logOk \in BOOLEAN, Commit(s, logOk),
           task[s].target = None
    PROVE  \E S \in SUBSET Node, q \in SUBSET Node : ForwardStep(s, S, q)
  <1> DEFINE t == task[s]
             n == t.node
             R == RefireSet(s)
             C == completed \ R
             K == skipped \ R
             d == [m \in Node |-> IF m \in R THEN RearmedInDeg(m, R, C) ELSE inDeg[m]]
             v == [m \in Node |-> IF m \in R THEN RearmedLiveIn(m, R, C, K) ELSE liveIn[m]]
             g == [m \in Node |-> IF m \in R THEN generation[m] + 1 ELSE generation[m]]
             backtrackReady == t.target # None /\ d[t.target] <= 0 /\ t.target \notin inFlight
             Done == IF n \in R THEN C ELSE C \cup {n}
             promotes == n \notin R /\ ~t.park
             S == IF promotes THEN SkipClosure(n, t.live, Done, d, v) ELSE {}
             from == IF promotes THEN {n} \cup S ELSE {}
             open == {m \in Node \ Done : Pred(m) \cap from # {}}
             d2 == [m \in Node |-> IF m \in open THEN d[m] - Arrivals(m, from) ELSE d[m]]
             v2 == [m \in Node |-> IF m \in open THEN v[m] + LiveArrivals(m, n, t.live) ELSE v[m]]
             ready == {m \in open : Promotable(m, d2, v2)}
             q == IF t.park THEN {} ELSE ready \cup (IF backtrackReady THEN {t.target} ELSE {})
  <1>1. /\ completed' = Done \cup S /\ skipped' = K \cup S
        /\ generation' = g /\ inDeg' = d2 /\ liveIn' = v2
        /\ inFlight' = inFlight \cup q
        /\ task' = [task EXCEPT ![s] = Launching(task[s], q, g)]
    BY DEF Commit
  <1>2. R = {}
    BY DEF RefireSet
  <1>3. C = completed /\ K = skipped /\ Done = completed \cup {n} /\ (promotes <=> ~t.park)
    BY <1>2
  <1>4. g = generation /\ d = inDeg /\ v = liveIn
    <2>1. g = [m \in Node |-> generation[m]] /\ d = [m \in Node |-> inDeg[m]]
          /\ v = [m \in Node |-> liveIn[m]]
      BY <1>2
    <2> QED BY <2>1 DEF TypeOK
  <1> HIDE DEF C, K, d, v, g, R, Done, promotes
  <1>5. ~t.park => /\ S \subseteq Node \ Done
                   /\ S = {m \in Node : Dead(m, n, t.live, S, Done, inDeg, liveIn)}
    <2>1. inDeg \in [Node -> Int]
      BY DEF TypeOK
    <2> QED BY <1>3, <1>4, <2>1, SkipFixpoint
  <1>6. from = IF t.park THEN {} ELSE {n} \cup S
    BY <1>3
  <1>7. t.park => S = {}
    BY <1>3
  <1>8. S \in SUBSET Node /\ S \cap (completed \cup {n}) = {}
    <2> HIDE DEF S
    <2> QED BY <1>3, <1>5, <1>7
  <1>9. ~backtrackReady
    OBVIOUS
  <1> HIDE DEF backtrackReady
  <1>10. q \in SUBSET Node
    BY <1>9
  <1>11. \A m \in S : /\ m \notin inFlight /\ Pred(m) \cap from # {}
                      /\ inDeg[m] - Arrivals(m, from) <= 0
                      /\ liveIn[m] + LiveArrivals(m, n, t.live) <= 0
    <2> SUFFICES ASSUME NEW m \in S
                 PROVE  /\ m \notin inFlight /\ Pred(m) \cap from # {}
                        /\ inDeg[m] - Arrivals(m, from) <= 0
                        /\ liveIn[m] + LiveArrivals(m, n, t.live) <= 0
      OBVIOUS
    <2>1. ~t.park /\ from = {n} \cup S
      BY <1>6, <1>7
    <2>2. Dead(m, n, t.live, S, Done, inDeg, liveIn)
      <3> HIDE DEF S
      <3> QED BY <1>5, <2>1
    <2> HIDE DEF S, from
    <2> QED BY <2>1, <2>2 DEF Dead
  <1>12. open = {m \in Node : m \notin completed \cup {n} /\ Pred(m) \cap from # {}}
    BY <1>3
  <1>13. \A m \in Node :
            /\ d2[m] = IF m \in open THEN inDeg[m] - Arrivals(m, from) ELSE inDeg[m]
            /\ v2[m] = IF m \in open THEN liveIn[m] + LiveArrivals(m, n, t.live) ELSE liveIn[m]
    <2> HIDE DEF open, from
    <2> QED BY <1>4
  <1>14. \A m \in q : m \in open /\ d2[m] <= 0 /\ v2[m] > 0
    BY <1>9 DEF Promotable
  <1> HIDE DEF S, from, open, d2, v2, ready, q
  <1>15. \A m \in q : /\ m \notin completed \cup {n} /\ Pred(m) \cap from # {}
                      /\ inDeg'[m] <= 0 /\ liveIn'[m] > 0
    BY <1>1, <1>12, <1>14
  <1>16. \A m \in Node : Pred(m) \cap from # {} /\ m \notin completed \cup {n} =>
                          /\ inDeg'[m] = inDeg[m] - Arrivals(m, from)
                          /\ liveIn'[m] = liveIn[m] + LiveArrivals(m, n, t.live)
    BY <1>1, <1>12, <1>13
  <1>17. \A m \in Node : Pred(m) \cap from = {} => inDeg'[m] = inDeg[m] /\ liveIn'[m] = liveIn[m]
    BY <1>1, <1>12, <1>13
  <1>18. /\ completed' = completed \cup {n} \cup S /\ skipped' = skipped \cup S
         /\ generation' = generation /\ inFlight' = inFlight \cup q
         /\ task' = [task EXCEPT ![s] = Launching(task[s], q, generation)]
    BY <1>1, <1>3, <1>4
  <1> USE <1>8, <1>10
  <1> WITNESS S \in SUBSET Node, q \in SUBSET Node
  <1> QED BY <1>6, <1>11, <1>15, <1>16, <1>17, <1>18 DEF ForwardStep

\* A commit that rewinds its own node: the rewound set is re-armed.
LEMMA CommitRewind ==
    ASSUME TypeOK, NEW s \in Slot, NEW logOk \in BOOLEAN, Commit(s, logOk),
           task[s].target # None, task[s].node \in DescendantsInclusive(task[s].target)
    PROVE  LET x == task[s].target
               R == DescendantsInclusive(x)
           IN  /\ x \in Node
               /\ completed' = completed \ R
               /\ skipped' = skipped \ R
               /\ \A m \in R : /\ inDeg'[m] = Cardinality(Pred(m) \ completed')
                               /\ liveIn'[m] = RearmedLiveIn(m, R, completed', skipped')
               /\ \A m \in Node \ R : inDeg'[m] = inDeg[m] /\ liveIn'[m] = liveIn[m]
               /\ \E q \in SUBSET {x} :
                      /\ q # {} => inDeg'[x] <= 0
                      /\ inFlight' = inFlight \cup q
                      /\ task' = [task EXCEPT ![s] = Launching(task[s], q, generation')]
  <1> DEFINE t == task[s]
             n == t.node
             R == RefireSet(s)
             C == completed \ R
             K == skipped \ R
             d == [m \in Node |-> IF m \in R THEN RearmedInDeg(m, R, C) ELSE inDeg[m]]
             v == [m \in Node |-> IF m \in R THEN RearmedLiveIn(m, R, C, K) ELSE liveIn[m]]
             g == [m \in Node |-> IF m \in R THEN generation[m] + 1 ELSE generation[m]]
             backtrackReady == t.target # None /\ d[t.target] <= 0 /\ t.target \notin inFlight
             Done == IF n \in R THEN C ELSE C \cup {n}
             promotes == n \notin R /\ ~t.park
             S == IF promotes THEN SkipClosure(n, t.live, Done, d, v) ELSE {}
             from == IF promotes THEN {n} \cup S ELSE {}
             open == {m \in Node \ Done : Pred(m) \cap from # {}}
             d2 == [m \in Node |-> IF m \in open THEN d[m] - Arrivals(m, from) ELSE d[m]]
             v2 == [m \in Node |-> IF m \in open THEN v[m] + LiveArrivals(m, n, t.live) ELSE v[m]]
             ready == {m \in open : Promotable(m, d2, v2)}
             q == IF t.park THEN {} ELSE ready \cup (IF backtrackReady THEN {t.target} ELSE {})
  <1>1. /\ completed' = Done \cup S /\ skipped' = K \cup S
        /\ generation' = g /\ inDeg' = d2 /\ liveIn' = v2
        /\ inFlight' = inFlight \cup q
        /\ task' = [task EXCEPT ![s] = Launching(task[s], q, g)]
        /\ t.pc = "commit"
    BY DEF Commit
  <1>2. t.target \in Node
    BY <1>1 DEF TypeOK, TaskType
  <1>3. R = DescendantsInclusive(t.target) /\ R \in SUBSET Node
    BY DEF RefireSet, DescendantsInclusive
  <1>4. n \in R
    BY <1>3
  <1> HIDE DEF R
  <1>5. Done = C /\ S = {} /\ from = {} /\ open = {} /\ ready = {}
    BY <1>4
  <1>6. completed' = C /\ skipped' = K
    BY <1>1, <1>5
  <1>7. \A m \in Node : d2[m] = d[m] /\ v2[m] = v[m]
    <2> HIDE DEF open, d, v
    <2> QED BY <1>5
  <1>8. \A m \in Node : /\ d[m] = IF m \in R THEN RearmedInDeg(m, R, C) ELSE inDeg[m]
                        /\ v[m] = IF m \in R THEN RearmedLiveIn(m, R, C, K) ELSE liveIn[m]
    <2> HIDE DEF C, K
    <2> QED OBVIOUS
  <1>9. \A m : RearmedInDeg(m, R, C) = Cardinality(Pred(m) \ C)
    BY RearmedWaits
  <1>10. q \in SUBSET {t.target} /\ (q # {} => d[t.target] <= 0)
    <2> HIDE DEF d
    <2> QED BY <1>5
  <1> HIDE DEF C, K, d, v, g, backtrackReady, Done, promotes, S, from, open, d2, v2, ready, q
  <1>11. \A m \in R : /\ inDeg'[m] = Cardinality(Pred(m) \ completed')
                      /\ liveIn'[m] = RearmedLiveIn(m, R, completed', skipped')
    BY <1>1, <1>3, <1>6, <1>7, <1>8, <1>9
  <1>12. \A m \in Node \ R : inDeg'[m] = inDeg[m] /\ liveIn'[m] = liveIn[m]
    BY <1>1, <1>7, <1>8
  <1>13. /\ q # {} => inDeg'[t.target] <= 0
         /\ inFlight' = inFlight \cup q
         /\ task' = [task EXCEPT ![s] = Launching(task[s], q, generation')]
    BY <1>1, <1>2, <1>7, <1>10
  <1> QED BY <1>2, <1>3, <1>6, <1>10, <1>11, <1>12, <1>13 DEF C, K

-----------------------------------------------------------------------------
(* A rewind meets no other dispatch.                                         *)

LEMMA RewindApart ==
    ASSUME TypeOK, ClaimInv, Asked, OrderInv, Tame, NEW s \in Slot,
           task[s].pc = "commit", task[s].target # None
    PROVE  /\ ReviewLast
           /\ task[s].target \in Rewind[task[s].node] \cap Node
           /\ task[s].node \in DescendantsInclusive(task[s].target)
           /\ completed = Node \ {task[s].node}
           /\ inFlight = {}
           /\ \A u \in Slot : ~Executing(u) /\ task[u].queue = {} /\ (Ret(u) => u = s)
  <1> DEFINE n == task[s].node
             x == task[s].target
  <1>1. n \in Node /\ x \in Node
    BY DEF TypeOK, TaskType
  <1>2. Ret(s)
    BY DEF Ret
  <1>3. x \in Rewind[n] /\ backtracks >= 1
    BY <1>2 DEF Asked
  <1>4. ReviewLast
    BY <1>3 DEF Tame
  <1>5. \A m \in Node : <<m, n>> \in Reach
    BY <1>1, <1>3, <1>4 DEF ReviewLast
  <1>6. n \notin completed /\ Pred(n) \subseteq completed /\ n \notin inFlight
    BY <1>1, <1>2 DEF OrderInv, Ordered, Active, Returning, Ret
  <1>7. \A m \in completed : Pred(m) \subseteq completed
    BY DEF OrderInv, Ordered
  <1>8. ASSUME NEW m \in Node, m \notin completed, m # n PROVE FALSE
    <2> DEFINE Q == Node \ (completed \cup {n})
    <2>1. \A y \in Q : Succ(y) \subseteq Q
      BY <1>6, <1>7 DEF Succ, Pred
    <2>2. Q \in SUBSET Node /\ m \in Q /\ n \notin Q
      BY <1>8
    <2>3. <<m, n>> \in Reach
      BY <1>5
    <2>4. \A S \in SUBSET Node : (m \in S /\ \A y \in S : Succ(y) \subseteq S) => n \in S
      BY <2>3 DEF Reach
    <2> HIDE DEF Q
    <2> QED BY <2>1, <2>2, <2>4
  <1>9. completed = Node \ {n}
    BY <1>1, <1>6, <1>8 DEF TypeOK
  <1>10. \A m \in Node : Active(m) => m \notin completed
    BY DEF OrderInv, Ordered
  <1>11. inFlight = {}
    BY <1>6, <1>9, <1>10 DEF Active, TypeOK
  <1>12. \A u \in Slot : ~Executing(u) /\ task[u].queue = {}
    BY <1>11 DEF ClaimInv, Claimed
  <1>13. ASSUME NEW u \in Slot, Ret(u) PROVE u = s
    <2>1. task[u].node \in Node
      BY <1>13 DEF Ret, TypeOK
    <2>2. Active(task[u].node)
      BY <1>13 DEF Active, Returning, Ret
    <2>3. task[u].node = n
      BY <1>9, <1>10, <2>1, <2>2
    <2> QED BY <1>2, <1>13, <2>3 DEF OrderInv, Ordered
  <1>14. n \in DescendantsInclusive(x)
    BY <1>1, <1>5 DEF DescendantsInclusive
  <1> QED BY <1>1, <1>3, <1>4, <1>9, <1>11, <1>12, <1>13, <1>14

\* No ancestor of a rewind target is ever skipped.
LEMMA SureNotSkipped ==
    ASSUME EntryRoots, OrderInv, FreshInv, LiveInv, ReviewLast, SureTargets, ~pause,
           NEW n \in Node, NEW x \in Rewind[n] \cap Node,
           NEW y \in skipped, y \in Node, <<y, x>> \in Reach
    PROVE  FALSE
  <1> DEFINE U == {m \in Node : m \in skipped /\ <<m, x>> \in Reach}
  <1>0. Tame
    BY DEF Tame
  <1>1. PICK m \in U : Pred(m) \cap U = {}
    BY FirstNode
  <1>2. m \in Node /\ m \in skipped /\ m \notin Entry /\ m \in completed
    BY <1>0 DEF LiveInv, FreshInv
  <1>3. PICK p \in Pred(m) : TRUE
    BY <1>2 DEF EntryRoots
  <1>4. p \in Node /\ <<p, m>> \in Edge
    BY <1>3 DEF Pred
  <1>5. <<p, x>> \in Reach
    BY <1>4, ReachEdge, ReachTransitive
  <1>6. p \notin skipped
    BY <1>1, <1>3, <1>4, <1>5
  <1>7. p \in completed
    BY <1>0, <1>2, <1>3 DEF OrderInv, Ordered
  <1>8. outs[p] \in LiveSets[p]
    BY <1>4, <1>6, <1>7 DEF LiveInv
  <1>9. m \in outs[p]
    BY <1>2, <1>3, <1>8 DEF SureTargets
  <1>10. Feeds(p, m)
    BY <1>3, <1>6, <1>7, <1>9 DEF Feeds
  <1> QED BY <1>2, <1>4, <1>10 DEF LiveInv

-----------------------------------------------------------------------------
(* Steps that move one or two goroutines and leave the traversal alone.      *)

\* Granted backtracks only grow.
LEMMA GrantedGrows ==
    ASSUME backtracks \in Nat, backtracks' \in Nat, backtracks <= backtracks'
    PROVE  /\ Granted \in Nat /\ Granted' \in Nat /\ Granted <= Granted'
           /\ backtracks' = backtracks + 1 /\ backtracks' <= MaxBacktracks => Granted' = Granted + 1
  BY BoundAssumption DEF Granted

LEMMA MoveKept ==
    ASSUME TypeOK, ClaimInv, KernelInv,
           completed' = completed, skipped' = skipped, inDeg' = inDeg, liveIn' = liveIn,
           generation' = generation, outs' = outs, logged' = logged, ver' = ver,
           used' = used, resumes' = resumes, inFlight' \subseteq inFlight,
           ~pause' => ~pause, backtracks' \in Nat, backtracks <= backtracks',
           Tame => \A u \in Slot : Executing(u)' => task'[u].gen = generation[task'[u].node],
           Tame => \A u \in Slot : \A m \in task'[u].queue : task'[u].gens[m] = generation[m],
           \A u \in Slot : task'[u].pc = "exec" =>
               task[u] = task'[u] \/
               \A p \in Pred(task'[u].node) : task'[u].inputs[p] = Given(task'[u].node, p),
           \A u \in Slot : Ret(u)' <=> Ret(u),
           \A u \in Slot : Ret(u) =>
               /\ task'[u].node = task[u].node /\ task'[u].live = task[u].live
               /\ task'[u].target \in {task[u].target, None}
               /\ task'[u].pc = "commit" /\ task'[u].target # None =>
                      \/ task[u].pc = "commit"
                      \/ backtracks' = backtracks + 1 /\ backtracks' <= MaxBacktracks
    PROVE  KernelInv'
  <1>0. backtracks \in Nat
    BY DEF TypeOK
  <1>1. Tame' => Tame
    BY <1>0 DEF Tame
  <1>2. \A m \in Node : Returning(m)' <=> Returning(m)
    BY DEF Returning, Ret
  <1>3. Asked'
    <2> SUFFICES ASSUME NEW u \in Slot, Ret(u)', task'[u].target # None
                 PROVE  /\ task'[u].target \in Rewind[task'[u].node]
                        /\ task'[u].pc = "commit" => backtracks' >= 1
      BY DEF Asked, Ret
    <2>1. Ret(u) /\ task'[u].target = task[u].target /\ task'[u].node = task[u].node
      OBVIOUS
    <2>2. task[u].target \in Rewind[task[u].node] /\ (task[u].pc = "commit" => backtracks >= 1)
      BY <2>1 DEF KernelInv, Asked
    <2>3. task'[u].pc = "commit" => backtracks' >= 1
      BY <1>0, <2>1, <2>2
    <2> QED BY <2>1, <2>2, <2>3
  <1>4. OrderInv'
    <2> SUFFICES ASSUME Tame' PROVE (Waits /\ Ordered /\ Current)'
      BY DEF OrderInv
    <2>1. Waits /\ Ordered /\ Current
      BY <1>1 DEF KernelInv, OrderInv
    <2>2. Waits'
      BY <2>1 DEF Waits
    <2>3. \A m \in Node : Active(m)' => Active(m)
      BY <1>2 DEF Active
    <2>4. \A s, u \in Slot : Ret(s)' /\ Ret(u)' /\ task'[s].node = task'[u].node => s = u
      BY <2>1 DEF Ordered
    <2>5. \A s \in Slot : Ret(s)' => task'[s].node \notin inFlight'
      BY <2>1 DEF Ordered
    <2>6. Ordered'
      BY <2>1, <2>3, <2>4, <2>5 DEF Ordered, Ret
    <2>7. Current'
      BY <1>1 DEF Current, Executing
    <2> QED BY <2>2, <2>6, <2>7
  <1>5. FreshInv'
    <2> SUFFICES ASSUME Tame' PROVE Fresh' /\ skipped' \subseteq completed'
      BY DEF FreshInv
    <2>1. Fresh /\ skipped \subseteq completed
      BY <1>1 DEF KernelInv, FreshInv
    <2>2. \A m, p : Given(m, p)' = Given(m, p)
      BY DEF Given
    <2>3. \A u \in Slot : task'[u].pc = "exec" =>
              \A p \in Pred(task'[u].node) : task'[u].inputs[p] = Given(task'[u].node, p)
      BY <2>1 DEF Fresh
    <2> QED BY <1>2, <2>1, <2>2, <2>3 DEF Fresh
  <1>6. LiveInv'
    <2> SUFFICES ASSUME ReviewLast, SureTargets, ~pause' PROVE LiveInv'
      BY DEF LiveInv
    <2>1. ~pause
      OBVIOUS
    <2>2. \A p, m : Feeds(p, m)' <=> Feeds(p, m)
      BY DEF Feeds
    <2>3. \A m \in Node : Active(m)' => Active(m)
      BY <1>2 DEF Active
    <2>4. \A s \in Slot : Ret(s)' => task'[s].live = outs'[task'[s].node]
      BY <2>1 DEF KernelInv, LiveInv
    <2>5. /\ \A m \in Node : m \in completed \ skipped \/ Returning(m) => outs[m] \in LiveSets[m]
          /\ \A m \in Node \ completed : liveIn[m] > 0 <=> \E p \in Node : Feeds(p, m)
          /\ \A m \in Node \ Entry : Active(m) => \E p \in Node : Feeds(p, m)
          /\ \A m \in completed \ Entry : m \notin skipped <=> \E p \in Node : Feeds(p, m)
          /\ skipped \cap Entry = {}
      BY <2>1 DEF KernelInv, LiveInv
    <2>6. /\ \A m \in Node : m \in completed' \ skipped' \/ Returning(m)' => outs'[m] \in LiveSets[m]
          /\ skipped' \cap Entry = {}
      BY <1>2, <2>5
    <2>7. /\ \A m \in Node \ completed' : liveIn'[m] > 0 <=> \E p \in Node : Feeds(p, m)'
          /\ \A m \in Node \ Entry : Active(m)' => \E p \in Node : Feeds(p, m)'
          /\ \A m \in completed' \ Entry : m \notin skipped' <=> \E p \in Node : Feeds(p, m)'
      BY <2>2, <2>3, <2>5
    <2> QED BY <2>4, <2>6, <2>7 DEF LiveInv, Ret
  <1>7. FiringInv'
    <2> SUFFICES ASSUME Tame', resumes = 0 PROVE FiringInv'
      BY DEF FiringInv
    <2>1. /\ \A m \in Node : ver[m] <= Granted + (IF m \in completed \/ Returning(m) THEN 1 ELSE 0)
          /\ (\E s \in Slot : task[s].pc = "commit" /\ task[s].target # None) =>
                 \A m \in Node : ver[m] <= Granted
      BY <1>1 DEF KernelInv, FiringInv
    <2>2. /\ Granted \in Nat /\ Granted' \in Nat /\ Granted <= Granted'
          /\ backtracks' = backtracks + 1 /\ backtracks' <= MaxBacktracks => Granted' = Granted + 1
      BY <1>0, GrantedGrows
    <2>3. \A m \in Node : ver[m] \in Nat
      BY DEF TypeOK
    <2>4. \A m \in Node : ver[m] <= Granted' + (IF m \in completed \/ Returning(m) THEN 1 ELSE 0)
      BY <2>1, <2>2, <2>3
    <2>5. ASSUME NEW s \in Slot, task'[s].pc = "commit", task'[s].target # None, NEW m \in Node
          PROVE  ver[m] <= Granted'
      <3>1. Ret(s) /\ task[s].target # None
        BY <2>5 DEF Ret
      <3>2. CASE task[s].pc = "commit"
        BY <2>1, <2>2, <2>3, <3>1, <3>2
      <3>3. CASE backtracks' = backtracks + 1 /\ backtracks' <= MaxBacktracks
        BY <2>1, <2>2, <2>3, <3>3
      <3> QED BY <2>5, <3>1, <3>2, <3>3
    <2> QED BY <1>2, <2>4, <2>5 DEF FiringInv
  <1>8. PhantomInv'
    <2> SUFFICES ASSUME backtracks' = 0, "log" \notin Faults PROVE PhantomInv'
      BY DEF PhantomInv
    <2>1. backtracks = 0
      BY <1>0
    <2> QED BY <1>2, <2>1 DEF KernelInv, PhantomInv
  <1> QED BY <1>3, <1>4, <1>5, <1>6, <1>7, <1>8 DEF KernelInv

\* One goroutine moves.
LEMMA OneMoveKept ==
    ASSUME TypeOK, ClaimInv, KernelInv, NEW s \in Slot, NEW r,
           task' = [task EXCEPT ![s] = r],
           completed' = completed, skipped' = skipped, inDeg' = inDeg, liveIn' = liveIn,
           generation' = generation, outs' = outs, logged' = logged, ver' = ver,
           used' = used, resumes' = resumes, inFlight' \subseteq inFlight,
           ~pause' => ~pause, backtracks' \in Nat, backtracks <= backtracks',
           r.queue = {},
           Tame /\ r.pc \in {"start", "exec"} => r.gen = generation[r.node],
           r.pc = "exec" => \A p \in Pred(r.node) : r.inputs[p] = Given(r.node, p),
           r.pc \in {"resolve", "commit"} <=> Ret(s),
           Ret(s) =>
               /\ r.node = task[s].node /\ r.live = task[s].live
               /\ r.target \in {task[s].target, None}
               /\ r.pc = "commit" /\ r.target # None =>
                      \/ task[s].pc = "commit"
                      \/ backtracks' = backtracks + 1 /\ backtracks' <= MaxBacktracks
    PROVE  KernelInv'
  <1>1. task'[s] = r /\ \A u \in Slot : u # s => task'[u] = task[u]
    BY DEF TypeOK
  <1>2. ASSUME Tame
        PROVE  /\ \A u \in Slot : Executing(u)' => task'[u].gen = generation[task'[u].node]
               /\ \A u \in Slot : \A m \in task'[u].queue : task'[u].gens[m] = generation[m]
    <2>1. Current
      BY <1>2 DEF KernelInv, OrderInv
    <2> QED BY <1>1, <1>2, <2>1 DEF Current, Executing
  <1>3. \A u \in Slot : Ret(u)' <=> Ret(u)
    BY <1>1 DEF Ret
  <1>4. \A u \in Slot : task'[u].pc = "exec" =>
            task[u] = task'[u] \/
            \A p \in Pred(task'[u].node) : task'[u].inputs[p] = Given(task'[u].node, p)
    BY <1>1
  <1>5. \A u \in Slot : Ret(u) =>
               /\ task'[u].node = task[u].node /\ task'[u].live = task[u].live
               /\ task'[u].target \in {task[u].target, None}
               /\ task'[u].pc = "commit" /\ task'[u].target # None =>
                      \/ task[u].pc = "commit"
                      \/ backtracks' = backtracks + 1 /\ backtracks' <= MaxBacktracks
    BY <1>1
  <1> QED BY <1>2, <1>3, <1>4, <1>5, MoveKept

-----------------------------------------------------------------------------
(* The executor returns.                                                     *)

LEMMA ExecOkKept ==
    ASSUME TypeOK, ClaimInv, KernelInv, NEW s \in Slot, NEW L \in LiveSets[task[s].node],
           NEW logOk \in BOOLEAN, NEW req \in Rewind[task[s].node] \cup {None},
           NEW park \in BOOLEAN, ExecOk(s, L, logOk, req, park)
    PROVE  KernelInv'
  <1> DEFINE n == task[s].node
             r == Returned(task[s], L, req, park)
  <1> USE DEF traversal, control
  <1>1. /\ task[s].pc = "exec" /\ task' = [task EXCEPT ![s] = r]
        /\ completed' = completed /\ skipped' = skipped /\ inDeg' = inDeg /\ liveIn' = liveIn
        /\ generation' = generation /\ resumes' = resumes /\ pause' = pause
        /\ backtracks' = backtracks /\ inFlight' = inFlight \ {n}
        /\ outs' = [outs EXCEPT ![n] = L] /\ ver' = [ver EXCEPT ![n] = @ + 1]
        /\ used' = [used EXCEPT ![n] = task[s].inputs]
        /\ logged' = IF logOk THEN logged \cup {n} ELSE logged
        /\ logOk \/ "log" \in Faults
    BY DEF ExecOk, RecordOutputs
  <1>2. n \in Node /\ L \in SUBSET Node /\ req \in Node \cup {BadTarget, None}
    <2>1. n \in Node
      BY <1>1 DEF TypeOK
    <2> QED BY <2>1, LiveSetType, GraphAssumption
  <1>3. /\ r.pc \in {"commit", "resolve"} /\ (r.pc = "commit" => req = None)
        /\ r.target = req /\ r.node = n /\ r.queue = {} /\ r.live = L
    <2>1. task[s] \in TaskType /\ task[s].queue = {}
      BY <1>1 DEF TypeOK, ClaimInv, Quiet
    <2>2. r.live = L
      BY <2>1 DEF Returned, TaskType
    <2> QED BY <1>2, <2>1, <2>2, ReturnedType
  <1> HIDE DEF r
  <1>4. task'[s] = r /\ \A u \in Slot : u # s => task'[u] = task[u]
    BY <1>1 DEF TypeOK
  <1>5. Executing(s) /\ n \in inFlight
    BY <1>1 DEF ClaimInv, Claimed, Executing
  <1>6. /\ ~Ret(s) /\ Ret(s)' /\ \A u \in Slot : u # s => (Ret(u)' <=> Ret(u))
    BY <1>1, <1>3, <1>4 DEF Ret
  <1>7. \A m \in Node : Returning(m)' <=> Returning(m) \/ m = n
    BY <1>1, <1>3, <1>4 DEF Returning
  <1>8. Asked'
    BY <1>1, <1>3, <1>4, <1>6 DEF KernelInv, Asked, Ret
  <1>9. Tame' => /\ Tame /\ Waits /\ Ordered /\ Current /\ Fresh /\ skipped \subseteq completed
                 /\ n \notin completed
                 /\ \A m \in Node : m \in completed \/ Active(m) => n \notin Pred(m)
    <2> SUFFICES ASSUME Tame'
                 PROVE  /\ Tame /\ Waits /\ Ordered /\ Current /\ Fresh /\ skipped \subseteq completed
                        /\ n \notin completed
                        /\ \A m \in Node : m \in completed \/ Active(m) => n \notin Pred(m)
      OBVIOUS
    <2>1. Tame
      BY <1>1 DEF Tame
    <2>2. Waits /\ Ordered /\ Current /\ Fresh /\ skipped \subseteq completed
      BY <2>1 DEF KernelInv, OrderInv, FreshInv
    <2>3. n \notin completed
      BY <1>2, <1>5, <2>2 DEF Ordered, Active
    <2>4. \A m \in Node : m \in completed \/ Active(m) => n \notin Pred(m)
      BY <2>2, <2>3 DEF Ordered
    <2> QED BY <2>1, <2>2, <2>3, <2>4
  <1>10. \A m \in Node : Active(m)' => Active(m)
    BY <1>1, <1>5, <1>7 DEF Active
  <1>11. OrderInv'
    <2> SUFFICES ASSUME Tame' PROVE (Waits /\ Ordered /\ Current)'
      BY DEF OrderInv
    <2>1. Waits'
      BY <1>1, <1>9 DEF Waits
    <2>2. ASSUME NEW u \in Slot, NEW w \in Slot, Ret(u)', Ret(w)', task'[u].node = task'[w].node
          PROVE  u = w
      <3>1. \A y \in Slot : Ret(y) => task[y].node # n
        BY <1>5, <1>9 DEF Ordered
      <3> QED BY <1>3, <1>4, <1>6, <1>9, <2>2, <3>1 DEF Ordered
    <2>3. \A u \in Slot : Ret(u)' => task'[u].node \notin inFlight'
      BY <1>1, <1>3, <1>4, <1>6, <1>9 DEF Ordered
    <2>4. Ordered'
      BY <1>1, <1>9, <1>10, <2>2, <2>3 DEF Ordered, Ret
    <2>5. Current'
      BY <1>1, <1>3, <1>4, <1>9 DEF Current, Executing
    <2> QED BY <2>1, <2>4, <2>5
  <1>12. \A p \in Node \ {n} : outs'[p] = outs[p] /\ ver'[p] = ver[p] /\ used'[p] = used[p]
    BY <1>1 DEF TypeOK
  <1>13. FreshInv'
    <2> SUFFICES ASSUME Tame' PROVE Fresh' /\ skipped' \subseteq completed'
      BY DEF FreshInv
    <2>1. \A m \in Node, p \in Node : p # n => Given(m, p)' = Given(m, p)
      BY <1>12 DEF Given
    <2>2. ASSUME NEW u \in Slot, task'[u].pc = "exec", NEW p \in Pred(task'[u].node)
          PROVE  task'[u].inputs[p] = Given(task[u].node, p)'
      <3>1. u # s /\ task'[u] = task[u]
        BY <1>3, <1>4, <2>2
      <3>2. task[u].node \in Node /\ p \in Node
        BY <2>2, <3>1 DEF TypeOK, Pred
      <3>3. Active(task[u].node)
        BY <2>2, <3>1 DEF Active, ClaimInv, Claimed, Executing
      <3>4. p # n
        BY <1>9, <2>2, <3>1, <3>2, <3>3
      <3>5. task[u].inputs[p] = Given(task[u].node, p)
        BY <1>9, <2>2, <3>1 DEF Fresh
      <3> QED BY <2>1, <3>1, <3>2, <3>4, <3>5
    <2>3. ASSUME NEW m \in Node, m \in completed' \ skipped' \/ Returning(m)', NEW p \in Pred(m)
          PROVE  used'[m][p] = Given(m, p)'
      <3>1. p \in Node /\ (m \in completed \/ Active(m))
        BY <1>1, <1>10, <2>3 DEF Pred, Active
      <3>2. p # n
        BY <1>9, <3>1
      <3>3. CASE m = n
        <4>1. used'[n] = task[s].inputs
          BY <1>1, <1>2 DEF TypeOK
        <4>2. task[s].inputs[p] = Given(n, p)
          BY <1>1, <1>9, <3>3 DEF Fresh
        <4> QED BY <2>1, <3>1, <3>2, <3>3, <4>1, <4>2
      <3>4. CASE m # n
        <4>1. m \in completed \ skipped \/ Returning(m)
          BY <1>1, <1>7, <2>3, <3>4
        <4>2. used[m][p] = Given(m, p)
          BY <1>9, <4>1 DEF Fresh
        <4> QED BY <1>12, <2>1, <3>1, <3>2, <3>4, <4>2
      <3> QED BY <3>3, <3>4
    <2> QED BY <1>1, <1>9, <2>2, <2>3 DEF Fresh
  <1>14. LiveInv'
    <2> SUFFICES ASSUME ReviewLast, SureTargets, ~pause' PROVE LiveInv'
      BY DEF LiveInv
    <2>0. Tame' /\ ~pause
      BY <1>1 DEF Tame
    <2>1. \A p \in Node, m \in Node : Feeds(p, m)' <=> Feeds(p, m)
      BY <1>1, <1>9, <1>12, <2>0 DEF Feeds
    <2>2. /\ \A u \in Slot : Ret(u) => task[u].live = outs[task[u].node]
          /\ \A m \in Node : m \in completed \ skipped \/ Returning(m) => outs[m] \in LiveSets[m]
          /\ \A m \in Node \ completed : liveIn[m] > 0 <=> \E p \in Node : Feeds(p, m)
          /\ \A m \in Node \ Entry : Active(m) => \E p \in Node : Feeds(p, m)
          /\ \A m \in completed \ Entry : m \notin skipped <=> \E p \in Node : Feeds(p, m)
          /\ skipped \cap Entry = {}
      BY <2>0 DEF KernelInv, LiveInv
    <2>3. outs'[n] = L
      BY <1>1, <1>2 DEF TypeOK
    <2>4. ASSUME NEW u \in Slot, Ret(u)' PROVE task'[u].live = outs'[task'[u].node]
      <3>1. CASE u = s
        BY <1>3, <1>4, <2>3, <3>1
      <3>2. CASE u # s
        <4>1. Ret(u) /\ task'[u] = task[u]
          BY <1>4, <1>6, <2>4, <3>2
        <4>2. task[u].node \in Node \ {n}
          BY <1>5, <1>9, <2>0, <4>1 DEF Ordered, Ret, TypeOK
        <4> QED BY <1>12, <2>2, <4>1, <4>2
      <3> QED BY <3>1, <3>2
    <2>5. \A m \in Node : m \in completed' \ skipped' \/ Returning(m)' => outs'[m] \in LiveSets[m]
      <3> SUFFICES ASSUME NEW m \in Node, m \in completed' \ skipped' \/ Returning(m)'
                   PROVE  outs'[m] \in LiveSets[m]
        OBVIOUS
      <3>1. CASE m = n
        BY <2>3, <3>1
      <3>2. CASE m # n
        BY <1>1, <1>7, <1>12, <2>2, <3>2
      <3> QED BY <3>1, <3>2
    <2>6. /\ \A m \in Node \ completed' : liveIn'[m] > 0 <=> \E p \in Node : Feeds(p, m)'
          /\ \A m \in Node \ Entry : Active(m)' => \E p \in Node : Feeds(p, m)'
      BY <1>1, <1>10, <2>1, <2>2
    <2>7. /\ \A m \in completed' \ Entry : m \notin skipped' <=> \E p \in Node : Feeds(p, m)'
          /\ skipped' \cap Entry = {}
      <3>1. completed \subseteq Node
        BY DEF TypeOK
      <3> QED BY <1>1, <2>1, <2>2, <3>1
    <2> QED BY <2>4, <2>5, <2>6, <2>7 DEF LiveInv, Ret
  <1>15. FiringInv'
    <2> SUFFICES ASSUME Tame', resumes = 0 PROVE FiringInv'
      BY <1>1 DEF FiringInv
    <2>0. Granted' = Granted /\ Granted \in Nat
      BY <1>1, BoundAssumption DEF Granted, TypeOK
    <2>1. /\ \A m \in Node : ver[m] <= Granted + (IF m \in completed \/ Returning(m) THEN 1 ELSE 0)
          /\ (\E u \in Slot : task[u].pc = "commit" /\ task[u].target # None) =>
                 \A m \in Node : ver[m] <= Granted
      BY <1>9 DEF KernelInv, FiringInv
    <2>2. \A m \in Node : ver[m] \in Nat
      BY DEF TypeOK
    <2>3. ASSUME NEW m \in Node
          PROVE  ver'[m] <= Granted + (IF m \in completed \/ Returning(m)' THEN 1 ELSE 0)
      <3>1. CASE m = n
        <4>1. ver'[n] = ver[n] + 1
          BY <1>1, <1>2 DEF TypeOK
        <4>2. ~Returning(n)
          BY <1>5, <1>9 DEF Ordered, Returning, Ret
        <4>3. ver[n] <= Granted
          BY <1>2, <1>9, <2>0, <2>1, <4>2
        <4> QED BY <1>2, <1>7, <2>0, <2>2, <3>1, <4>1, <4>3
      <3>2. CASE m # n
        <4>1. ver'[m] = ver[m] /\ (Returning(m)' <=> Returning(m))
          BY <1>7, <1>12, <3>2
        <4> QED BY <2>1, <4>1
      <3> QED BY <3>1, <3>2
    <2>4. ASSUME NEW u \in Slot, task'[u].pc = "commit", task'[u].target # None
          PROVE  FALSE
      <3>1. u # s
        BY <1>3, <1>4, <2>4
      <3>2. task[u].pc = "commit" /\ task[u].target # None
        BY <1>4, <2>4, <3>1
      <3>3. ~Executing(s)
        BY <1>9, <3>2, RewindApart DEF KernelInv
      <3> QED BY <1>5, <3>3
    <2> QED BY <1>1, <2>0, <2>3, <2>4 DEF FiringInv
  <1>16. PhantomInv'
    <2> SUFFICES ASSUME backtracks' = 0, "log" \notin Faults,
                        NEW p \in Node, outs'[p] # {}
                 PROVE  p \in logged' /\ (p \in completed' \ skipped' \/ Returning(p)')
      BY DEF PhantomInv
    <2>1. CASE p = n
      BY <1>1, <1>7, <2>1
    <2>2. CASE p # n
      <3>1. outs[p] # {} /\ backtracks = 0
        BY <1>1, <1>12, <2>2
      <3>2. p \in logged /\ (p \in completed \ skipped \/ Returning(p))
        BY <3>1 DEF KernelInv, PhantomInv
      <3> QED BY <1>1, <1>7, <3>2
    <2> QED BY <2>1, <2>2
  <1> QED BY <1>8, <1>11, <1>13, <1>14, <1>15, <1>16 DEF KernelInv

-----------------------------------------------------------------------------
(* A commit that rewinds nothing.                                            *)

LEMMA CommitForwardKept ==
    ASSUME EntryRoots, TypeOK, ClaimInv, KernelInv, NEW s \in Slot, NEW logOk \in BOOLEAN,
           Commit(s, logOk), task[s].target = None
    PROVE  KernelInv'
  <1> DEFINE n == task[s].node
             L == task[s].live
  <1>0. PICK S \in SUBSET Node, q \in SUBSET Node : ForwardStep(s, S, q)
    BY CommitForward
  <1> DEFINE from == IF task[s].park THEN {} ELSE {n} \cup S
             r == Launching(task[s], q, generation)
  <1>1. /\ completed' = completed \cup {n} \cup S
        /\ skipped' = skipped \cup S
        /\ generation' = generation
        /\ inFlight' = inFlight \cup q
        /\ task' = [task EXCEPT ![s] = Launching(task[s], q, generation)]
        /\ S \cap (completed \cup {n}) = {}
        /\ \A m \in S : /\ m \notin inFlight
                        /\ Pred(m) \cap from # {}
                        /\ inDeg[m] - Arrivals(m, from) <= 0
                        /\ liveIn[m] + LiveArrivals(m, n, L) <= 0
        /\ \A m \in q : /\ m \notin completed \cup {n}
                        /\ Pred(m) \cap from # {}
                        /\ inDeg'[m] <= 0
                        /\ liveIn'[m] > 0
        /\ \A m \in Node : Pred(m) \cap from # {} /\ m \notin completed \cup {n} =>
               /\ inDeg'[m] = inDeg[m] - Arrivals(m, from)
               /\ liveIn'[m] = liveIn[m] + LiveArrivals(m, n, L)
        /\ \A m \in Node : Pred(m) \cap from = {} =>
               inDeg'[m] = inDeg[m] /\ liveIn'[m] = liveIn[m]
    BY <1>0 DEF ForwardStep
  <1>2. /\ task[s].pc = "commit" /\ resumes' = resumes /\ backtracks' = backtracks
        /\ outs' = outs /\ logged' = logged /\ ver' = ver /\ used' = used
        /\ pause' = (pause \/ task[s].park)
    BY DEF Commit, control, state
  <1>3. n \in Node /\ task[s] \in TaskType /\ Ret(s) /\ generation \in [Node -> Nat]
    BY <1>2 DEF TypeOK, Ret
  <1>4. /\ r.pc \in {"idle", "launch"} /\ r.queue = q
        /\ \A m \in q : r.gens[m] = generation[m]
    <2>1. r.pc \in {"idle", "launch"} /\ r.queue = q
      BY <1>3, LaunchingType
    <2>2. q # {} => r.gens = generation
      BY DEF Launching, Idle
    <2> QED BY <2>1, <2>2
  <1> HIDE DEF r
  <1>5. task'[s] = r /\ \A u \in Slot : u # s => task'[u] = task[u]
    <2>1. task' = [task EXCEPT ![s] = r]
      BY <1>1 DEF r
    <2> QED BY <2>1 DEF TypeOK
  <1>6. ~Ret(s)' /\ \A u \in Slot : u # s => (Ret(u)' <=> Ret(u))
    BY <1>4, <1>5 DEF Ret
  <1>7. \A m \in Node : Returning(m)' => Returning(m)
    BY <1>4, <1>5 DEF Returning
  <1>8. \A m \in Node : Returning(m) => Returning(m)' \/ m = n
    BY <1>5 DEF Returning
  <1>9. /\ \A m \in S : Pred(m) \cap from # {} /\ m \notin inFlight
        /\ \A m \in q : /\ m \notin completed \cup {n} \cup S /\ Pred(m) \cap from # {}
        /\ from \subseteq {n} \cup S
    <2>1. ASSUME NEW m \in q, m \in S PROVE FALSE
      <3>1. liveIn[m] + LiveArrivals(m, n, L) <= 0 /\ liveIn'[m] > 0
            /\ liveIn'[m] = liveIn[m] + LiveArrivals(m, n, L)
        BY <1>1, <2>1
      <3>2. liveIn[m] \in Nat /\ LiveArrivals(m, n, L) \in Nat
        BY DEF TypeOK, LiveArrivals
      <3> QED BY <3>1, <3>2
    <2> QED BY <1>1, <2>1
  <1>10. Asked'
    BY <1>2, <1>5, <1>6 DEF KernelInv, Asked, Ret
  <1>11. Tame' => /\ Tame /\ Waits /\ Ordered /\ Current /\ Fresh /\ skipped \subseteq completed
                  /\ n \notin completed /\ Pred(n) \subseteq completed /\ n \notin inFlight
                  /\ from \cap completed = {}
    <2> SUFFICES ASSUME Tame'
                 PROVE  /\ Tame /\ Waits /\ Ordered /\ Current /\ Fresh /\ skipped \subseteq completed
                        /\ n \notin completed /\ Pred(n) \subseteq completed /\ n \notin inFlight
                        /\ from \cap completed = {}
      OBVIOUS
    <2>1. Tame
      BY <1>2 DEF Tame
    <2>2. Waits /\ Ordered /\ Current /\ Fresh /\ skipped \subseteq completed
      BY <2>1 DEF KernelInv, OrderInv, FreshInv
    <2>3. Active(n)
      BY <1>3 DEF Active, Returning, Ret
    <2>4. n \notin completed /\ Pred(n) \subseteq completed /\ n \notin inFlight
      BY <1>3, <2>2, <2>3 DEF Ordered
    <2> QED BY <1>1, <2>1, <2>2, <2>4
  \* The nodes that were active before stay out of what reports in.
  <1>12. ASSUME Tame', NEW m \in Node, Active(m), m # n
         PROVE  m \notin completed' /\ Pred(m) \subseteq completed
    <2>1. m \notin completed /\ Pred(m) \subseteq completed
      BY <1>11, <1>12 DEF Ordered
    <2>2. m \notin S
      BY <1>9, <1>11, <1>12, <2>1
    <2> QED BY <1>1, <1>12, <2>1, <2>2
  <1>13. ASSUME Tame', NEW m \in Node, m \notin completed, inDeg[m] - Arrivals(m, from) <= 0
         PROVE  Pred(m) \subseteq completed'
    <2>1. inDeg[m] \in Int /\ inDeg[m] >= Cardinality(Pred(m) \ completed)
      BY <1>11, <1>13 DEF Waits, TypeOK
    <2> HIDE DEF from
    <2>2. Pred(m) \subseteq completed \cup from
      BY <1>11, <1>13, <2>1, AllArrived
    <2> QED BY <1>1, <1>9, <2>2
  <1>14. ASSUME Tame', NEW m \in S \cup q PROVE m \in Node /\ Pred(m) \subseteq completed'
    <2>1. m \notin completed /\ inDeg[m] - Arrivals(m, from) <= 0
      BY <1>1
    <2> QED BY <1>13, <1>14, <2>1
  <1>15. \A m \in Node : Active(m)' => m \in q \/ (Active(m) /\ (Tame' => m # n))
    <2> SUFFICES ASSUME NEW m \in Node, Active(m)', m \notin q
                 PROVE  Active(m) /\ (Tame' => m # n)
      OBVIOUS
    <2>1. m \in inFlight \/ Returning(m)'
      BY <1>1 DEF Active
    <2>2. Active(m)
      BY <1>7, <2>1 DEF Active
    <2>3. ASSUME Tame', m = n PROVE FALSE
      <3>1. Returning(m)'
        BY <1>11, <2>1, <2>3
      <3>2. PICK u \in Slot : task'[u].node = m /\ Ret(u)'
        BY <3>1 DEF Returning, Ret
      <3>3. u # s /\ Ret(u) /\ task[u].node = n
        BY <1>5, <1>6, <2>3, <3>2
      <3> QED BY <1>3, <1>11, <2>3, <3>3 DEF Ordered
    <2> QED BY <2>2, <2>3
  <1>16. OrderInv'
    <2> SUFFICES ASSUME Tame' PROVE (Waits /\ Ordered /\ Current)'
      BY DEF OrderInv
    <2>1. ASSUME NEW m \in Node \ completed' PROVE inDeg'[m] >= Cardinality(Pred(m) \ completed')
      <3>1. m \notin completed \cup {n} /\ inDeg[m] \in Int
            /\ inDeg[m] >= Cardinality(Pred(m) \ completed)
        BY <1>1, <1>11 DEF Waits, TypeOK
      <3>2. /\ Cardinality(Pred(m) \ completed) \in Nat
            /\ Cardinality(Pred(m) \ completed') \in Nat
            /\ Cardinality(Pred(m) \ completed') <= Cardinality(Pred(m) \ completed)
        <4>1. completed \subseteq completed'
          BY <1>1
        <4> QED BY <4>1, WaitMore
      <3>3. CASE Pred(m) \cap from = {}
        <4>1. inDeg'[m] = inDeg[m]
          BY <1>1, <3>3
        <4> QED BY <3>1, <3>2, <4>1
      <3>4. CASE Pred(m) \cap from # {}
        <4>1. inDeg'[m] = inDeg[m] - Arrivals(m, from)
          BY <1>1, <3>1, <3>4
        <4>2. completed' = completed \cup from
          BY <1>1, <3>4
        <4> HIDE DEF from
        <4>3. /\ Arrivals(m, from) \in Nat
              /\ Cardinality(Pred(m) \ completed') = Cardinality(Pred(m) \ completed) - Arrivals(m, from)
          BY <1>11, <4>2, WaitExact
        <4> QED BY <3>1, <3>2, <4>1, <4>3
      <3> QED BY <3>3, <3>4
    <2>2. ASSUME NEW m \in Node, Active(m)' PROVE m \notin completed' /\ Pred(m) \subseteq completed'
      <3>1. CASE m \in q
        BY <1>1, <1>9, <1>14, <3>1
      <3>2. CASE Active(m) /\ m # n
        BY <1>1, <1>12, <3>2
      <3> QED BY <1>15, <2>2, <3>1, <3>2
    <2>3. ASSUME NEW m \in completed' PROVE Pred(m) \subseteq completed'
      BY <1>1, <1>11, <1>14 DEF Ordered
    <2>4. \A u, w \in Slot : Ret(u)' /\ Ret(w)' /\ task'[u].node = task'[w].node => u = w
      BY <1>5, <1>6, <1>11 DEF Ordered
    <2>5. ASSUME NEW u \in Slot, Ret(u)' PROVE task'[u].node \notin inFlight'
      <3>1. u # s /\ Ret(u) /\ task'[u] = task[u] /\ task[u].node \in Node
        BY <1>5, <1>6, <2>5 DEF Ret, TypeOK
      <3>2. task[u].node \notin inFlight
        BY <1>11, <3>1 DEF Ordered
      <3>3. Pred(task[u].node) \subseteq completed
        BY <1>11, <3>1 DEF Ordered, Active, Returning, Ret
      <3>4. task[u].node \notin q
        BY <1>9, <1>11, <3>3
      <3> QED BY <1>1, <3>1, <3>2, <3>4
    <2>6. Ordered'
      BY <2>2, <2>3, <2>4, <2>5 DEF Ordered, Ret
    <2>7. Current'
      BY <1>1, <1>4, <1>5, <1>11 DEF Current, Executing
    <2> QED BY <2>1, <2>6, <2>7 DEF Waits
  <1>17. FreshInv'
    <2> SUFFICES ASSUME Tame' PROVE Fresh' /\ skipped' \subseteq completed'
      BY DEF FreshInv
    <2>1. \A m, p : Given(m, p)' = Given(m, p)
      BY <1>2 DEF Given
    <2>2. \A u \in Slot : task'[u].pc = "exec" =>
              \A p \in Pred(task'[u].node) : task'[u].inputs[p] = Given(task'[u].node, p)
      BY <1>4, <1>5, <1>11 DEF Fresh
    <2>3. ASSUME NEW m \in Node, m \in completed' \ skipped' \/ Returning(m)', NEW p \in Pred(m)
          PROVE  used[m][p] = Given(m, p)
      <3>1. Returning(n)
        BY <1>3 DEF Returning, Ret
      <3>2. m \in completed \ skipped \/ Returning(m)
        BY <1>1, <1>7, <2>3, <3>1
      <3> QED BY <1>11, <3>2 DEF Fresh
    <2> QED BY <1>1, <1>2, <1>11, <2>1, <2>2, <2>3 DEF Fresh
  <1>18. LiveInv'
    <2> SUFFICES ASSUME ReviewLast, SureTargets, ~pause' PROVE LiveInv'
      BY DEF LiveInv
    <2>0. Tame' /\ ~pause /\ ~task[s].park /\ from = {n} \cup S
      BY <1>2 DEF Tame
    <2>1. /\ \A u \in Slot : Ret(u) => task[u].live = outs[task[u].node]
          /\ \A m \in Node : m \in completed \ skipped \/ Returning(m) => outs[m] \in LiveSets[m]
          /\ \A m \in Node \ completed : liveIn[m] > 0 <=> \E p \in Node : Feeds(p, m)
          /\ \A m \in Node \ Entry : Active(m) => \E p \in Node : Feeds(p, m)
          /\ \A m \in completed \ Entry : m \notin skipped <=> \E p \in Node : Feeds(p, m)
          /\ skipped \cap Entry = {}
      BY <2>0 DEF KernelInv, LiveInv
    <2>2. L = outs[n] /\ L \subseteq Succ(n) /\ Returning(n)
      <3>1. L = outs[n] /\ Returning(n)
        BY <1>3, <2>1 DEF Returning, Ret
      <3>2. outs[n] \in LiveSets[n]
        BY <1>3, <2>1, <3>1
      <3> QED BY <1>3, <3>1, <3>2, GraphAssumption
    <2>3. \A m \in Node, p \in Node :
              Feeds(p, m)' <=> Feeds(p, m) \/ (p = n /\ m \in L)
      <3> SUFFICES ASSUME NEW m \in Node, NEW p \in Node
                   PROVE  Feeds(p, m)' <=> Feeds(p, m) \/ (p = n /\ m \in L)
        OBVIOUS
      <3>1. n \notin skipped' /\ n \in completed'
        BY <1>1, <1>11, <2>0
      <3>2. CASE p = n
        BY <1>2, <1>3, <1>11, <2>0, <2>2, <3>1, <3>2 DEF Feeds, Succ, Pred
      <3>3. CASE p # n
        BY <1>1, <1>2, <1>11, <2>0, <3>3 DEF Feeds
      <3> QED BY <3>2, <3>3
    <2>4. ASSUME NEW u \in Slot, Ret(u)' PROVE task'[u].live = outs'[task'[u].node]
      BY <1>2, <1>5, <1>6, <2>1, <2>4
    <2>5. \A m \in Node : m \in completed' \ skipped' \/ Returning(m)' => outs'[m] \in LiveSets[m]
      BY <1>1, <1>2, <1>7, <2>1, <2>2
    <2>6. ASSUME NEW m \in Node \ completed'
          PROVE  liveIn'[m] > 0 <=> \E p \in Node : Feeds(p, m)'
      <3>1. m \in Node \ completed /\ m \notin completed \cup {n} /\ liveIn[m] \in Nat
        BY <1>1 DEF TypeOK
      <3>2. liveIn[m] > 0 <=> \E p \in Node : Feeds(p, m)
        BY <2>1, <3>1
      <3>3. CASE Pred(m) \cap from # {}
        <4>1. liveIn'[m] = liveIn[m] + (IF m \in L THEN 1 ELSE 0)
          BY <1>1, <3>1, <3>3 DEF LiveArrivals
        <4>2. liveIn'[m] > 0 <=> liveIn[m] > 0 \/ m \in L
          BY <3>1, <4>1
        <4> QED BY <1>3, <2>3, <3>2, <4>2
      <3>4. CASE Pred(m) \cap from = {}
        <4>1. liveIn'[m] = liveIn[m]
          BY <1>1, <3>4
        <4>2. m \notin L
          BY <1>3, <2>0, <2>2, <3>4 DEF Succ, Pred
        <4> QED BY <2>3, <3>2, <4>1, <4>2
      <3> QED BY <3>3, <3>4
    <2>7. ASSUME NEW m \in Node \ Entry, Active(m)' PROVE \E p \in Node : Feeds(p, m)'
      <3>1. CASE m \in q
        BY <1>1, <1>9, <2>6, <3>1
      <3>2. CASE Active(m)
        BY <2>1, <2>3, <3>2
      <3> QED BY <1>15, <2>7, <3>1, <3>2
    <2>8. ASSUME NEW m \in completed' \ Entry
          PROVE  m \notin skipped' <=> \E p \in Node : Feeds(p, m)'
      <3>0. m \in Node
        BY <1>1, <1>3 DEF TypeOK
      <3>1. CASE m \in completed
        <4>1. n \notin Pred(m)
          BY <1>11, <2>0, <3>1 DEF Ordered
        <4>2. m \notin L
          BY <1>3, <2>2, <4>1 DEF Succ, Pred
        <4>3. m \notin skipped' <=> m \notin skipped
          BY <1>1, <3>1
        <4> QED BY <2>1, <2>3, <2>8, <3>0, <3>1, <4>2, <4>3
      <3>2. CASE m = n
        <4>1. m \notin skipped'
          BY <1>1, <1>11, <2>0, <3>2
        <4>2. Active(m)
          BY <2>2, <3>2 DEF Active
        <4> QED BY <2>1, <2>3, <2>8, <3>0, <4>1, <4>2
      <3>3. CASE m \in S
        <4>1. m \in skipped' /\ m \notin completed
          BY <1>1, <3>3
        <4>2. liveIn[m] \in Nat /\ liveIn[m] + (IF m \in L THEN 1 ELSE 0) <= 0
          BY <1>1, <3>0, <3>3 DEF TypeOK, LiveArrivals
        <4>3. ~(liveIn[m] > 0) /\ m \notin L
          BY <4>2
        <4> QED BY <2>1, <2>3, <3>0, <4>1, <4>3
      <3> QED BY <1>1, <3>1, <3>2, <3>3
    <2>9. skipped' \cap Entry = {}
      BY <1>1, <1>9, <2>1 DEF EntryRoots
    <2> QED BY <2>4, <2>5, <2>6, <2>7, <2>8, <2>9 DEF LiveInv, Ret
  <1>19. FiringInv'
    <2> SUFFICES ASSUME Tame', resumes = 0 PROVE FiringInv'
      BY <1>2 DEF FiringInv
    <2>0. Granted' = Granted /\ Granted \in Nat
      BY <1>2, BoundAssumption DEF Granted, TypeOK
    <2>1. /\ \A m \in Node : ver[m] <= Granted + (IF m \in completed \/ Returning(m) THEN 1 ELSE 0)
          /\ (\E u \in Slot : task[u].pc = "commit" /\ task[u].target # None) =>
                 \A m \in Node : ver[m] <= Granted
      BY <1>11 DEF KernelInv, FiringInv
    <2>2. \A m \in Node : ver[m] \in Nat
      BY DEF TypeOK
    <2>3. \A m \in Node : ver[m] <= Granted + (IF m \in completed' \/ Returning(m)' THEN 1 ELSE 0)
      <3>1. \A m \in Node : m \in completed \/ Returning(m) => m \in completed' \/ Returning(m)'
        BY <1>1, <1>8
      <3> QED BY <2>0, <2>1, <2>2, <3>1
    <2>4. ASSUME NEW u \in Slot, task'[u].pc = "commit", task'[u].target # None
          PROVE  task[u].pc = "commit" /\ task[u].target # None
      BY <1>4, <1>5, <2>4
    <2> QED BY <1>2, <2>0, <2>1, <2>3, <2>4 DEF FiringInv
  <1>20. PhantomInv'
    <2> SUFFICES ASSUME backtracks' = 0, "log" \notin Faults,
                        NEW p \in Node, outs'[p] # {}
                 PROVE  p \in logged' /\ (p \in completed' \ skipped' \/ Returning(p)')
      BY DEF PhantomInv
    <2>1. Tame' /\ p \in logged /\ (p \in completed \ skipped \/ Returning(p))
      BY <1>2 DEF KernelInv, PhantomInv, Tame
    <2>2. CASE p \in completed \ skipped
      BY <1>1, <1>2, <2>1, <2>2
    <2>3. CASE Returning(p) /\ p # n
      BY <1>2, <1>8, <2>1, <2>3
    <2>4. CASE p = n
      <3>1. n \notin skipped
        BY <1>11, <2>1
      <3> QED BY <1>1, <1>2, <2>1, <2>4, <3>1
    <2> QED BY <2>1, <2>2, <2>3, <2>4
  <1> QED BY <1>10, <1>16, <1>17, <1>18, <1>19, <1>20 DEF KernelInv

-----------------------------------------------------------------------------
(* A commit that rewinds.                                                    *)

LEMMA CommitRewindKept ==
    ASSUME EntryRoots, TypeOK, ClaimInv, KernelInv, Tame, NEW s \in Slot, NEW logOk \in BOOLEAN,
           Commit(s, logOk), task[s].target # None
    PROVE  KernelInv'
  <1> DEFINE n == task[s].node
             x == task[s].target
             R == DescendantsInclusive(x)
  <1>0. /\ task[s].pc = "commit" /\ resumes' = resumes /\ backtracks' = backtracks
        /\ outs' = outs /\ logged' = logged /\ ver' = ver /\ used' = used
        /\ pause' = (pause \/ task[s].park)
    BY DEF Commit, control, state
  <1>1. /\ ReviewLast /\ x \in Rewind[n] \cap Node /\ n \in R
        /\ completed = Node \ {n} /\ inFlight = {}
        /\ \A u \in Slot : ~Executing(u) /\ task[u].queue = {} /\ (Ret(u) => u = s)
    BY <1>0, RewindApart DEF KernelInv
  <1>2. /\ completed' = completed \ R /\ skipped' = skipped \ R
        /\ \A m \in R : /\ inDeg'[m] = Cardinality(Pred(m) \ completed')
                        /\ liveIn'[m] = RearmedLiveIn(m, R, completed', skipped')
        /\ \A m \in Node \ R : inDeg'[m] = inDeg[m] /\ liveIn'[m] = liveIn[m]
        /\ \E q \in SUBSET {x} :
              /\ q # {} => inDeg'[x] <= 0
              /\ inFlight' = inFlight \cup q
              /\ task' = [task EXCEPT ![s] = Launching(task[s], q, generation')]
    BY <1>1, CommitRewind
  <1>3. PICK q \in SUBSET {x} :
              /\ q # {} => inDeg'[x] <= 0
              /\ inFlight' = inFlight \cup q
              /\ task' = [task EXCEPT ![s] = Launching(task[s], q, generation')]
    BY <1>2
  <1>4. /\ R \in SUBSET Node /\ x \in R /\ n \in Node
        /\ \A m \in Node \ R : Pred(m) \cap R = {}
    <2>1. R \in SUBSET Node
      BY DEF DescendantsInclusive
    <2>2. x \in R
      BY <1>1, ReachReflexive DEF DescendantsInclusive
    <2>3. \A m \in Node \ R : Pred(m) \cap R = {}
      BY <1>1, RewoundClosed
    <2> HIDE DEF R
    <2> QED BY <1>1, <2>1, <2>2, <2>3
  <1> HIDE DEF R
  <1>5. completed' = Node \ R /\ inFlight' = q /\ q \in SUBSET Node
    BY <1>1, <1>2, <1>3, <1>4
  <1> DEFINE r == Launching(task[s], q, generation')
  <1>6. /\ r.pc \in {"idle", "launch"} /\ r.queue = q
        /\ \A m \in q : r.gens[m] = generation'[m]
    <2>1. generation' \in [Node -> Nat]
      BY CommitType DEF TypeOK
    <2>2. task[s] \in TaskType /\ task[s].node \in Node
      BY <1>4 DEF TypeOK
    <2>3. r.pc \in {"idle", "launch"} /\ r.queue = q
      BY <1>5, <2>1, <2>2, LaunchingType
    <2>4. q # {} => r.gens = generation'
      BY DEF Launching, Idle
    <2> QED BY <2>3, <2>4
  <1>7. task'[s] = r /\ \A u \in Slot : u # s => task'[u] = task[u]
    <2> HIDE DEF r
    <2>1. task' = [task EXCEPT ![s] = r]
      BY <1>3 DEF r
    <2> QED BY <2>1 DEF TypeOK
  <1> HIDE DEF r
  <1>8. \A u \in Slot : /\ ~Ret(u)' /\ ~Executing(u)'
                        /\ \A m \in task'[u].queue : m \in q /\ task'[u].gens[m] = generation'[m]
    <2> SUFFICES ASSUME NEW u \in Slot
                 PROVE  /\ ~Ret(u)' /\ ~Executing(u)'
                        /\ \A m \in task'[u].queue : m \in q /\ task'[u].gens[m] = generation'[m]
      OBVIOUS
    <2>1. CASE u = s
      BY <1>6, <1>7, <2>1 DEF Ret, Executing
    <2>2. CASE u # s
      BY <1>1, <1>7, <2>2 DEF Ret, Executing
    <2> QED BY <2>1, <2>2
  <1>9. \A m \in Node : /\ ~Returning(m)'
                        /\ Active(m)' => m = x /\ inDeg'[x] <= 0
    BY <1>3, <1>5, <1>8 DEF Returning, Active, Ret
  <1>10. Asked'
    BY <1>8 DEF Asked, Ret
  <1>11. OrderInv'
    <2>1. Waits'
      <3> SUFFICES ASSUME NEW m \in Node \ completed'
                   PROVE  inDeg'[m] >= Cardinality(Pred(m) \ completed')
        BY DEF Waits
      <3>1. m \in R
        BY <1>5
      <3>2. Cardinality(Pred(m) \ completed') \in Nat
        BY WaitMore
      <3> QED BY <1>2, <3>1, <3>2
    <2>2. ASSUME NEW m \in Node, Active(m)' PROVE m \notin completed' /\ Pred(m) \subseteq completed'
      <3>1. m = x /\ ~(Cardinality(Pred(m) \ completed') > 0)
        <4>1. m = x /\ inDeg'[x] <= 0 /\ inDeg'[x] = Cardinality(Pred(x) \ completed')
          BY <1>2, <1>4, <1>9, <2>2
        <4>2. Cardinality(Pred(x) \ completed') \in Nat
          BY WaitMore
        <4> QED BY <4>1, <4>2
      <3>2. Pred(m) \ completed' = {}
        BY <3>1, WaitsForSome
      <3> QED BY <1>4, <1>5, <3>1, <3>2
    <2>3. \A m \in completed' : Pred(m) \subseteq completed'
      BY <1>4, <1>5 DEF Pred
    <2>4. Ordered'
      BY <1>8, <2>2, <2>3 DEF Ordered, Ret
    <2>5. Current'
      BY <1>8 DEF Current, Executing
    <2> QED BY <2>1, <2>4, <2>5 DEF OrderInv
  <1>12. Fresh /\ skipped \subseteq completed
    BY DEF KernelInv, FreshInv
  <1>13. FreshInv'
    <2>1. \A m, p : Given(m, p)' = Given(m, p)
      BY <1>0 DEF Given
    <2>2. ASSUME NEW m \in Node, m \in completed' \ skipped', NEW p \in Pred(m)
          PROVE  used'[m][p] = Given(m, p)
      BY <1>0, <1>2, <1>12, <2>2 DEF Fresh
    <2>3. \A u \in Slot : task'[u].pc # "exec"
      BY <1>8 DEF Executing
    <2>4. Fresh'
      BY <1>9, <2>1, <2>2, <2>3 DEF Fresh
    <2> QED BY <1>2, <1>12, <2>4 DEF FreshInv
  <1>14. LiveInv'
    <2> SUFFICES ASSUME SureTargets, ~pause' PROVE LiveInv'
      BY DEF LiveInv
    <2>0. ~pause
      BY <1>0
    <2>1. /\ \A m \in Node : m \in completed \ skipped \/ Returning(m) => outs[m] \in LiveSets[m]
          /\ \A m \in completed \ Entry : m \notin skipped <=> \E p \in Node : Feeds(p, m)
          /\ skipped \cap Entry = {}
      BY <1>1, <2>0 DEF KernelInv, LiveInv
    <2>2. \A m \in Node : m \in completed' \ skipped' \/ Returning(m)' => outs'[m] \in LiveSets[m]
      BY <1>0, <1>2, <1>9, <2>1
    <2>3. ASSUME NEW m \in Node \ completed'
          PROVE  liveIn'[m] > 0 <=> \E p \in Node : Feeds(p, m)'
      <3> DEFINE P == {p \in Pred(m) : p \notin R /\ p \in completed' /\ p \notin skipped' /\ m \in outs[p]}
      <3>1. liveIn'[m] = Cardinality(P)
        <4>1. m \in R
          BY <1>5
        <4> QED BY <1>2, <4>1 DEF RearmedLiveIn
      <3>2. IsFiniteSet(P)
        <4>1. P \subseteq Pred(m)
          OBVIOUS
        <4> HIDE DEF P
        <4> QED BY <4>1, PredFinite, FS_Subset
      <3>3. Cardinality(P) > 0 <=> P # {}
        <4> HIDE DEF P
        <4> QED BY <3>2, FS_CardinalityType, FS_EmptySet
      <3>4. P # {} <=> \E p \in Node : Feeds(p, m)'
        BY <1>0, <1>5 DEF Feeds, Pred
      <3> QED BY <3>1, <3>3, <3>4
    <2>5. ASSUME NEW m \in Node \ Entry, Active(m)' PROVE \E p \in Node : Feeds(p, m)'
      <3>1. m = x
        BY <1>9, <2>5
      <3>2. Pred(m) \subseteq completed'
        BY <1>1, <1>11, <2>5 DEF OrderInv, Ordered, Tame
      <3>3. PICK p \in Pred(m) : TRUE
        BY <2>5 DEF EntryRoots
      <3>4. p \in Node /\ <<p, m>> \in Edge /\ p \in completed'
        BY <3>2, <3>3 DEF Pred
      <3>5. <<p, x>> \in Reach /\ <<m, x>> \in Reach
        BY <3>1, <3>4, ReachEdge, ReachReflexive
      <3>6. p \notin skipped
        BY <1>1, <1>4, <2>0, <3>4, <3>5, SureNotSkipped DEF KernelInv
      <3>7. outs[p] \in LiveSets[p]
        BY <1>2, <2>1, <3>4, <3>6
      <3>8. m \in outs[p]
        BY <1>1, <1>4, <3>3, <3>5, <3>7 DEF SureTargets
      <3> QED BY <1>0, <1>2, <3>3, <3>4, <3>6, <3>8 DEF Feeds
    <2>6. ASSUME NEW m \in completed' \ Entry
          PROVE  m \notin skipped' <=> \E p \in Node : Feeds(p, m)'
      <3>1. m \in Node \ R /\ m \in completed \ Entry /\ (m \in skipped' <=> m \in skipped)
        BY <1>2, <1>5, <2>6
      <3>2. \A p \in Node : Feeds(p, m)' <=> Feeds(p, m)
        BY <1>0, <1>2, <1>4, <3>1 DEF Feeds
      <3> QED BY <2>1, <3>1, <3>2
    <2>7. skipped' \cap Entry = {}
      BY <1>2, <2>1
    <2> QED BY <1>8, <2>2, <2>3, <2>5, <2>6, <2>7 DEF LiveInv, Ret
  <1>15. FiringInv'
    <2> SUFFICES ASSUME resumes = 0 PROVE FiringInv'
      BY <1>0 DEF FiringInv
    <2>0. Granted' = Granted /\ Granted \in Nat
      BY <1>0, BoundAssumption DEF Granted, TypeOK
    <2>1. \A m \in Node : ver[m] <= Granted
      BY <1>0 DEF KernelInv, FiringInv
    <2>2. \A m \in Node : ver[m] \in Nat
      BY DEF TypeOK
    <2>3. \A m \in Node : ver[m] <= Granted + (IF m \in completed' \/ Returning(m)' THEN 1 ELSE 0)
      BY <2>0, <2>1, <2>2
    <2>4. \A u \in Slot : task'[u].pc # "commit"
      BY <1>8 DEF Ret
    <2> QED BY <1>0, <2>0, <2>3, <2>4 DEF FiringInv
  <1>16. PhantomInv'
    <2>1. backtracks >= 1
      BY <1>0 DEF KernelInv, Asked, Ret
    <2> QED BY <1>0, <2>1 DEF PhantomInv
  <1> QED BY <1>10, <1>11, <1>13, <1>14, <1>15, <1>16 DEF KernelInv

-----------------------------------------------------------------------------
(* The remaining steps.                                                      *)

\* Off the tame graphs only Asked says something.
LEMMA UntamedKept == ~Tame' /\ Asked' => KernelInv'
  BY DEF KernelInv, OrderInv, FreshInv, LiveInv, FiringInv, PhantomInv, Tame

LEMMA CommitKept ==
    ASSUME EntryRoots, TypeOK, ClaimInv, KernelInv, NEW s \in Slot, NEW logOk \in BOOLEAN,
           Commit(s, logOk)
    PROVE  KernelInv'
  <1>1. CASE task[s].target = None
    BY <1>1, CommitForwardKept
  <1>2. CASE task[s].target # None /\ Tame
    BY <1>2, CommitRewindKept
  <1>3. CASE ~Tame
    <2>1. PICK q \in SUBSET Node, g \in [Node -> Nat] :
              task' = [task EXCEPT ![s] = Launching(task[s], q, g)]
      BY CommitClaims
    <2>2. task[s].node \in Node /\ task[s] \in TaskType /\ backtracks' = backtracks
      BY DEF Commit, TypeOK
    <2> DEFINE r == Launching(task[s], q, g)
    <2>3. r.pc \in {"idle", "launch"}
      BY <2>2, LaunchingType
    <2> HIDE DEF r
    <2>4. task'[s] = r /\ \A u \in Slot : u # s => task'[u] = task[u]
      BY <2>1 DEF TypeOK, r
    <2>5. Asked'
      BY <2>2, <2>3, <2>4 DEF KernelInv, Asked, Ret
    <2>6. ~Tame'
      BY <1>3, <2>2 DEF Tame
    <2> QED BY <2>5, <2>6, UntamedKept
  <1> QED BY <1>1, <1>2, <1>3

\* A dispatch is superseded only off the tame graphs.
LEMMA ExecStaleKept ==
    ASSUME TypeOK, ClaimInv, KernelInv, NEW s \in Slot, NEW L, NEW logOk, ExecStale(s, L, logOk)
    PROVE  KernelInv'
  <1> DEFINE n == task[s].node
             q == IF RefireNow(n) THEN {n} ELSE {}
             r == Launching(task[s], q, generation)
  <1>1. /\ task[s].pc = "exec" /\ generation[n] # task[s].gen /\ backtracks' = backtracks
        /\ task' = [task EXCEPT ![s] = r]
    BY DEF ExecStale
  <1>2. ~Tame
    BY <1>1 DEF KernelInv, OrderInv, Current, Executing
  <1>3. r.pc \in {"idle", "launch"}
    BY DEF Launching, Idle
  <1> HIDE DEF r
  <1>4. task'[s] = r /\ \A u \in Slot : u # s => task'[u] = task[u]
    BY <1>1 DEF TypeOK
  <1>5. Asked'
    BY <1>1, <1>3, <1>4 DEF KernelInv, Asked, Ret
  <1>6. ~Tame'
    BY <1>1, <1>2 DEF Tame
  <1> QED BY <1>5, <1>6, UntamedKept

\* Fresh maps and no goroutine: the start of a run, and of a resumed one.
LEMMA KernelInit == EntryRoots /\ Init => KernelInv
  <1> SUFFICES ASSUME EntryRoots, Init PROVE KernelInv
    OBVIOUS
  <1>1. \A s \in Slot : task[s].pc = "idle" /\ task[s].queue = {}
    BY DEF Init, Idle
  <1>2. \A m \in Node : ~Returning(m)
    BY <1>1 DEF Returning
  <1>3. Asked
    BY <1>1 DEF Asked, Ret
  <1>4. Waits
    <2> SUFFICES ASSUME NEW m \in Node PROVE inDeg[m] >= Cardinality(Pred(m) \ completed)
      BY DEF Waits
    <2>1. Pred(m) \ completed = Pred(m)
      BY DEF Init
    <2>2. Cardinality(Pred(m)) \in Nat
      BY PredType, CountType
    <2>3. m \in Entry => Cardinality(Pred(m)) = 0
      BY FS_EmptySet DEF EntryRoots
    <2> QED BY <2>1, <2>2, <2>3 DEF Init
  <1>5. Ordered /\ Current
    BY <1>1, <1>2 DEF Ordered, Current, Active, Ret, Executing, EntryRoots, Init
  <1>6. FreshInv
    BY <1>1, <1>2 DEF FreshInv, Fresh, Init
  <1>7. LiveInv
    <2>1. \A p \in Node, m \in Node : ~Feeds(p, m)
      BY DEF Feeds, Init
    <2>2. \A m \in Node : ~(liveIn[m] > 0)
      BY DEF Init, NoNode
    <2>3. \A m \in Node \ Entry : ~Active(m)
      BY <1>2 DEF Active, Init
    <2> QED BY <1>1, <1>2, <2>1, <2>2, <2>3 DEF LiveInv, Ret, Init
  <1>8. FiringInv
    <2>1. \A m \in Node : ver[m] = 0
      BY DEF Init, NoNode
    <2>2. Granted \in Nat
      BY BoundAssumption DEF Granted, Init
    <2> QED BY <1>1, <2>1, <2>2 DEF FiringInv
  <1>9. PhantomInv
    BY DEF PhantomInv, Init
  <1> QED BY <1>3, <1>4, <1>5, <1>6, <1>7, <1>8, <1>9 DEF KernelInv, OrderInv

LEMMA ResumeKept ==
    ASSUME EntryRoots, TypeOK, ClaimInv, KernelInv, Resume
    PROVE  KernelInv'
  <1> USE DEF Resume, FreshRun
  <1>1. \A s \in Slot : task'[s].pc = "idle" /\ task'[s].queue = {}
    BY DEF ClaimInv, Quiet
  <1>2. \A m \in Node : ~Returning(m)'
    BY <1>1 DEF Returning
  <1>3. Asked'
    BY <1>1 DEF Asked, Ret
  <1>4. Waits'
    <2> SUFFICES ASSUME NEW m \in Node PROVE inDeg'[m] >= Cardinality(Pred(m) \ completed')
      BY DEF Waits
    <2>1. Pred(m) \ completed' = Pred(m)
      OBVIOUS
    <2>2. Cardinality(Pred(m)) \in Nat
      BY PredType, CountType
    <2>3. m \in Entry => Cardinality(Pred(m)) = 0
      BY FS_EmptySet DEF EntryRoots
    <2> QED BY <2>1, <2>2, <2>3
  <1>5. Ordered' /\ Current'
    BY <1>1, <1>2 DEF Ordered, Current, Active, Ret, Executing, EntryRoots
  <1>6. FreshInv'
    BY <1>1, <1>2 DEF FreshInv, Fresh
  <1>7. LiveInv'
    <2>1. \A p \in Node, m \in Node : ~Feeds(p, m)'
      BY DEF Feeds
    <2>2. \A m \in Node : ~(liveIn'[m] > 0)
      BY DEF NoNode
    <2>3. \A m \in Node \ Entry : ~Active(m)'
      BY <1>2 DEF Active
    <2> QED BY <1>1, <1>2, <2>1, <2>2, <2>3 DEF LiveInv, Ret
  <1>8. FiringInv'
    <2>1. resumes' # 0
      BY BoundAssumption DEF TypeOK
    <2> QED BY <2>1 DEF FiringInv
  <1>9. PhantomInv'
    <2> SUFFICES ASSUME backtracks' = 0, "log" \notin Faults, NEW p \in Node
                 PROVE  outs'[p] = {}
      BY DEF PhantomInv
    <2>1. outs[p] # {} => p \in logged
      BY DEF KernelInv, PhantomInv
    <2> QED BY <2>1
  <1> QED BY <1>3, <1>4, <1>5, <1>6, <1>7, <1>8, <1>9 DEF KernelInv, OrderInv

LEMMA KernelStep ==
    EntryRoots /\ TypeOK /\ ClaimInv /\ KernelInv /\ [Next]_vars => KernelInv'
  <1> SUFFICES ASSUME EntryRoots, TypeOK, ClaimInv, KernelInv, [Next]_vars PROVE KernelInv'
    OBVIOUS
  <1> USE DEF traversal, control, state
  <1>t. /\ task \in [Slot -> TaskType] /\ \A u \in Slot : task[u] \in TaskType
        /\ backtracks \in Nat /\ generation \in [Node -> Nat] /\ pause \in BOOLEAN
    BY DEF TypeOK
  <1>i. Idle.pc = "idle" /\ Idle.queue = {}
    BY DEF Idle
  <1>c. Tame => Current
    BY DEF KernelInv, OrderInv
  <1>1. CASE Finish \/ UNCHANGED vars
    <2>1. /\ task' = task /\ completed' = completed /\ skipped' = skipped /\ inDeg' = inDeg
          /\ liveIn' = liveIn /\ generation' = generation /\ outs' = outs /\ logged' = logged
          /\ ver' = ver /\ used' = used /\ resumes' = resumes /\ inFlight' = inFlight
          /\ pause' = pause /\ backtracks' = backtracks
      BY <1>1 DEF Finish, vars
    <2>2. \A u \in Slot : (Ret(u)' <=> Ret(u)) /\ (Executing(u)' <=> Executing(u))
      BY <2>1 DEF Ret, Executing
    <2>3. Tame => /\ \A u \in Slot : Executing(u)' => task'[u].gen = generation[task'[u].node]
                  /\ \A u \in Slot : \A m \in task'[u].queue : task'[u].gens[m] = generation[m]
      BY <1>c, <2>1, <2>2 DEF Current
    <2> QED BY <1>t, <2>1, <2>2, <2>3, MoveKept
  <1>2. ASSUME NEW n \in Node, NEW s \in Slot, SeedLaunch(n, s) PROVE KernelInv'
    <2> DEFINE r == Spawned(n, generation[n])
    <2>1. r.pc = "start" /\ r.node = n /\ r.queue = {} /\ r.gen = generation[n]
      <3>1. generation[n] \in Nat BY <1>t
      <3>2. r.gen = generation[n] BY DEF Spawned, Idle
      <3> QED BY <3>1, <3>2, SpawnedType
    <2> HIDE DEF r
    <2>2. /\ task[s].pc = "idle" /\ task' = [task EXCEPT ![s] = r]
          /\ completed' = completed /\ skipped' = skipped /\ inDeg' = inDeg
          /\ liveIn' = liveIn /\ generation' = generation /\ outs' = outs /\ logged' = logged
          /\ ver' = ver /\ used' = used /\ resumes' = resumes /\ inFlight' = inFlight
          /\ pause' = pause /\ backtracks' = backtracks
      BY <1>2 DEF SeedLaunch, r
    <2>3. ~Ret(s)
      BY <2>2 DEF Ret
    <2>b. backtracks' \in Nat /\ backtracks <= backtracks'
      BY <1>t, <2>2
    <2> QED BY <2>b, <2>1, <2>2, <2>3, OneMoveKept
  <1>3. CASE Resume
    BY <1>3, ResumeKept
  <1>4. ASSUME NEW s \in Slot, StartStopped(s) \/ StartRefused(s) PROVE KernelInv'
    <2>1. /\ task[s].pc = "start" /\ task' = [task EXCEPT ![s] = Idle]
          /\ completed' = completed /\ skipped' = skipped /\ inDeg' = inDeg
          /\ liveIn' = liveIn /\ generation' = generation /\ outs' = outs /\ logged' = logged
          /\ ver' = ver /\ used' = used /\ resumes' = resumes /\ inFlight' = inFlight
          /\ pause' = pause /\ backtracks' = backtracks
      BY <1>4 DEF StartStopped, StartRefused
    <2>2. ~Ret(s)
      BY <2>1 DEF Ret
    <2>b. backtracks' \in Nat /\ backtracks <= backtracks'
      BY <1>t, <2>1
    <2> QED BY <2>b, <1>i, <2>1, <2>2, OneMoveKept
  <1>5. ASSUME NEW s \in Slot, Begin(s) PROVE KernelInv'
    <2> DEFINE n == task[s].node
               in == [p \in Node |-> IF p \in Pred(n) /\ n \in outs[p] THEN ver[p] ELSE 0]
               r == Entered(task[s], in)
    <2>1. /\ task[s].pc = "start" /\ task' = [task EXCEPT ![s] = r]
          /\ completed' = completed /\ skipped' = skipped /\ inDeg' = inDeg
          /\ liveIn' = liveIn /\ generation' = generation /\ outs' = outs /\ logged' = logged
          /\ ver' = ver /\ used' = used /\ resumes' = resumes /\ inFlight' = inFlight
          /\ pause' = pause /\ backtracks' = backtracks
      BY <1>5 DEF Begin
    <2>2. in \in [Node -> Nat]
      BY DEF TypeOK
    <2>3. \A p \in Pred(n) : in[p] = Given(n, p)
      BY DEF Given, Pred
    <2> HIDE DEF in
    <2>4. /\ r.pc = "exec" /\ r.node = n /\ r.queue = {} /\ r.inputs = in
          /\ r.gen = task[s].gen
      <3>1. task[s].queue = {} /\ task[s] \in TaskType
        BY <1>t, <2>1 DEF ClaimInv, Quiet
      <3>2. r.inputs = in /\ r.gen = task[s].gen
        BY <3>1 DEF Entered, TaskType
      <3> QED BY <2>2, <3>1, <3>2, EnteredType
    <2>5. Tame => r.gen = generation[n]
      BY <1>c, <2>1, <2>4 DEF Current, Executing
    <2>6. ~Ret(s)
      BY <2>1 DEF Ret
    <2> HIDE DEF r
    <2>b. backtracks' \in Nat /\ backtracks <= backtracks'
      BY <1>t, <2>1
    <2> QED BY <2>b, <2>1, <2>3, <2>4, <2>5, <2>6, OneMoveKept
  <1>6. ASSUME NEW s \in Slot, NEW isPause \in BOOLEAN, ExecError(s, isPause) PROVE KernelInv'
    <2>1. /\ task[s].pc = "exec" /\ task' = [task EXCEPT ![s] = Idle]
          /\ completed' = completed /\ skipped' = skipped /\ inDeg' = inDeg
          /\ liveIn' = liveIn /\ generation' = generation /\ outs' = outs /\ logged' = logged
          /\ ver' = ver /\ used' = used /\ resumes' = resumes /\ inFlight' \subseteq inFlight
          /\ (~pause' => ~pause) /\ backtracks' = backtracks
      BY <1>6 DEF ExecError
    <2>2. ~Ret(s)
      BY <2>1 DEF Ret
    <2>b. backtracks' \in Nat /\ backtracks <= backtracks'
      BY <1>t, <2>1
    <2> QED BY <2>b, <1>i, <2>1, <2>2, OneMoveKept
  <1>7. ASSUME NEW s \in Slot, task[s].pc = "exec", NEW L \in LiveSets[task[s].node],
               NEW logOk \in BOOLEAN, ExecStale(s, L, logOk)
        PROVE  KernelInv'
    BY <1>7, ExecStaleKept
  <1>8. ASSUME NEW s \in Slot, task[s].pc = "exec", NEW L \in LiveSets[task[s].node],
               NEW logOk \in BOOLEAN, NEW req \in Rewind[task[s].node] \cup {None},
               NEW park \in BOOLEAN, ExecOk(s, L, logOk, req, park)
        PROVE  KernelInv'
    BY <1>8, ExecOkKept
  <1>9. ASSUME NEW s \in Slot, ResolveBadTarget(s) PROVE KernelInv'
    <2> DEFINE r == Resolved(task[s], None, TRUE)
    <2>1. /\ task[s].pc = "resolve" /\ task' = [task EXCEPT ![s] = r]
          /\ completed' = completed /\ skipped' = skipped /\ inDeg' = inDeg
          /\ liveIn' = liveIn /\ generation' = generation /\ outs' = outs /\ logged' = logged
          /\ ver' = ver /\ used' = used /\ resumes' = resumes /\ inFlight' = inFlight
          /\ pause' = pause /\ backtracks' = backtracks
      BY <1>9 DEF ResolveBadTarget
    <2>2. /\ r.pc = "commit" /\ r.node = task[s].node /\ r.queue = {} /\ r.target = None
          /\ r.live = task[s].live
      <3>1. task[s].queue = {} /\ task[s] \in TaskType
        BY <1>t, <2>1 DEF ClaimInv, Quiet
      <3>2. r.live = task[s].live
        BY <3>1 DEF Resolved, TaskType
      <3>3. TRUE \in BOOLEAN /\ None \in Node \cup {None}
        OBVIOUS
      <3> QED BY <3>1, <3>2, <3>3, ResolvedType
    <2>3. Ret(s)
      BY <2>1 DEF Ret
    <2> HIDE DEF r
    <2>b. backtracks' \in Nat /\ backtracks <= backtracks'
      BY <1>t, <2>1
    <2> QED BY <2>b, <2>1, <2>2, <2>3, OneMoveKept
  <1>10. ASSUME NEW s \in Slot, NEW logOk \in BOOLEAN, ResolveCharge(s, logOk) PROVE KernelInv'
    <2> DEFINE granted == backtracks + 1 <= MaxBacktracks
               target == IF granted THEN task[s].target ELSE None
               err == ~granted \/ ~logOk
               r == Resolved(task[s], target, err)
    <2>1. /\ task[s].pc = "resolve" /\ task[s].target # BadTarget
          /\ task' = [task EXCEPT ![s] = r]
          /\ completed' = completed /\ skipped' = skipped /\ inDeg' = inDeg
          /\ liveIn' = liveIn /\ generation' = generation /\ outs' = outs /\ logged' = logged
          /\ ver' = ver /\ used' = used /\ resumes' = resumes /\ inFlight' = inFlight
          /\ pause' = pause /\ backtracks' = backtracks + 1
      BY <1>10 DEF ResolveCharge
    <2>2. target \in Node \cup {None} /\ err \in BOOLEAN
      BY <1>t, <2>1 DEF TaskType
    <2>3. target \in {task[s].target, None} /\ (target # None => backtracks' <= MaxBacktracks)
      BY <2>1
    <2> HIDE DEF target, err
    <2>4. /\ r.pc = "commit" /\ r.node = task[s].node /\ r.queue = {} /\ r.target = target
          /\ r.live = task[s].live
      <3>1. task[s].queue = {} /\ task[s] \in TaskType
        BY <1>t, <2>1 DEF ClaimInv, Quiet
      <3>2. r.live = task[s].live
        BY <3>1 DEF Resolved, TaskType
      <3> QED BY <2>2, <3>1, <3>2, ResolvedType
    <2>5. Ret(s)
      BY <2>1 DEF Ret
    <2>6. backtracks' \in Nat /\ backtracks <= backtracks'
      BY <1>t, <2>1
    <2> HIDE DEF r
    <2> QED BY <2>1, <2>3, <2>4, <2>5, <2>6, OneMoveKept
  <1>11. ASSUME NEW s \in Slot, NEW logOk \in BOOLEAN, Commit(s, logOk) PROVE KernelInv'
    BY <1>11, CommitKept
  <1>12. ASSUME NEW s \in Slot, NEW n \in Node, NEW u \in Slot, Launch(s, n, u) PROVE KernelInv'
    <2> DEFINE child == Spawned(n, task[s].gens[n])
               rest == Launching(task[s], task[s].queue \ {n}, task[s].gens)
    <2>1. /\ task[s].node \in Node /\ task[s].gens[n] \in Nat
          /\ task[s].gens \in [Node -> Nat] /\ task[s].queue \ {n} \in SUBSET Node
      BY <1>12 DEF TypeOK, TaskType, Launch
    <2>2. child.pc = "start" /\ child.node = n /\ child.queue = {} /\ child.gen = task[s].gens[n]
      <3>1. child.gen = task[s].gens[n]
        BY DEF Spawned, Idle
      <3> QED BY <2>1, <3>1, SpawnedType
    <2>3. /\ rest.pc \in {"idle", "launch"} /\ rest.queue = task[s].queue \ {n}
          /\ \A m \in rest.queue : rest.gens[m] = task[s].gens[m]
      <3>1. rest.pc \in {"idle", "launch"} /\ rest.queue = task[s].queue \ {n}
        BY <1>t, <2>1, LaunchingType
      <3>2. task[s].queue \ {n} # {} => rest.gens = task[s].gens
        BY DEF Launching, Idle
      <3> QED BY <3>1, <3>2
    <2>4. /\ task[s].pc = "launch" /\ n \in task[s].queue /\ task[u].pc = "idle"
          /\ task' = [task EXCEPT ![u] = child, ![s] = rest]
          /\ completed' = completed /\ skipped' = skipped /\ inDeg' = inDeg
          /\ liveIn' = liveIn /\ generation' = generation /\ outs' = outs /\ logged' = logged
          /\ ver' = ver /\ used' = used /\ resumes' = resumes /\ inFlight' = inFlight
          /\ pause' = pause /\ backtracks' = backtracks
      BY <1>12 DEF Launch
    <2> HIDE DEF child, rest
    <2>5. /\ s # u /\ task'[u] = child /\ task'[s] = rest
          /\ \A w \in Slot : w # s /\ w # u => task'[w] = task[w]
      BY <1>t, <2>4
    <2>6. \A w \in Slot : (Ret(w)' <=> Ret(w)) /\ (Ret(w) => task'[w] = task[w])
      BY <2>2, <2>3, <2>4, <2>5 DEF Ret
    <2>7. \A w \in Slot : task'[w].pc = "exec" => task'[w] = task[w]
      BY <2>2, <2>3, <2>5
    <2>8. ASSUME Tame
          PROVE  /\ \A w \in Slot : Executing(w)' => task'[w].gen = generation[task'[w].node]
                 /\ \A w \in Slot : \A m \in task'[w].queue : task'[w].gens[m] = generation[m]
      <3>1. Current
        BY <1>c, <2>8
      <3>2. child.gen = generation[n]
        BY <2>2, <2>4, <3>1 DEF Current
      <3>3. ASSUME NEW w \in Slot
            PROVE  /\ Executing(w)' => task'[w].gen = generation[task'[w].node]
                   /\ \A m \in task'[w].queue : task'[w].gens[m] = generation[m]
        <4>1. CASE w = u
          BY <2>2, <2>5, <3>2, <4>1
        <4>2. CASE w = s
          BY <2>3, <2>5, <3>1, <4>2 DEF Executing, Current
        <4>3. CASE w # u /\ w # s
          BY <2>5, <3>1, <4>3 DEF Executing, Current
        <4> QED BY <4>1, <4>2, <4>3
      <3> QED BY <3>3
    <2> QED BY <1>t, <2>4, <2>6, <2>7, <2>8, MoveKept
  <1> QED
    BY <1>1, <1>2, <1>3, <1>4, <1>5, <1>6, <1>7, <1>8, <1>9, <1>10, <1>11, <1>12
    DEF Next, Run, Dispatch, Start, Return, Resolve

-----------------------------------------------------------------------------
(* The theorems.                                                             *)

LEMMA KernelSafe == EntryRoots => (Spec => [](TypeOK /\ ClaimInv /\ KernelInv))
  <1> SUFFICES ASSUME EntryRoots PROVE Spec => [](TypeOK /\ ClaimInv /\ KernelInv)
    OBVIOUS
  <1>1. Init => TypeOK /\ ClaimInv /\ KernelInv
    BY InitType, InitClaim, KernelInit
  <1>2. TypeOK /\ ClaimInv /\ KernelInv /\ [Next]_vars => (TypeOK /\ ClaimInv /\ KernelInv)'
    BY TypeStep, ClaimStep, KernelStep
  <1> QED BY <1>1, <1>2, PTL DEF Spec

\* kernel.go:155-156, for every graph that ends in its reviews: an executor is
\* entered only when every node feeding it has completed or was skipped.
THEOREM InputsReady == EntryRoots /\ ReviewLast => (Spec => ReadyInputs)
  <1> SUFFICES ASSUME EntryRoots, ReviewLast PROVE Spec => ReadyInputs
    OBVIOUS
  <1>1. ASSUME TypeOK, ClaimInv, KernelInv, NEW s \in Slot, task[s].pc = "start"
        PROVE  Pred(task[s].node) \subseteq completed
    <2>1. task[s].node \in Node /\ Active(task[s].node)
      BY <1>1 DEF TypeOK, ClaimInv, Claimed, Executing, Active
    <2> QED BY <1>1, <2>1 DEF KernelInv, OrderInv, Ordered, Tame
  <1>2. TypeOK /\ ClaimInv /\ KernelInv /\ [Next]_vars =>
            [\A s \in Slot :
                LET n == task[s].node IN
                /\ task[s].pc = "start"
                /\ task'[s].pc = "exec"
                /\ task[s].gen = generation[n]
                => n \in Entry \/ Pred(n) \subseteq completed]_vars
    BY <1>1
  <1> QED BY <1>2, KernelSafe, PTL DEF Spec, ReadyInputs

\* kernel.go:1470-1474, for every such graph: a node fires at most once more than
\* the run was granted backtracks.
THEOREM FiringsBounded == EntryRoots /\ ReviewLast => (Spec => []FiringBound)
  <1> SUFFICES ASSUME EntryRoots, ReviewLast PROVE Spec => []FiringBound
    OBVIOUS
  <1>1. TypeOK /\ ClaimInv /\ KernelInv => FiringBound
    <2> SUFFICES ASSUME TypeOK, KernelInv, resumes = 0, NEW n \in Node
                 PROVE  ver[n] <= 1 + (IF backtracks < MaxBacktracks THEN backtracks ELSE MaxBacktracks)
      BY DEF FiringBound
    <2>1. ver[n] <= Granted + (IF n \in completed \/ Returning(n) THEN 1 ELSE 0)
      BY DEF KernelInv, FiringInv, Tame
    <2>2. ver[n] \in Nat /\ Granted \in Nat
      BY BoundAssumption DEF TypeOK, Granted
    <2> QED BY <2>1, <2>2 DEF Granted
  <1> QED BY <1>1, KernelSafe, PTL

LEMMA RootsRooted == EntryRoots => Rooted
  BY DEF EntryRoots, Rooted

\* kernel.go:617-624, for every such graph: in a completed run each node ran on the
\* final outputs of the predecessors that reached it.
THEOREM RunsFresh == EntryRoots /\ ReviewLast => (Spec => []FreshRunComplete)
  <1> SUFFICES ASSUME EntryRoots, ReviewLast PROVE Spec => []FreshRunComplete
    OBVIOUS
  <1>1. Spec => []CompleteRun
    BY RootsRooted, RunSettlesAll
  <1>2. TypeOK /\ ClaimInv /\ KernelInv /\ CompleteRun => FreshRunComplete
    <2> SUFFICES ASSUME TypeOK, KernelInv, CompleteRun, phase = "complete",
                        NEW n \in Node \ skipped, NEW p \in Pred(n) \ skipped, n \in outs[p]
                 PROVE  used[n][p] = ver[p]
      BY DEF FreshRunComplete
    <2>1. n \in completed \ skipped
      BY DEF CompleteRun
    <2> QED BY <2>1 DEF KernelInv, FreshInv, Fresh, Tame, Given
  <1> QED BY <1>1, <1>2, KernelSafe, PTL

\* A completed run was not paused.
Unparked == phase = "complete" => ~pause

LEMMA UnparkedStep == TypeOK /\ ClaimInv /\ Unparked /\ [Next]_vars => Unparked'
  <1> SUFFICES ASSUME TypeOK, ClaimInv, Unparked, [Next]_vars, phase' = "complete"
               PROVE  ~pause'
    BY DEF Unparked
  <1> USE DEF traversal, control, state
  <1>1. CASE Finish
    BY <1>1 DEF Finish
  <1>2. CASE Resume
    BY <1>2 DEF Resume, FreshRun
  <1>3. CASE UNCHANGED vars
    BY <1>3 DEF vars, Unparked
  <1>4. ASSUME NEW n \in Node, NEW s \in Slot, SeedLaunch(n, s) PROVE ~pause'
    BY <1>4 DEF SeedLaunch, Unparked
  <1>5. ASSUME NEW s \in Slot, Dispatch(s) PROVE ~pause'
    <2>1. phase' = phase
      BY <1>5 DEF Dispatch, Start, Return, Resolve, StartStopped, StartRefused, Begin, ExecError,
                  ExecStale, ExecOk, ResolveBadTarget, ResolveCharge, Commit, Launch
    <2>2. task[s].pc # "idle"
      BY <1>5 DEF Dispatch, Start, Return, Resolve, StartStopped, StartRefused, Begin,
                  ResolveBadTarget, ResolveCharge, Commit, Launch
    <2> QED BY <2>1, <2>2 DEF ClaimInv, Quiet
  <1> QED BY <1>1, <1>2, <1>3, <1>4, <1>5 DEF Next, Run

\* kernel.go:296-297, for every such graph whose rewind targets lie above its
\* decisions: the skipped nodes are exactly the ones no live edge reached.
THEOREM SkipsExact == EntryRoots /\ ReviewLast /\ SureTargets => (Spec => []SkipExact)
  <1> SUFFICES ASSUME EntryRoots, ReviewLast, SureTargets PROVE Spec => []SkipExact
    OBVIOUS
  <1>1. Spec => []CompleteRun
    BY RootsRooted, RunSettlesAll
  <1>2. Init => Unparked
    BY DEF Init, Unparked
  <1>3. TypeOK /\ ClaimInv /\ KernelInv /\ CompleteRun /\ Unparked => SkipExact
    <2> SUFFICES ASSUME TypeOK, KernelInv, CompleteRun, Unparked, phase = "complete",
                        NEW n \in Node \ Entry
                 PROVE  n \in skipped <=> \A p \in Pred(n) \ skipped : n \notin outs[p]
      BY DEF SkipExact
    <2>1. completed = Node /\ ~pause
      BY DEF CompleteRun, Unparked
    <2>2. n \notin skipped <=> \E p \in Node : Feeds(p, n)
      BY <2>1 DEF KernelInv, LiveInv
    <2>3. (\E p \in Node : Feeds(p, n)) <=> \E p \in Pred(n) \ skipped : n \in outs[p]
      BY <2>1 DEF Feeds, Pred
    <2> QED BY <2>2, <2>3
  <1> QED BY <1>1, <1>2, <1>3, KernelSafe, UnparkedStep, PTL DEF Spec

\* The executor is entered by Begin alone.
LEMMA EnteredByBegin ==
    ASSUME TypeOK, [Next]_vars, NEW s \in Slot, task[s].pc = "start", task'[s].pc = "exec"
    PROVE  Begin(s)
  <1> USE DEF traversal, control, state
  <1>0. Idle.pc = "idle"
    BY DEF Idle
  <1>1. CASE Finish \/ Resume \/ UNCHANGED vars
    BY <1>1 DEF Finish, Resume, vars
  <1>2. ASSUME NEW n \in Node, NEW u \in Slot, SeedLaunch(n, u) PROVE FALSE
    BY <1>2 DEF SeedLaunch, TypeOK
  <1>3. ASSUME NEW u \in Slot, NEW n \in Node, NEW w \in Slot, Launch(u, n, w) PROVE FALSE
    <2>1. task[u].pc = "launch" /\ task[w].pc = "idle"
      BY <1>3 DEF Launch
    <2>2. task'[s] = task[s]
      BY <1>3, <2>1 DEF Launch, TypeOK
    <2> QED BY <2>2
  <1>4. ASSUME NEW u \in Slot,
               \/ Start(u)
               \/ task[u].pc = "exec" /\ Return(u)
               \/ Resolve(u)
               \/ \E logOk \in BOOLEAN : Commit(u, logOk)
        PROVE  Begin(s)
    <2>1. CASE u # s
      <3>1. \E r : task' = [task EXCEPT ![u] = r]
        BY <1>4 DEF Start, Return, Resolve, StartStopped, StartRefused, Begin, ExecError,
                    ExecStale, ExecOk, ResolveBadTarget, ResolveCharge, Commit
      <3>2. task'[s] = task[s]
        BY <2>1, <3>1 DEF TypeOK
      <3> QED BY <3>2
    <2>2. CASE u = s
      <3>1. Start(s)
        BY <1>4, <2>2 DEF Resolve, ResolveBadTarget, ResolveCharge, Commit
      <3>2. ~StartStopped(s) /\ ~StartRefused(s)
        BY <1>0 DEF StartStopped, StartRefused, TypeOK
      <3> QED BY <3>1, <3>2 DEF Start
    <2> QED BY <2>1, <2>2
  <1> QED BY <1>1, <1>2, <1>3, <1>4 DEF Next, Run, Dispatch

\* kernel.go:1717-1720, for every graph, until a rewind is charged and as long as
\* the event log takes its rows: a skipped predecessor gives its join nothing.
THEOREM NoPhantomUntilRewind == EntryRoots /\ "log" \notin Faults => (Spec => NoPhantomResume)
  <1> SUFFICES ASSUME EntryRoots, "log" \notin Faults PROVE Spec => NoPhantomResume
    OBVIOUS
  <1>1. ASSUME TypeOK, ClaimInv, KernelInv, [Next]_vars, backtracks' = 0, NEW s \in Slot,
               task[s].pc = "start", task'[s].pc = "exec",
               NEW p \in Pred(task[s].node) \cap skipped
        PROVE  task'[s].inputs[p] = 0
    <2> DEFINE n == task[s].node
               in == [m \in Node |-> IF m \in Pred(n) /\ n \in outs[m] THEN ver[m] ELSE 0]
    <2>1. Begin(s)
      BY <1>1, EnteredByBegin
    <2>2. task'[s] = Entered(task[s], in) /\ backtracks' = backtracks
      BY <1>1, <2>1 DEF Begin, TypeOK
    <2>3. p \in Node /\ Tame /\ backtracks = 0
      BY <1>1, <2>2 DEF Pred, Tame
    <2>4. skipped \subseteq completed /\ ~Active(p)
      BY <1>1, <2>3 DEF KernelInv, FreshInv, OrderInv, Ordered
    <2>5. outs[p] = {}
      BY <1>1, <2>3, <2>4 DEF KernelInv, PhantomInv, Active
    <2>6. in[p] = 0
      BY <2>3, <2>5
    <2> HIDE DEF in
    <2>7. task'[s].inputs = in
      BY <1>1, <2>2 DEF Entered, TypeOK, TaskType
    <2> QED BY <2>6, <2>7
  <1>2. TypeOK /\ ClaimInv /\ KernelInv /\ [Next]_vars =>
            [backtracks' = 0 =>
                \A s \in Slot : task[s].pc = "start" /\ task'[s].pc = "exec" =>
                    \A p \in Pred(task[s].node) \cap skipped : task'[s].inputs[p] = 0]_vars
    BY <1>1
  <1> QED BY <1>2, KernelSafe, PTL DEF Spec, NoPhantomResume
=============================================================================
