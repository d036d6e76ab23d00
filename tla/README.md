# A TLA+ development for kenaz-harness

kenaz-harness is an agent harness written in Go: a desktop and served
application in which language-model turns run as typed node graphs, with tools,
background tasks, approvals, schedules and synced memories around them. This
directory holds TLA+ modules of its core logic, TLC configurations that check
them on small instances, and TLAPS proofs of what holds for every instance.
`PROJECT.json` maps every definition to the lines it models; paths below are
relative to the repository.

    tlc -workers 2 -config kernel_term.cfg MCAgentKernel
    tlapm AgentKernelProofs.tla

## 1. Inventory

| part | state | operations | interacts with |
|---|---|---|---|
| Graph kernel, `core/agentgraph/kernel.go` | per run: completed, skipped, inFlight, inDeg, liveIn, generation, outputs, a semaphore, one goroutine per dispatch | Run, Resume; per node: dispatch, execute, backtrack, commit, promote, skip, pause | executors, event log, budget |
| Executors, `exec_*.go` | none of their own beyond the run state | one per node kind; ask and approval park the run; loop, retry, parallel, join, router, escalation ladder | kernel, question registry, LLM, tools |
| Event log, `events.go`, `eventlog_sql.go` | rows per run | Append, replay, PausedRunIDs | kernel, run manager |
| Run manager, `core/rpc/views/agentgraph/manager.go` | runEntry: state, pending ask or approval, timer, cancel function | start, resume, resolve approval, timeout, cancel, status, rehydrate at boot; graph library | kernel, question registry, event log, policy gate, audit |
| Question registry, `core/elicitation` | questions: pending, answered, declined, expired; the sub-answers of wizards; a channel per waiter | Register, Park, Resolve, Decline, RecordStep, sweep | executors, run manager, chat |
| Task registry, `core/tasks` | entry in memory, row in SQLite, captured lines, subscribers | Register, SetPID/SetStopFunc, End, Abort, AppendLine, Subscribe, Tail, recovery | bash background mode, sub-agent spawner, monitor tool, hooks |
| Monitor tool, `core/tools/monitor` | drain offset per session and task | drain, watch | task registry |
| Chat schedules, `core/scheduler`, `core/rpc/chat_run_dispatcher.go` | schedule rows, history, the claim of a dispatch, the confinement of conversations | fire, gate, dispatch, retry, deadline, release | chat runner, policy gate, bus |
| Chat runner, `core/rpc/views/agentgraph/chat` | streams, paused turns | start, drive, pause for a key, redrive, close | kernel, bus, dispatcher |
| Memory and hybrid clock, `core/memory` | chunks, clock file, forget outbox | add, pin, promote, forget; Tick, Observe, recover | memory sync |
| Memory sync, `core/fleet/memory_sync.go` | opt-in, cursor, reset, pending opt-out and erase | cycle (pull, reset, push), Enable, Disable, Status | memory store, Fleet |
| Tool loop, `core/toolloop` | pending confirmations, permissions | request, confirm, timeout | executors, UI |
| MCP servers, `core/mcp` | supervised processes | start, restart with backoff, call | tools |
| Other Fleet lanes, sessions, conversations, LLM providers, policy, hooks, workflows, secrets and trust, storage, served mode, RPC chassis, units, artifacts, ML sidecar, telemetry, update, slash commands, front end | see `components` in `PROJECT.json` | | |

What is hard in these parts, and what makes each of them correct:

* **Kernel.** Nodes of a wave run concurrently; a backtrack re-arms a node and
  everything downstream while dispatches of those very nodes may still be
  executing; branches that are not taken are skipped transitively while joins
  wait; pauses and errors stop dispatching but not what runs. Correct means: no
  node is dispatched twice at once, none is stranded, a node fires only when its
  inputs are there and fresh, exactly the untaken branches are skipped, rewinds
  are bounded, a resumed pass reads nothing of the pass before, and Run returns.
* **Run manager.** A human, a timer, a cancel, the worker of the last leg and a
  restart all act on one entry, and every verb releases the lock before it
  finishes its work. Correct means: one kernel leg at a time, one verdict per
  approval (and the audited one), a paused run always has a question somebody
  can answer, a cancelled run stays cancelled, an unattended approval is
  decided, and a restart reports what it lost.
* **Task registry and monitor.** End, Abort, Subscribe and two spawners race on a
  status that is read without a lock, a row that is written after the lock is
  dropped and a process that appears after the task does. Lines are numbered
  under one lock and broadcast under another, and the calls of a session read
  and set one offset in separate steps. Correct means: the first end wins, the
  hook tells the truth, subscribers are released, an aborted task is stopped,
  disk never runs ahead of memory; no line is skipped, an exit is reported only
  of a task that ended, and a watch returns.
* **Question registry.** Answers, dismissals, deadlines, steps of a wizard and
  the departure of the waiter meet on one question, with the send after the
  unlock. Correct means: one lasting outcome, heard by whoever still waits.
* **Schedules.** A fire reads its schedule twice, waits for a claim, and starts a
  turn that may outlive it, pause, and go on under another id, in a conversation
  where the user writes too. Correct means: a scheduled turn never has more tools
  than it was let through with, never runs beside another one, and neither its
  claim nor its confinement outlives it.
* **Memory sync.** User edits fall between any two steps of a lane whose state is
  in four files, requests are applied and their answers lost, cursors expire.
  Correct means: at rest all copies agree, what was forgotten or erased stays so,
  and a later edit wins, which is what the clock is for.

## 2. Modules and how they correspond to the code

**`AgentKernel`** (kernel.go). The variables are the maps of `Run`; `task` gives,
for each slot of the semaphore, the dispatch goroutine that holds it and where
it is. One action is one stretch of `dispatch` between two points at which
another goroutine can be observed:

| action | code |
|---|---|
| `SeedLaunch`, `Finish` | Run's loop over the entrypoints; `wg.Wait` and the outcome |
| `StartStopped`, `StartRefused`, `Begin` | the locked check at the top, the budget check, gathering of inputs |
| `ExecError`, `ExecStale`, `ExecOk` | the executor's return, recording of outputs, the stale-generation guard |
| `ResolveBadTarget`, `ResolveCharge` | the unlocked validation and charging of a backtrack |
| `Commit` | the locked commit: rewind, completion, skip worklist, promotion |
| `Launch` | one blocking `sem <-` and `go dispatch` of the launch loop |
| `Resume` | Resume: RebuildState, then a fresh walk |

Values are abstracted to versions: `outs[n]` is the set of successors that the
recorded outputs of `n` feed, `ver` and `used` are history variables that count
firings and remember which version of each predecessor a node's recorded outputs
were computed from. Which successors a router keeps live and which target a
review asks for are choices from `LiveSets` and `Rewind`. Abstractions: parallel
port edges between two nodes are one edge; the launch list is a set (each
launch is a step, so every order is covered); recording outputs and the guard
that follows under the lock are one step; an error of the skip batch's append is noted
with the commit, where the code notes it after the unlock (927-933), so that a dispatch
which starts in between is stopped by it in the model and not in the code; TaskState bookkeeping, telemetry and
the panic backstop are left out; an executor never both parks and requests a
backtrack, as no executor of the repository does. `RewindAssumption` (a target
is never a successor of the requester) is what `UpstreamNode` attributes mean.

**`RunManager`** (manager.go, with the approval executor and the question registry
as the manager uses them). One run; `worker[l]` is the goroutine of leg `l`,
`call[n]` the verb that is applying an answer to `n`, `timer`/`callback` the
approval timers and their goroutines, `last` the last durable event. A kernel leg
is abstracted to nodes that fire along the edges and questions that park it. The
policy gate is left out: a deny returns before anything changes. Register and
Resolve of a question are one step. With `LogFails` the log may refuse the event of a
pause, an error kernel.go:974 ignores. `cancelled`, `decided` and `audited` record
history.

**`TaskRegistry`** (core/tasks, with background.go and subagent_run_spawner.go).
One task of either kind; each lock region is one step, and so are the unlocked
reads of `Abort` and `Subscribe`. The process (or stream) is environment: it may
exit at any time, or never, even if it was told to stop. Writes to SQLite may fail when `StoreFails` holds, as the code
only logs those errors.

**`TaskOutput`** (registry.go, subscriber.go, core/tools/monitor/tool.go). One
task's captured lines and the monitor calls that read them. A line is its offset
and whether the watched regex matches it. `AppendLine` and `Broadcast` are the two
lock regions of AppendLine; a call is a program counter with its locals, and
every read or write of the offset store, every Tail and every step of Subscribe
is an action. The end of the task is "exit" (Wait has returned, so both writers
are done) or "cut" (Abort or a deadline, after which a writer may go on). An answer
keeps the last `MaxReturned` lines of what its call read (2000 in the code), although
the offset has moved past all of them. `told`, `cut` and `leapt` are history: the lines
a session was given, those its answers left out with the mark `truncated`, and
whether a live line ran ahead of its offset or a watch was cancelled.

**`AskRegistry`** (core/elicitation, with the dialog's timeout from the elicit
view). Dialogs with a waiter, deferred asks, wizards. The locked half of Resolve,
Decline and RecordStep is one action and the send after the unlock another;
completeness is judged on the step's own snapshot. **`AskContract`** is what the
registry promises: a question is put, settled once, and whoever waits hears the
outcome or leaves. `Contract == INSTANCE AskContract WITH ...` maps the statuses to
phases and the parked goroutines to waiters; `KeepsContract` (with fairness) is a
property of a run and `KeepsOnce` (safety) is proved. Asks that graph nodes
register are part of `RunManager`.

**`ChatDispatch`** (chat_cron_engine.go from the fire on, chat_run_dispatcher.go,
scheduled_run_containment.go, and the chat runner as far as it decides when a turn
is over). `FireGet` is fireSync or RunNow with the policy gate, `Reload` the second
read of the row, `Claim`, `Converse`, `Arm` (context budget, Contain, the prompt) and
`Start` lead to a stream. A fire looks twice whether its conversation is in use, for a
running and for a paused turn, under two locks: `Converse` and `ConversePaused` are the
two looks, `Retry` and `RetryPaused` those of the retry after a full session. `Hear` is one event of the subscription, `Deadline`,
`Drained` and `GiveUp` what follows a timeout. Streams finish and announce their
close in two steps; a paused one is redriven under a new id that is announced
when it already runs. Sub-agents' inherited confinement, events a full bus drops,
several redrives at once and the cron registrations are left out. So is the tool
kenaz__load_tools, which the code's Check lets through for every conversation
(scheduled_run_containment.go:208-216): it loads definitions of tools that the same check has let into the
catalog, and runs nothing.

**`HybridClock`** (hlc.go, openMemoryClock). Stamps are pairs of a wall and a counter
part, which is the order of the fixed-width strings; the node id, which only
breaks ties between devices, is left out. The machine clock moves both ways,
saves fail, the process dies, the file is damaged or goes missing, and the clock
that is rebuilt may have been given only some of the stamps: a store that cannot be
listed or an outbox that cannot be opened gives none. `lost` is history: something
the next clock needed is gone.

**`MemorySync`** (memory_sync.go, store_sync.go, sync_outbox.go, store.go). The stores,
outboxes and lanes of the devices of one account. A lane's cycle is one thread
whose steps end where the code writes a file or waits for Fleet, so a crash or a
user's edit may fall between any two. Fleet's side (`Stale`, `Page`, `Upserted`,
`Answer`, `FleetSweep` and what they use) is external: written from how the lane
uses it and from the fake service its own tests run against. Stamps are Lamport
pairs, which is all that HybridClock guarantees; CreatedHLC and SyncedAt are kept
to what they are compared with. Titles, recall counters, aliases, the skip set,
batches that are too large, several accounts and the org pause are left out.
A CreatedHLC is the number of the erase it sorts after. It is stamped by the device
and compared with Fleet's `erased_before` (store_sync.go:471), so that of a memory of
`Skewed` may be off by up to `MaxSkew` erases either way (`Stamps`). forget-all is unconditional.
With `Settled`, Fleet sweeps tombstones only while every device has a cursor that can
be refused (`Heard`: its next pull does not start from the empty cursor, or it holds
nothing Fleet has had) and no device waits for the answer to an upload (`Answered`);
see the corners below. Three simplifications: `SaveCursor` is Outbox.Ack (986) and the
save of the cursor (872) in one step, where a crash in between leaves the page to be
pulled again, with the forgets that its tombstones answer already off the outbox;
`Status` reads Fleet's switch (1463) and acts on it (1478) in one step, where a switch
that changes in between leaves the lane on until Fleet refuses its next request, or off
until the next Status; and a cursor Fleet cannot read (`invalid_cursor`, 835-843,
1234-1239) is left out, as Fleet issues every cursor of the model. `asked` and `wiped`
are history: what the user
did with a memory, and the devices that have erased since an erase that reached every
device (`Covered`) took it off Fleet, until one of these uploads it again.

The `MC...` modules hold the small instances, the `...Proofs` modules the theorems.
Operators named `Mut...` are plausible bugs of the definition that follows them;
each shows that a property notices that bug, and none is used by a specification.

## 3. Runs

| run | what it checks |
|---|---|
| `kernel_review` | a decision, a side branch and a review that rewinds to either of two targets or to a bad one, 4 slots, 2 backtracks, errors, pauses, a resume after which the branch may flip: `CompleteRun`, `SkipExact`, `FreshRunComplete`, `FiringBound`, `ReadyInputs`, `NoPhantomResume` |
| `kernel_term` | the smallest graph in which a rewind meets a running chain, 3 slots, fair: `NoDoubleDispatch`, `Termination` |
| `run_race` | two approvals (one with a window) and an ask, four legs, failures, a restart: `OneLeg`, `OneVerdict`, `PausedOnOne`, `RestartTells` |
| `run_live` | two approvals, a log that may refuse the event of a pause, fair: `PausedEnds`, `RunningEnds` |
| `task_race` | two Aborts, a subscriber, failing writes, a restart, fair: `FirstEndWins`, `HookHonest`, `ClosedMeansEnded`, `RowFollows`, `TaskEnds`, `AbortReturns` |
| `output_watch` | two writers, two calls of one session, channels of one place, answers of one line, fair: `TypeOK`, `ExitHonest`, `LossNeedsLeap`, `WatchEnds` |
| `sync_edit` | two devices, a memory, an edit, a forget, a fault, a sweep, fair: `Agree`, `ForgetWins`, `ForgetSettles` |
| `sync_erase` | two devices, two memories, an opt-out with an erase, an opt-in, a fault, one memory stamped by a clock that may be an erase off: `Agree`, `EraseHolds` |
| `clock_faults` | a counter of three values, jumps, failed saves, deaths, a damaged or missing file, unread stamps: `TypeOK`, `Covers`, `EditsWin` |
| `ask_race` | a wizard somebody waits for, two deferred asks with room for one, two answering goroutines, fair: `BatchSettles`, `SentSettled`, `KeepsContract` |
| `dispatch_fires` | two fires, three streams, an edit or a deletion, a failing write, pauses and redrives, fair: `TypeOK`, `Confined`, `OneTurn`, `ClaimFreed`, `Freed` |

`kernel_review`'s review joins every branch, so that no sibling is in flight when it
rewinds; the properties that hold there and fail in the sibling graphs are the
subject of the configurations below.
Type invariants are stated in every module; those of `AgentKernel`, `RunManager`,
`TaskRegistry`, `AskRegistry` and `MemorySync` are proved, and the runs leave them out.

**A disagreement with the repository's own words**, as a run that must fail and a
finding with the quotation: `kernel_slots`. Run returns, says kernel.go; with two
chains and two slots both parents wait for a slot while holding one.

Further disagreements can be reproduced with the configurations below; TLC reports
a counterexample for each.

| configuration | what the repository says | what the counterexample shows |
|---|---|---|
| `kernel_window` (`FreshRunComplete`) | kernel.go:619-624: stale data never marks a node done | a rewind between the stale guard (648) and the commit (707) |
| `kernel_missing` | a node fires only when its inputs exist | in the same window a predecessor reports in twice |
| `kernel_skip` | a node without a live edge is skipped | the re-fire of a superseded dispatch ignores liveIn |
| `kernel_target` (`SkipExact`) | kernel.go:296-297: a node without a live edge is skipped | a rewind launches its target without a look at liveIn (777, 901): one that the new pass would have skipped runs |
| `kernel_bound` (`FiringBound`) | kernel.go:1470-1474: the budget bounds re-firing | two superseded dispatches report in after the rewind and launch their successor twice |
| `kernel_phantom` | a skipped branch contributes nothing | outputs of the pass that was rewound are read |
| `kernel_refire` | completed nodes are not re-fired on resume | the new walk starts at the entrypoints |
| `run_cancel` (`CancelSticks`) | api.go:349: "CancelRun signals a running run to stop." | the worker's report (manager.go:914) overwrites `failed` by `paused` |
| `run_reject` (`RejectedStops`) | exec_control.go:1640-1642: "a downstream node wired to "approved" does not fire" | an approval is no EdgeRouter, so the scheduler promotes along the edge |
| `run_hidden` | no approval sits unresolved for ever | an ask with a smaller id hides it, no timer is armed |
| `run_timer` | the timer never fires on a run that moved on | a cancel between reading and installing |
| `task_abort` (`AbortStops`) | tasks/registry.go:466: "Abort stops the task and marks it cancelled." | an Abort before SetPID stops nothing |
| `task_watch` | channels are closed at the end | Subscribe adds after closeAll |
| `output_lost` (`NoLineLost`) | monitor/tool.go:230: drain returns "all output since the last call"; subscriber.go:35-37: the buffer retains what a full channel drops | the live line after a dropped one moves the offset past it (369) |
| `output_exit` (`ExitWanted`) | tool.go:9-11: a watch ends at the exit when until.exit is true | a task that ended before Subscribe is reported as "exit" regardless (318-326) |
| `output_match` (`MatchTold`) | tool.go:9-10: a watch ends when the regex matches | the lines of the final Tail are not matched |
| `ask_cap` (`CapCountsOpen`) | elicitation/registry.go:476-477: every read of the pending set sweeps first | Register counts asks that are past their deadline (276) |
| `clock_regress` (`HealthyCovers`) | hlc.go: HealthErr tells of a clock that may be behind | a process that died with a failed save comes back healthy and behind |
| `dispatch_split` (`OneConversation`) | chat_run_dispatcher.go:339-340: "the schedule's ONE conversation. The first fire creates it; every later fire continues it." | the link is read (269) before the claim is taken (334) |
| `dispatch_overlap` (`Alone`) | chat_run_dispatcher.go:1006-1007: a turn that runs or is paused are "the two states in which a fire must not start a turn" | a turn is paused at the look for a running one (869) and redriven before the look for a paused one (872): the fire sees neither and starts beside it; `SeenSpec` rules out the next row |
| `dispatch_hidden` (`Alone`) | chat_runner.go:863-866: the entry of a turn that is being redriven stays in pausedSubs, so that "the turn is never invisible to SubStillLive" | a later pause on the same profile replaces the entry (2231-2232); the next fire sees no turn in the conversation and starts one beside the redrive; `ApartSpec` rules out the row above |
| `sync_demote` (`NeverLost`) | store_sync.go:313-323: "The demoting device keeps its chunk" | a demotion whose answer is lost, then a promotion: its own tombstone deletes the only copy |

Memory sync has a few more corners that the properties exclude by what they
quantify over, each visible in the history variables: a crash between Remove and
RecordDelete loses the forget (`asked = "cut"`); a device with an empty cursor is
not reset by a sweep (`Settled`) or an erase (`Covered`). The clocks of a device and of
Fleet need not agree: when a device is ahead, a row whose upload was applied and its
answer lost, and which is erased within the skew, outlives the replay of the erase and is
pushed again; when it is behind, a row made after the erase is swept with the old ones.
The first is outside `Covered`, the second is in the instance and breaks neither
`Agree` nor `EraseHolds`. A lost answer to forget-all followed
by Enable makes the erasing device replay its own erase; a forget that is queued on
one device while another erases and uploads again is dropped. Two more need bounds
beyond those of the runs: a private copy that is promoted again after the tombstone of
a forgotten memory was swept brings the memory back, and of two devices that erase
each may upload its own copies again (`wiped` is a set of devices for that reason).
In the run manager, a pause whose event the log refused is not found after a restart:
`run_race` with `LogFails = TRUE` finds `RestartTells` violated. In the kernel, a
node whose completion event failed to log keeps its output over a Resume, so
`kernel_review`, the run that resumes, has no log faults; `kernel_term` has them.

**Bounds.** Graphs of four to six nodes contain every pattern the scheduler
distinguishes: a fork, a branch, a join of a live and a dead side, a sibling of
the rewound path, an independent predecessor. There are as many slots as
goroutines can be useful at once, except where the shortage is the question. Two
backtracks let a rewind meet a rewound pass. Legs, restarts and resumes
(`MaxLegs`, `MaxCrashes`, `MaxResumes`) are capped in the guards: four legs
answer every question of the instance once and run on. Two Aborts are the least
number for which two calls race; subscribers do not interact with one another, so
one is enough. Two lines and channels of one place are enough for a line to be
dropped, to overtake another and to be skipped, and with answers of one line to be cut
off; two calls are the least that share
an offset. Two devices, one writing and one given, with one edit, forget and
fault let each of them fall between any two steps of either lane; pages of one
record make two memories a snapshot of several pages, one of which has the
stamp of a clock that is off. Two callers race on each
question; a second question that depends on the first makes completeness change
with an answer. Two fires and three streams let a late release meet the next fire, a redrive take
the place of a paused stream and a second turn start beside it. Streams and edits
together are at most `MaxMoves`: an edit takes the place of the third stream. Both premises
of `OneTurn` (no redrive is hidden, none starts between two looks) fail on some
behaviours of that instance. `FewStamps` keeps two stamps in
the store of the clock: the invariant is about each stamp alone. Symmetry is used
on slots only, and only in runs without liveness. Deadlock is not checked: runs,
tasks and bounded histories really end.

**Fairness.** The Go scheduler runs every goroutine that is not blocked, and
executors return (`WF` on every worker and dispatch). Timers go off: the approval
timer, the timer of a watch (WatchEnds rests on it, as a channel may never be
closed), the ten minutes of a dispatch. Users, crashes, bash processes and model
calls owe nothing. A sub-agent has a deadline (`defaultSubagentSpawnTimeout`), but
its stream need not end, even if it was told to stop: StopStream waits for it without
a bound (chat_runner.go:1838-1839), and subagent_run_spawner.go:430-441 expects that it may
not return. `AbortReturns` therefore says that an admitted Abort returns or the stream
never ends, and that nothing else holds it up. The ticker keeps running the sync lane and requests
are answered, since faults are bounded. A goroutine that has decided an answer
sends it, and one that can return from Park does. `Termination` is checked with three
slots, enough for the goroutines of that graph that wait for one another;
`kernel_slots` shows that with fewer slots than launching goroutines it fails.

## 4. Proofs

`AgentKernelProofs` (every finite acyclic graph, every number of slots, every
budget and set of faults; from `GraphAssumption`, `RewindAssumption` and
`BoundAssumption`):

* `TypeCorrect`: `Spec => []TypeOK`.
* `ClaimsExclusive`: `Spec => []ClaimInv`. `NoDoubleDispatch` is not inductive:
  a dispatch is decided long before it executes, by a promotion, a rewind or a
  re-fire that puts the node into a launch queue. `ClaimInv` adds the claims in
  between: every seed, executing dispatch and queued launch holds the node's
  `inFlight` bit (`Claimed`), no node is claimed twice (`Exclusive`), and when
  Run has returned nothing is left (`Quiet`). Each action moves one claim, frees
  one, or claims nodes that are not in flight.
* `NeverDoubleDispatched`: `Spec => []NoDoubleDispatch`, from `ClaimInv`.
* `RunSettlesAll`: `Rooted => (Spec => []CompleteRun)`. `Rooted` says that a node
  without predecessors is an entrypoint; the validator lets a node without
  required inputs be an orphan, which Run never launches. `SettleInv`: while the
  run goes on, every `inFlight` bit has a holder that will clear it, every node that
  has not completed is in flight, about to commit or waits for an arrival, and it
  waits for no more arrivals than it has predecessors still to complete. When
  nothing is in flight any more, a node that has not completed would have a
  predecessor that has not, and so on for ever in a finite acyclic graph.

Its second part (the same graphs, with hypotheses on their shape in the
theorems). `ReviewLast`: a node that may ask for a rewind is downstream of all
others, so nothing runs beside it when the rewind is committed. `EntryRoots`: the
entrypoints are exactly the nodes without predecessors. `SureTargets`: no decision
lies above a rewind target. The graph of `kernel_review` satisfies all three; the
hypotheses are needed, as `kernel_missing`, `kernel_window`, `kernel_bound` and
`kernel_skip` (without `ReviewLast`) and `kernel_target` (without `SureTargets`)
show. `KernelInv` has six parts: a node waits at least for the predecessors that
have still to complete, so with `SettleInv`'s bound for exactly those; launches are
in order and no dispatch is superseded (`OrderInv`); what a node ran on is what its
predecessors have recorded (`FreshInv`); live arrivals are counted, and decide
between skip and launch (`LiveInv`); a node has fired at most once per grant and
once (`FiringInv`); until a rewind, outputs belong to nodes that fired in this walk
(`PhantomInv`). From it:

* `InputsReady` (`ReadyInputs`), `FiringsBounded` (`FiringBound`), `RunsFresh`
  (`FreshRunComplete`), for `EntryRoots` and `ReviewLast`;
* `SkipsExact` (`SkipExact`), for `SureTargets` as well;
* `NoPhantomUntilRewind` (`NoPhantomResume`), for `EntryRoots` alone and an event log
  that takes its rows: a row that is lost leaves the outputs of its node behind.

`RunManagerProofs` (every graph, any number of questions, legs and restarts; from
`RunAssumption`): the core of `RunInv` is `Baton`: the run is moved on by the worker of
its latest leg, or by the one verb that took it out of its pause, or by nobody
because it is paused. Each verb checks `paused` and leaves it under one lock, which
passes the baton; the worker's report passes it back. The rest says that nothing
survives a restart (`Restarted`), that what a leg is parked on stays open until the
leg reports (`ParkedOpen`), that a verdict once recorded stays (`VerdictKept`) and that
a pause was logged, if the log takes it (`PauseLogged`). `RunTypes`, `RunOneLeg`,
`RunOneVerdict`, `RunPausedOnOne` and, for `~LogFails`, the action property
`RunRestartTells` follow.

`TaskRegistryProofs` (any number of Aborts and subscribers, failing writes or
not): `EndInv` adds to the properties what the goroutines in flight may rely on
(`Flight`): nothing runs on after a restart, End reports a real outcome, and
whoever is about to write the row or fire the hook has seen the task end. From
it follow `TaskTypes`, `HookFiredHonestly`, `ClosedOnlyAtEnd`, `RowNeverAhead`,
and the action property `OutcomeFinal`.

`TaskOutputProofs` (any number of writers, calls and sessions, any channel
capacity and length of an answer; from `OutputAssumption`): `OutputInv` adds to the properties that every
queued and collected line was written, that the line in hand is one of those
collected, that a closed channel, a snapshot and a final drain mean an ended task,
and `KnownInv`: below the offset of a session, and below the offset any of its
calls has read, every line was told, cut off an answer or is held by a call. Without the second half
the first is not preserved by the call that sets the offset it read long before.
`OutputTypes`, `OutputExitHonest` and `OutputNoLoss` follow.

`HybridClockProofs` (any counter width, any values of the clocks; from
`ClockConstants`): `ClockTypes`; `ClockForward`, an action property, from the
lemmas that Ticked and Observed lie after what they start from; `ClockCovers` from
`CoversInv`, which adds that a readable file covers the stamps too, unless a save
failed and the process still runs; a file that is gone or stamps that were not read
count as lost.

`AskRegistryProofs` (any asks, callers, questions and cap): `IInv` is `TypeOK` with
`SentSettled`; from it `AskTypes`, `AskSentSettled`, and the refinement `AskKeepsOnce`,
`Spec => Contract!Spec`: each action maps to Put, Settle of one or several asks,
Hear, Leave or a stutter. Hear is a step of the contract only because what is on
a channel is settled.

`AskBatchSettles`, `StartsVisible => (Spec => []BatchSettles)`, is about the race of the
steps of a wizard: whoever recorded the last answer saw all of them in the
snapshot it took under the lock. `StartsVisible` says that some question depends on
no other. The code does not refuse a batch without one (question.go:161-173), and
such a batch is complete before anything is answered while nobody settles it.

`ChatDispatchProofs` (any number of fires, streams, edits, tool lists and either
author of the schedule; from `DispatchAssumption`). `Confined` says of a stream that
runs that the registry holds it to its list. What makes it hard is that the
dispatcher learns which streams belong to its run only from events, which may come
late and after the stream they name has ended. `DispatchInv` therefore has

* `RunnerInv`, `ClaimInv`, `InboxInv`, `FireInv`: who is paused, who holds the claim, and
  that events name streams that were started;
* `ListInv`, `GenInv`, `HeldInv`: what a fire was let through with, that a generation is
  its own, and that it is outstanding while the fire waits and has not released it;
* `StreamInv`: of each run one stream at most goes on (a paused one whose redrive has
  started does not), in the fire's conversation and with its list, and when it goes
  on the fire has not released;
* `OwnInv`: there is a set of streams, all those the run has had, which contains what
  the dispatcher knows, is closed under the continuations that are under way in its
  inbox, and of which none goes on once a close of a member is under way or noted.

So a release, which follows a close of an own stream, finds the run silent.
`DispatchTypes` and `DispatchConfined` follow.

`DispatchOneTurn` is `Spec => OneTurn`, where `OneTurn` is
`[](RedriveSeen /\ RedriveApart) => []Alone`. The attempt to prove `Alone` itself led to
`dispatch_overlap` and `dispatch_hidden`, and each premise rules out one of them. `TurnInv`
adds that a conversation is named nowhere before the fire that makes it has made it
(`NamedInv`), and what a fire knows of the one it has picked (`VacantInv`): after the
first look that no turn of the schedule runs there, after the second that none may
be resumed there either, until the fire starts its own stream. Only the holder of the
claim starts one, and a redrive needs a paused turn. Between the looks
`RedriveApart` keeps the first half true, and at the second `RedriveSeen` says that a
paused turn is seen.

`MemorySyncProofs` (any number of devices and memories, any page size, any bounds, crashes,
failed requests and lost answers at every step; from `SyncConstants`). A step is a sweep
on Fleet or the move of one device that leaves the others alone (`Alone`), so what is
said of a device needs a lemma for its own moves and one for those of the others.
All theorems rest on `Types` (the stores, and the shape of what a lane holds at each
`pc`), and those below the first on `FeedInv`
(no two records have the same number in the change feed, and every cursor and every
page in flight has its place before what it has not seen) and `HolderInv` (a memory
Fleet never had is with one device only).

* `SyncTypes`: `Spec => []TypeOK`.
* `SyncForget`: `Calm => (Spec => []ForgetWins)`. `Calm`: no sweeps and no erases. A
  forget is queued in one file, sent, answered and acknowledged, while older copies
  of the row are in other stores, in pages being applied and in pushes.
  `ForgetInv` says where the forget is: still in the outbox of the device that queued
  it, on its way, or a tombstone on Fleet, which no upsert revives; and that
  a device past the tombstone has no row of it that it would push. Edits and scope
  changes are free: demotions and promotions are covered.
* `SyncAgree`: `Calm => (Spec /\ []AllSynced => []Agree)`. `AllSynced`: no row is outside
  the synced scopes. `AgreeOf(d)` compares a row with Fleet's record by stamp. A row
  behind the record is one the next pull will still deliver, a row ahead of it is
  dirty or is being pushed, and an answer clears `dirty` only for the generation
  that was sent. `PinInv` says that a stamp belongs to one value of the pin, wherever
  the stamp is found, so equal stamps mean equal pins. `AllSynced` is needed:
  `sync_demote` loses a demoted memory.
* `SyncErase`: `MaxSweeps = 0 => \A d0 : Spec /\ [](AllSynced /\ SoleEraser(d0) /\ Reached)
  => []EraseHolds`, for every `MaxSkew` and `Skewed`. `SoleEraser(d0)`: only d0 has an erase pending.
  `Reached`: when a device is about to erase, every device has a cursor to refuse or
  nothing Fleet has had, and no row is stamped ahead of Fleet's clock. Both are needed,
  since a device with the empty cursor is never refused, and a row stamped ahead
  outlives the replay. A clock that is behind is covered. For the other
  devices, `KeepOf` calls a row open when Fleet had it and the device does not know it
  to be there; an open row created before the last erase is one that the replay of
  the erase will remove, or the cursor is one Fleet refuses, so that the row cannot
  be pushed before. `LaneOf` relates the persisted reset to the step of the lane, and
  `WipeInv` says that what is wiped is no record at all.

The conditions on behaviours are `[]` hypotheses, so each theorem is about every
behaviour up to the first step that leaves them. The instance of `sync_erase` has
behaviours within and outside `Reached`, and `sync_edit` goes beyond those of `SyncForget` and `SyncAgree` with a
sweep and a demotion.

Only model-checked: everything that is temporal under fairness (`Termination`,
`PausedEnds`, `RunningEnds`, `TaskEnds`, `AbortReturns`, `WatchEnds`, `ForgetSettles`,
`KeepsContract`, `ClaimFreed`, `Freed`), which is out of the prover's reach; and of
`MemorySync` what lies outside the premises above: sweeps, demotions (for `Agree` and
`EraseHolds`), and erases for `Agree` and `ForgetWins`. No run has two erasers.

## 5. Plan

1. Proofs: the theorems about MemorySync with sweeps, and `Agree` with demotions whose
   answers arrive.
2. Abstract specifications: a DAG walk in which every node fires once per
   generation after its predecessors, implemented by AgentKernel on the graphs
   without the window; a run that is asked and answered, implemented by
   RunManager with AskContract in the place of its questions.
3. Modules: the cron registrations of the schedule engine with one-shots, the
   tool loop's confirmations, `EscalationLadder`, the loop, retry and parallel
   bodies of exec_control.go, the MCP stdio supervisor, the other Fleet lanes.

## 6. Not modelled

The repository has some 350,000 lines of implementation, most of which is
network clients, wire formats and transports (LLM providers, served mode, MCP
connectors), CRUD over SQLite (sessions, units, artifacts), settings and RPC views
that forward to it, cryptography and key stores, the policy engine's evaluation,
wiring code, the front end, and generated code: there is no protocol in them
for a model to check. The modules cover the parts whose correctness depends on
the order of steps, which is a small share of those lines. `PROJECT.json` gives
the reason for each component. Of the modelled parts, these are left out: SIGKILL
after a SIGTERM that a process ignores, the bytes of the ring buffer and log
rotation; the graph library and traces of the run manager; cron registration,
one-shot schedules and inherited confinement; the content of turns; titles,
recall, aliases, accounts and pruning of memories.
