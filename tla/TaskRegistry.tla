---------------------------- MODULE TaskRegistry ----------------------------
(***************************************************************************)
(* One background task of core/tasks: the entry in memory, its row in      *)
(* SQLite, the goroutine that spawns and awaits it (a bash process in      *)
(* core/tools/bash/background.go, a sub-agent stream in                    *)
(* core/rpc/subagent_run_spawner.go), callers of Abort, subscribers of its *)
(* output, and a restart of the process.                                   *)
(*                                                                         *)
(* A step is what happens under one lock or between two of them; the reads *)
(* Subscribe and Abort make without the lock are steps of their own.       *)
(***************************************************************************)
EXTENDS Naturals

CONSTANTS
    Aborter,     \* calls of Abort
    Watcher,     \* calls of Subscribe
    StoreFails   \* whether a write to SQLite may fail

ASSUME TaskAssumption == StoreFails \in BOOLEAN

VARIABLES
    kind,        \* "bash" has a process, "subagent" a stream
    status,      \* entry.task.Status, "none" before Register
    handle,      \* entry.pid or entry.stopFunc is set
    row,         \* the status of the row, "absent" without one
    proc,        \* the process or stream: "none", "alive" or "gone"
    stopped,     \* Abort signalled the process or stopped the stream
    spawner,     \* where the spawning goroutine is
    code,        \* the outcome the spawner reports to End
    abort,       \* Aborter -> where the call is
    watch,       \* Watcher -> where the call, then its channel, is
    hooks,       \* how often background_task_complete was fired
    booted       \* the process restarted and ran its recovery

vars == <<kind, status, handle, row, proc, stopped, spawner, code, abort, watch, hooks, booted>>

Terminal == {"completed", "failed", "cancelled", "crashed"}

Init ==
    /\ kind \in {"bash", "subagent"}
    /\ status = "none"
    /\ handle = FALSE
    /\ row = "absent"
    /\ proc = "none"
    /\ stopped = FALSE
    /\ spawner = "register"
    /\ code = "none"
    /\ abort = [a \in Aborter |-> "idle"]
    /\ watch = [w \in Watcher |-> "idle"]
    /\ hooks = 0
    /\ booted = FALSE

\* closeAll: every channel in the set is closed.
ClosedAll == [w \in Watcher |-> IF watch[w] = "open" THEN "closed" ELSE watch[w]]

\* UpdateStatus: no row, no update; the callers ignore or only log an error.
Update(s) ==
    \/ row' = IF row = "absent" THEN "absent" ELSE s
    \/ StoreFails /\ row' = row
-----------------------------------------------------------------------------
(* The spawning goroutine. *)

\* Register: the entry is visible before its row is written.
Register ==
    /\ spawner = "register"
    /\ status' = "running"
    /\ spawner' = "insert"
    /\ UNCHANGED <<kind, handle, row, proc, stopped, code, abort, watch, hooks, booted>>

Insert ==
    /\ spawner = "insert"
    /\ \/ row' = "running"
       \/ StoreFails /\ row' = row
    /\ spawner' = "start"
    /\ UNCHANGED <<kind, status, handle, proc, stopped, code, abort, watch, hooks, booted>>

Start ==
    /\ spawner = "start"
    /\ proc' = "alive"
    /\ spawner' = "handle"
    /\ UNCHANGED <<kind, status, handle, row, stopped, code, abort, watch, hooks, booted>>

\* Mutant of StartFails: the caller is told, the registry is not.
MutStartFailsSilent ==
    /\ spawner = "start"
    /\ spawner' = "done"
    /\ UNCHANGED <<kind, status, handle, row, proc, stopped, code, abort, watch, hooks, booted>>

\* cmd.Start or StartStream fails: the task is ended at once.
StartFails ==
    /\ spawner = "start"
    /\ code' = "failed"
    /\ spawner' = "end"
    /\ UNCHANGED <<kind, status, handle, row, proc, stopped, abort, watch, hooks, booted>>

\* SetPID or SetStopFunc.
SetHandle ==
    /\ spawner = "handle"
    /\ handle' = TRUE
    /\ spawner' = "wait"
    /\ UNCHANGED <<kind, status, row, proc, stopped, code, abort, watch, hooks, booted>>

\* The process exits or the stream closes, of itself or because it was stopped; a
\* stopped stream has not completed.
Exit ==
    /\ proc = "alive"
    /\ proc' = "gone"
    /\ code' \in IF spawner \notin {"handle", "wait"} THEN {code}
                ELSE IF kind = "subagent" /\ stopped THEN {"failed"}
                ELSE {"completed", "failed"}
    /\ UNCHANGED <<kind, status, handle, row, stopped, spawner, abort, watch, hooks, booted>>

\* cmd.Wait returns, or the stream-closed event arrives.
Awaited ==
    /\ spawner = "wait"
    /\ proc = "gone"
    /\ spawner' = "end"
    /\ UNCHANGED <<kind, status, handle, row, proc, stopped, code, abort, watch, hooks, booted>>

\* The deadline of the wait: a process is killed; a stream is stopped, or stopping
\* it times out as well (or the event bus closes) and the run is reported while the
\* stream lives.
Deadline ==
    /\ spawner = "wait"
    /\ proc' \in IF kind = "subagent" THEN {"gone", proc} ELSE {"gone"}
    /\ code' = "failed"
    /\ spawner' = "end"
    /\ UNCHANGED <<kind, status, handle, row, stopped, abort, watch, hooks, booted>>

\* Mutant of EndMark: the task may be terminal already.
MutEndMarkAgain ==
    /\ spawner = "end"
    /\ status' = code
    /\ watch' = ClosedAll
    /\ spawner' = "store"
    /\ UNCHANGED <<kind, handle, row, proc, stopped, code, abort, hooks, booted>>

\* End, under the lock: refused on a terminal task, else the outcome is set and the
\* subscribers are closed.
EndMark ==
    /\ spawner = "end"
    /\ \/ /\ status \in Terminal
          /\ spawner' = "done"
          /\ UNCHANGED <<status, watch>>
       \/ /\ status \notin Terminal
          /\ status' = code
          /\ watch' = ClosedAll
          /\ spawner' = "store"
    /\ UNCHANGED <<kind, handle, row, proc, stopped, code, abort, hooks, booted>>

\* ... then the row is written with the outcome End computed ...
EndStore ==
    /\ spawner = "store"
    /\ Update(code)
    /\ spawner' = "hook"
    /\ UNCHANGED <<kind, status, handle, proc, stopped, code, abort, watch, hooks, booted>>

\* ... then the hook is fired.
EndHook ==
    /\ spawner = "hook"
    /\ hooks' = hooks + 1
    /\ spawner' = "done"
    /\ UNCHANGED <<kind, status, handle, row, proc, stopped, code, abort, watch, booted>>
-----------------------------------------------------------------------------
(* Abort. *)

\* The unlocked look at the status.
AbortCheck(a) ==
    /\ abort[a] = "idle"
    /\ status # "none"
    /\ abort' = [abort EXCEPT ![a] = IF status \in Terminal THEN "refused" ELSE "stop"]
    /\ UNCHANGED <<kind, status, handle, row, proc, stopped, spawner, code, watch, hooks, booted>>

\* Mutant of AbortStop: Abort waits until the task is gone, whatever its kind.
MutAbortStopWaits(a) ==
    /\ abort[a] = "stop"
    /\ stopped' = (stopped \/ handle)
    /\ abort' = [abort EXCEPT ![a] = IF handle THEN "drain" ELSE "mark"]
    /\ UNCHANGED <<kind, status, handle, row, proc, spawner, code, watch, hooks, booted>>

\* SIGTERM, or the stop of the stream, when there is something to stop it by.
AbortStop(a) ==
    /\ abort[a] = "stop"
    /\ stopped' = (stopped \/ handle)
    /\ abort' = [abort EXCEPT ![a] = IF handle /\ kind = "subagent" THEN "drain" ELSE "mark"]
    /\ UNCHANGED <<kind, status, handle, row, proc, spawner, code, watch, hooks, booted>>

\* StopStream returns when the stream's goroutine has exited.
AbortDrained(a) ==
    /\ abort[a] = "drain"
    /\ proc = "gone"
    /\ abort' = [abort EXCEPT ![a] = "mark"]
    /\ UNCHANGED <<kind, status, handle, row, proc, stopped, spawner, code, watch, hooks, booted>>

\* Mutant of AbortMark: the status is not looked at again under the lock.
MutAbortMarkBlind(a) ==
    /\ abort[a] = "mark"
    /\ abort' = [abort EXCEPT ![a] = "store"]
    /\ status' = "cancelled"
    /\ watch' = ClosedAll
    /\ UNCHANGED <<kind, handle, row, proc, stopped, spawner, code, hooks, booted>>

\* Mutant of AbortMark: the subscribers are closed, the status is left for End.
MutAbortMarkCloses(a) ==
    /\ abort[a] = "mark"
    /\ abort' = [abort EXCEPT ![a] = "store"]
    /\ watch' = ClosedAll
    /\ UNCHANGED <<kind, status, handle, row, proc, stopped, spawner, code, hooks, booted>>

\* Under the lock: cancelled, unless something ended the task meanwhile.
AbortMark(a) ==
    /\ abort[a] = "mark"
    /\ abort' = [abort EXCEPT ![a] = "store"]
    /\ status' = IF status \in Terminal THEN status ELSE "cancelled"
    /\ watch' = IF status \in Terminal THEN watch ELSE ClosedAll
    /\ UNCHANGED <<kind, handle, row, proc, stopped, spawner, code, hooks, booted>>

\* The row is written either way.
AbortStore(a) ==
    /\ abort[a] = "store"
    /\ Update("cancelled")
    /\ abort' = [abort EXCEPT ![a] = "done"]
    /\ UNCHANGED <<kind, status, handle, proc, stopped, spawner, code, watch, hooks, booted>>
-----------------------------------------------------------------------------
(* Subscribe. *)

\* The unlocked look at the status ...
SubscribeCheck(w) ==
    /\ watch[w] = "idle"
    /\ status # "none"
    /\ watch' = [watch EXCEPT ![w] = IF status \in Terminal THEN "refused" ELSE "add"]
    /\ UNCHANGED <<kind, status, handle, row, proc, stopped, spawner, code, abort, hooks, booted>>

\* ... and the channel joins the set.
SubscribeAdd(w) ==
    /\ watch[w] = "add"
    /\ watch' = [watch EXCEPT ![w] = "open"]
    /\ UNCHANGED <<kind, status, handle, row, proc, stopped, spawner, code, abort, hooks, booted>>

\* The subscriber's cancel function removes the channel.
Unsubscribe(w) ==
    /\ watch[w] = "open"
    /\ watch' = [watch EXCEPT ![w] = "left"]
    /\ UNCHANGED <<kind, status, handle, row, proc, stopped, spawner, code, abort, hooks, booted>>
-----------------------------------------------------------------------------
(* A restart: memory is gone and RecoverOrphansWithPIDCheck marks the row. *)

Reboot ==
    /\ ~booted
    /\ booted' = TRUE
    /\ \/ row' = IF row = "running" THEN "crashed" ELSE row
       \/ StoreFails /\ row' = row
    /\ status' = "none"
    /\ handle' = FALSE
    /\ proc' = "none"
    /\ spawner' = "done"
    /\ abort' = [a \in Aborter |-> "gone"]
    /\ watch' = [w \in Watcher |-> "gone"]
    /\ UNCHANGED <<kind, stopped, code, hooks>>
-----------------------------------------------------------------------------
Spawner ==
    \/ Register
    \/ Insert
    \/ Start
    \/ StartFails
    \/ SetHandle
    \/ Awaited
    \/ EndMark
    \/ EndStore
    \/ EndHook

Abort(a) == AbortCheck(a) \/ AbortStop(a) \/ AbortDrained(a) \/ AbortMark(a) \/ AbortStore(a)

Subscribe(w) == SubscribeCheck(w) \/ SubscribeAdd(w) \/ Unsubscribe(w)

Next ==
    \/ Spawner
    \/ Exit
    \/ Deadline
    \/ \E a \in Aborter : Abort(a)
    \/ \E w \in Watcher : Subscribe(w)
    \/ Reboot

Spec == Init /\ [][Next]_vars

\* Goroutines run, and a sub-agent always has a deadline.  A bash command may run for
\* ever, and so may a stream, even one that was told to stop.
Fairness ==
    /\ WF_vars(Spawner)
    /\ WF_vars(kind = "subagent" /\ Deadline)
    /\ \A a \in Aborter : WF_vars(abort[a] # "idle" /\ Abort(a))

FairSpec == Spec /\ Fairness
-----------------------------------------------------------------------------
(* Correctness. *)

\* Every variable of the registry, the row and the calls keeps its type.
TypeOK ==
    /\ kind \in {"bash", "subagent"}
    /\ status \in {"none", "running"} \cup (Terminal \ {"crashed"})
    /\ handle \in BOOLEAN
    /\ row \in {"absent", "running"} \cup Terminal
    /\ proc \in {"none", "alive", "gone"}
    /\ stopped \in BOOLEAN
    /\ spawner \in {"register", "insert", "start", "handle", "wait", "end", "store", "hook", "done"}
    /\ code \in {"none", "completed", "failed"}
    /\ abort \in [Aborter -> {"idle", "stop", "drain", "mark", "store", "done", "refused", "gone"}]
    /\ watch \in [Watcher -> {"idle", "add", "open", "closed", "left", "refused", "gone"}]
    /\ hooks \in Nat
    /\ booted \in BOOLEAN

\* registry.go:279-310, 509-517: End and any number of Aborts race, and the first
\* to take the lock decides: an outcome, once reached, never changes in memory.
FirstEndWins == [][(status \in Terminal /\ ~booted') => status' = status]_vars

\* registry.go:286-289, 322-334: the completion hook is fired at most once, and
\* never for a task the registry shows as cancelled.
HookHonest ==
    /\ hooks <= 1
    /\ hooks = 1 /\ ~booted => status \in {"completed", "failed"}

\* monitor/tool.go:341: a watcher takes a closed channel for a terminal task,
\* and is right.
ClosedMeansEnded == \A w \in Watcher : watch[w] = "closed" => status \in Terminal

\* registry.go:312-317, 519-521: the row lags memory and never runs ahead of it: an
\* outcome on disk is of a task that has ended.
RowFollows == row \in Terminal /\ ~booted => status \in Terminal

\* background.go:87-97, subagent_run_spawner.go:309-316, 404-488: a task whose
\* process did not start, or that is a sub-agent, does not stay running.
TaskEnds == status = "running" ~> (status # "running" \/ (kind = "bash" /\ proc = "alive"))

\* registry.go:476-524: an Abort that was admitted returns, unless it is of a sub-agent
\* whose stream never ends: StopStream waits for it without a bound, and Abort with
\* it (chat_runner.go:1838-1839). Nothing else may hold it up: not a process that
\* ignores SIGTERM, another Abort, End or a failing write.
AbortReturns ==
    \A a \in Aborter : abort[a] = "stop" ~>
        (abort[a] \in {"done", "gone"} \/ [](kind = "subagent" /\ proc = "alive"))

\* registry.go:466-475: a cancelled task was stopped, or there was nothing to stop.
AbortStops == status = "cancelled" => stopped \/ proc # "alive"

\* registry.go:448-449: when the task ends its subscribers' channels are closed.
WatchersClosed == \A w \in Watcher : watch[w] = "open" => status \notin Terminal
=============================================================================
