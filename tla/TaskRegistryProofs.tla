------------------------ MODULE TaskRegistryProofs ------------------------
(* What holds of a background task for any number of concurrent Aborts and   *)
(* Subscribes, and whether or not writes to SQLite fail.                     *)
EXTENDS TaskRegistry, TLAPS

\* What the goroutines in flight may rely on: nothing runs on after a restart,
\* End reports a real outcome, and whoever is about to write the row or to fire
\* the hook has seen the task end.
Flight ==
    /\ booted => /\ spawner = "done"
                 /\ proc = "none"
                 /\ \A a \in Aborter : abort[a] = "gone"
                 /\ \A w \in Watcher : watch[w] = "gone"
    /\ spawner = "register" => status = "none" /\ \A a \in Aborter : abort[a] = "idle"
    /\ spawner \in {"register", "insert", "start"} => proc = "none"
    /\ spawner \in {"handle", "wait"} /\ proc = "gone" => code \in {"completed", "failed"}
    /\ spawner \in {"end", "store"} => code \in {"completed", "failed"}
    /\ spawner \in {"store", "hook"} => status \in {"completed", "failed"}
    /\ spawner # "done" => hooks = 0
    /\ \A a \in Aborter : abort[a] = "store" => status \in Terminal

EndInv == TypeOK /\ Flight /\ HookHonest /\ ClosedMeansEnded /\ RowFollows

\* The task starts with nothing written, fired or closed.
LEMMA EndInit == Init => EndInv
  <1> SUFFICES ASSUME Init PROVE EndInv
    OBVIOUS
  <1>1. TypeOK
    BY DEF Init, TypeOK
  <1>2. \A a \in Aborter : abort[a] = "idle"
    BY DEF Init
  <1>3. \A w \in Watcher : watch[w] = "idle"
    BY DEF Init
  <1>4. Flight
    BY <1>2 DEF Init, Flight
  <1>5. HookHonest /\ ClosedMeansEnded /\ RowFollows
    BY <1>3 DEF Init, HookHonest, ClosedMeansEnded, RowFollows, Terminal
  <1> QED BY <1>1, <1>4, <1>5 DEF EndInv

\* Every step of the spawner, of an Abort, of a Subscribe and of a restart keeps
\* the invariant.
LEMMA EndStep == EndInv /\ [Next]_vars => EndInv'
  <1> SUFFICES ASSUME EndInv, [Next]_vars PROVE EndInv'
    OBVIOUS
  <1> USE DEF EndInv, TypeOK, Flight, HookHonest, ClosedMeansEnded, RowFollows, Terminal
  <1>1. CASE Register
    BY <1>1 DEF Register
  <1>2. CASE Insert
    BY <1>2 DEF Insert
  <1>3. CASE Start
    BY <1>3 DEF Start
  <1>4. CASE StartFails
    BY <1>4 DEF StartFails
  <1>5. CASE SetHandle
    BY <1>5 DEF SetHandle
  <1>6. CASE Awaited
    BY <1>6 DEF Awaited
  <1>7. CASE EndMark
    BY <1>7 DEF EndMark, ClosedAll
  <1>8. CASE EndStore
    BY <1>8 DEF EndStore, Update
  <1>9. CASE EndHook
    BY <1>9 DEF EndHook
  <1>10. CASE Exit
    BY <1>10 DEF Exit
  <1>11. CASE Deadline
    BY <1>11 DEF Deadline
  <1>12. ASSUME NEW a \in Aborter, AbortCheck(a) PROVE EndInv'
    BY <1>12 DEF AbortCheck
  <1>13. ASSUME NEW a \in Aborter, AbortStop(a) PROVE EndInv'
    BY <1>13 DEF AbortStop
  <1>14. ASSUME NEW a \in Aborter, AbortDrained(a) PROVE EndInv'
    BY <1>14 DEF AbortDrained
  <1>15. ASSUME NEW a \in Aborter, AbortMark(a) PROVE EndInv'
    BY <1>15 DEF AbortMark, ClosedAll
  <1>16. ASSUME NEW a \in Aborter, AbortStore(a) PROVE EndInv'
    BY <1>16 DEF AbortStore, Update
  <1>17. ASSUME NEW w \in Watcher, SubscribeCheck(w) PROVE EndInv'
    BY <1>17 DEF SubscribeCheck
  <1>18. ASSUME NEW w \in Watcher, SubscribeAdd(w) PROVE EndInv'
    BY <1>18 DEF SubscribeAdd
  <1>19. ASSUME NEW w \in Watcher, Unsubscribe(w) PROVE EndInv'
    BY <1>19 DEF Unsubscribe
  <1>20. CASE Reboot
    BY <1>20 DEF Reboot
  <1>21. CASE UNCHANGED vars
    BY <1>21 DEF vars
  <1> QED
    BY <1>1, <1>2, <1>3, <1>4, <1>5, <1>6, <1>7, <1>8, <1>9, <1>10, <1>11, <1>12, <1>13, <1>14, <1>15, <1>16, <1>17, <1>18, <1>19, <1>20, <1>21
    DEF Next, Spawner, Abort, Subscribe

\* The invariant holds in every reachable state.
THEOREM EndInvariant == Spec => []EndInv
  BY EndInit, EndStep, PTL DEF Spec

\* Every variable of the registry, the row and the calls keeps its type.
THEOREM TaskTypes == Spec => []TypeOK
  <1>1. EndInv => TypeOK BY DEF EndInv
  <1> QED BY <1>1, EndInvariant, PTL

\* However many Aborts race End, background_task_complete is fired at most once and
\* never for a task shown as cancelled.
THEOREM HookFiredHonestly == Spec => []HookHonest
  <1>1. EndInv => HookHonest BY DEF EndInv
  <1> QED BY <1>1, EndInvariant, PTL

\* A closed subscriber channel means that the task has ended.
THEOREM ClosedOnlyAtEnd == Spec => []ClosedMeansEnded
  <1>1. EndInv => ClosedMeansEnded BY DEF EndInv
  <1> QED BY <1>1, EndInvariant, PTL

\* The row in SQLite never reports an end that memory has not reached.
THEOREM RowNeverAhead == Spec => []RowFollows
  <1>1. EndInv => RowFollows BY DEF EndInv
  <1> QED BY <1>1, EndInvariant, PTL

\* The first of End and any number of Aborts to take the lock decides: no step
\* but a restart changes the outcome of a task.
THEOREM OutcomeFinal == Spec => FirstEndWins
  <1>1. EndInv /\ [Next]_vars => ((status \in Terminal /\ ~booted') => status' = status)
    <2> SUFFICES ASSUME EndInv, [Next]_vars, status \in Terminal, ~booted' PROVE status' = status
      OBVIOUS
    <2> USE DEF EndInv, Flight, Terminal
    <2>1. CASE Spawner
      BY <2>1 DEF Spawner, Register, Insert, Start, StartFails, SetHandle, Awaited, EndMark,
                  EndStore, EndHook
    <2>2. CASE Exit \/ Deadline \/ UNCHANGED vars
      BY <2>2 DEF Exit, Deadline, vars
    <2>3. ASSUME NEW a \in Aborter, Abort(a) PROVE status' = status
      BY <2>3 DEF Abort, AbortCheck, AbortStop, AbortDrained, AbortMark, AbortStore
    <2>4. ASSUME NEW w \in Watcher, Subscribe(w) PROVE status' = status
      BY <2>4 DEF Subscribe, SubscribeCheck, SubscribeAdd, Unsubscribe
    <2>5. CASE Reboot
      BY <2>5 DEF Reboot
    <2> QED BY <2>1, <2>2, <2>3, <2>4, <2>5 DEF Next
  <1> QED BY <1>1, EndInvariant, PTL DEF Spec, FirstEndWins
=============================================================================
