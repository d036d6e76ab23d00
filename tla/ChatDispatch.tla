---------------------------- MODULE ChatDispatch ----------------------------
(***************************************************************************)
(* Fires of one chat schedule: the policy gate and the history row         *)
(* (core/scheduler/chat_cron_engine.go), the dispatcher that runs a fire   *)
(* as a turn of the schedule's conversation                                *)
(* (core/rpc/chat_run_dispatcher.go), the registry that confines the       *)
(* conversation to the tools of the schedule                               *)
(* (core/rpc/scheduled_run_containment.go), and as much of the chat runner *)
(* as decides when a turn is over: streams that end, that pause for a new  *)
(* provider key, and that are redriven under another id.                   *)
(*                                                                         *)
(* The user writes in the conversation, deletes it and edits the schedule  *)
(* at any time. What a turn says is left out; which tools it may use is    *)
(* the data the properties are about.                                      *)
(***************************************************************************)
EXTENDS Naturals, Sequences, FiniteSets

CONSTANTS
    MaxFires,     \* fires of the schedule (ticks of its cron, RunNow)
    MaxSubs,      \* streams the runner starts
    By,           \* who made the schedule: "user" or "model"
    Declared,     \* the tool list it was made with; {} is no list
    Lists,        \* tool lists an edit may store
    Corrupt,      \* a stored list that does not decode
    MaxEdits,     \* bound: edits and deletions of the row and of conversations, failed writes
    MaxMoves,     \* bound: streams and those together
    StoreFails,   \* whether the write of the conversation to the row may fail
    None

ASSUME DispatchAssumption ==
    {MaxFires, MaxSubs, MaxEdits, MaxMoves} \subseteq Nat /\ StoreFails \in BOOLEAN /\ None \notin Nat

Fire == 1..MaxFires
Sub == 1..MaxSubs
Session == Fire     \* a fire makes at most one conversation
User == 0           \* whose turn: the user's, or that of a fire
Tool == UNION (Lists \cup {Declared})

VARIABLES
    row,       \* the schedule: is it there, who made it, its list, its conversation
    sessions,  \* conversations that exist
    claim,     \* inflight: the fire that is being dispatched
    fire,      \* fire[f]: where the fire is, and what it has read and made
    inbox,     \* inbox[f]: events of the subscription of fire f
    sub,       \* sub[s]: the streams of the runner
    paused,    \* pausedSubs: the turn that waits for a new key
    redrive,   \* the RedriveLastTurn under way: the paused stream, the new one
    bound,     \* the registry: one record for each outstanding generation
    lastGen,   \* its counter
    recorded,  \* fires that have their history row
    edits      \* edits and deletions by the user, and failed writes, so far

vars == <<row, sessions, claim, fire, inbox, sub, paused, redrive, bound, lastGen,
          recorded, edits>>

IdleFire == [pc |-> "idle", gated |-> {}, list |-> {}, link |-> None, contained |-> FALSE,
             allow |-> {}, sess |-> None, created |-> FALSE, gen |-> 0, sub |-> None,
             retried |-> FALSE, owned |-> {}, ended |-> {}, released |-> FALSE]

FreeSub == [st |-> "free", sess |-> None, of |-> User, full |-> FALSE, lets |-> {}]

\* A fire that returned and a stream that ended leave nothing behind.
OverFire == [IdleFire EXCEPT !.pc = "over"]
EndedSub == [FreeSub EXCEPT !.st = "closed"]

Init ==
    /\ row \in [there : {TRUE}, list : {Declared}, sess : {None}]
    /\ sessions = {}
    /\ claim = None
    /\ fire = [f \in Fire |-> IdleFire]
    /\ inbox = [f \in Fire |-> <<>>]
    /\ sub = [s \in Sub |-> FreeSub]
    /\ paused = None
    /\ redrive = [old |-> None, new |-> None]
    /\ bound = {} /\ lastGen = 0
    /\ recorded = {}
    /\ edits = 0

-----------------------------------------------------------------------------
(* The chat runner.                                                        *)

HasActiveRun(c) == \E s \in Sub : sub[s].st = "running" /\ sub[s].sess = c

HasPausedTurnIn(c) == paused # None /\ sub[paused].sess = c

conversationBusy(c) == HasActiveRun(c) \/ HasPausedTurnIn(c)

SubStillLive(s) == sub[s].st = "running" \/ s = paused

\* A subscription of the dispatcher, or of its watcher.
Subscribed(f) == fire[f].pc \in {"wait", "retry", "relook", "drain", "watch"}

Publish(ev) ==
    inbox' = [f \in Fire |-> IF Subscribed(f) THEN Append(inbox[f], ev) ELSE inbox[f]]

Unsubscribe(f) == inbox' = [inbox EXCEPT ![f] = <<>>]

\* The id of the next stream: streams are numbered as they start.
NextSub(s) ==
    /\ sub[s].st = "free" /\ \A t \in Sub : sub[t].st = "free" => s <= t
    /\ s + edits <= MaxMoves

\* There is room for one more edit, deletion or failed write.
MayEdit ==
    /\ edits < MaxEdits
    /\ \A s \in Sub : sub[s].st # "free" => s + edits < MaxMoves

\* What a read of the row makes of its list.
Decoded(list) == IF list = Corrupt THEN {} ELSE list

\* The lists a fire was let through with: the gate's and the one of the row the
\* dispatcher read.
Lets(f) ==
    {t \in Tool : /\ fire[f].gated # {} => t \in fire[f].gated
                  /\ fire[f].list # {} => t \in Decoded(fire[f].list)}

\* lets, for the properties: the tools its turn was let through with.
Started(c, f, lets) == [st |-> "running", sess |-> c, of |-> f, full |-> FALSE, lets |-> lets]

\* The user sends a message in the conversation; nothing refuses it.
UserTurn(c) ==
    /\ c \in sessions
    /\ \E s \in Sub : NextSub(s) /\ sub' = [sub EXCEPT ![s] = Started(c, User, Tool)]
    /\ UNCHANGED <<row, sessions, claim, fire, inbox, paused, redrive, bound, lastGen,
                   recorded, edits>>

\* driveRun is at its end: the run is no longer active, its close is yet to be
\* announced. A scheduled run may end because the conversation is full.
Finish(s) ==
    /\ sub[s].st = "running"
    /\ \E full \in {FALSE, sub[s].of # User} :
          sub' = [sub EXCEPT ![s].st = "finished", ![s].full = full]
    /\ UNCHANGED <<row, sessions, claim, fire, inbox, paused, redrive, bound, lastGen,
                   recorded, edits>>

EmitClosed(s) ==
    /\ sub[s].st = "finished"
    /\ sub' = [sub EXCEPT ![s] = EndedSub]
    /\ Publish([kind |-> "closed", sub |-> s, new |-> None, sess |-> sub[s].sess, full |-> sub[s].full])
    /\ UNCHANGED <<row, sessions, claim, fire, paused, redrive, bound, lastGen,
                   recorded, edits>>

\* The provider rejects the key: the turn is kept for a redrive and the one kept
\* before is abandoned, unless it is being redriven. No close is announced.
Pause(s) ==
    /\ sub[s].st = "running"
    /\ paused' = s
    /\ sub' = [t \in Sub |-> IF t = s THEN [sub[t] EXCEPT !.st = "paused"]
                             ELSE IF t = paused /\ t # redrive.old
                                  THEN [sub[t] EXCEPT !.st = "finished"] ELSE sub[t]]
    /\ UNCHANGED <<row, sessions, claim, fire, inbox, redrive, bound, lastGen,
                   recorded, edits>>

\* RedriveLastTurn, one at a time: the entry is marked and stays ...
RedriveLastTurn ==
    /\ paused # None /\ redrive.old = None
    /\ redrive' = [old |-> paused, new |-> None]
    /\ UNCHANGED <<row, sessions, claim, fire, inbox, sub, paused, bound, lastGen,
                   recorded, edits>>

\* ... until the new stream runs: the same turn of the same conversation ...
RedriveStart ==
    /\ redrive.old # None /\ redrive.new = None
    /\ \E s \in Sub :
          /\ NextSub(s)
          /\ sub' = [sub EXCEPT ![s] = Started(sub[redrive.old].sess, sub[redrive.old].of,
                                             sub[redrive.old].lets)]
          /\ redrive' = [redrive EXCEPT !.new = s]
    /\ UNCHANGED <<row, sessions, claim, fire, inbox, paused, bound, lastGen,
                   recorded, edits>>

RedriveOver(rec) ==
    /\ sub' = [sub EXCEPT ![redrive.old] = rec]
    /\ paused' = IF paused = redrive.old THEN None ELSE paused
    /\ redrive' = [old |-> None, new |-> None]
    /\ UNCHANGED <<row, sessions, claim, fire, bound, lastGen, recorded, edits>>

\* ... and it is announced as the continuation, maybe after it has ended.
RedriveLink ==
    /\ redrive.new # None
    /\ RedriveOver(EndedSub)
    /\ Publish([kind |-> "resumed", sub |-> redrive.old, new |-> redrive.new,
                sess |-> sub[redrive.old].sess, full |-> FALSE])

\* It could not start: the turn is abandoned and its stream closed.
RedriveFails ==
    /\ redrive.old # None /\ redrive.new = None
    /\ RedriveOver([sub[redrive.old] EXCEPT !.st = "finished"])
    /\ UNCHANGED inbox

-----------------------------------------------------------------------------
(* The registry of confined conversations.                                 *)

\* Mutant of Contain: a generation per conversation.
MutContainSame(f, c) ==
    /\ lastGen' = c
    /\ bound' = bound \cup {[sess |-> c, gen |-> lastGen', allow |-> fire[f].allow, fire |-> f]}

\* A new generation for the conversation.
Contain(f, c) ==
    /\ lastGen' = lastGen + 1
    /\ bound' = bound \cup {[sess |-> c, gen |-> lastGen', allow |-> fire[f].allow, fire |-> f]}

\* Mutant of Release: by conversation.
MutReleaseAll(c, gen) == {b \in bound : b.sess # c}

\* Release retires one generation, once.
Release(c, gen) == {b \in bound : b.sess # c \/ b.gen # gen}

\* Check: a tool must be on the list of every outstanding generation. (The tool that
\* loads definitions of tools Check lets through is always allowed; it is not a Tool.)
Check(c) == {t \in Tool : \A b \in bound : b.sess = c => t \in b.allow}

-----------------------------------------------------------------------------
(* A fire, up to its stream.                                               *)

\* Mutant of Return: no unclaim.
MutReturnClaimed(f, rec) ==
    /\ fire' = [fire EXCEPT ![f] = rec]
    /\ recorded' = recorded \cup {f}
    /\ UNCHANGED claim

\* The fire returns and its history row is written.
Return(f, rec) ==
    /\ fire' = [fire EXCEPT ![f] = rec]
    /\ claim' = IF claim = f THEN None ELSE claim
    /\ recorded' = recorded \cup {f}

\* fireSync and RunNow: the row is read and the gate asked. A run made by the
\* model is refused without a list; policy may refuse any.
FireGet(f) ==
    /\ fire[f].pc = "idle" /\ \A g \in Fire : g < f => fire[g].pc # "idle"
    /\ \/ /\ ~row.there
          /\ fire' = [fire EXCEPT ![f] = OverFire] /\ UNCHANGED <<claim, recorded>>
       \/ row.there /\ Return(f, OverFire)
       \/ /\ row.there /\ (By = "model" => Decoded(row.list) # {})
          /\ fire' = [fire EXCEPT ![f].pc = "gated", ![f].gated = Decoded(row.list)]
          /\ UNCHANGED <<claim, recorded>>
    /\ UNCHANGED <<row, sessions, inbox, sub, paused, redrive, bound, lastGen, edits>>

\* The lists the gate saw and the row holds now, narrowed to what both allow.
ResolveRunContainment(by, gated, list) ==
    LET now   == Decoded(list)
        both  == IF gated = {} THEN now ELSE IF now = {} THEN gated ELSE gated \cap now
        model == by = "model"
    IN  [refuse    |-> model /\ (now = {} \/ gated = {} \/ both = {}),
         contained |-> model \/ list = Corrupt \/ both # {} \/ gated # {} \/ now # {},
         allow     |-> IF list = Corrupt THEN {} ELSE both]

\* DispatchChatRun reads the row again, for the list and for the conversation. It
\* refuses, or fails for want of a prompt or a profile, before it has made anything.
Reload(f) ==
    LET r == ResolveRunContainment(By, fire[f].gated, row.list)
    IN  /\ fire[f].pc = "gated"
        /\ \/ Return(f, OverFire)
           \/ /\ row.there /\ ~r.refuse
              /\ fire' = [fire EXCEPT ![f].pc = "ready", ![f].list = row.list, ![f].link = row.sess,
                                      ![f].contained = r.contained, ![f].allow = r.allow]
              /\ UNCHANGED <<claim, recorded>>
        /\ UNCHANGED <<row, sessions, inbox, sub, paused, redrive, bound, lastGen, edits>>

\* One dispatch of the schedule at a time.
Claim(f) ==
    /\ fire[f].pc = "ready"
    /\ \/ claim # None /\ Return(f, OverFire)
       \/ /\ claim = None /\ claim' = f
          /\ fire' = [fire EXCEPT ![f].pc = "claimed"] /\ UNCHANGED recorded
    /\ UNCHANGED <<row, sessions, inbox, sub, paused, redrive, bound, lastGen, edits>>

\* conversation: the one the row named when it was read, if it exists, no turn runs in
\* it and, at a second look, none waits there for a key; else a new one, which the row
\* is told of.
Converse(f) ==
    LET c == fire[f].link
    IN  /\ fire[f].pc = "claimed"
        /\ \/ Return(f, OverFire) /\ UNCHANGED <<row, sessions, edits>>
           \/ /\ c \in sessions /\ HasActiveRun(c)
              /\ Return(f, OverFire) /\ UNCHANGED <<row, sessions, edits>>
           \/ /\ c \in sessions /\ ~HasActiveRun(c)
              /\ fire' = [fire EXCEPT ![f].pc = "look", ![f].sess = c]
              /\ UNCHANGED <<claim, recorded, row, sessions, edits>>
           \/ /\ c \notin sessions
              /\ sessions' = sessions \cup {f}
              /\ \/ StoreFails /\ MayEdit /\ row' = row /\ edits' = edits + 1
                 \/ /\ row' = IF row.there THEN [row EXCEPT !.sess = f] ELSE row
                    /\ UNCHANGED edits
              /\ fire' = [fire EXCEPT ![f].pc = "conv", ![f].sess = f, ![f].created = TRUE]
              /\ UNCHANGED <<claim, recorded>>
        /\ UNCHANGED <<inbox, sub, paused, redrive, bound, lastGen>>

\* Mutant of ConversePaused: a turn that waits for a key is not looked for.
MutConverseActive(f) ==
    /\ fire[f].pc = "look"
    /\ fire' = [fire EXCEPT ![f].pc = "conv"]
    /\ UNCHANGED <<row, sessions, claim, inbox, sub, paused, redrive, bound, lastGen,
                   recorded, edits>>

\* The second look, under another lock: a turn may have paused or been redriven since.
ConversePaused(f) ==
    /\ fire[f].pc = "look"
    /\ \/ HasPausedTurnIn(fire[f].sess) /\ Return(f, OverFire)
       \/ /\ ~HasPausedTurnIn(fire[f].sess)
          /\ fire' = [fire EXCEPT ![f].pc = "conv"] /\ UNCHANGED <<claim, recorded>>
    /\ UNCHANGED <<row, sessions, inbox, sub, paused, redrive, bound, lastGen, edits>>

\* discardNewEmptySession: a failed fire deletes the conversation it made unless
\* there is something else in it, and with it the link of the row.
Discard(f) ==
    \/ UNCHANGED <<row, sessions>>
    \/ /\ fire[f].created
       /\ sessions' = sessions \ {fire[f].sess}
       /\ row' = IF row.there THEN [row EXCEPT !.sess = None] ELSE row

\* The context budget, which looks again if it called the summariser (its looks may both
\* miss a turn, as may no look at all); then the conversation is confined and the prompt
\* appended.
Arm(f) ==
    LET c == fire[f].sess
    IN  /\ fire[f].pc = "conv"
        /\ \/ /\ ~fire[f].created /\ conversationBusy(c)
              /\ Return(f, OverFire)
              /\ UNCHANGED <<row, sessions, bound, lastGen>>
           \/ /\ c \in sessions
              /\ IF fire[f].contained THEN Contain(f, c) ELSE UNCHANGED <<bound, lastGen>>
              /\ fire' = [fire EXCEPT ![f].pc = "armed", ![f].gen = lastGen']
              /\ UNCHANGED <<claim, recorded, row, sessions>>
           \/ \* the append fails; the generation is released again
              /\ Return(f, OverFire) /\ Discard(f)
              /\ UNCHANGED <<bound, lastGen>>
        /\ UNCHANGED <<inbox, sub, paused, redrive, edits>>

\* newOwnStreams
Own(f, s, gen) ==
    [fire[f] EXCEPT !.pc = "wait", !.sub = s, !.gen = gen, !.owned = {s}, !.ended = {},
                    !.released = FALSE]

\* The subscription, then the stream for this fire's prompt.
Start(f) ==
    LET c == fire[f].sess
    IN  /\ fire[f].pc = "armed"
        /\ \/ \E s \in Sub :
                 /\ NextSub(s)
                 /\ sub' = [sub EXCEPT ![s] = Started(c, f, Lets(f))]
                 /\ fire' = [fire EXCEPT ![f] = Own(f, s, fire[f].gen)]
                 /\ UNCHANGED <<claim, recorded, row, sessions, bound>>
           \/ /\ Return(f, OverFire) /\ Discard(f)
              /\ bound' = IF fire[f].contained THEN Release(c, fire[f].gen) ELSE bound
              /\ UNCHANGED sub
        /\ UNCHANGED <<inbox, paused, redrive, lastGen, edits>>

-----------------------------------------------------------------------------
(* A fire, while its stream runs.                                          *)

\* ownStreams.observe: the run is over when a stream of its own ends, the first or
\* one announced as its continuation. One that ended before it was announced counts.
Observed(f, ev) ==
    LET o == fire[f]
    IN  IF o.released \/ ~o.contained THEN o
        ELSE IF ev.kind = "closed"
        THEN IF ev.sess # o.sess THEN o
             ELSE IF ev.sub \in o.owned THEN [o EXCEPT !.released = TRUE]
             ELSE [o EXCEPT !.ended = @ \cup {ev.sub}]
        ELSE IF ev.sub \notin o.owned THEN o
             ELSE [o EXCEPT !.owned = @ \cup {ev.new}, !.released = ev.new \in o.ended]

\* What the loop does with an event: the generation goes as soon as the run's own
\* stream ended; the end of the stream it waits for ends the fire, but for one
\* retry when the conversation was full.
Hear(f) ==
    LET ev   == Head(inbox[f])
        o    == Observed(f, ev)
        mine == fire[f].pc = "wait" /\ ev.kind = "closed" /\ ev.sub = fire[f].sub
        stop == o.released /\ fire[f].pc \in {"drain", "watch"}
        last == mine /\ (ev.full => o.retried \/ o.created)
    IN  /\ Subscribed(f) /\ fire[f].pc \notin {"retry", "relook"} /\ inbox[f] # <<>>
        /\ inbox' = [inbox EXCEPT ![f] = IF last \/ stop THEN <<>> ELSE Tail(@)]
        /\ bound' = IF o.released THEN Release(o.sess, o.gen) ELSE bound
        /\ \/ /\ ~mine /\ ~stop
              /\ fire' = [fire EXCEPT ![f] = o]
              /\ UNCHANGED <<claim, recorded, row, sessions>>
           \/ /\ mine /\ ~last
              /\ fire' = [fire EXCEPT ![f] = [o EXCEPT !.pc = "retry", !.retried = TRUE]]
              /\ UNCHANGED <<claim, recorded, row, sessions>>
           \/ last /\ Return(f, OverFire) /\ Discard(f)
           \/ /\ stop /\ Return(f, OverFire)
              /\ UNCHANGED <<row, sessions>>
        /\ UNCHANGED <<sub, paused, redrive, lastGen, edits>>

\* retryAfterSessionFull: not after output or tools, not when nothing could be
\* summarised, not beside a turn that runs ...
Retry(f) ==
    /\ fire[f].pc = "retry"
    /\ \/ Return(f, OverFire) /\ Unsubscribe(f)
       \/ /\ ~HasActiveRun(fire[f].sess)
          /\ fire' = [fire EXCEPT ![f].pc = "relook"] /\ UNCHANGED <<claim, recorded, inbox>>
    /\ UNCHANGED <<row, sessions, sub, paused, redrive, bound, lastGen, edits>>

\* ... nor, at the second look, beside one that waits for a key; else a new generation
\* and a new stream, unless that cannot start.
RetryPaused(f) ==
    LET c == fire[f].sess
    IN  /\ fire[f].pc = "relook"
        /\ \/ Return(f, OverFire) /\ Unsubscribe(f) /\ UNCHANGED <<sub, bound, lastGen>>
           \/ /\ ~HasPausedTurnIn(c)
              /\ IF fire[f].contained THEN Contain(f, c) ELSE UNCHANGED <<bound, lastGen>>
              /\ \E s \in Sub :
                    /\ NextSub(s)
                    /\ sub' = [sub EXCEPT ![s] = Started(c, f, Lets(f))]
                    /\ fire' = [fire EXCEPT ![f] = Own(f, s, lastGen')]
              /\ UNCHANGED <<claim, recorded, inbox>>
        /\ UNCHANGED <<row, sessions, paused, redrive, edits>>

\* The ten minutes are over, or the caller is gone: the fire has failed, but a
\* stream that may still run stays confined. What arrived is looked at first ...
Deadline(f) ==
    /\ fire[f].pc = "wait"
    /\ IF fire[f].contained /\ ~fire[f].released
       THEN fire' = [fire EXCEPT ![f].pc = "drain"] /\ UNCHANGED <<claim, recorded, inbox>>
       ELSE Return(f, OverFire) /\ Unsubscribe(f)
    /\ UNCHANGED <<row, sessions, sub, paused, redrive, bound, lastGen, edits>>

\* Mutant of Drained: nobody watches.
MutDrainedAlone(f) ==
    /\ fire[f].pc = "drain" /\ inbox[f] = <<>>
    /\ Return(f, OverFire)
    /\ UNCHANGED <<row, sessions, inbox, sub, paused, redrive, bound, lastGen, edits>>

\* ... and then a goroutine watches for the end of the run.
Drained(f) ==
    /\ fire[f].pc = "drain" /\ inbox[f] = <<>>
    /\ Return(f, [fire[f] EXCEPT !.pc = "watch"])
    /\ UNCHANGED <<row, sessions, inbox, sub, paused, redrive, bound, lastGen, edits>>

\* After a day in which nothing of the run is live any more the watch gives up and
\* the conversation stays confined.
GiveUp(f) ==
    /\ fire[f].pc = "watch"
    /\ \A s \in fire[f].owned : ~SubStillLive(s)
    /\ ~HasActiveRun(fire[f].sess)
    /\ fire' = [fire EXCEPT ![f] = [OverFire EXCEPT !.pc = "gaveup"]]
    /\ Unsubscribe(f)
    /\ UNCHANGED <<row, sessions, claim, sub, paused, redrive, bound, lastGen,
                   recorded, edits>>

-----------------------------------------------------------------------------
(* The user.                                                               *)

\* Update changes the list, not the conversation or who made the schedule; a list
\* may also come to be unreadable. Delete takes the row away.
Edit ==
    /\ MayEdit /\ row.there /\ edits' = edits + 1
    /\ \/ \E list \in Lists \cup {Corrupt} : row' = [row EXCEPT !.list = list]
       \/ row' = [row EXCEPT !.there = FALSE]
    /\ UNCHANGED <<sessions, claim, fire, inbox, sub, paused, redrive, bound, lastGen,
                   recorded>>

DeleteSession(c) ==
    /\ MayEdit /\ c \in sessions /\ edits' = edits + 1
    /\ sessions' = sessions \ {c}
    /\ UNCHANGED <<row, claim, fire, inbox, sub, paused, redrive, bound, lastGen, recorded>>

-----------------------------------------------------------------------------
Next ==
    \/ \E f \in Fire :
        \/ FireGet(f) \/ Reload(f) \/ Claim(f) \/ Converse(f) \/ ConversePaused(f)
        \/ Arm(f) \/ Start(f)
        \/ Hear(f) \/ Retry(f) \/ RetryPaused(f) \/ Deadline(f) \/ Drained(f) \/ GiveUp(f)
    \/ \E s \in Sub : Finish(s) \/ EmitClosed(s) \/ Pause(s)
    \/ RedriveLastTurn \/ RedriveStart \/ RedriveLink \/ RedriveFails
    \/ \E c \in Session : UserTurn(c) \/ DeleteSession(c)
    \/ Edit

Spec == Init /\ [][Next]_vars

\* Goroutines go on and the deadline's timer fires. A model call need not end, nor
\* need the user rotate a key.
Fairness ==
    /\ \A f \in Fire :
          WF_vars(\/ Reload(f) \/ Claim(f) \/ Converse(f) \/ ConversePaused(f) \/ Arm(f) \/ Start(f)
                  \/ Hear(f) \/ Retry(f) \/ RetryPaused(f) \/ Deadline(f) \/ Drained(f))
    /\ WF_vars(\E s \in Sub : EmitClosed(s))
    /\ WF_vars(RedriveStart \/ RedriveLink \/ RedriveFails)

FairSpec == Spec /\ Fairness

-----------------------------------------------------------------------------
(* Properties.                                                             *)

\* Every part has its type; only a fire that returned has a history row, and it
\* holds the claim no longer (chat_run_dispatcher.go:334-337); a subscription's
\* events go with it, and no two outstanding generations are the same.
TypeOK ==
    /\ row \in [there : BOOLEAN, list : Lists \cup {Declared, Corrupt}, sess : Session \cup {None}]
    /\ sessions \subseteq Session
    /\ claim \in Fire \cup {None}
    /\ \A f \in Fire : inbox[f] # <<>> => Subscribed(f)
    /\ paused \in Sub \cup {None}
    /\ \A b, d \in bound : b.gen = d.gen => b = d
    /\ \A f \in recorded : fire[f].pc \in {"over", "watch", "gaveup"} /\ claim # f

\* chat_run_dispatcher.go:293-296, 403-406, 479-481, 534-549, 604-678: however long a
\* turn of the schedule runs, under whichever id, past its deadline too, and whatever
\* else ends in its conversation meanwhile, it may use no tool outside the lists the
\* gate and the dispatcher let it through with.
Confined ==
    \A s \in Sub : sub[s].st = "running" /\ sub[s].of # User => Check(sub[s].sess) \subseteq sub[s].lets

Resumable(s) == sub[s].st \in {"running", "paused"}

\* Two turns of the schedule never run in one conversation, nor does one run beside
\* another that may be resumed there; only a stream and its redrive overlap.
Alone ==
    \A s, t \in Sub : s # t /\ Resumable(s) /\ Resumable(t) /\ sub[s].sess = sub[t].sess
        /\ sub[s].of # User /\ sub[t].of # User => sub[s].of = sub[t].of /\ {s, t} = {redrive.old, redrive.new}

\* chat_runner.go:863-866: "the entry stays in pausedSubs until the redrive's own sub
\* exists". A later pause on the same profile replaces it (2231-2232).
RedriveSeen == redrive.old # None => HasPausedTurnIn(sub[redrive.old].sess)

\* No redrive starts its stream in a conversation between the two looks of a fire: the
\* first look came too early for it, and at the second its entry may be gone.
RedriveApart ==
    \A f \in Fire : fire[f].pc \in {"look", "relook"} /\ redrive.new # None =>
        sub[redrive.old].sess # fire[f].sess

\* chat_run_dispatcher.go:334, 395, 864-904, 1008-1011: while no redrive is hidden by a
\* later pause or starts between two looks, the claim and the looks at the conversation
\* keep every turn of the schedule alone in it, whichever fires, user turns, pauses,
\* redrives and deletions come between.
OneTurn == [](RedriveSeen /\ RedriveApart) => []Alone

\* chat_run_dispatcher.go:337, 534, 546: no run holds up its schedule for good: whatever
\* its stream does, the fire returns and the next is not skipped on its account.
ClaimFreed == []<>(claim = None)

\* When every stream of a fire has ended its generation is released, so that the
\* user's own turns are free again; except if the watch gave up
\* (releaseOnOwnTerminal, chat_run_dispatcher.go:638-678).
Ended(f) ==
    /\ fire[f].pc \in {"over", "watch"}
    /\ \A s \in Sub : sub[s].of = f => sub[s].st = "finished"

Freed ==
    []<>(\A f \in Fire : Ended(f) => (\A b \in bound : b.fire # f) \/ fire[f].pc = "gaveup")

\* chat_run_dispatcher.go:339-340: the schedule has ONE conversation, which the first fire
\* creates and every later one continues.
OneConversation == Cardinality(sessions) <= 1
=============================================================================
