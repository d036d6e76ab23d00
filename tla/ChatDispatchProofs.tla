------------------------- MODULE ChatDispatchProofs -------------------------
(***************************************************************************)
(* What holds of the fires of a chat schedule for any number of fires,     *)
(* streams, edits and tool lists, whoever made the schedule and whether or *)
(* not writes fail.                                                        *)
(*                                                                         *)
(* Confined rests on who owns a stream. The dispatcher learns from events, *)
(* late and maybe in another order than things happened, which streams are *)
(* its run's; the model forgets the owner of a stream that has ended. The  *)
(* invariant therefore says that there is a set of streams, the run's own, *)
(* that contains what the dispatcher knows and what the events under way   *)
(* will tell it, and that once one of them ends for good no stream of the  *)
(* run goes on (OwnOf).                                                    *)
(***************************************************************************)
EXTENDS ChatDispatch, SequenceTheorems, TLAPS

\* The states of a fire that has a place in the conversation, in order.
Waiting == {"wait", "drain", "watch"}
Claimed == {"claimed", "look", "conv", "armed", "wait", "retry", "relook", "drain"}
Read == {"ready", "claimed", "look", "conv", "armed", "wait", "retry", "relook", "drain", "watch"}
Begun == {"look", "conv", "armed", "wait", "retry", "relook", "drain", "watch"}
PC == Read \cup {"idle", "gated", "over", "gaveup"}

RowList == Lists \cup {Declared, Corrupt}

FireType ==
    [pc : PC, gated : SUBSET Tool, list : RowList \cup {{}}, link : Session \cup {None},
     contained : BOOLEAN, allow : SUBSET Tool, sess : Session \cup {None},
     created : BOOLEAN, gen : Nat, sub : Sub \cup {None}, retried : BOOLEAN,
     owned : SUBSET Sub, ended : SUBSET Sub, released : BOOLEAN]

SubType ==
    [st : {"free", "running", "paused", "finished", "closed"}, sess : Session \cup {None},
     of : Fire \cup {User}, full : BOOLEAN, lets : SUBSET Tool]

Event ==
    [kind : {"closed", "resumed"}, sub : Sub, new : Sub \cup {None},
     sess : Session \cup {None}, full : BOOLEAN]

Binding == [sess : Session, gen : Nat, allow : SUBSET Tool, fire : Fire]

\* The types TypeOK leaves out.
Types ==
    /\ row \in [there : BOOLEAN, list : RowList, sess : Session \cup {None}]
    /\ sessions \subseteq Session
    /\ claim \in Fire \cup {None}
    /\ fire \in [Fire -> FireType]
    /\ inbox \in [Fire -> Seq(Event)]
    /\ sub \in [Sub -> SubType]
    /\ paused \in Sub \cup {None}
    /\ redrive \in [old : Sub \cup {None}, new : Sub \cup {None}]
    /\ bound \subseteq Binding
    /\ lastGen \in Nat
    /\ recorded \subseteq Fire

\* The runner: what waits for a key is what pausedSubs or the redrive holds, and the
\* stream that a redrive started is another one, of the same turn.
RunnerInv ==
    /\ paused # None => sub[paused].st = "paused"
    /\ redrive.old # None => sub[redrive.old].st = "paused"
    /\ redrive.new # None => /\ redrive.old # None /\ redrive.old # redrive.new
                             /\ sub[redrive.new].st # "free"
    /\ \A s \in Sub : sub[s].st = "paused" => s \in {paused, redrive.old}
    /\ \A s \in Sub : sub[s].st \in {"free", "closed"} => sub[s].of = User

\* A stream that has not ended, other than one whose continuation has started.
GoesOn(s) ==
    /\ sub[s].st \in {"running", "paused", "finished"}
    /\ ~(s = redrive.old /\ redrive.new # None)

\* The claim is held by the one fire between Claim and its return.
ClaimInv ==
    /\ \A f \in Fire : claim = f <=> fire[f].pc \in Claimed
    /\ \A f \in recorded : fire[f].pc \in {"over", "watch", "gaveup"}

\* Events name streams that were started.
InboxInv ==
    \A f \in Fire :
        /\ inbox[f] # <<>> => Subscribed(f)
        /\ \A i \in 1..Len(inbox[f]) :
              LET ev == inbox[f][i]
              IN  /\ sub[ev.sub].st # "free"
                  /\ ev.kind = "resumed" => ev.new \in Sub /\ sub[ev.new].st # "free"

\* What a fire was let through with and what it may use.
ListInv ==
    \A f \in Fire : fire[f].pc \in Read =>
        IF fire[f].contained THEN fire[f].allow \subseteq Lets(f) ELSE Tool \subseteq Lets(f)

\* A fire that is past Converse has a conversation. One that waits owns the stream it
\* waits for; only a confined run is drained or watched; released means confined.
FireInv ==
    \A f \in Fire :
        /\ fire[f].pc \in Begun => fire[f].sess \in Session
        /\ fire[f].pc \in {"wait", "drain", "watch"} => fire[f].sub \in fire[f].owned
        /\ fire[f].pc \in {"drain", "watch"} => fire[f].contained
        /\ fire[f].released => fire[f].pc \in {"wait", "retry", "relook"} /\ fire[f].contained

\* Generations are numbered, and a fire's number is its own.
GenInv ==
    /\ \A b \in bound : b.gen <= lastGen
    /\ \A b, d \in bound : b.gen = d.gen => b = d
    /\ \A f \in Fire : fire[f].gen <= lastGen
    /\ \A f \in Fire, b \in bound : fire[f].contained /\ fire[f].pc \in {"armed", "wait", "retry", "relook", "drain", "watch"}
          /\ b.gen = fire[f].gen => b.fire = f

\* The generation of a fire that is armed, or waits for its run, is outstanding.
HeldInv ==
    \A f \in Fire :
        fire[f].pc \in {"armed", "wait", "drain", "watch"} /\ fire[f].contained /\ ~fire[f].released
        => [sess |-> fire[f].sess, gen |-> fire[f].gen, allow |-> fire[f].allow, fire |-> f] \in bound

\* A stream of a fire that goes on is the only one, is in its conversation and
\* may use what the fire may; one that the fire no longer waits for is free to use
\* every tool or is bound for good.
StreamInv ==
    \A s \in Sub : GoesOn(s) /\ sub[s].of # User =>
        LET f == sub[s].of
        IN  /\ \A t \in Sub : GoesOn(t) /\ sub[t].of = f => t = s
            /\ fire[f].pc \in Waiting \cup {"over", "gaveup"}
            /\ fire[f].pc \in Waiting =>
                  sub[s].sess = fire[f].sess /\ sub[s].lets = Lets(f) /\ ~fire[f].released
            /\ fire[f].pc \in {"over", "gaveup"} =>
                  \/ Tool \subseteq sub[s].lets
                  \/ /\ fire[f].pc = "gaveup"
                     /\ \E b \in bound : b.fire = f /\ b.sess = sub[s].sess /\ b.allow \subseteq sub[s].lets

\* No stream of the fire goes on.
Silent(f) == \A s \in Sub : GoesOn(s) => sub[s].of # f

\* own is a possible set of all the streams the run of fire f has had.
OwnOf(f, own) ==
    /\ fire[f].owned \subseteq own
    /\ \A s \in own \cup fire[f].ended : sub[s].st # "free"
    /\ \A s \in Sub : GoesOn(s) => (s \in own <=> sub[s].of = f)
    /\ redrive.new # None /\ redrive.old \in own => redrive.new \in own
    /\ \A i \in 1..Len(inbox[f]) :
          LET ev == inbox[f][i]
          IN  IF ev.kind = "closed" THEN ev.sub \in own => Silent(f)
                                    ELSE ev.sub \in own => ev.new \in own
    /\ fire[f].ended \cap own # {} => Silent(f)

OwnInv == \A f \in Fire : fire[f].pc \in Waiting => \E own \in SUBSET Sub : OwnOf(f, own)

DispatchInv ==
    /\ Types /\ RunnerInv /\ ClaimInv /\ InboxInv /\ ListInv /\ FireInv /\ GenInv
    /\ HeldInv /\ StreamInv /\ OwnInv

-----------------------------------------------------------------------------
(* Constants, records and the initial state.                               *)

LEMMA Constants ==
    /\ None \notin Fire /\ None \notin Sub /\ None \notin Session
    /\ User \notin Fire /\ User # None
    /\ Fire \subseteq Nat /\ Sub \subseteq Nat /\ Session = Fire
  BY DispatchAssumption DEF Fire, Sub, Session, User

LEMMA RestTypes ==
    /\ IdleFire \in FireType /\ OverFire \in FireType /\ [OverFire EXCEPT !.pc = "gaveup"] \in FireType
    /\ IdleFire.pc = "idle" /\ OverFire.pc = "over" /\ OverFire.gen = 0 /\ ~OverFire.contained
    /\ IdleFire.gen = 0 /\ ~IdleFire.released /\ ~OverFire.released
    /\ FreeSub \in SubType /\ EndedSub \in SubType
    /\ FreeSub.st = "free" /\ FreeSub.of = User /\ EndedSub.st = "closed" /\ EndedSub.of = User
  BY DEF IdleFire, OverFire, FreeSub, EndedSub, FireType, SubType, PC, Read

LEMMA FireUpdate ==
    ASSUME Types, NEW f \in Fire, NEW rec \in FireType, fire' = [fire EXCEPT ![f] = rec]
    PROVE  /\ fire' \in [Fire -> FireType] /\ fire'[f] = rec
           /\ \A g \in Fire \ {f} : fire'[g] = fire[g]
  BY DEF Types

\* The fields a step may set.
LEMMA FireFields ==
    ASSUME NEW x \in FireType, NEW pc \in PC
    PROVE  /\ [x EXCEPT !.pc = pc] \in FireType
           /\ \A tools \in SUBSET Tool : [x EXCEPT !.pc = pc, !.gated = tools] \in FireType
           /\ \A gen \in Nat : [x EXCEPT !.pc = pc, !.gen = gen] \in FireType
           /\ \A c \in Session, made \in BOOLEAN :
                 [x EXCEPT !.pc = pc, !.sess = c, !.created = made] \in FireType
           /\ \A list \in RowList, link \in Session \cup {None}, con \in BOOLEAN, tools \in SUBSET Tool :
                 [x EXCEPT !.pc = pc, !.list = list, !.link = link, !.contained = con, !.allow = tools]
                 \in FireType
  BY DEF FireType

LEMMA OwnedFields ==
    ASSUME NEW x \in FireType, NEW own \in SUBSET Sub
    PROVE  /\ [x EXCEPT !.owned = own, !.released = TRUE] \in FireType
           /\ [x EXCEPT !.owned = own, !.released = TRUE].owned = own
           /\ [x EXCEPT !.owned = own, !.released = TRUE].ended = x.ended
           /\ [x EXCEPT !.owned = own, !.released = FALSE] \in FireType
           /\ [x EXCEPT !.owned = own, !.released = FALSE].owned = own
           /\ [x EXCEPT !.owned = own, !.released = FALSE].ended = x.ended
           /\ ~[x EXCEPT !.owned = own, !.released = FALSE].released
  BY DEF FireType

\* A list that decodes is made of tools.
LEMMA DecodedTools ==
    ASSUME NEW list \in RowList
    PROVE  Decoded(list) \in SUBSET Tool
  BY DEF Decoded, RowList, Tool

LEMMA DispatchInit == Init => DispatchInv
  <1> SUFFICES ASSUME Init PROVE DispatchInv
    OBVIOUS
  <1> USE DEF Init
  <1>1. Types
    <2>1. fire \in [Fire -> FireType] /\ sub \in [Sub -> SubType]
      BY RestTypes
    <2>2. inbox \in [Fire -> Seq(Event)]
      OBVIOUS
    <2> QED
      BY <2>1, <2>2 DEF Types, RowList
  <1>2. \A f \in Fire : fire[f].pc = "idle" /\ fire[f].gen = 0 /\ ~fire[f].released /\ inbox[f] = <<>>
    BY RestTypes
  <1>3. \A s \in Sub : sub[s].st = "free" /\ sub[s].of = User
    BY RestTypes
  <1>4. \A s \in Sub : ~GoesOn(s)
    BY <1>3 DEF GoesOn
  <1>5. RunnerInv /\ ClaimInv /\ InboxInv
    BY <1>2, <1>3, Constants DEF RunnerInv, ClaimInv, InboxInv, Claimed
  <1>6. ListInv /\ FireInv /\ GenInv /\ HeldInv
    BY <1>2 DEF ListInv, FireInv, GenInv, HeldInv, Read, Begun
  <1>7. StreamInv /\ OwnInv
    BY <1>2, <1>4 DEF StreamInv, OwnInv, Waiting
  <1> QED
    BY <1>1, <1>5, <1>6, <1>7 DEF DispatchInv

-----------------------------------------------------------------------------
(* Steps of the runner leave the fires alone, and the fires' steps the     *)
(* streams.                                                                *)

LEMMA RunnerFrame ==
    ASSUME DispatchInv, UNCHANGED <<claim, fire, bound, lastGen, recorded>>
    PROVE  ClaimInv' /\ ListInv' /\ FireInv' /\ GenInv' /\ HeldInv'
  <1>1. ClaimInv' /\ GenInv'
    BY DEF DispatchInv, ClaimInv, GenInv
  <1>2. ListInv' /\ FireInv' /\ HeldInv'
    BY DEF DispatchInv, ListInv, FireInv, HeldInv, Lets
  <1> QED
    BY <1>1, <1>2

\* A fire moves from a state in which none of its streams goes on, to one in which it
\* does not yet wait, or for good when what goes on may use every tool.
LEMMA FireFrame ==
    ASSUME DispatchInv, NEW f \in Fire,
           fire' \in [Fire -> FireType], \A g \in Fire \ {f} : fire'[g] = fire[g],
           fire'[f].pc \notin Waiting,
           \A s \in Sub : GoesOn(s) /\ sub[s].of = f => fire'[f].pc = "over" /\ Tool \subseteq sub[s].lets,
           UNCHANGED <<sub, paused, redrive>>,
           inbox' \in [Fire -> Seq(Event)], \A g \in Fire \ {f} : inbox'[g] = inbox[g],
           \/ inbox'[f] = <<>>
           \/ fire'[f].pc = "retry" /\ inbox'[f] = Tail(inbox[f]) /\ inbox[f] # <<>>
           \/ fire'[f].pc = "relook" /\ inbox'[f] = inbox[f],
           \A b \in bound : b.fire # f => b \in bound'
    PROVE  RunnerInv' /\ InboxInv' /\ StreamInv' /\ OwnInv'
  <1> USE DEF DispatchInv
  <1>1. RunnerInv'
    BY DEF RunnerInv
  <1>2. InboxInv'
    <2> SUFFICES ASSUME NEW g \in Fire
                 PROVE  /\ inbox'[g] # <<>> => Subscribed(g)'
                        /\ \A i \in 1..Len(inbox'[g]) :
                              /\ sub[inbox'[g][i].sub].st # "free"
                              /\ inbox'[g][i].kind = "resumed" =>
                                    inbox'[g][i].new \in Sub /\ sub[inbox'[g][i].new].st # "free"
      BY DEF InboxInv
    <2>1. CASE inbox'[g] = <<>>
      BY <2>1
    <2>2. CASE g # f
      BY <2>2 DEF InboxInv, Subscribed
    <2>3. CASE g = f /\ fire'[f].pc = "relook" /\ inbox'[f] = inbox[f]
      BY <2>3 DEF InboxInv, Subscribed
    <2>4. CASE g = f /\ inbox'[f] # <<>> /\ fire'[f].pc # "relook"
      <3>0. inbox'[f] = Tail(inbox[f]) /\ inbox[f] # <<>> /\ fire'[f].pc = "retry"
        BY <2>4
      <3>1. Subscribed(f)'
        BY <3>0 DEF Subscribed
      <3>2. \A i \in 1..Len(inbox'[f]) : i + 1 \in 1..Len(inbox[f]) /\ inbox'[f][i] = inbox[f][i + 1]
        BY <3>0 DEF Types
      <3> QED
        BY <2>4, <3>1, <3>2 DEF InboxInv
    <2> QED
      BY <2>1, <2>2, <2>3, <2>4
  <1>3. \A s \in Sub : GoesOn(s)' <=> GoesOn(s)
    BY DEF GoesOn
  <1>4. StreamInv'
    <2> SUFFICES ASSUME NEW s \in Sub, GoesOn(s), sub[s].of # User
                 PROVE  /\ \A t \in Sub : GoesOn(t) /\ sub[t].of = sub[s].of => t = s
                        /\ fire'[sub[s].of].pc \in Waiting \cup {"over", "gaveup"}
                        /\ fire'[sub[s].of].pc \in Waiting =>
                              /\ sub[s].sess = fire'[sub[s].of].sess /\ sub[s].lets = Lets(sub[s].of)'
                              /\ ~fire'[sub[s].of].released
                        /\ fire'[sub[s].of].pc \in {"over", "gaveup"} =>
                              \/ Tool \subseteq sub[s].lets
                              \/ /\ fire'[sub[s].of].pc = "gaveup"
                                 /\ \E b \in bound' : /\ b.fire = sub[s].of /\ b.sess = sub[s].sess
                                                      /\ b.allow \subseteq sub[s].lets
      BY <1>3 DEF StreamInv
    <2>1. sub[s].of \in Fire
      BY DEF Types, SubType
    <2>2. CASE sub[s].of = f
      BY <2>2 DEF StreamInv, Waiting
    <2>3. CASE sub[s].of # f
      <3>1. fire'[sub[s].of] = fire[sub[s].of] /\ Lets(sub[s].of)' = Lets(sub[s].of)
        BY <2>1, <2>3 DEF Lets
      <3> QED
        BY <2>1, <2>3, <3>1 DEF StreamInv
    <2> QED
      BY <2>2, <2>3
  <1>5. OwnInv'
    <2> SUFFICES ASSUME NEW g \in Fire, fire'[g].pc \in Waiting
                 PROVE  \E own \in SUBSET Sub : OwnOf(g, own)'
      BY DEF OwnInv
    <2>1. g # f /\ fire'[g] = fire[g] /\ inbox'[g] = inbox[g]
      OBVIOUS
    <2>2. PICK own \in SUBSET Sub : OwnOf(g, own)
      BY <2>1 DEF OwnInv
    <2>3. Silent(g)' <=> Silent(g)
      BY <1>3 DEF Silent
    <2>4. OwnOf(g, own)'
      BY <1>3, <2>1, <2>2, <2>3 DEF OwnOf
    <2> QED
      BY <2>4
  <1> QED
    BY <1>1, <1>2, <1>4, <1>5

\* Whatever made the fire return: the claim and the subscription go, and of the
\* generations at most its own.
LEMMA OverStep ==
    ASSUME DispatchInv, NEW f \in Fire,
           fire' = [fire EXCEPT ![f] = OverFire],
           claim' = IF claim = f THEN None ELSE claim,
           recorded' \subseteq recorded \cup {f},
           \A s \in Sub : GoesOn(s) /\ sub[s].of = f => Tool \subseteq sub[s].lets,
           UNCHANGED <<sub, paused, redrive, lastGen>>,
           inbox' = [inbox EXCEPT ![f] = <<>>],
           bound' \subseteq bound, \A b \in bound : b.fire # f => b \in bound',
           row' \in [there : BOOLEAN, list : RowList, sess : Session \cup {None}],
           sessions' \subseteq Session
    PROVE  DispatchInv'
  <1> USE DEF DispatchInv
  <1>0. \A g \in Fire : fire'[g] = IF g = f THEN OverFire ELSE fire[g]
    BY DEF Types
  <1>1. fire' \in [Fire -> FireType] /\ inbox' \in [Fire -> Seq(Event)]
    BY RestTypes DEF Types
  <1>2. \A g \in Fire \ {f} : inbox'[g] = inbox[g]
    BY DEF Types
  <1>3. inbox'[f] = <<>>
    BY DEF Types
  <1>4. Types'
    BY <1>1 DEF Types
  <1>5. RunnerInv' /\ InboxInv' /\ StreamInv' /\ OwnInv'
    <2>1. fire'[f].pc = "over"
      BY <1>0, RestTypes
    <2> QED
      BY <1>0, <1>1, <1>2, <1>3, <2>1, FireFrame DEF Waiting
  <1>6. ClaimInv'
    BY <1>0, RestTypes, Constants DEF ClaimInv, Claimed, Types
  <1>7. ListInv'
    <2>1. \A g \in Fire : g # f => Lets(g)' = Lets(g)
      BY <1>0 DEF Lets
    <2> QED
      BY <1>0, <2>1, RestTypes DEF ListInv, Read
  <1>8. FireInv' /\ GenInv'
    BY <1>0, RestTypes DEF FireInv, GenInv, Begun, Types
  <1>9. HeldInv'
    BY <1>0, RestTypes DEF HeldInv
  <1> QED
    BY <1>4, <1>5, <1>6, <1>7, <1>8, <1>9

\* Only the fire's own generation goes.
LEMMA ReleaseOwn ==
    ASSUME DispatchInv, NEW f \in Fire, fire[f].contained,
           fire[f].pc \in {"armed", "wait", "retry", "relook", "drain", "watch"}
    PROVE  /\ Release(fire[f].sess, fire[f].gen) \subseteq bound
           /\ \A b \in bound : b.fire # f => b \in Release(fire[f].sess, fire[f].gen)
  BY DEF DispatchInv, GenInv, Release

\* None of its streams goes on before it waits for one.
LEMMA NotYet ==
    ASSUME DispatchInv, NEW f \in Fire,
           fire[f].pc \in {"idle", "gated", "ready", "claimed", "look", "conv", "armed", "retry", "relook"}
    PROVE  Silent(f)
  BY Constants DEF DispatchInv, StreamInv, Silent, Waiting, Types, SubType

\* It returns before it has a stream: the subscription, if any, is empty.
LEMMA EarlyReturn ==
    ASSUME DispatchInv, NEW f \in Fire, Return(f, OverFire),
           fire[f].pc \in {"idle", "gated", "ready", "claimed", "look", "conv", "armed"},
           UNCHANGED <<sub, paused, redrive, lastGen, inbox>>,
           bound' = bound \/ (fire[f].pc = "armed" /\ fire[f].contained
                              /\ bound' = Release(fire[f].sess, fire[f].gen)),
           row' \in [there : BOOLEAN, list : RowList, sess : Session \cup {None}],
           sessions' \subseteq Session
    PROVE  DispatchInv'
  <1>1. inbox[f] = <<>>
    BY DEF DispatchInv, InboxInv, Subscribed
  <1>2. inbox' = [inbox EXCEPT ![f] = <<>>]
    BY <1>1 DEF DispatchInv, Types
  <1>3. Silent(f)
    BY NotYet
  <1>4. bound' \subseteq bound /\ \A b \in bound : b.fire # f => b \in bound'
    BY ReleaseOwn
  <1> QED
    BY <1>2, <1>3, <1>4, OverStep DEF Return, Silent

-----------------------------------------------------------------------------
(* A fire, up to its stream.                                               *)

\* Before it is armed a fire changes only itself, the claim, the row and the list of
\* conversations.
LEMMA EarlyStep ==
    ASSUME DispatchInv, NEW f \in Fire,
           fire' \in [Fire -> FireType], \A g \in Fire \ {f} : fire'[g] = fire[g],
           fire[f].pc \in {"idle", "gated", "ready", "claimed", "look"},
           fire'[f].pc \in {"gated", "ready", "claimed", "look", "conv"},
           fire'[f].gen = fire[f].gen, fire'[f].released = fire[f].released,
           fire'[f].pc \in {"claimed", "look", "conv"} => claim' = f,
           fire[f].pc # "claimed" /\ fire'[f].pc = "claimed" => claim = None,
           fire'[f].pc \notin {"claimed", "look", "conv"} => claim' = claim /\ fire[f].pc \notin {"claimed", "look"},
           fire'[f].pc \in {"look", "conv"} => claim = f /\ fire'[f].sess \in Session,
           fire'[f].pc \in Read => IF fire'[f].contained THEN fire'[f].allow \subseteq Lets(f)'
                                                         ELSE Tool \subseteq Lets(f)',
           UNCHANGED <<inbox, sub, paused, redrive, bound, lastGen, recorded>>,
           row' \in [there : BOOLEAN, list : RowList, sess : Session \cup {None}],
           sessions' \subseteq Session
    PROVE  DispatchInv'
  <1> USE DEF DispatchInv
  <1>1. Types'
    <2>1. claim' \in Fire \cup {None}
      BY DEF Types
    <2> QED
      BY <2>1 DEF Types
  <1>2. RunnerInv' /\ InboxInv' /\ StreamInv' /\ OwnInv'
    <2>1. inbox'[f] = <<>> /\ inbox' \in [Fire -> Seq(Event)] /\ \A g \in Fire \ {f} : inbox'[g] = inbox[g]
      BY DEF InboxInv, Subscribed, Types
    <2>2. Silent(f)
      BY NotYet
    <2>3. fire'[f].pc \notin Waiting
      BY DEF Waiting
    <2> QED
      BY <2>1, <2>2, <2>3, FireFrame DEF Silent
  <1>3. ClaimInv'
    <2>1. \A g \in recorded : g \in Fire /\ g # f
      BY DEF ClaimInv, Types
    <2>2. \A g \in Fire : g # f => (claim' = g <=> fire'[g].pc \in Claimed)
      BY Constants DEF ClaimInv, Claimed
    <2>3. claim' = f <=> fire'[f].pc \in Claimed
      BY Constants DEF ClaimInv, Claimed
    <2> QED
      BY <2>1, <2>2, <2>3 DEF ClaimInv
  <1>4. ListInv'
    <2>1. \A g \in Fire : g # f => Lets(g)' = Lets(g)
      BY DEF Lets
    <2> QED
      BY <2>1 DEF ListInv
  <1>5. FireInv' /\ HeldInv'
    BY DEF FireInv, HeldInv, Begun
  <1>6. GenInv'
    BY DEF GenInv
  <1> QED
    BY <1>1, <1>2, <1>3, <1>4, <1>5, <1>6

LEMMA FireGetStep == ASSUME DispatchInv, NEW f \in Fire, FireGet(f) PROVE DispatchInv'
  <1> USE DEF DispatchInv
  <1>1. UNCHANGED <<row, sessions, inbox, sub, paused, redrive, bound, lastGen>> /\ fire[f].pc = "idle"
    BY DEF FireGet
  <1>2. /\ row' \in [there : BOOLEAN, list : RowList, sess : Session \cup {None}]
        /\ sessions' \subseteq Session
    BY <1>1 DEF Types
  <1>3. CASE fire' = [fire EXCEPT ![f] = OverFire] /\ UNCHANGED <<claim, recorded>>
    <2>1. claim # f
      BY <1>1 DEF ClaimInv, Claimed
    <2>2. inbox' = [inbox EXCEPT ![f] = <<>>]
      BY <1>1 DEF Types, InboxInv, Subscribed
    <2>3. Silent(f)
      BY <1>1, NotYet
    <2> QED
      BY <1>1, <1>2, <1>3, <2>1, <2>2, <2>3, OverStep DEF Silent
  <1>4. CASE Return(f, OverFire)
    BY <1>1, <1>2, <1>4, EarlyReturn
  <1>5. CASE /\ fire' = [fire EXCEPT ![f].pc = "gated", ![f].gated = Decoded(row.list)]
             /\ UNCHANGED <<claim, recorded>>
    <2>1. Decoded(row.list) \in SUBSET Tool
      BY DecodedTools DEF Types
    <2>2. fire' \in [Fire -> FireType] /\ \A g \in Fire \ {f} : fire'[g] = fire[g]
      <3>1. fire' = [fire EXCEPT ![f] = [fire[f] EXCEPT !.pc = "gated", !.gated = Decoded(row.list)]]
        BY <1>5 DEF Types, FireType
      <3>2. fire[f] \in FireType /\ "gated" \in PC
        BY DEF Types, PC
      <3>3. [fire[f] EXCEPT !.pc = "gated", !.gated = Decoded(row.list)] \in FireType
        BY <2>1, <3>2, FireFields
      <3> QED
        BY <3>1, <3>3, FireUpdate
    <2>3. fire'[f].pc = "gated" /\ fire'[f].gen = fire[f].gen /\ fire'[f].released = fire[f].released
      BY <1>5 DEF Types, FireType
    <2> QED
      BY <1>1, <1>2, <1>5, <2>2, <2>3, EarlyStep DEF Read
  <1> QED
    BY <1>3, <1>4, <1>5 DEF FireGet

\* What a run may use is on both lists; without a list it may use everything.
LEMMA Resolved ==
    ASSUME DispatchInv, NEW f \in Fire, fire[f].gated \in SUBSET Tool
    PROVE  LET r == ResolveRunContainment(By, fire[f].gated, row.list)
               lets == {t \in Tool : /\ fire[f].gated # {} => t \in fire[f].gated
                                     /\ row.list # {} => t \in Decoded(row.list)}
           IN  /\ r.contained \in BOOLEAN /\ r.allow \in SUBSET Tool
               /\ IF r.contained \/ r.refuse THEN r.allow \subseteq lets ELSE Tool \subseteq lets
  <1>1. row.list \in RowList /\ Decoded(row.list) \in SUBSET Tool
    BY DecodedTools DEF DispatchInv, Types
  <1> DEFINE now  == Decoded(row.list)
             both == IF fire[f].gated = {} THEN now
                     ELSE IF now = {} THEN fire[f].gated ELSE fire[f].gated \cap now
  <1>2. both \in SUBSET Tool
    BY <1>1
  <1>3. row.list # Corrupt => now = row.list
    BY DEF Decoded
  <1> HIDE DEF now, both
  <1>4. CASE row.list = Corrupt
    BY <1>1, <1>2, <1>4 DEF ResolveRunContainment
  <1>5. CASE row.list # Corrupt
    BY <1>1, <1>2, <1>3, <1>5 DEF ResolveRunContainment, now, both
  <1> QED
    BY <1>4, <1>5

LEMMA ReloadStep == ASSUME DispatchInv, NEW f \in Fire, Reload(f) PROVE DispatchInv'
  <1> DEFINE r == ResolveRunContainment(By, fire[f].gated, row.list)
  <1>1. UNCHANGED <<row, sessions, inbox, sub, paused, redrive, bound, lastGen>> /\ fire[f].pc = "gated"
    BY DEF Reload
  <1>2. /\ row' \in [there : BOOLEAN, list : RowList, sess : Session \cup {None}]
        /\ sessions' \subseteq Session
    BY <1>1 DEF DispatchInv, Types
  <1>3. CASE Return(f, OverFire)
    BY <1>1, <1>2, <1>3, EarlyReturn
  <1>4. CASE /\ ~r.refuse
             /\ fire' = [fire EXCEPT ![f].pc = "ready", ![f].list = row.list, ![f].link = row.sess,
                                     ![f].contained = r.contained, ![f].allow = r.allow]
             /\ UNCHANGED <<claim, recorded>>
    <2>1. fire[f].gated \in SUBSET Tool
      BY DEF DispatchInv, Types, FireType
    <2>2. r.contained \in BOOLEAN /\ r.allow \in SUBSET Tool
      BY <2>1, Resolved
    <2> HIDE DEF r
    <2>3. fire' \in [Fire -> FireType] /\ \A g \in Fire \ {f} : fire'[g] = fire[g]
      <3> DEFINE rec == [fire[f] EXCEPT !.pc = "ready", !.list = row.list, !.link = row.sess,
                                        !.contained = r.contained, !.allow = r.allow]
      <3>1. fire' = [fire EXCEPT ![f] = rec]
        BY <1>4 DEF DispatchInv, Types, FireType
      <3>2. fire[f] \in FireType /\ "ready" \in PC /\ row.list \in RowList /\ row.sess \in Session \cup {None}
        BY DEF DispatchInv, Types, PC, Read
      <3>3. rec \in FireType
        BY <2>2, <3>2, FireFields
      <3> QED
        BY <3>1, <3>3, FireUpdate DEF DispatchInv
    <2>4. /\ fire'[f].pc = "ready" /\ fire'[f].gen = fire[f].gen /\ fire'[f].released = fire[f].released
          /\ fire'[f].contained = r.contained /\ fire'[f].allow = r.allow
          /\ fire'[f].gated = fire[f].gated /\ fire'[f].list = row.list
      BY <1>4 DEF DispatchInv, Types, FireType
    <2>5. IF fire'[f].contained THEN fire'[f].allow \subseteq Lets(f)' ELSE Tool \subseteq Lets(f)'
      <3>1. Lets(f)' = {t \in Tool : /\ fire[f].gated # {} => t \in fire[f].gated
                                     /\ row.list # {} => t \in Decoded(row.list)}
        BY <2>4 DEF Lets, Decoded
      <3> QED
        BY <1>4, <2>1, <2>4, <3>1, Resolved DEF r
    <2> QED
      BY <1>1, <1>2, <1>4, <2>3, <2>4, <2>5, EarlyStep
  <1> QED
    BY <1>3, <1>4 DEF Reload

LEMMA ClaimStep == ASSUME DispatchInv, NEW f \in Fire, Claim(f) PROVE DispatchInv'
  <1>1. UNCHANGED <<row, sessions, inbox, sub, paused, redrive, bound, lastGen>> /\ fire[f].pc = "ready"
    BY DEF Claim
  <1>2. /\ row' \in [there : BOOLEAN, list : RowList, sess : Session \cup {None}]
        /\ sessions' \subseteq Session
    BY <1>1 DEF DispatchInv, Types
  <1>3. CASE Return(f, OverFire)
    BY <1>1, <1>2, <1>3, EarlyReturn
  <1>4. CASE claim = None /\ claim' = f /\ fire' = [fire EXCEPT ![f].pc = "claimed"] /\ UNCHANGED recorded
    <2>1. fire' = [fire EXCEPT ![f] = [fire[f] EXCEPT !.pc = "claimed"]]
      BY <1>4 DEF DispatchInv, Types, FireType
    <2>2. /\ fire' \in [Fire -> FireType] /\ \A g \in Fire \ {f} : fire'[g] = fire[g]
          /\ fire'[f] = [fire[f] EXCEPT !.pc = "claimed"]
      <3>1. fire[f] \in FireType /\ "claimed" \in PC
        BY DEF DispatchInv, Types, PC, Read
      <3>2. [fire[f] EXCEPT !.pc = "claimed"] \in FireType
        BY <3>1, FireFields
      <3> QED
        BY <2>1, <3>2, FireUpdate DEF DispatchInv
    <2>3. Lets(f)' = Lets(f)
      BY <2>2 DEF DispatchInv, Types, FireType, Lets
    <2>4. /\ fire'[f].pc = "claimed" /\ fire'[f].gen = fire[f].gen /\ fire'[f].released = fire[f].released
          /\ fire'[f].contained = fire[f].contained /\ fire'[f].allow = fire[f].allow
      BY <2>2 DEF DispatchInv, Types, FireType
    <2>5. IF fire'[f].contained THEN fire'[f].allow \subseteq Lets(f)' ELSE Tool \subseteq Lets(f)'
      BY <1>1, <2>3, <2>4 DEF DispatchInv, ListInv, Read
    <2> QED
      BY <1>1, <1>2, <1>4, <2>2, <2>4, <2>5, EarlyStep
  <1> QED
    BY <1>3, <1>4 DEF Claim

LEMMA ConverseStep == ASSUME DispatchInv, NEW f \in Fire, Converse(f) PROVE DispatchInv'
  <1>1. UNCHANGED <<inbox, sub, paused, redrive, bound, lastGen>> /\ fire[f].pc = "claimed"
    BY DEF Converse
  <1>2. /\ row' \in [there : BOOLEAN, list : RowList, sess : Session \cup {None}]
        /\ sessions' \subseteq Session
    BY DEF DispatchInv, Types, Converse, Session
  <1>3. CASE Return(f, OverFire)
    BY <1>1, <1>2, <1>3, EarlyReturn
  <1>4. ASSUME NEW pc \in {"look", "conv"}, NEW c \in Session, NEW made \in BOOLEAN,
               fire' = [fire EXCEPT ![f] = [fire[f] EXCEPT !.pc = pc, !.sess = c, !.created = made]],
               UNCHANGED <<claim, recorded>>
        PROVE  DispatchInv'
    <2>2. /\ fire' \in [Fire -> FireType] /\ \A g \in Fire \ {f} : fire'[g] = fire[g]
          /\ fire'[f] = [fire[f] EXCEPT !.pc = pc, !.sess = c, !.created = made]
      <3>1. fire[f] \in FireType /\ pc \in PC
        BY DEF DispatchInv, Types, PC, Read
      <3>2. [fire[f] EXCEPT !.pc = pc, !.sess = c, !.created = made] \in FireType
        BY <3>1, FireFields
      <3> QED
        BY <1>4, <3>2, FireUpdate DEF DispatchInv
    <2>3. Lets(f)' = Lets(f)
      BY <2>2 DEF DispatchInv, Types, FireType, Lets
    <2>4. /\ fire'[f].pc = pc /\ fire'[f].gen = fire[f].gen /\ fire'[f].released = fire[f].released /\ fire'[f].sess = c
          /\ fire'[f].contained = fire[f].contained /\ fire'[f].allow = fire[f].allow
      BY <2>2 DEF DispatchInv, Types, FireType
    <2>5. IF fire'[f].contained THEN fire'[f].allow \subseteq Lets(f)' ELSE Tool \subseteq Lets(f)'
      BY <1>1, <2>3, <2>4 DEF DispatchInv, ListInv, Read
    <2>6. claim = f
      BY <1>1 DEF DispatchInv, ClaimInv, Claimed
    <2> QED
      BY <1>1, <1>2, <1>4, <2>2, <2>4, <2>5, <2>6, EarlyStep
  <1>5. CASE /\ fire[f].link \in sessions
             /\ fire' = [fire EXCEPT ![f].pc = "look", ![f].sess = fire[f].link]
             /\ UNCHANGED <<claim, recorded>>
    <2>1. fire[f].link \in Session /\ fire[f].created \in BOOLEAN
      BY <1>5 DEF DispatchInv, Types, FireType
    <2>2. fire' = [fire EXCEPT ![f] = [fire[f] EXCEPT !.pc = "look", !.sess = fire[f].link,
                                                      !.created = fire[f].created]]
      BY <1>5 DEF DispatchInv, Types, FireType
    <2> QED
      BY <1>4, <1>5, <2>1, <2>2
  <1>6. CASE /\ fire' = [fire EXCEPT ![f].pc = "conv", ![f].sess = f, ![f].created = TRUE]
             /\ UNCHANGED <<claim, recorded>>
    <2>1. fire' = [fire EXCEPT ![f] = [fire[f] EXCEPT !.pc = "conv", !.sess = f, !.created = TRUE]]
      BY <1>6 DEF DispatchInv, Types, FireType
    <2> QED
      BY <1>4, <1>6, <2>1 DEF Session
  <1> QED
    BY <1>3, <1>5, <1>6 DEF Converse

LEMMA ConversePausedStep == ASSUME DispatchInv, NEW f \in Fire, ConversePaused(f) PROVE DispatchInv'
  <1>1. UNCHANGED <<row, sessions, inbox, sub, paused, redrive, bound, lastGen>> /\ fire[f].pc = "look"
    BY DEF ConversePaused
  <1>2. /\ row' \in [there : BOOLEAN, list : RowList, sess : Session \cup {None}]
        /\ sessions' \subseteq Session
    BY <1>1 DEF DispatchInv, Types
  <1>3. CASE Return(f, OverFire)
    BY <1>1, <1>2, <1>3, EarlyReturn
  <1>4. CASE fire' = [fire EXCEPT ![f].pc = "conv"] /\ UNCHANGED <<claim, recorded>>
    <2>1. fire' = [fire EXCEPT ![f] = [fire[f] EXCEPT !.pc = "conv"]]
      BY <1>4 DEF DispatchInv, Types, FireType
    <2>2. /\ fire' \in [Fire -> FireType] /\ \A g \in Fire \ {f} : fire'[g] = fire[g]
          /\ fire'[f] = [fire[f] EXCEPT !.pc = "conv"]
      <3>1. fire[f] \in FireType /\ "conv" \in PC
        BY DEF DispatchInv, Types, PC, Read
      <3>2. [fire[f] EXCEPT !.pc = "conv"] \in FireType
        BY <3>1, FireFields
      <3> QED
        BY <2>1, <3>2, FireUpdate DEF DispatchInv
    <2>3. Lets(f)' = Lets(f)
      BY <2>2 DEF DispatchInv, Types, FireType, Lets
    <2>4. /\ fire'[f].pc = "conv" /\ fire'[f].gen = fire[f].gen /\ fire'[f].released = fire[f].released
          /\ fire'[f].contained = fire[f].contained /\ fire'[f].allow = fire[f].allow
          /\ fire'[f].sess = fire[f].sess
      BY <2>2 DEF DispatchInv, Types, FireType
    <2>5. IF fire'[f].contained THEN fire'[f].allow \subseteq Lets(f)' ELSE Tool \subseteq Lets(f)'
      BY <1>1, <2>3, <2>4 DEF DispatchInv, ListInv, Read
    <2>6. claim = f /\ fire[f].sess \in Session
      BY <1>1 DEF DispatchInv, ClaimInv, Claimed, FireInv, Begun
    <2> QED
      BY <1>1, <1>2, <1>4, <2>2, <2>4, <2>5, <2>6, EarlyStep
  <1> QED
    BY <1>3, <1>4 DEF ConversePaused

\* A new generation is nobody else's.
LEMMA ContainStep ==
    ASSUME DispatchInv, NEW f \in Fire, NEW c \in Session, Contain(f, c)
    PROVE  /\ lastGen' = lastGen + 1 /\ lastGen' \in Nat /\ bound' \subseteq Binding
           /\ bound \subseteq bound'
           /\ [sess |-> c, gen |-> lastGen', allow |-> fire[f].allow, fire |-> f] \in bound'
           /\ \A b \in bound' : b.gen <= lastGen' /\ (b.gen = lastGen' => b.fire = f)
           /\ \A b, d \in bound' : b.gen = d.gen => b = d
           /\ \A g \in Fire, b \in bound' : b.gen = fire[g].gen => b \in bound
  <1>1. lastGen \in Nat /\ bound \subseteq Binding /\ fire[f].allow \in SUBSET Tool
    BY DEF DispatchInv, Types, FireType
  <1> DEFINE new == [sess |-> c, gen |-> lastGen', allow |-> fire[f].allow, fire |-> f]
  <1>2. lastGen' = lastGen + 1 /\ bound' = bound \cup {new}
    BY DEF Contain
  <1>3. new \in Binding /\ new.gen = lastGen + 1 /\ new.fire = f
    BY <1>1, <1>2 DEF Binding
  <1>4. \A b \in bound : b.gen \in Nat /\ b.gen <= lastGen
    BY <1>1 DEF DispatchInv, GenInv, Binding
  <1>5. \A g \in Fire : fire[g].gen \in Nat /\ fire[g].gen <= lastGen
    BY DEF DispatchInv, GenInv, Types, FireType
  <1> HIDE DEF new
  <1>6. /\ \A b \in bound' : b.gen <= lastGen' /\ (b.gen = lastGen' => b.fire = f)
        /\ \A b, d \in bound' : b.gen = d.gen => b = d
    BY <1>1, <1>2, <1>3, <1>4 DEF DispatchInv, GenInv
  <1>7. \A g \in Fire, b \in bound' : b.gen = fire[g].gen => b \in bound
    BY <1>1, <1>2, <1>3, <1>5
  <1> QED
    BY <1>1, <1>2, <1>3, <1>6, <1>7 DEF new

LEMMA ArmStep == ASSUME DispatchInv, NEW f \in Fire, Arm(f) PROVE DispatchInv'
  <1> DEFINE c == fire[f].sess
  <1>1. UNCHANGED <<inbox, sub, paused, redrive>> /\ fire[f].pc = "conv"
    BY DEF Arm
  <1>2. /\ row' \in [there : BOOLEAN, list : RowList, sess : Session \cup {None}]
        /\ sessions' \subseteq Session
    BY DEF DispatchInv, Types, Arm, Discard
  <1>3. CASE Return(f, OverFire) /\ UNCHANGED <<bound, lastGen>>
    BY <1>1, <1>2, <1>3, EarlyReturn
  <1>4. CASE /\ IF fire[f].contained THEN Contain(f, c) ELSE UNCHANGED <<bound, lastGen>>
             /\ fire' = [fire EXCEPT ![f].pc = "armed", ![f].gen = lastGen']
             /\ UNCHANGED <<claim, recorded>>
    <2> USE DEF DispatchInv
    <2>1. c \in Session
      BY <1>1 DEF FireInv, Begun
    <2>2. /\ lastGen' \in Nat /\ lastGen <= lastGen' /\ bound' \subseteq Binding /\ bound \subseteq bound'
          /\ \A b \in bound' : b.gen <= lastGen'
          /\ \A b, d \in bound' : b.gen = d.gen => b = d
          /\ \A g \in Fire, b \in bound' : b.gen = fire[g].gen => b \in bound
          /\ fire[f].contained =>
                /\ [sess |-> c, gen |-> lastGen', allow |-> fire[f].allow, fire |-> f] \in bound'
                /\ \A b \in bound' : b.gen = lastGen' => b.fire = f
      <3>0. lastGen \in Nat
        BY DEF Types
      <3>1. CASE fire[f].contained
        BY <1>4, <2>1, <3>0, <3>1, ContainStep
      <3>2. CASE ~fire[f].contained
        BY <1>4, <3>0, <3>2 DEF Types, GenInv
      <3> QED
        BY <3>1, <3>2
    <2>3. /\ fire' \in [Fire -> FireType] /\ \A g \in Fire \ {f} : fire'[g] = fire[g]
          /\ fire'[f] = [fire[f] EXCEPT !.pc = "armed", !.gen = lastGen']
      <3>1. fire' = [fire EXCEPT ![f] = [fire[f] EXCEPT !.pc = "armed", !.gen = lastGen']]
        BY <1>4 DEF Types, FireType
      <3>2. fire[f] \in FireType /\ "armed" \in PC
        BY DEF Types, PC, Read
      <3>3. [fire[f] EXCEPT !.pc = "armed", !.gen = lastGen'] \in FireType
        BY <2>2, <3>2, FireFields
      <3> QED
        BY <3>1, <3>3, FireUpdate
    <2>4. /\ fire'[f].pc = "armed" /\ fire'[f].gen = lastGen' /\ fire'[f].released = fire[f].released
          /\ fire'[f].contained = fire[f].contained /\ fire'[f].allow = fire[f].allow
          /\ fire'[f].sess = c /\ fire'[f].gated = fire[f].gated /\ fire'[f].list = fire[f].list
      BY <2>3 DEF Types, FireType
    <2>5. Types'
      BY <1>1, <1>2, <1>4, <2>2, <2>3 DEF Types
    <2>6. RunnerInv' /\ InboxInv' /\ StreamInv' /\ OwnInv'
      <3>1. inbox'[f] = <<>> /\ inbox' \in [Fire -> Seq(Event)] /\ \A g \in Fire \ {f} : inbox'[g] = inbox[g]
        BY <1>1 DEF InboxInv, Subscribed, Types
      <3>2. Silent(f)
        BY <1>1, NotYet
      <3>3. fire'[f].pc \notin Waiting
        BY <2>4 DEF Waiting
      <3> QED
        BY <1>1, <2>2, <2>3, <3>1, <3>2, <3>3, FireFrame DEF Silent
    <2>7. ClaimInv'
      BY <1>1, <1>4, <2>3, <2>4 DEF ClaimInv, Claimed, Types
    <2>8. ListInv'
      <3>1. \A g \in Fire : Lets(g)' = Lets(g)
        BY <2>3, <2>4 DEF Lets
      <3>2. fire[f].pc \in Read
        BY <1>1 DEF Read
      <3>3. ASSUME NEW g \in Fire, fire'[g].pc \in Read
            PROVE  IF fire'[g].contained THEN fire'[g].allow \subseteq Lets(g)' ELSE Tool \subseteq Lets(g)'
        <4>1. CASE g = f
          BY <2>4, <3>1, <3>2, <4>1 DEF ListInv
        <4>2. CASE g # f
          BY <2>3, <3>1, <3>3, <4>2 DEF ListInv
        <4> QED
          BY <4>1, <4>2
      <3> QED
        BY <3>3 DEF ListInv
    <2>9. FireInv'
      BY <1>1, <2>1, <2>3, <2>4 DEF FireInv, Begun
    <2>10. GenInv'
      <3>1. ASSUME NEW g \in Fire PROVE fire'[g].gen <= lastGen'
        <4>1. lastGen \in Nat /\ fire[g].gen \in Nat /\ fire[g].gen <= lastGen
          BY DEF GenInv, Types, FireType
        <4>2. CASE g = f
          BY <2>2, <2>4, <4>2
        <4>3. CASE g # f
          BY <2>2, <2>3, <4>1, <4>3
        <4> QED
          BY <4>2, <4>3
      <3>2. ASSUME NEW g \in Fire, NEW b \in bound', fire'[g].contained,
                   fire'[g].pc \in {"armed", "wait", "retry", "relook", "drain", "watch"}, b.gen = fire'[g].gen
            PROVE  b.fire = g
        <4>1. CASE g = f
          BY <2>2, <2>4, <3>2, <4>1
        <4>2. CASE g # f
          <5>1. fire'[g] = fire[g] /\ b \in bound
            BY <2>2, <2>3, <3>2, <4>2
          <5> QED
            BY <3>2, <5>1 DEF GenInv
        <4> QED
          BY <4>1, <4>2
      <3> QED
        BY <2>2, <3>1, <3>2 DEF GenInv
    <2>11. HeldInv'
      BY <2>2, <2>3, <2>4 DEF HeldInv
    <2> QED
      BY <2>5, <2>6, <2>7, <2>8, <2>9, <2>10, <2>11
  <1> QED
    BY <1>3, <1>4 DEF Arm

\* What is under way to a subscriber is an event.
LEMMA EventAt ==
    ASSUME Types, NEW g \in Fire, NEW i \in 1..Len(inbox[g])
    PROVE  inbox[g][i] \in Event
  BY DEF Types

LEMMA EndedSubs == Types => \A g \in Fire : fire[g].ended \subseteq Sub
  BY DEF Types, FireType

\* A stream starts: the one it takes was free.
LEMMA SubUpdate ==
    ASSUME Types, NEW s \in Sub, NEW rec \in SubType, sub' = [sub EXCEPT ![s] = rec]
    PROVE  /\ sub' \in [Sub -> SubType] /\ sub'[s] = rec
           /\ \A t \in Sub \ {s} : sub'[t] = sub[t]
  BY DEF Types

LEMMA StartedType ==
    ASSUME NEW c \in Session \cup {None}, NEW f \in Fire \cup {User}, NEW lets \in SUBSET Tool
    PROVE  /\ Started(c, f, lets) \in SubType
           /\ Started(c, f, lets).st = "running" /\ Started(c, f, lets).sess = c
           /\ Started(c, f, lets).of = f /\ Started(c, f, lets).lets = lets
  BY DEF Started, SubType

LEMMA OwnType ==
    ASSUME Types, NEW f \in Fire, NEW s \in Sub, NEW gen \in Nat
    PROVE  /\ Own(f, s, gen) \in FireType
           /\ Own(f, s, gen).pc = "wait" /\ Own(f, s, gen).sub = s /\ Own(f, s, gen).gen = gen
           /\ Own(f, s, gen).owned = {s} /\ Own(f, s, gen).ended = {} /\ ~Own(f, s, gen).released
           /\ Own(f, s, gen).sess = fire[f].sess /\ Own(f, s, gen).contained = fire[f].contained
           /\ Own(f, s, gen).allow = fire[f].allow /\ Own(f, s, gen).gated = fire[f].gated
           /\ Own(f, s, gen).list = fire[f].list
  <1>1. fire[f] \in FireType
    BY DEF Types
  <1> QED
    BY <1>1 DEF Own, FireType, PC, Read

\* The fire launches its stream, under the generation it was armed with or a new one.
LEMMA Launch ==
    ASSUME DispatchInv, NEW f \in Fire, NEW s \in Sub, NEW gen \in Nat,
           fire[f].pc \in {"armed", "relook"}, sub[s].st = "free",
           sub' = [sub EXCEPT ![s] = Started(fire[f].sess, f, Lets(f))],
           fire' = [fire EXCEPT ![f] = Own(f, s, gen)],
           UNCHANGED <<claim, recorded, inbox, paused, redrive, row, sessions>>,
           lastGen' \in Nat, lastGen <= lastGen', gen <= lastGen',
           bound' \subseteq Binding, bound \subseteq bound',
           \A b \in bound' : b.gen <= lastGen',
           \A b, d \in bound' : b.gen = d.gen => b = d,
           \A g \in Fire \ {f}, b \in bound' : b.gen = fire[g].gen => b \in bound,
           fire[f].contained =>
                /\ [sess |-> fire[f].sess, gen |-> gen, allow |-> fire[f].allow, fire |-> f] \in bound'
                /\ \A b \in bound' : b.gen = gen => b.fire = f
    PROVE  DispatchInv'
  <1> USE DEF DispatchInv
  <1>1. fire[f].sess \in Session /\ fire[f].sub \in Sub \cup {None} /\ Lets(f) \in SUBSET Tool
    BY DEF FireInv, Begun, Types, FireType, Lets
  <1>2. /\ fire' \in [Fire -> FireType] /\ fire'[f] = Own(f, s, gen)
        /\ \A g \in Fire \ {f} : fire'[g] = fire[g]
    BY OwnType, FireUpdate
  <1>3. /\ sub' \in [Sub -> SubType] /\ sub'[s] = Started(fire[f].sess, f, Lets(f))
        /\ \A t \in Sub \ {s} : sub'[t] = sub[t]
    BY <1>1, StartedType, SubUpdate
  <1>4. /\ sub'[s].st = "running" /\ sub'[s].sess = fire[f].sess /\ sub'[s].of = f
        /\ sub'[s].lets = Lets(f)
    BY <1>1, <1>3, StartedType
  <1>5. /\ fire'[f].pc = "wait" /\ fire'[f].sub = s /\ fire'[f].gen = gen /\ fire'[f].owned = {s}
        /\ fire'[f].ended = {} /\ ~fire'[f].released /\ fire'[f].sess = fire[f].sess
        /\ fire'[f].contained = fire[f].contained /\ fire'[f].allow = fire[f].allow
        /\ fire'[f].gated = fire[f].gated /\ fire'[f].list = fire[f].list
    BY <1>2, OwnType
  <1>6. \A g \in Fire : Lets(g)' = Lets(g)
    BY <1>2, <1>5 DEF Lets
  <1>7. s # paused /\ s # redrive.old /\ s # redrive.new
    BY Constants DEF RunnerInv, Types
  <1>8. GoesOn(s)' /\ \A t \in Sub \ {s} : GoesOn(t)' <=> GoesOn(t)
    BY <1>3, <1>4, <1>7 DEF GoesOn
  <1>9. Silent(f)
    BY NotYet
  <1>10. Types'
    BY <1>2, <1>3 DEF Types
  <1>11. RunnerInv'
    BY <1>3, <1>4, <1>7 DEF RunnerInv, Types
  <1>12. InboxInv'
    <2> SUFFICES ASSUME NEW g \in Fire
                 PROVE  /\ inbox[g] # <<>> => Subscribed(g)'
                        /\ \A i \in 1..Len(inbox[g]) :
                              /\ sub'[inbox[g][i].sub].st # "free"
                              /\ inbox[g][i].kind = "resumed" =>
                                    inbox[g][i].new \in Sub /\ sub'[inbox[g][i].new].st # "free"
      BY DEF InboxInv
    <2>1. \A i \in 1..Len(inbox[g]) : inbox[g][i].sub \in Sub
      BY EventAt DEF Event
    <2>2. inbox[g] # <<>> => Subscribed(g)'
      BY <1>2, <1>5 DEF InboxInv, Subscribed
    <2> QED
      BY <1>3, <1>4, <2>1, <2>2 DEF InboxInv
  <1>13. ClaimInv'
    BY <1>2, <1>5 DEF ClaimInv, Claimed, Types
  <1>14. ListInv'
    <2> SUFFICES ASSUME NEW g \in Fire, fire'[g].pc \in Read
                 PROVE  IF fire'[g].contained THEN fire'[g].allow \subseteq Lets(g) ELSE Tool \subseteq Lets(g)
      BY <1>6 DEF ListInv
    <2>1. CASE g = f
      BY <1>5, <2>1 DEF ListInv, Read
    <2>2. CASE g # f
      BY <1>2, <2>2 DEF ListInv
    <2> QED
      BY <2>1, <2>2
  <1>15. FireInv'
    BY <1>1, <1>2, <1>5 DEF FireInv, Begun
  <1>16. GenInv'
    <2>1. ASSUME NEW g \in Fire PROVE fire'[g].gen <= lastGen'
      <3>1. lastGen \in Nat /\ fire[g].gen \in Nat /\ fire[g].gen <= lastGen
        BY DEF GenInv, Types, FireType
      <3> QED
        BY <1>2, <1>5, <3>1
    <2>2. ASSUME NEW g \in Fire, NEW b \in bound', fire'[g].contained,
                 fire'[g].pc \in {"armed", "wait", "retry", "relook", "drain", "watch"}, b.gen = fire'[g].gen
          PROVE  b.fire = g
      <3>1. CASE g = f
        BY <1>5, <2>2, <3>1
      <3>2. CASE g # f
        <4>1. fire'[g] = fire[g] /\ b \in bound
          BY <1>2, <2>2, <3>2
        <4> QED
          BY <2>2, <4>1 DEF GenInv
      <3> QED
        BY <3>1, <3>2
    <2> QED
      BY <2>1, <2>2 DEF GenInv
  <1>17. HeldInv'
    BY <1>2, <1>5 DEF HeldInv
  <1>18. StreamInv'
    <2> SUFFICES ASSUME NEW t \in Sub, GoesOn(t)', sub'[t].of # User, NEW g, g = sub'[t].of
                 PROVE  /\ \A u \in Sub : GoesOn(u)' /\ sub'[u].of = g => u = t
                        /\ fire'[g].pc \in Waiting \cup {"over", "gaveup"}
                        /\ fire'[g].pc \in Waiting =>
                              sub'[t].sess = fire'[g].sess /\ sub'[t].lets = Lets(g)' /\ ~fire'[g].released
                        /\ fire'[g].pc \in {"over", "gaveup"} =>
                              \/ Tool \subseteq sub'[t].lets
                              \/ /\ fire'[g].pc = "gaveup"
                                 /\ \E b \in bound' : /\ b.fire = g /\ b.sess = sub'[t].sess
                                                      /\ b.allow \subseteq sub'[t].lets
      BY DEF StreamInv
    <2>1. CASE t = s
      <3>1. g = f
        BY <1>4, <2>1
      <3>2. \A u \in Sub : GoesOn(u)' /\ sub'[u].of = f => u = s
        BY <1>3, <1>8, <1>9 DEF Silent
      <3> QED
        BY <1>4, <1>5, <1>6, <2>1, <3>1, <3>2 DEF Waiting
    <2>2. CASE t # s
      <3>1. GoesOn(t) /\ sub'[t] = sub[t] /\ g = sub[t].of /\ g # f /\ g \in Fire
        BY <1>3, <1>8, <1>9, <2>2 DEF Silent, Types, SubType
      <3>2. fire'[g] = fire[g] /\ Lets(g)' = Lets(g)
        BY <1>2, <1>6, <3>1
      <3>3. \A u \in Sub : GoesOn(u)' /\ sub'[u].of = g => u = t
        BY <1>3, <1>4, <1>8, <3>1 DEF StreamInv
      <3> QED
        BY <3>1, <3>2, <3>3 DEF StreamInv
    <2> QED
      BY <2>1, <2>2
  <1>19. OwnInv'
    <2> SUFFICES ASSUME NEW g \in Fire, fire'[g].pc \in Waiting
                 PROVE  \E own \in SUBSET Sub : OwnOf(g, own)'
      BY DEF OwnInv
    <2>1. CASE g = f
      <3>1. \A i \in 1..Len(inbox[f]) : inbox[f][i].sub # s
        BY DEF InboxInv
      <3>2. \A t \in Sub : GoesOn(t)' => (t \in {s} <=> sub'[t].of = f)
        BY <1>3, <1>4, <1>8, <1>9 DEF Silent
      <3>3. OwnOf(f, {s})'
        BY <1>4, <1>5, <1>7, <3>1, <3>2 DEF OwnOf
      <3> QED
        BY <2>1, <3>3
    <2>2. CASE g # f
      <3>1. fire'[g] = fire[g]
        BY <1>2, <2>2
      <3>2. PICK own \in SUBSET Sub : OwnOf(g, own)
        BY <3>1 DEF OwnInv
      <3>3. s \notin own
        BY <3>2 DEF OwnOf
      <3>4. Silent(g) => Silent(g)'
        BY <1>3, <1>4, <1>8, <2>2 DEF Silent
      <3>5. /\ \A t \in own \cup fire[g].ended : sub'[t].st # "free"
            /\ \A t \in Sub : GoesOn(t)' => (t \in own <=> sub'[t].of = g)
        BY <1>3, <1>4, <1>8, <2>2, <3>2, <3>3, EndedSubs DEF OwnOf
      <3>6. OwnOf(g, own)'
        BY <3>1, <3>2, <3>4, <3>5 DEF OwnOf
      <3> QED
        BY <3>6
    <2> QED
      BY <2>1, <2>2
  <1> QED
    BY <1>10, <1>11, <1>12, <1>13, <1>14, <1>15, <1>16, <1>17, <1>18, <1>19

LEMMA StartStep == ASSUME DispatchInv, NEW f \in Fire, Start(f) PROVE DispatchInv'
  <1>1. UNCHANGED <<inbox, paused, redrive, lastGen>> /\ fire[f].pc = "armed"
    BY DEF Start
  <1>2. ASSUME NEW s \in Sub, NextSub(s), sub' = [sub EXCEPT ![s] = Started(fire[f].sess, f, Lets(f))],
               fire' = [fire EXCEPT ![f] = Own(f, s, fire[f].gen)],
               UNCHANGED <<claim, recorded, row, sessions, bound>>
        PROVE  DispatchInv'
    <2>1. /\ lastGen \in Nat /\ fire[f].gen \in Nat /\ fire[f].gen <= lastGen /\ bound \subseteq Binding
          /\ \A b \in bound : b.gen <= lastGen
          /\ \A b, d \in bound : b.gen = d.gen => b = d
      BY DEF DispatchInv, Types, FireType, GenInv
    <2>2. fire[f].contained =>
             /\ [sess |-> fire[f].sess, gen |-> fire[f].gen, allow |-> fire[f].allow, fire |-> f] \in bound
             /\ \A b \in bound : b.gen = fire[f].gen => b.fire = f
      BY <1>1 DEF DispatchInv, HeldInv, GenInv, FireInv
    <2>3. sub[s].st = "free"
      BY <1>2 DEF NextSub
    <2>4. /\ lastGen' \in Nat /\ lastGen <= lastGen' /\ fire[f].gen <= lastGen'
          /\ bound' \subseteq Binding /\ bound \subseteq bound'
          /\ \A b \in bound' : b.gen <= lastGen'
          /\ \A b, d \in bound' : b.gen = d.gen => b = d
          /\ \A g \in Fire \ {f}, b \in bound' : b.gen = fire[g].gen => b \in bound
      BY <1>1, <1>2, <2>1
    <2>5. fire[f].contained =>
             /\ [sess |-> fire[f].sess, gen |-> fire[f].gen, allow |-> fire[f].allow, fire |-> f] \in bound'
             /\ \A b \in bound' : b.gen = fire[f].gen => b.fire = f
      BY <1>2, <2>2
    <2> QED
      BY <1>1, <1>2, <2>1, <2>3, <2>4, <2>5, Launch
  <1>3. CASE /\ Return(f, OverFire) /\ Discard(f)
             /\ bound' = (IF fire[f].contained THEN Release(fire[f].sess, fire[f].gen) ELSE bound)
             /\ UNCHANGED sub
    <2>1. /\ row' \in [there : BOOLEAN, list : RowList, sess : Session \cup {None}]
          /\ sessions' \subseteq Session
      BY <1>3 DEF DispatchInv, Types, Discard
    <2> QED
      BY <1>1, <1>3, <2>1, EarlyReturn
  <1> QED
    BY <1>2, <1>3 DEF Start

LEMMA RetryStep == ASSUME DispatchInv, NEW f \in Fire, Retry(f) PROVE DispatchInv'
  <1> USE DEF DispatchInv
  <1>1. UNCHANGED <<row, sessions, sub, paused, redrive, bound, lastGen>> /\ fire[f].pc = "retry"
    BY DEF Retry
  <1>2. Silent(f)
    BY <1>1, NotYet
  <1>3. CASE Return(f, OverFire) /\ Unsubscribe(f)
    <2>1. /\ row' \in [there : BOOLEAN, list : RowList, sess : Session \cup {None}]
          /\ sessions' \subseteq Session
      BY <1>1 DEF Types
    <2> QED
      BY <1>1, <1>2, <1>3, <2>1, OverStep DEF Return, Unsubscribe, Silent
  <1>4. CASE fire' = [fire EXCEPT ![f].pc = "relook"] /\ UNCHANGED <<claim, recorded, inbox>>
    <2>1. fire' = [fire EXCEPT ![f] = [fire[f] EXCEPT !.pc = "relook"]]
      BY <1>4 DEF Types, FireType
    <2>2. /\ fire' \in [Fire -> FireType] /\ fire'[f] = [fire[f] EXCEPT !.pc = "relook"]
          /\ \A g \in Fire \ {f} : fire'[g] = fire[g]
      <3>1. fire[f] \in FireType /\ "relook" \in PC
        BY DEF Types, PC, Read
      <3>2. [fire[f] EXCEPT !.pc = "relook"] \in FireType
        BY <3>1, FireFields
      <3> QED
        BY <2>1, <3>2, FireUpdate
    <2>3. /\ fire'[f].pc = "relook" /\ fire'[f].gated = fire[f].gated /\ fire'[f].list = fire[f].list
          /\ fire'[f].contained = fire[f].contained /\ fire'[f].allow = fire[f].allow
          /\ fire'[f].sess = fire[f].sess /\ fire'[f].gen = fire[f].gen
          /\ fire'[f].released = fire[f].released
      BY <2>2 DEF Types, FireType
    <2>4. Types'
      BY <1>1, <1>4, <2>2 DEF Types
    <2>5. RunnerInv' /\ InboxInv' /\ StreamInv' /\ OwnInv'
      <3>1. inbox' \in [Fire -> Seq(Event)] /\ inbox' = inbox
        BY <1>4 DEF Types
      <3>2. fire'[f].pc \notin Waiting
        BY <2>3 DEF Waiting
      <3> QED
        BY <1>1, <1>2, <2>2, <2>3, <3>1, <3>2, FireFrame DEF Silent
    <2>6. ClaimInv'
      BY <1>1, <1>4, <2>2, <2>3 DEF ClaimInv, Claimed, Types
    <2>7. ListInv'
      <3>1. \A g \in Fire : Lets(g)' = Lets(g)
        BY <2>2, <2>3 DEF Lets
      <3>2. \A g \in Fire : /\ fire'[g].pc \in Read => fire[g].pc \in Read
                            /\ fire'[g].contained = fire[g].contained /\ fire'[g].allow = fire[g].allow
        BY <1>1, <2>2, <2>3 DEF Read
      <3> QED
        BY <3>1, <3>2 DEF ListInv
    <2>8. FireInv' /\ HeldInv'
      BY <1>1, <2>2, <2>3 DEF FireInv, HeldInv, Begun
    <2>9. GenInv'
      <3>1. \A g \in Fire : fire'[g].gen = fire[g].gen /\ fire'[g].contained = fire[g].contained
        BY <2>2, <2>3
      <3>2. \A g \in Fire : fire'[g].pc \in {"armed", "wait", "retry", "relook", "drain", "watch"}
                            => fire[g].pc \in {"armed", "wait", "retry", "relook", "drain", "watch"}
        BY <1>1, <2>2, <2>3
      <3> QED
        BY <1>1, <3>1, <3>2 DEF GenInv
    <2> QED
      BY <2>4, <2>5, <2>6, <2>7, <2>8, <2>9
  <1> QED
    BY <1>3, <1>4 DEF Retry

LEMMA RetryPausedStep == ASSUME DispatchInv, NEW f \in Fire, RetryPaused(f) PROVE DispatchInv'
  <1>1. UNCHANGED <<row, sessions, paused, redrive>> /\ fire[f].pc = "relook"
    BY DEF RetryPaused
  <1>2. CASE Return(f, OverFire) /\ Unsubscribe(f) /\ UNCHANGED <<sub, bound, lastGen>>
    <2>1. Silent(f)
      BY <1>1, NotYet
    <2>2. /\ row' \in [there : BOOLEAN, list : RowList, sess : Session \cup {None}]
          /\ sessions' \subseteq Session
      BY <1>1 DEF DispatchInv, Types
    <2> QED
      BY <1>1, <1>2, <2>1, <2>2, OverStep DEF Return, Unsubscribe, Silent
  <1>3. ASSUME NEW s \in Sub, NextSub(s), sub' = [sub EXCEPT ![s] = Started(fire[f].sess, f, Lets(f))],
               fire' = [fire EXCEPT ![f] = Own(f, s, lastGen')],
               IF fire[f].contained THEN Contain(f, fire[f].sess) ELSE UNCHANGED <<bound, lastGen>>,
               UNCHANGED <<claim, recorded, inbox>>
        PROVE  DispatchInv'
    <2>1. fire[f].sess \in Session /\ lastGen \in Nat
      BY <1>1 DEF DispatchInv, FireInv, Begun, Types
    <2>2. sub[s].st = "free"
      BY <1>3 DEF NextSub
    <2>3. /\ lastGen' \in Nat /\ lastGen <= lastGen' /\ lastGen' <= lastGen'
          /\ bound' \subseteq Binding /\ bound \subseteq bound'
          /\ \A b \in bound' : b.gen <= lastGen'
          /\ \A b, d \in bound' : b.gen = d.gen => b = d
          /\ \A g \in Fire, b \in bound' : b.gen = fire[g].gen => b \in bound
          /\ fire[f].contained =>
                /\ [sess |-> fire[f].sess, gen |-> lastGen', allow |-> fire[f].allow, fire |-> f] \in bound'
                /\ \A b \in bound' : b.gen = lastGen' => b.fire = f
      <3>1. CASE fire[f].contained
        <4>1. Contain(f, fire[f].sess)
          BY <1>3, <3>1
        <4>2. lastGen' = lastGen + 1
          BY <2>1, <4>1, ContainStep
        <4> QED
          BY <2>1, <4>1, <4>2, ContainStep
      <3>2. CASE ~fire[f].contained
        BY <1>3, <2>1, <3>2 DEF DispatchInv, Types, GenInv
      <3> QED
        BY <3>1, <3>2
    <2> QED
      BY <1>1, <1>3, <2>2, <2>3, Launch
  <1> QED
    BY <1>2, <1>3 DEF RetryPaused

-----------------------------------------------------------------------------
(* A fire, while its stream runs.                                          *)

\* The fire goes on waiting: it has heard an event or none, and what it now knows of its
\* streams is true.
LEMMA WaitFrame ==
    ASSUME DispatchInv, NEW f \in Fire,
           fire' \in [Fire -> FireType], \A g \in Fire \ {f} : fire'[g] = fire[g],
           fire[f].pc \in Waiting, fire'[f].pc \in Waiting,
           fire'[f].sess = fire[f].sess, Lets(f)' = Lets(f),
           fire'[f].released => Silent(f),
           \A own \in SUBSET Sub : OwnOf(f, own) =>
                /\ fire'[f].owned \subseteq own
                /\ \A e \in fire'[f].ended : sub[e].st # "free" /\ (e \in own => Silent(f)),
           UNCHANGED <<sub, paused, redrive>>,
           inbox' \in [Fire -> Seq(Event)], \A g \in Fire \ {f} : inbox'[g] = inbox[g],
           inbox'[f] = inbox[f] \/ (inbox'[f] = Tail(inbox[f]) /\ inbox[f] # <<>>),
           \A b \in bound : b.fire # f => b \in bound'
    PROVE  RunnerInv' /\ InboxInv' /\ StreamInv' /\ OwnInv'
  <1> USE DEF DispatchInv
  <1>1. RunnerInv'
    BY DEF RunnerInv
  <1>2. \A i \in 1..Len(inbox'[f]) : \E j \in 1..Len(inbox[f]) : inbox'[f][i] = inbox[f][j]
    <2>1. CASE inbox'[f] = inbox[f]
      BY <2>1
    <2>2. CASE inbox'[f] = Tail(inbox[f]) /\ inbox[f] # <<>>
      <3>1. \A i \in 1..Len(inbox'[f]) : i + 1 \in 1..Len(inbox[f]) /\ inbox'[f][i] = inbox[f][i + 1]
        BY <2>2 DEF Types
      <3> QED
        BY <3>1
    <2> QED
      BY <2>1, <2>2
  <1>3. InboxInv'
    <2> SUFFICES ASSUME NEW g \in Fire
                 PROVE  /\ inbox'[g] # <<>> => Subscribed(g)'
                        /\ \A i \in 1..Len(inbox'[g]) :
                              /\ sub[inbox'[g][i].sub].st # "free"
                              /\ inbox'[g][i].kind = "resumed" =>
                                    inbox'[g][i].new \in Sub /\ sub[inbox'[g][i].new].st # "free"
      BY DEF InboxInv
    <2>1. CASE g # f
      BY <2>1 DEF InboxInv, Subscribed
    <2>2. CASE g = f
      BY <1>2, <2>2 DEF InboxInv, Subscribed, Waiting
    <2> QED
      BY <2>1, <2>2
  <1>4. \A s \in Sub : GoesOn(s)' <=> GoesOn(s)
    BY DEF GoesOn
  <1>5. \A g \in Fire : Silent(g)' <=> Silent(g)
    BY <1>4 DEF Silent
  <1>6. StreamInv'
    <2> SUFFICES ASSUME NEW s \in Sub, GoesOn(s), sub[s].of # User, NEW g, g = sub[s].of
                 PROVE  /\ \A t \in Sub : GoesOn(t) /\ sub[t].of = g => t = s
                        /\ fire'[g].pc \in Waiting \cup {"over", "gaveup"}
                        /\ fire'[g].pc \in Waiting =>
                              sub[s].sess = fire'[g].sess /\ sub[s].lets = Lets(g)' /\ ~fire'[g].released
                        /\ fire'[g].pc \in {"over", "gaveup"} =>
                              \/ Tool \subseteq sub[s].lets
                              \/ /\ fire'[g].pc = "gaveup"
                                 /\ \E b \in bound' : /\ b.fire = g /\ b.sess = sub[s].sess
                                                      /\ b.allow \subseteq sub[s].lets
      BY <1>4 DEF StreamInv
    <2>1. g \in Fire
      BY DEF Types, SubType
    <2>2. CASE g = f
      <3>1. ~Silent(f)
        BY <2>2 DEF Silent
      <3>2. ~fire'[f].released
        BY <3>1
      <3>3. /\ \A t \in Sub : GoesOn(t) /\ sub[t].of = f => t = s
            /\ sub[s].sess = fire[f].sess /\ sub[s].lets = Lets(f)
        <4>1. sub[s].of = f /\ StreamInv
          BY <2>2
        <4> QED
          BY <4>1 DEF StreamInv
      <3> QED
        BY <2>2, <3>2, <3>3 DEF Waiting
    <2>3. CASE g # f
      <3>1. fire'[g] = fire[g] /\ Lets(g)' = Lets(g)
        BY <2>1, <2>3 DEF Lets
      <3> QED
        BY <2>1, <2>3, <3>1 DEF StreamInv
    <2> QED
      BY <2>2, <2>3
  <1>7. OwnInv'
    <2> SUFFICES ASSUME NEW g \in Fire, fire'[g].pc \in Waiting
                 PROVE  \E own \in SUBSET Sub : OwnOf(g, own)'
      BY DEF OwnInv
    <2>1. PICK own \in SUBSET Sub : OwnOf(g, own)
      BY DEF OwnInv
    <2>2. CASE g # f
      <3>1. OwnOf(g, own)'
        BY <1>4, <1>5, <2>1, <2>2 DEF OwnOf
      <3> QED
        BY <3>1
    <2>3. CASE g = f
      <3>1. \A i \in 1..Len(inbox'[f]) :
               IF inbox'[f][i].kind = "closed" THEN inbox'[f][i].sub \in own => Silent(f)
               ELSE inbox'[f][i].sub \in own => inbox'[f][i].new \in own
        BY <1>2, <2>1, <2>3 DEF OwnOf
      <3>2. OwnOf(f, own)'
        BY <1>4, <1>5, <2>1, <2>3, <3>1 DEF OwnOf
      <3> QED
        BY <2>3, <3>2
    <2> QED
      BY <2>2, <2>3
  <1> QED
    BY <1>1, <1>3, <1>6, <1>7

\* What observe makes of an event: the streams it takes for the run's own are, and when
\* it finds the run over no stream of it goes on.
LEMMA ObservedStep ==
    ASSUME DispatchInv, NEW f \in Fire, fire[f].pc \in Waiting, inbox[f] # <<>>,
           NEW o, o = Observed(f, Head(inbox[f]))
    PROVE  /\ o \in FireType
           /\ o.pc = fire[f].pc /\ o.gated = fire[f].gated /\ o.list = fire[f].list
           /\ o.contained = fire[f].contained /\ o.allow = fire[f].allow /\ o.sess = fire[f].sess
           /\ o.gen = fire[f].gen /\ o.sub = fire[f].sub /\ fire[f].owned \subseteq o.owned
           /\ o.released => fire[f].contained /\ Silent(f)
           /\ \A own \in SUBSET Sub : OwnOf(f, own) =>
                 /\ o.owned \subseteq own
                 /\ \A e \in o.ended : sub[e].st # "free" /\ (e \in own => Silent(f))
  <1> USE DEF DispatchInv
  <1> DEFINE ev == Head(inbox[f])
             x  == fire[f]
  <1>1. x \in FireType
    BY DEF Types
  <1>2. 1 \in 1..Len(inbox[f]) /\ ev = inbox[f][1]
    BY DEF Types
  <1>3. ev \in Event /\ ev.sub \in Sub /\ sub[ev.sub].st # "free" /\ (ev.kind # "closed" => ev.new \in Sub)
    <2>1. ev \in Event
      BY <1>2, EventAt
    <2>2. ev.kind # "closed" => ev.kind = "resumed"
      BY <2>1 DEF Event
    <2> QED
      BY <1>2, <2>1, <2>2 DEF Event, InboxInv
  <1>4. \A own \in SUBSET Sub : OwnOf(f, own) =>
           /\ x.owned \subseteq own
           /\ \A e \in x.ended : sub[e].st # "free" /\ (e \in own => Silent(f))
           /\ IF ev.kind = "closed" THEN ev.sub \in own => Silent(f)
                                    ELSE ev.sub \in own => ev.new \in own
    BY <1>2 DEF OwnOf
  <1>5. PICK own0 \in SUBSET Sub : OwnOf(f, own0)
    BY DEF OwnInv
  <1>6. x.released => x.contained /\ Silent(f)
    <2>1. ASSUME x.released, NEW s \in Sub, GoesOn(s), sub[s].of = f PROVE FALSE
      BY <2>1, Constants DEF StreamInv
    <2> QED
      BY <2>1 DEF FireInv, Silent
  <1> HIDE DEF ev, x
  <1>7. o = (IF x.released \/ ~x.contained THEN x
             ELSE IF ev.kind = "closed"
             THEN IF ev.sess # x.sess THEN x
                  ELSE IF ev.sub \in x.owned THEN [x EXCEPT !.released = TRUE]
                  ELSE [x EXCEPT !.ended = x.ended \cup {ev.sub}]
             ELSE IF ev.sub \notin x.owned THEN x
                  ELSE [x EXCEPT !.owned = x.owned \cup {ev.new}, !.released = ev.new \in x.ended])
    BY <1>1 DEF Observed, ev, x, FireType
  <1>8. CASE o = x
    BY <1>1, <1>4, <1>6, <1>8 DEF x
  <1>9. CASE /\ x.contained /\ ev.kind = "closed" /\ ev.sub \in x.owned
             /\ o = [x EXCEPT !.released = TRUE]
    <2>1. Silent(f)
      BY <1>4, <1>5, <1>9
    <2>2. o \in FireType /\ o.owned = x.owned /\ o.ended = x.ended
      BY <1>1, <1>9 DEF FireType
    <2> QED
      BY <1>1, <1>4, <1>9, <2>1, <2>2 DEF FireType, x
  <1>10. CASE /\ x.contained /\ ~x.released /\ ev.kind = "closed"
              /\ o = [x EXCEPT !.ended = x.ended \cup {ev.sub}]
    <2>1. o \in FireType /\ o.owned = x.owned /\ o.ended = x.ended \cup {ev.sub} /\ ~o.released
      BY <1>1, <1>3, <1>10 DEF FireType
    <2>2. \A own \in SUBSET Sub : OwnOf(f, own) =>
             \A e \in o.ended : sub[e].st # "free" /\ (e \in own => Silent(f))
      BY <1>3, <1>4, <1>10, <2>1
    <2> QED
      BY <1>1, <1>4, <1>10, <2>1, <2>2 DEF FireType, x
  <1>11. CASE /\ x.contained /\ ~x.released /\ ev.kind # "closed" /\ ev.sub \in x.owned
              /\ o = [x EXCEPT !.owned = x.owned \cup {ev.new}, !.released = ev.new \in x.ended]
    <2>1. /\ o \in FireType /\ o.owned = x.owned \cup {ev.new} /\ o.ended = x.ended
          /\ o.released => ev.new \in x.ended
      <3>0. ev.new \in Sub
        BY <1>3, <1>11
      <3>9. x.owned \cup {ev.new} \in SUBSET Sub
        BY <1>1, <3>0 DEF FireType
      <3>1. CASE ev.new \in x.ended
        <4>1. o = [x EXCEPT !.owned = x.owned \cup {ev.new}, !.released = TRUE]
          BY <1>11, <3>1
        <4> QED
          <5> DEFINE w == x.owned \cup {ev.new}
          <5>1. w \in SUBSET Sub
            BY <3>9
          <5> HIDE DEF w
          <5>2. /\ [x EXCEPT !.owned = w, !.released = TRUE] \in FireType
                /\ [x EXCEPT !.owned = w, !.released = TRUE].owned = w
                /\ [x EXCEPT !.owned = w, !.released = TRUE].ended = x.ended
            BY <1>1, <5>1, OwnedFields
          <5>3. o = [x EXCEPT !.owned = w, !.released = TRUE]
            BY <4>1 DEF w
          <5> QED
            BY <3>1, <5>2, <5>3 DEF w
      <3>2. CASE ev.new \notin x.ended
        <4>1. o = [x EXCEPT !.owned = x.owned \cup {ev.new}, !.released = FALSE]
          <5>1. (ev.new \in x.ended) = FALSE
            BY <3>2
          <5> QED
            BY <1>11, <5>1, Zenon
        <4> QED
          <5> DEFINE w == x.owned \cup {ev.new}
          <5>1. w \in SUBSET Sub
            BY <3>9
          <5> HIDE DEF w
          <5>2. /\ [x EXCEPT !.owned = w, !.released = FALSE] \in FireType
                /\ [x EXCEPT !.owned = w, !.released = FALSE].owned = w
                /\ [x EXCEPT !.owned = w, !.released = FALSE].ended = x.ended
                /\ ~[x EXCEPT !.owned = w, !.released = FALSE].released
            BY <1>1, <5>1, OwnedFields
          <5>3. o = [x EXCEPT !.owned = w, !.released = FALSE]
            BY <4>1 DEF w
          <5> QED
            BY <3>2, <5>2, <5>3 DEF w
      <3> QED
        BY <3>1, <3>2
    <2>2. \A own \in SUBSET Sub : OwnOf(f, own) => ev.new \in own /\ o.owned \subseteq own
      BY <1>4, <1>11, <2>1
    <2>3. o.released => Silent(f)
      BY <1>4, <1>5, <2>1, <2>2
    <2> QED
      BY <1>1, <1>4, <1>11, <2>1, <2>2, <2>3 DEF FireType, x
  <1> QED
    BY <1>7, <1>8, <1>9, <1>10, <1>11

\* What a waiting fire keeps: its lists, its conversation and its generation.
LEMMA KeepFrame ==
    ASSUME DispatchInv, NEW f \in Fire,
           fire' \in [Fire -> FireType], \A g \in Fire \ {f} : fire'[g] = fire[g],
           fire[f].pc \in Waiting, fire'[f].pc \in Waiting \cup {"retry"},
           fire'[f].gated = fire[f].gated, fire'[f].list = fire[f].list,
           fire'[f].contained = fire[f].contained, fire'[f].allow = fire[f].allow,
           fire'[f].sess = fire[f].sess, fire'[f].gen = fire[f].gen,
           fire'[f].sub \in fire'[f].owned,
           fire'[f].pc \in {"drain", "watch"} => fire[f].contained,
           fire'[f].released => fire'[f].pc \in {"wait", "retry"} /\ fire[f].contained,
           UNCHANGED lastGen, bound' \subseteq bound, \A b \in bound : b.fire # f => b \in bound',
           fire'[f].pc = "retry" \/ fire'[f].released \/ (bound' = bound /\ ~fire[f].released)
    PROVE  ListInv' /\ FireInv' /\ GenInv' /\ HeldInv'
  <1> USE DEF DispatchInv
  <1>1. \A g \in Fire : Lets(g)' = Lets(g)
    BY DEF Lets
  <1>2. ListInv'
    <2> SUFFICES ASSUME NEW g \in Fire, fire'[g].pc \in Read
                 PROVE  IF fire'[g].contained THEN fire'[g].allow \subseteq Lets(g) ELSE Tool \subseteq Lets(g)
      BY <1>1 DEF ListInv
    <2>1. CASE g = f
      BY <2>1 DEF ListInv, Read, Waiting
    <2>2. CASE g # f
      BY <2>2 DEF ListInv
    <2> QED
      BY <2>1, <2>2
  <1>3. FireInv'
    BY DEF FireInv, Begun, Waiting
  <1>4. GenInv'
    <2>1. \A g \in Fire : fire'[g].gen = fire[g].gen /\ fire'[g].contained = fire[g].contained
      OBVIOUS
    <2>2. \A g \in Fire : fire'[g].pc \in {"armed", "wait", "retry", "relook", "drain", "watch"}
                          => fire[g].pc \in {"armed", "wait", "retry", "relook", "drain", "watch"}
      BY DEF Waiting
    <2> QED
      BY <2>1, <2>2 DEF GenInv
  <1>5. HeldInv'
    <2> SUFFICES ASSUME NEW g \in Fire, fire'[g].pc \in {"armed", "wait", "drain", "watch"},
                        fire'[g].contained, ~fire'[g].released
                 PROVE  [sess |-> fire'[g].sess, gen |-> fire'[g].gen, allow |-> fire'[g].allow,
                         fire |-> g] \in bound'
      BY DEF HeldInv
    <2>1. CASE g = f
      BY <2>1 DEF HeldInv, Waiting
    <2>2. CASE g # f
      <3>1. [sess |-> fire[g].sess, gen |-> fire[g].gen, allow |-> fire[g].allow, fire |-> g] \in bound
        BY <2>2 DEF HeldInv
      <3> QED
        BY <2>2, <3>1
    <2> QED
      BY <2>1, <2>2
  <1> QED
    BY <1>2, <1>3, <1>4, <1>5

LEMMA HearStep == ASSUME DispatchInv, NEW f \in Fire, Hear(f) PROVE DispatchInv'
  <1> USE DEF DispatchInv
  <1> DEFINE ev   == Head(inbox[f])
             o    == Observed(f, ev)
             mine == fire[f].pc = "wait" /\ ev.kind = "closed" /\ ev.sub = fire[f].sub
             stop == o.released /\ fire[f].pc \in {"drain", "watch"}
             last == mine /\ (ev.full => o.retried \/ o.created)
  <1>1. /\ fire[f].pc \in Waiting /\ inbox[f] # <<>>
        /\ UNCHANGED <<sub, paused, redrive, lastGen>>
        /\ inbox' = [inbox EXCEPT ![f] = IF last \/ stop THEN <<>> ELSE Tail(inbox[f])]
        /\ bound' = IF o.released THEN Release(o.sess, o.gen) ELSE bound
    BY DEF Hear, Subscribed, Waiting
  <1>2. /\ o \in FireType
        /\ o.pc = fire[f].pc /\ o.gated = fire[f].gated /\ o.list = fire[f].list
        /\ o.contained = fire[f].contained /\ o.allow = fire[f].allow /\ o.sess = fire[f].sess
        /\ o.gen = fire[f].gen /\ o.sub = fire[f].sub /\ fire[f].owned \subseteq o.owned
        /\ o.released => fire[f].contained /\ Silent(f)
        /\ \A own \in SUBSET Sub : OwnOf(f, own) =>
              /\ o.owned \subseteq own
              /\ \A e \in o.ended : sub[e].st # "free" /\ (e \in own => Silent(f))
    BY <1>1, ObservedStep
  <1>3. mine => Silent(f)
    <2>1. PICK own \in SUBSET Sub : OwnOf(f, own)
      BY <1>1 DEF OwnInv
    <2>2. 1 \in 1..Len(inbox[f]) /\ ev = inbox[f][1]
      BY <1>1 DEF Types
    <2>3. fire[f].sub \in own
      BY <1>1, <2>1 DEF FireInv, OwnOf, Waiting
    <2> QED
      BY <2>1, <2>2, <2>3 DEF OwnOf
  <1>4. fire[f].released => o.released
    BY <1>1 DEF Observed
  <1> HIDE DEF ev, o
  <1>5. bound' \subseteq bound /\ \A b \in bound : b.fire # f => b \in bound'
    <2>1. CASE o.released
      <3>1. fire[f].contained /\ bound' = Release(fire[f].sess, fire[f].gen)
        BY <1>1, <1>2, <2>1
      <3>2. fire[f].pc \in {"armed", "wait", "retry", "relook", "drain", "watch"}
        BY <1>1 DEF Waiting
      <3> QED
        BY <3>1, <3>2, ReleaseOwn
    <2>2. CASE ~o.released
      BY <1>1, <2>2
    <2> QED
      BY <2>1, <2>2
  <1>6. /\ inbox' \in [Fire -> Seq(Event)] /\ \A g \in Fire \ {f} : inbox'[g] = inbox[g]
        /\ inbox'[f] = IF last \/ stop THEN <<>> ELSE Tail(inbox[f])
    BY <1>1 DEF Types
  <1>7. CASE /\ ~mine /\ ~stop
             /\ fire' = [fire EXCEPT ![f] = o]
             /\ UNCHANGED <<claim, recorded, row, sessions>>
    <2>1. /\ fire' \in [Fire -> FireType] /\ fire'[f] = o
          /\ \A g \in Fire \ {f} : fire'[g] = fire[g]
      BY <1>2, <1>7, FireUpdate
    <2>2. Types'
      BY <1>1, <1>5, <1>6, <1>7, <2>1 DEF Types
    <2>3. RunnerInv' /\ InboxInv' /\ StreamInv' /\ OwnInv'
      <3>1. inbox'[f] = Tail(inbox[f])
        BY <1>6, <1>7
      <3>2. Lets(f)' = Lets(f)
        BY <1>2, <2>1 DEF Lets
      <3>3. fire'[f].pc \in Waiting /\ fire'[f].sess = fire[f].sess
        BY <1>1, <1>2, <2>1
      <3>4. \A own \in SUBSET Sub : OwnOf(f, own) =>
               /\ fire'[f].owned \subseteq own
               /\ \A e \in fire'[f].ended : sub[e].st # "free" /\ (e \in own => Silent(f))
        BY <1>2, <2>1
      <3>5. fire'[f].released => Silent(f)
        BY <1>2, <2>1
      <3> QED
        BY <1>1, <1>5, <1>6, <2>1, <3>1, <3>2, <3>3, <3>4, <3>5, WaitFrame
    <2>4. ClaimInv'
      BY <1>2, <1>7, <2>1 DEF ClaimInv, Types
    <2>5. ListInv' /\ FireInv' /\ GenInv' /\ HeldInv'
      <3>1. fire'[f].sub \in fire'[f].owned
        BY <1>1, <1>2, <2>1 DEF FireInv, Waiting
      <3>2. fire'[f].pc \in {"drain", "watch"} => fire[f].contained
        BY <1>2, <2>1 DEF FireInv
      <3>3. fire'[f].released => fire'[f].pc \in {"wait", "retry"} /\ fire[f].contained
        BY <1>1, <1>2, <1>7, <2>1 DEF Waiting
      <3>4. fire'[f].released \/ (bound' = bound /\ ~fire[f].released)
        BY <1>1, <1>4, <2>1
      <3> QED
        BY <1>1, <1>2, <1>5, <2>1, <3>1, <3>2, <3>3, <3>4, KeepFrame
    <2> QED
      BY <2>2, <2>3, <2>4, <2>5
  <1>8. CASE /\ mine /\ ~last
             /\ fire' = [fire EXCEPT ![f] = [o EXCEPT !.pc = "retry", !.retried = TRUE]]
             /\ UNCHANGED <<claim, recorded, row, sessions>>
    <2>1. [o EXCEPT !.pc = "retry", !.retried = TRUE] \in FireType
      BY <1>2 DEF FireType, PC, Read
    <2>2. /\ fire' \in [Fire -> FireType] /\ fire'[f] = [o EXCEPT !.pc = "retry", !.retried = TRUE]
          /\ \A g \in Fire \ {f} : fire'[g] = fire[g]
      BY <1>8, <2>1, FireUpdate
    <2>3. /\ fire'[f].pc = "retry" /\ fire'[f].gated = o.gated /\ fire'[f].list = o.list
          /\ fire'[f].contained = o.contained /\ fire'[f].allow = o.allow /\ fire'[f].sess = o.sess
          /\ fire'[f].gen = o.gen /\ fire'[f].sub = o.sub /\ fire'[f].owned = o.owned
          /\ fire'[f].released = o.released
      BY <1>2, <2>2 DEF FireType
    <2>4. Types'
      BY <1>1, <1>5, <1>6, <1>8, <2>2 DEF Types
    <2>5. RunnerInv' /\ InboxInv' /\ StreamInv' /\ OwnInv'
      <3>1. inbox'[f] = Tail(inbox[f])
        BY <1>6, <1>8
      <3>2. Silent(f)
        BY <1>3, <1>8
      <3>3. \A s \in Sub : GoesOn(s) /\ sub[s].of = f => fire'[f].pc = "over" /\ Tool \subseteq sub[s].lets
        BY <3>2 DEF Silent
      <3>4. fire'[f].pc \notin Waiting /\ fire'[f].pc = "retry"
        BY <2>3 DEF Waiting
      <3> QED
        BY <1>1, <1>5, <1>6, <2>2, <3>1, <3>3, <3>4, FireFrame
    <2>6. ClaimInv'
      BY <1>8, <2>2, <2>3 DEF ClaimInv, Claimed, Types
    <2>7. ListInv' /\ FireInv' /\ GenInv' /\ HeldInv'
      <3>1. fire'[f].sub \in fire'[f].owned
        BY <1>1, <1>2, <2>3 DEF FireInv, Waiting
      <3>2. /\ fire'[f].gated = fire[f].gated /\ fire'[f].list = fire[f].list
            /\ fire'[f].contained = fire[f].contained /\ fire'[f].allow = fire[f].allow
            /\ fire'[f].sess = fire[f].sess /\ fire'[f].gen = fire[f].gen
        BY <1>2, <2>3
      <3>3. fire'[f].released => fire'[f].pc \in {"wait", "retry"} /\ fire[f].contained
        BY <1>2, <2>3
      <3>4. /\ fire'[f].pc \in Waiting \cup {"retry"} /\ fire'[f].pc \notin {"drain", "watch"}
            /\ fire'[f].pc = "retry"
        BY <2>3
      <3> QED
        BY <1>1, <1>5, <2>2, <3>1, <3>2, <3>3, <3>4, KeepFrame
    <2> QED
      BY <2>4, <2>5, <2>6, <2>7
  <1>9. CASE (last \/ stop) /\ Return(f, OverFire) /\ (Discard(f) \/ UNCHANGED <<row, sessions>>)
    <2>1. Silent(f)
      BY <1>2, <1>3, <1>9
    <2>2. /\ row' \in [there : BOOLEAN, list : RowList, sess : Session \cup {None}]
          /\ sessions' \subseteq Session
      BY <1>9 DEF Types, Discard
    <2>3. inbox' = [inbox EXCEPT ![f] = <<>>]
      BY <1>1, <1>9
    <2> QED
      BY <1>1, <1>5, <1>9, <2>1, <2>2, <2>3, OverStep DEF Return, Silent
  <1> QED
    BY <1>7, <1>8, <1>9 DEF Hear, ev, o

\* The fire waits in another state and has heard nothing.
LEMMA MoveStep ==
    ASSUME DispatchInv, NEW f \in Fire, NEW pc \in {"drain", "watch"},
           fire[f].pc \in {"wait", "drain"}, fire[f].contained, ~fire[f].released,
           fire' = [fire EXCEPT ![f] = [fire[f] EXCEPT !.pc = pc]],
           claim' = IF pc = "watch" /\ claim = f THEN None ELSE claim,
           recorded' = IF pc = "watch" THEN recorded \cup {f} ELSE recorded,
           UNCHANGED <<row, sessions, inbox, sub, paused, redrive, bound, lastGen>>
    PROVE  DispatchInv'
  <1> USE DEF DispatchInv
  <1>1. fire[f] \in FireType /\ pc \in PC
    BY DEF Types, PC, Read
  <1>2. /\ fire' \in [Fire -> FireType] /\ fire'[f] = [fire[f] EXCEPT !.pc = pc]
        /\ \A g \in Fire \ {f} : fire'[g] = fire[g]
    BY <1>1, FireFields, FireUpdate
  <1>3. /\ fire'[f].pc = pc /\ fire'[f].gated = fire[f].gated /\ fire'[f].list = fire[f].list
        /\ fire'[f].contained = fire[f].contained /\ fire'[f].allow = fire[f].allow
        /\ fire'[f].sess = fire[f].sess /\ fire'[f].gen = fire[f].gen /\ fire'[f].sub = fire[f].sub
        /\ fire'[f].owned = fire[f].owned /\ fire'[f].ended = fire[f].ended
        /\ fire'[f].released = fire[f].released
    BY <1>1, <1>2 DEF FireType
  <1>4. fire[f].pc \in Waiting /\ fire'[f].pc \in Waiting
    BY <1>3 DEF Waiting
  <1>5. Types'
    BY <1>2 DEF Types
  <1>6. RunnerInv' /\ InboxInv' /\ StreamInv' /\ OwnInv'
    <2>1. Lets(f)' = Lets(f)
      BY <1>3 DEF Lets
    <2>2. \A own \in SUBSET Sub : OwnOf(f, own) =>
             /\ fire'[f].owned \subseteq own
             /\ \A e \in fire'[f].ended : sub[e].st # "free" /\ (e \in own => Silent(f))
      BY <1>3 DEF OwnOf
    <2>3. inbox' \in [Fire -> Seq(Event)] /\ (\A g \in Fire \ {f} : inbox'[g] = inbox[g]) /\ inbox'[f] = inbox[f]
      BY DEF Types
    <2> QED
      BY <1>2, <1>3, <1>4, <2>1, <2>2, <2>3, WaitFrame
  <1>7. ClaimInv'
    <2>1. \A g \in Fire : g # f => (claim' = g <=> claim = g)
      BY Constants DEF ClaimInv, Claimed
    <2>2. claim = f
      BY DEF ClaimInv, Claimed
    <2>3. claim' = f <=> fire'[f].pc \in Claimed
      BY <1>3, <2>2, Constants DEF Claimed
    <2>4. \A g \in recorded' : fire'[g].pc \in {"over", "watch", "gaveup"}
      BY <1>2, <1>3 DEF ClaimInv, Types
    <2> QED
      BY <1>2, <2>1, <2>3, <2>4 DEF ClaimInv
  <1>8. ListInv' /\ FireInv' /\ GenInv' /\ HeldInv'
    <2>1. fire'[f].sub \in fire'[f].owned
      BY <1>3, <1>4 DEF FireInv, Waiting
    <2> QED
      BY <1>2, <1>3, <1>4, <2>1, KeepFrame
  <1> QED
    BY <1>5, <1>6, <1>7, <1>8

LEMMA DeadlineStep == ASSUME DispatchInv, NEW f \in Fire, Deadline(f) PROVE DispatchInv'
  <1> USE DEF DispatchInv
  <1>1. UNCHANGED <<row, sessions, sub, paused, redrive, bound, lastGen>> /\ fire[f].pc = "wait"
    BY DEF Deadline
  <1>2. CASE fire[f].contained /\ ~fire[f].released
    <2>1. fire' = [fire EXCEPT ![f] = [fire[f] EXCEPT !.pc = "drain"]] /\ UNCHANGED <<claim, recorded, inbox>>
      BY <1>2 DEF Deadline, Types
    <2> QED
      BY <1>1, <1>2, <2>1, MoveStep
  <1>3. CASE ~(fire[f].contained /\ ~fire[f].released)
    <2>1. Return(f, OverFire) /\ Unsubscribe(f)
      BY <1>3 DEF Deadline
    <2>2. ASSUME NEW s \in Sub, GoesOn(s), sub[s].of = f PROVE Tool \subseteq sub[s].lets
      <3>1. sub[s].lets = Lets(f) /\ ~fire[f].released
        BY <1>1, <2>2, Constants DEF StreamInv, Waiting
      <3>2. ~fire[f].contained
        BY <1>3, <3>1
      <3> QED
        BY <1>1, <3>1, <3>2 DEF ListInv, Read
    <2>3. /\ row' \in [there : BOOLEAN, list : RowList, sess : Session \cup {None}]
          /\ sessions' \subseteq Session
      BY <1>1 DEF Types
    <2> QED
      BY <1>1, <2>1, <2>2, <2>3, OverStep DEF Return, Unsubscribe
  <1> QED
    BY <1>2, <1>3

LEMMA DrainedStep == ASSUME DispatchInv, NEW f \in Fire, Drained(f) PROVE DispatchInv'
  <1>1. fire[f].pc = "drain" /\ fire[f].contained /\ ~fire[f].released
    BY DEF DispatchInv, Drained, FireInv
  <1> QED
    BY <1>1, MoveStep DEF Drained, Return

\* The watch gives up: what may still run stays bound.
LEMMA GiveUpStep == ASSUME DispatchInv, NEW f \in Fire, GiveUp(f) PROVE DispatchInv'
  <1> USE DEF DispatchInv
  <1> DEFINE rec == [OverFire EXCEPT !.pc = "gaveup"]
  <1>1. /\ UNCHANGED <<row, sessions, claim, sub, paused, redrive, bound, lastGen, recorded>>
        /\ fire[f].pc = "watch" /\ fire' = [fire EXCEPT ![f] = rec]
        /\ inbox' = [inbox EXCEPT ![f] = <<>>]
    BY DEF GiveUp, Unsubscribe
  <1>2. rec \in FireType /\ rec.pc = "gaveup" /\ ~rec.contained /\ rec.gen = 0 /\ ~rec.released
    BY RestTypes DEF OverFire, IdleFire
  <1> HIDE DEF rec
  <1>3. /\ fire' \in [Fire -> FireType] /\ fire'[f] = rec
        /\ \A g \in Fire \ {f} : fire'[g] = fire[g]
    BY <1>1, <1>2, FireUpdate
  <1>4. /\ inbox' \in [Fire -> Seq(Event)] /\ inbox'[f] = <<>>
        /\ \A g \in Fire \ {f} : inbox'[g] = inbox[g]
    BY <1>1 DEF Types
  <1>5. Types' /\ RunnerInv'
    BY <1>1, <1>3, <1>4 DEF Types, RunnerInv
  <1>6. ClaimInv'
    BY <1>1, <1>2, <1>3 DEF ClaimInv, Claimed, Types
  <1>7. InboxInv'
    <2> SUFFICES ASSUME NEW g \in Fire
                 PROVE  /\ inbox'[g] # <<>> => Subscribed(g)'
                        /\ \A i \in 1..Len(inbox'[g]) :
                              /\ sub[inbox'[g][i].sub].st # "free"
                              /\ inbox'[g][i].kind = "resumed" =>
                                    inbox'[g][i].new \in Sub /\ sub[inbox'[g][i].new].st # "free"
      BY <1>1 DEF InboxInv
    <2>1. CASE g = f
      BY <1>4, <2>1
    <2>2. CASE g # f
      BY <1>3, <1>4, <2>2 DEF InboxInv, Subscribed
    <2> QED
      BY <2>1, <2>2
  <1>8. \A g \in Fire : g # f => Lets(g)' = Lets(g)
    BY <1>3 DEF Lets
  <1>9. ListInv' /\ FireInv'
    BY <1>2, <1>3, <1>8 DEF ListInv, FireInv, Read, Begun
  <1>10. GenInv' /\ HeldInv'
    BY <1>1, <1>2, <1>3 DEF GenInv, HeldInv, Types
  <1>11. \A s \in Sub : GoesOn(s)' <=> GoesOn(s)
    BY <1>1 DEF GoesOn
  <1>12. StreamInv'
    <2> SUFFICES ASSUME NEW s \in Sub, GoesOn(s), sub[s].of # User, NEW g, g = sub[s].of
                 PROVE  /\ \A t \in Sub : GoesOn(t) /\ sub[t].of = g => t = s
                        /\ fire'[g].pc \in Waiting \cup {"over", "gaveup"}
                        /\ fire'[g].pc \in Waiting =>
                              sub[s].sess = fire'[g].sess /\ sub[s].lets = Lets(g)' /\ ~fire'[g].released
                        /\ fire'[g].pc \in {"over", "gaveup"} =>
                              \/ Tool \subseteq sub[s].lets
                              \/ /\ fire'[g].pc = "gaveup"
                                 /\ \E b \in bound : /\ b.fire = g /\ b.sess = sub[s].sess
                                                     /\ b.allow \subseteq sub[s].lets
      BY <1>1, <1>11 DEF StreamInv
    <2>1. g \in Fire
      BY DEF Types, SubType
    <2>2. CASE g = f
      <3>1. /\ \A t \in Sub : GoesOn(t) /\ sub[t].of = f => t = s
            /\ sub[s].sess = fire[f].sess /\ sub[s].lets = Lets(f) /\ ~fire[f].released
        BY <1>1, <2>2 DEF StreamInv, Waiting
      <3>2. fire[f].contained
        BY <1>1 DEF FireInv
      <3>3. [sess |-> fire[f].sess, gen |-> fire[f].gen, allow |-> fire[f].allow, fire |-> f] \in bound
        BY <1>1, <3>1, <3>2 DEF HeldInv
      <3>4. fire[f].allow \subseteq Lets(f)
        BY <1>1, <3>2 DEF ListInv, Read
      <3>5. \E b \in bound : b.fire = f /\ b.sess = sub[s].sess /\ b.allow \subseteq sub[s].lets
        BY <3>1, <3>3, <3>4
      <3> QED
        BY <1>2, <1>3, <2>2, <3>1, <3>5 DEF Waiting
    <2>3. CASE g # f
      <3>1. fire'[g] = fire[g] /\ Lets(g)' = Lets(g)
        BY <1>3, <1>8, <2>1, <2>3
      <3> QED
        BY <2>1, <2>3, <3>1 DEF StreamInv
    <2> QED
      BY <2>2, <2>3
  <1>13. OwnInv'
    <2> SUFFICES ASSUME NEW g \in Fire, fire'[g].pc \in Waiting
                 PROVE  \E own \in SUBSET Sub : OwnOf(g, own)'
      BY DEF OwnInv
    <2>1. g # f
      BY <1>2, <1>3 DEF Waiting
    <2>2. fire'[g] = fire[g] /\ inbox'[g] = inbox[g]
      BY <1>3, <1>4, <2>1
    <2>3. PICK own \in SUBSET Sub : OwnOf(g, own)
      BY <2>2 DEF OwnInv
    <2>4. Silent(g)' <=> Silent(g)
      BY <1>1, <1>11 DEF Silent
    <2>5. OwnOf(g, own)'
      BY <1>1, <1>11, <2>2, <2>3, <2>4 DEF OwnOf
    <2> QED
      BY <2>5
  <1> QED
    BY <1>5, <1>6, <1>7, <1>9, <1>10, <1>12, <1>13

-----------------------------------------------------------------------------
(* The runner.                                                             *)

LEMMA PublishStep ==
    ASSUME Types, NEW ev \in Event, Publish(ev)
    PROVE  /\ inbox' \in [Fire -> Seq(Event)]
           /\ \A g \in Fire : inbox'[g] # <<>> => inbox[g] # <<>> \/ Subscribed(g)
           /\ \A g \in Fire : \A i \in 1..Len(inbox'[g]) :
                 \/ i \in 1..Len(inbox[g]) /\ inbox'[g][i] = inbox[g][i]
                 \/ inbox'[g][i] = ev
  <1>1. inbox' = [g \in Fire |-> IF Subscribed(g) THEN Append(inbox[g], ev) ELSE inbox[g]]
    BY DEF Publish
  <1>2. ASSUME NEW g \in Fire
        PROVE  /\ inbox'[g] \in Seq(Event)
               /\ inbox'[g] # <<>> => inbox[g] # <<>> \/ Subscribed(g)
               /\ \A i \in 1..Len(inbox'[g]) :
                     \/ i \in 1..Len(inbox[g]) /\ inbox'[g][i] = inbox[g][i]
                     \/ inbox'[g][i] = ev
    <2>1. inbox[g] \in Seq(Event)
      BY DEF Types
    <2>2. CASE Subscribed(g)
      <3>1. inbox'[g] = Append(inbox[g], ev)
        BY <1>1, <2>2
      <3> QED
        BY <2>1, <2>2, <3>1
    <2>3. CASE ~Subscribed(g)
      BY <1>1, <2>1, <2>3
    <2> QED
      BY <2>2, <2>3
  <1> QED
    BY <1>1, <1>2

\* Every stream that goes on took over from one that did, and is still alone.
LEMMA StreamFrame ==
    ASSUME DispatchInv, sub' \in [Sub -> SubType], UNCHANGED <<fire, bound>>,
           \A s \in Sub : GoesOn(s)' /\ sub'[s].of # User =>
                \E t \in Sub : /\ GoesOn(t) /\ sub[t].of = sub'[s].of
                               /\ sub[t].sess = sub'[s].sess /\ sub[t].lets = sub'[s].lets,
           \A s, u \in Sub : GoesOn(s)' /\ GoesOn(u)' /\ sub'[s].of # User /\ sub'[s].of = sub'[u].of => s = u
    PROVE  StreamInv'
  <1>1. \A g : Lets(g)' = Lets(g)
    BY DEF Lets
  <1> SUFFICES ASSUME NEW s \in Sub, GoesOn(s)', sub'[s].of # User, NEW g, g = sub'[s].of
               PROVE  /\ \A t \in Sub : GoesOn(t)' /\ sub'[t].of = g => t = s
                      /\ fire[g].pc \in Waiting \cup {"over", "gaveup"}
                      /\ fire[g].pc \in Waiting =>
                            sub'[s].sess = fire[g].sess /\ sub'[s].lets = Lets(g) /\ ~fire[g].released
                      /\ fire[g].pc \in {"over", "gaveup"} =>
                            \/ Tool \subseteq sub'[s].lets
                            \/ /\ fire[g].pc = "gaveup"
                               /\ \E b \in bound : /\ b.fire = g /\ b.sess = sub'[s].sess
                                                   /\ b.allow \subseteq sub'[s].lets
    BY <1>1 DEF StreamInv
  <1>2. PICK t \in Sub : /\ GoesOn(t) /\ sub[t].of = g
                         /\ sub[t].sess = sub'[s].sess /\ sub[t].lets = sub'[s].lets
    OBVIOUS
  <1>3. \A u \in Sub : GoesOn(u)' /\ sub'[u].of = g => u = s
    OBVIOUS
  <1>4. StreamInv
    BY DEF DispatchInv
  <1> QED
    BY <1>2, <1>3, <1>4 DEF StreamInv

\* Two streams of one fire do not both go on.
LEMMA OneGoesOn ==
    ASSUME DispatchInv, NEW s \in Sub, NEW t \in Sub, GoesOn(s), GoesOn(t),
           sub[s].of # User, sub[s].of = sub[t].of
    PROVE  s = t
  BY DEF DispatchInv, StreamInv

\* Nothing ends and nothing starts.
LEMMA SameStep ==
    ASSUME DispatchInv, sub' \in [Sub -> SubType], UNCHANGED <<row, sessions, claim, fire, inbox, bound, lastGen, recorded>>,
           paused' \in Sub \cup {None}, redrive' \in [old : Sub \cup {None}, new : Sub \cup {None}],
           RunnerInv',
           \A s \in Sub : GoesOn(s)' <=> GoesOn(s),
           \A s \in Sub : /\ sub'[s].of = sub[s].of /\ sub'[s].sess = sub[s].sess
                          /\ sub'[s].lets = sub[s].lets /\ (sub'[s].st = "free" <=> sub[s].st = "free"),
           redrive'.new # None => redrive' = redrive
    PROVE  DispatchInv'
  <1> USE DEF DispatchInv
  <1>1. Types'
    BY DEF Types
  <1>2. ClaimInv' /\ ListInv' /\ FireInv' /\ GenInv' /\ HeldInv'
    BY RunnerFrame
  <1>3. StreamInv'
    <2>1. \A s, u \in Sub : GoesOn(s)' /\ GoesOn(u)' /\ sub'[s].of # User /\ sub'[s].of = sub'[u].of => s = u
      BY OneGoesOn
    <2> QED
      BY <2>1, StreamFrame
  <1>4. InboxInv'
    <2> SUFFICES ASSUME NEW g \in Fire
                 PROVE  /\ inbox[g] # <<>> => Subscribed(g)'
                        /\ \A i \in 1..Len(inbox[g]) :
                              /\ sub'[inbox[g][i].sub].st # "free"
                              /\ inbox[g][i].kind = "resumed" =>
                                    inbox[g][i].new \in Sub /\ sub'[inbox[g][i].new].st # "free"
      BY DEF InboxInv
    <2>1. \A i \in 1..Len(inbox[g]) : inbox[g][i].sub \in Sub
      BY EventAt DEF Event
    <2> QED
      BY <2>1 DEF InboxInv, Subscribed
  <1>5. OwnInv'
    <2> SUFFICES ASSUME NEW g \in Fire, fire[g].pc \in Waiting
                 PROVE  \E own \in SUBSET Sub : OwnOf(g, own)'
      BY DEF OwnInv
    <2>1. PICK own \in SUBSET Sub : OwnOf(g, own)
      BY DEF OwnInv
    <2>2. Silent(g) => Silent(g)'
      BY DEF Silent
    <2>3. \A t \in own \cup fire[g].ended : sub'[t].st # "free"
      BY <2>1, EndedSubs DEF OwnOf
    <2>4. \A t \in Sub : GoesOn(t)' => (t \in own <=> sub'[t].of = g)
      BY <2>1 DEF OwnOf
    <2>5. redrive'.new # None /\ redrive'.old \in own => redrive'.new \in own
      BY <2>1 DEF OwnOf
    <2>6. OwnOf(g, own)'
      BY <2>1, <2>2, <2>3, <2>4, <2>5 DEF OwnOf
    <2> QED
      BY <2>6
  <1> QED
    BY <1>1, <1>2, <1>3, <1>4, <1>5

LEMMA FinishStep == ASSUME DispatchInv, NEW s \in Sub, Finish(s) PROVE DispatchInv'
  <1> USE DEF DispatchInv
  <1>1. PICK full \in BOOLEAN :
           /\ sub[s].st = "running"
           /\ sub' = [sub EXCEPT ![s].st = "finished", ![s].full = full]
           /\ UNCHANGED <<row, sessions, claim, fire, inbox, paused, redrive, bound, lastGen, recorded>>
    BY DEF Finish
  <1> DEFINE rec == [sub[s] EXCEPT !.st = "finished", !.full = full]
  <1>2. rec \in SubType /\ rec.st = "finished" /\ rec.of = sub[s].of /\ rec.sess = sub[s].sess
        /\ rec.lets = sub[s].lets
    BY DEF Types, SubType
  <1>3. sub' = [sub EXCEPT ![s] = rec]
    BY <1>1 DEF Types, SubType
  <1> HIDE DEF rec
  <1>4. sub' \in [Sub -> SubType] /\ sub'[s] = rec /\ \A t \in Sub \ {s} : sub'[t] = sub[t]
    BY <1>2, <1>3, SubUpdate
  <1>5. s # paused /\ s # redrive.old
    BY <1>1, Constants DEF RunnerInv
  <1>6. RunnerInv'
    BY <1>1, <1>2, <1>4, <1>5 DEF RunnerInv, Types
  <1>7. \A t \in Sub : GoesOn(t)' <=> GoesOn(t)
    BY <1>1, <1>2, <1>4 DEF GoesOn
  <1>8. \A t \in Sub : /\ sub'[t].of = sub[t].of /\ sub'[t].sess = sub[t].sess
                       /\ sub'[t].lets = sub[t].lets /\ (sub'[t].st = "free" <=> sub[t].st = "free")
    BY <1>1, <1>2, <1>4
  <1>9. paused' \in Sub \cup {None} /\ redrive' \in [old : Sub \cup {None}, new : Sub \cup {None}]
    BY <1>1 DEF Types
  <1> QED
    BY <1>1, <1>4, <1>6, <1>7, <1>8, <1>9, SameStep

LEMMA PauseStep == ASSUME DispatchInv, NEW s \in Sub, Pause(s) PROVE DispatchInv'
  <1> USE DEF DispatchInv
  <1>1. /\ sub[s].st = "running" /\ paused' = s
        /\ sub' = [t \in Sub |-> IF t = s THEN [sub[t] EXCEPT !.st = "paused"]
                                 ELSE IF t = paused /\ t # redrive.old
                                      THEN [sub[t] EXCEPT !.st = "finished"] ELSE sub[t]]
        /\ UNCHANGED <<row, sessions, claim, fire, inbox, redrive, bound, lastGen, recorded>>
    BY DEF Pause
  <1>2. \A t \in Sub : /\ sub'[t] \in SubType
                       /\ sub'[t].of = sub[t].of /\ sub'[t].sess = sub[t].sess
                       /\ sub'[t].lets = sub[t].lets
                       /\ sub'[t].st = IF t = s THEN "paused"
                                       ELSE IF t = paused /\ t # redrive.old THEN "finished" ELSE sub[t].st
    <2> TAKE t \in Sub
    <2>1. sub[t] \in SubType
      BY DEF Types
    <2>2. CASE t = s
      BY <1>1, <2>1, <2>2 DEF SubType
    <2>3. CASE t # s /\ t = paused /\ t # redrive.old
      BY <1>1, <2>1, <2>3 DEF SubType
    <2>4. CASE t # s /\ ~(t = paused /\ t # redrive.old)
      BY <1>1, <2>1, <2>4 DEF SubType
    <2> QED
      BY <2>2, <2>3, <2>4
  <1>3. sub' \in [Sub -> SubType]
    BY <1>1, <1>2
  <1>9. /\ sub[s].st = "running" /\ paused' = s
        /\ UNCHANGED <<row, sessions, claim, fire, inbox, redrive, bound, lastGen, recorded>>
    BY <1>1
  <1>4. s # redrive.old /\ s # paused /\ \A t \in Sub : t = paused => sub[t].st = "paused"
    BY <1>9, Constants DEF RunnerInv, Types
  <1>5. RunnerInv'
    <2>1. paused' # None => sub'[paused'].st = "paused"
      BY <1>2, <1>9
    <2>2. redrive'.old # None => sub'[redrive'.old].st = "paused"
      BY <1>2, <1>4, <1>9 DEF RunnerInv, Types
    <2>3. redrive'.new # None => /\ redrive'.old # None /\ redrive'.old # redrive'.new
                                 /\ sub'[redrive'.new].st # "free"
      BY <1>2, <1>9 DEF RunnerInv, Types
    <2>4. \A t \in Sub : sub'[t].st = "paused" => t \in {paused', redrive'.old}
      BY <1>2, <1>4, <1>9 DEF RunnerInv
    <2>5. \A t \in Sub : sub'[t].st \in {"free", "closed"} => sub'[t].of = User
      BY <1>2 DEF RunnerInv
    <2> QED
      BY <2>1, <2>2, <2>3, <2>4, <2>5 DEF RunnerInv
  <1>6. \A t \in Sub : GoesOn(t)' <=> GoesOn(t)
    BY <1>9, <1>2, <1>4 DEF GoesOn
  <1>7. \A t \in Sub : sub'[t].st = "free" <=> sub[t].st = "free"
    BY <1>9, <1>2, <1>4
  <1>8. paused' \in Sub \cup {None} /\ redrive' \in [old : Sub \cup {None}, new : Sub \cup {None}]
    BY <1>9 DEF Types
  <1> QED
    BY <1>9, <1>2, <1>3, <1>5, <1>6, <1>7, <1>8, SameStep

LEMMA RedriveLastTurnStep == ASSUME DispatchInv, RedriveLastTurn PROVE DispatchInv'
  <1> USE DEF DispatchInv
  <1>1. /\ paused # None /\ redrive.old = None /\ redrive' = [old |-> paused, new |-> None]
        /\ UNCHANGED <<row, sessions, claim, fire, inbox, sub, paused, bound, lastGen, recorded>>
    BY DEF RedriveLastTurn
  <1>2. redrive'.old = paused /\ redrive'.new = None /\ redrive.new = None
    BY <1>1 DEF RunnerInv
  <1>3. RunnerInv'
    BY <1>1, <1>2, Constants DEF RunnerInv, Types
  <1>4. \A t \in Sub : GoesOn(t)' <=> GoesOn(t)
    BY <1>1, <1>2 DEF GoesOn
  <1>5. sub' \in [Sub -> SubType] /\ paused' \in Sub \cup {None}
        /\ redrive' \in [old : Sub \cup {None}, new : Sub \cup {None}]
    BY <1>1 DEF Types
  <1> QED
    BY <1>1, <1>2, <1>3, <1>4, <1>5, SameStep

LEMMA RedriveFailsStep == ASSUME DispatchInv, RedriveFails PROVE DispatchInv'
  <1> USE DEF DispatchInv
  <1> DEFINE old == redrive.old
             rec == [sub[old] EXCEPT !.st = "finished"]
  <1>1. /\ old # None /\ redrive.new = None /\ sub' = [sub EXCEPT ![old] = rec]
        /\ paused' = (IF paused = old THEN None ELSE paused) /\ redrive' = [old |-> None, new |-> None]
        /\ UNCHANGED <<row, sessions, claim, fire, inbox, bound, lastGen, recorded>>
    BY DEF RedriveFails, RedriveOver
  <1>2. old \in Sub /\ sub[old].st = "paused"
    BY <1>1 DEF RunnerInv, Types
  <1>3. /\ rec \in SubType /\ rec.st = "finished" /\ rec.of = sub[old].of /\ rec.sess = sub[old].sess
        /\ rec.lets = sub[old].lets
    <2>1. sub[old] \in SubType
      BY <1>2 DEF Types
    <2> QED
      BY <2>1 DEF SubType
  <1> HIDE DEF rec, old
  <1>4. sub' \in [Sub -> SubType] /\ sub'[old] = rec /\ \A t \in Sub \ {old} : sub'[t] = sub[t]
    BY <1>1, <1>2, <1>3, SubUpdate
  <1>5. redrive'.old = None /\ redrive'.new = None
    BY <1>1
  <1>6. RunnerInv'
    BY <1>1, <1>2, <1>3, <1>4, <1>5 DEF RunnerInv, Types, old
  <1>7. \A t \in Sub : GoesOn(t)' <=> GoesOn(t)
    BY <1>1, <1>2, <1>3, <1>4, <1>5 DEF GoesOn
  <1>8. \A t \in Sub : /\ sub'[t].of = sub[t].of /\ sub'[t].sess = sub[t].sess
                       /\ sub'[t].lets = sub[t].lets /\ (sub'[t].st = "free" <=> sub[t].st = "free")
    BY <1>2, <1>3, <1>4
  <1>9. paused' \in Sub \cup {None} /\ redrive' \in [old : Sub \cup {None}, new : Sub \cup {None}]
    BY <1>1 DEF Types
  <1> QED
    BY <1>1, <1>4, <1>5, <1>6, <1>7, <1>8, <1>9, SameStep

\* A stream takes over: the user's, or the redrive of one that was paused. It is the
\* run's if that one was.
LEMMA TakeOverStep ==
    ASSUME DispatchInv, NEW s \in Sub, sub[s].st = "free",
           NEW rec \in SubType, rec.st = "running", sub' = [sub EXCEPT ![s] = rec],
           UNCHANGED <<row, sessions, claim, fire, inbox, paused, bound, lastGen, recorded>>,
           \/ redrive' = redrive /\ rec.of = User
           \/ /\ redrive.old # None /\ redrive.new = None /\ redrive' = [redrive EXCEPT !.new = s]
              /\ rec.of = sub[redrive.old].of /\ rec.sess = sub[redrive.old].sess
              /\ rec.lets = sub[redrive.old].lets
    PROVE  DispatchInv'
  <1> USE DEF DispatchInv
  <1>1. sub' \in [Sub -> SubType] /\ sub'[s] = rec /\ \A t \in Sub \ {s} : sub'[t] = sub[t]
    BY SubUpdate
  <1>2. s # paused /\ s # redrive.old /\ s # redrive.new
    BY Constants DEF RunnerInv, Types
  <1>3. /\ redrive' \in [old : Sub \cup {None}, new : Sub \cup {None}] /\ redrive'.old = redrive.old
        /\ redrive'.new \in {redrive.new, s} /\ (redrive'.new = s => redrive.new = None /\ redrive.old # None)
        /\ (redrive'.new = s \/ redrive' = redrive)
    BY <1>2 DEF Types
  <1>4. Types'
    BY <1>1, <1>3 DEF Types
  <1>5. RunnerInv'
    <2>1. paused # None => sub'[paused].st = "paused"
      BY <1>1, <1>2 DEF RunnerInv, Types
    <2>2. redrive.old # None => sub'[redrive.old].st = "paused"
      BY <1>1, <1>2 DEF RunnerInv, Types
    <2>3. redrive'.new # None => /\ redrive.old # None /\ redrive.old # redrive'.new
                                 /\ sub'[redrive'.new].st # "free"
      BY <1>1, <1>2, <1>3 DEF RunnerInv, Types
    <2>4. \A t \in Sub : sub'[t].st = "paused" => t \in {paused, redrive.old}
      BY <1>1 DEF RunnerInv
    <2>5. \A t \in Sub : sub'[t].st \in {"free", "closed"} => sub'[t].of = User
      BY <1>1 DEF RunnerInv
    <2> QED
      BY <1>3, <2>1, <2>2, <2>3, <2>4, <2>5 DEF RunnerInv
  <1>6. ClaimInv' /\ ListInv' /\ FireInv' /\ GenInv' /\ HeldInv'
    BY RunnerFrame
  <1>7. InboxInv'
    <2> SUFFICES ASSUME NEW g \in Fire
                 PROVE  /\ inbox[g] # <<>> => Subscribed(g)'
                        /\ \A i \in 1..Len(inbox[g]) :
                              /\ sub'[inbox[g][i].sub].st # "free"
                              /\ inbox[g][i].kind = "resumed" =>
                                    inbox[g][i].new \in Sub /\ sub'[inbox[g][i].new].st # "free"
      BY DEF InboxInv
    <2>1. \A i \in 1..Len(inbox[g]) : inbox[g][i].sub \in Sub
      BY EventAt DEF Event
    <2>2. \A t \in Sub : sub[t].st # "free" => sub'[t].st # "free"
      BY <1>1
    <2> QED
      BY <2>1, <2>2 DEF InboxInv, Subscribed
  <1>8. ~GoesOn(s)
    BY DEF GoesOn
  <1>9. CASE redrive' = redrive /\ rec.of = User
    <2>1. \A t \in Sub : GoesOn(t)' <=> GoesOn(t) \/ t = s
      BY <1>1, <1>2, <1>9 DEF GoesOn
    <2>2. StreamInv'
      <3>1. \A t \in Sub : GoesOn(t)' /\ sub'[t].of # User => GoesOn(t) /\ sub'[t] = sub[t]
        BY <1>1, <1>9, <2>1
      <3>2. \A t, u \in Sub : GoesOn(t)' /\ GoesOn(u)' /\ sub'[t].of # User /\ sub'[t].of = sub'[u].of => t = u
        BY <3>1, OneGoesOn
      <3> QED
        BY <1>1, <3>1, <3>2, StreamFrame
    <2>3. OwnInv'
      <3> SUFFICES ASSUME NEW g \in Fire, fire[g].pc \in Waiting
                   PROVE  \E own \in SUBSET Sub : OwnOf(g, own)'
        BY DEF OwnInv
      <3>1. PICK own \in SUBSET Sub : OwnOf(g, own)
        BY DEF OwnInv
      <3>2. s \notin own
        BY <3>1 DEF OwnOf
      <3>3. Silent(g) => Silent(g)'
        BY <1>1, <1>9, <2>1, Constants DEF Silent
      <3>4. /\ \A t \in own \cup fire[g].ended : sub'[t].st # "free"
            /\ \A t \in Sub : GoesOn(t)' => (t \in own <=> sub'[t].of = g)
        BY <1>1, <1>9, <2>1, <3>1, <3>2, Constants, EndedSubs DEF OwnOf
      <3>5. OwnOf(g, own)'
        BY <1>9, <3>1, <3>3, <3>4 DEF OwnOf
      <3> QED
        BY <3>5
    <2> QED
      BY <1>4, <1>5, <1>6, <1>7, <2>2, <2>3
  <1>10. CASE /\ redrive.old # None /\ redrive.new = None /\ redrive' = [redrive EXCEPT !.new = s]
              /\ rec.of = sub[redrive.old].of /\ rec.sess = sub[redrive.old].sess
              /\ rec.lets = sub[redrive.old].lets
    <2> DEFINE old == redrive.old
    <2>1. old \in Sub /\ GoesOn(old) /\ redrive'.new = s /\ redrive'.old = old /\ s # None
      BY <1>10, Constants DEF GoesOn, RunnerInv, Types
    <2> HIDE DEF old
    <2>2. \A t \in Sub : GoesOn(t)' <=> (GoesOn(t) /\ t # old) \/ t = s
      <3>1. \A t \in Sub : GoesOn(t) <=> sub[t].st \in {"running", "paused", "finished"}
        BY <1>10 DEF GoesOn
      <3>2. \A t \in Sub : GoesOn(t)' <=> sub'[t].st \in {"running", "paused", "finished"} /\ t # old
        BY <2>1 DEF GoesOn
      <3>3. s # old
        BY <1>2 DEF old
      <3> QED
        BY <1>1, <3>1, <3>2, <3>3
    <2>3. StreamInv'
      <3>1. \A t \in Sub : GoesOn(t)' => \E u \in Sub :
               /\ GoesOn(u) /\ sub[u].of = sub'[t].of /\ sub[u].sess = sub'[t].sess
               /\ sub[u].lets = sub'[t].lets /\ u = IF t = s THEN old ELSE t
        BY <1>1, <1>10, <2>1, <2>2 DEF old
      <3>2. ASSUME NEW t \in Sub, NEW u \in Sub, GoesOn(t)', GoesOn(u)', sub'[t].of # User,
                   sub'[t].of = sub'[u].of
            PROVE  t = u
        <4>1. PICK t0 \in Sub : GoesOn(t0) /\ sub[t0].of = sub'[t].of /\ t0 = IF t = s THEN old ELSE t
          BY <3>1, <3>2
        <4>2. PICK u0 \in Sub : GoesOn(u0) /\ sub[u0].of = sub'[u].of /\ u0 = IF u = s THEN old ELSE u
          BY <3>1, <3>2
        <4>3. t0 = u0
          BY <3>2, <4>1, <4>2, OneGoesOn
        <4> QED
          BY <2>2, <3>2, <4>1, <4>2, <4>3
      <3> QED
        BY <1>1, <3>1, <3>2, StreamFrame
    <2>4. OwnInv'
      <3> SUFFICES ASSUME NEW g \in Fire, fire[g].pc \in Waiting
                   PROVE  \E own \in SUBSET Sub : OwnOf(g, own)'
        BY DEF OwnInv
      <3>1. PICK own \in SUBSET Sub : OwnOf(g, own)
        BY DEF OwnInv
      <3>2. s \notin own /\ (old \in own <=> sub[old].of = g)
        BY <2>1, <3>1 DEF OwnOf
      <3>10. PICK own2 \in SUBSET Sub : own2 = IF old \in own THEN own \cup {s} ELSE own
        OBVIOUS
      <3>3. Silent(g) => Silent(g)'
        BY <1>1, <1>10, <2>1, <2>2 DEF Silent, old
      <3>4. /\ fire[g].owned \subseteq own2
            /\ \A t \in own2 \cup fire[g].ended : sub'[t].st # "free"
            /\ \A t \in Sub : t # s => (t \in own2 <=> t \in own)
            /\ s \in own2 <=> sub[old].of = g
        BY <1>1, <3>1, <3>2, <3>10, EndedSubs DEF OwnOf
      <3>5. \A t \in Sub : GoesOn(t)' => (t \in own2 <=> sub'[t].of = g)
        <4> TAKE t \in Sub
        <4>1. CASE t = s
          BY <1>1, <1>10, <3>4, <4>1 DEF old
        <4>2. CASE t # s
          BY <1>1, <2>2, <3>1, <3>4, <4>2 DEF OwnOf
        <4> QED
          BY <4>1, <4>2
      <3>6. old \in own2 => s \in own2
        BY <1>2, <2>1, <3>2, <3>4 DEF old
      <3>7. \A i \in 1..Len(inbox[g]) :
               IF inbox[g][i].kind = "closed" THEN inbox[g][i].sub \in own2 => Silent(g)'
               ELSE inbox[g][i].sub \in own2 => inbox[g][i].new \in own2
        <4> TAKE i \in 1..Len(inbox[g])
        <4>1. inbox[g][i] \in Event
          BY EventAt
        <4>2. inbox[g][i].sub \in Sub /\ inbox[g][i].sub # s
          BY <4>1 DEF Event, InboxInv
        <4>3. CASE inbox[g][i].kind = "closed"
          BY <3>1, <3>3, <3>4, <4>2, <4>3 DEF OwnOf
        <4>4. CASE inbox[g][i].kind # "closed"
          <5>1. inbox[g][i].new \in Sub /\ inbox[g][i].new # s
            BY <4>1, <4>4 DEF Event, InboxInv
          <5> QED
            BY <3>1, <3>4, <4>2, <4>4, <5>1 DEF OwnOf
        <4> QED
          BY <4>3, <4>4
      <3>8. fire[g].ended \cap own2 # {} => Silent(g)'
        <4>1. SUFFICES ASSUME NEW e \in fire[g].ended, e \in own2 PROVE Silent(g)'
          OBVIOUS
        <4>2. CASE e \in own
          BY <3>1, <3>3, <4>2 DEF OwnOf
        <4>3. CASE e \notin own
          <5>1. e \in Sub
            BY DEF Types, FireType
          <5>2. e = s
            BY <3>4, <4>1, <4>3, <5>1
          <5>3. FALSE
            BY <3>1, <4>1, <5>2 DEF OwnOf
          <5> QED
            BY <5>3
        <4> QED
          BY <4>2, <4>3
      <3>9. OwnOf(g, own2)'
        BY <2>1, <3>4, <3>5, <3>6, <3>7, <3>8 DEF OwnOf
      <3> QED
        BY <3>9
    <2> QED
      BY <1>4, <1>5, <1>6, <1>7, <2>3, <2>4
  <1> QED
    BY <1>9, <1>10

LEMMA UserTurnStep == ASSUME DispatchInv, NEW c \in Session, UserTurn(c) PROVE DispatchInv'
  <1>1. PICK s \in Sub : NextSub(s) /\ sub' = [sub EXCEPT ![s] = Started(c, User, Tool)]
    BY DEF UserTurn
  <1> DEFINE rec == Started(c, User, Tool)
  <1>2. rec \in SubType /\ rec.st = "running" /\ rec.of = User
    BY StartedType
  <1> HIDE DEF rec
  <1>3. sub[s].st = "free" /\ sub' = [sub EXCEPT ![s] = rec]
    BY <1>1 DEF NextSub, rec
  <1>4. UNCHANGED <<row, sessions, claim, fire, inbox, paused, redrive, bound, lastGen, recorded>>
    BY DEF UserTurn
  <1> QED
    BY <1>2, <1>3, <1>4, TakeOverStep

LEMMA RedriveStartStep == ASSUME DispatchInv, RedriveStart PROVE DispatchInv'
  <1>1. PICK s \in Sub :
           /\ NextSub(s) /\ redrive' = [redrive EXCEPT !.new = s]
           /\ sub' = [sub EXCEPT ![s] = Started(sub[redrive.old].sess, sub[redrive.old].of,
                                              sub[redrive.old].lets)]
    BY DEF RedriveStart
  <1>2. /\ redrive.old # None /\ redrive.new = None
        /\ UNCHANGED <<row, sessions, claim, fire, inbox, paused, bound, lastGen, recorded>>
    BY DEF RedriveStart
  <1> DEFINE was == sub[redrive.old]
             rec == Started(was.sess, was.of, was.lets)
  <1>3. was \in SubType
    BY <1>2 DEF DispatchInv, Types
  <1>4. was.sess \in Session \cup {None} /\ was.of \in Fire \cup {User} /\ was.lets \in SUBSET Tool
    BY <1>3 DEF SubType
  <1> HIDE DEF was
  <1>5. /\ rec \in SubType /\ rec.st = "running"
        /\ rec.of = was.of /\ rec.sess = was.sess /\ rec.lets = was.lets
    BY <1>4 DEF Started, SubType
  <1> HIDE DEF rec
  <1>6. sub[s].st = "free" /\ sub' = [sub EXCEPT ![s] = rec]
    BY <1>1 DEF NextSub, rec, was
  <1>7. rec.of = sub[redrive.old].of /\ rec.sess = sub[redrive.old].sess /\ rec.lets = sub[redrive.old].lets
    BY <1>5 DEF was
  <1> QED
    BY <1>1, <1>2, <1>5, <1>6, <1>7, TakeOverStep

\* A stream ends and that is announced: its close, or that another continues it.
LEMMA AnnounceStep ==
    ASSUME DispatchInv, NEW x \in Sub, sub[x].st # "free", sub' = [sub EXCEPT ![x] = EndedSub],
           NEW ev \in Event, ev.sub = x, Publish(ev),
           UNCHANGED <<row, sessions, claim, fire, bound, lastGen, recorded>>,
           paused' \in Sub \cup {None}, redrive' \in [old : Sub \cup {None}, new : Sub \cup {None}],
           RunnerInv', redrive'.new # None => redrive' = redrive,
           \A t \in Sub : GoesOn(t)' <=> GoesOn(t) /\ t # x,
           \/ ev.kind = "closed" /\ GoesOn(x)
           \/ /\ ev.kind = "resumed" /\ redrive.old = x /\ redrive.new # None /\ ev.new = redrive.new
    PROVE  DispatchInv'
  <1> USE DEF DispatchInv
  <1>1. sub' \in [Sub -> SubType] /\ sub'[x] = EndedSub /\ \A t \in Sub \ {x} : sub'[t] = sub[t]
    BY SubUpdate, RestTypes
  <1>2. \A t \in Sub : sub[t].st # "free" => sub'[t].st # "free"
    BY <1>1, RestTypes
  <1>3. /\ inbox' \in [Fire -> Seq(Event)]
        /\ \A g \in Fire : inbox'[g] # <<>> => inbox[g] # <<>> \/ Subscribed(g)
        /\ \A g \in Fire : \A i \in 1..Len(inbox'[g]) :
              \/ i \in 1..Len(inbox[g]) /\ inbox'[g][i] = inbox[g][i]
              \/ inbox'[g][i] = ev
    BY PublishStep
  <1>4. Types'
    BY <1>1, <1>3 DEF Types
  <1>5. ClaimInv' /\ ListInv' /\ FireInv' /\ GenInv' /\ HeldInv'
    BY RunnerFrame
  <1>6. StreamInv'
    <2>1. \A t \in Sub : GoesOn(t)' => GoesOn(t) /\ sub'[t] = sub[t]
      BY <1>1
    <2>2. \A t, u \in Sub : GoesOn(t)' /\ GoesOn(u)' /\ sub'[t].of # User /\ sub'[t].of = sub'[u].of => t = u
      BY <2>1, OneGoesOn
    <2> QED
      BY <1>1, <2>1, <2>2, StreamFrame
  <1>7. ev.kind = "resumed" => ev.new \in Sub /\ sub[ev.new].st # "free"
    BY DEF Types, RunnerInv
  <1>8. InboxInv'
    <2> SUFFICES ASSUME NEW g \in Fire
                 PROVE  /\ inbox'[g] # <<>> => Subscribed(g)'
                        /\ \A i \in 1..Len(inbox'[g]) :
                              /\ sub'[inbox'[g][i].sub].st # "free"
                              /\ inbox'[g][i].kind = "resumed" =>
                                    inbox'[g][i].new \in Sub /\ sub'[inbox'[g][i].new].st # "free"
      BY DEF InboxInv
    <2>1. inbox'[g] # <<>> => Subscribed(g)'
      BY <1>3 DEF InboxInv, Subscribed
    <2>2. ASSUME NEW i \in 1..Len(inbox'[g])
          PROVE  /\ sub'[inbox'[g][i].sub].st # "free"
                 /\ inbox'[g][i].kind = "resumed" =>
                       inbox'[g][i].new \in Sub /\ sub'[inbox'[g][i].new].st # "free"
      <3>1. CASE i \in 1..Len(inbox[g]) /\ inbox'[g][i] = inbox[g][i]
        <4>1. inbox[g][i].sub \in Sub
          BY <3>1, EventAt DEF Event
        <4> QED
          BY <1>2, <3>1, <4>1 DEF InboxInv
      <3>2. CASE inbox'[g][i] = ev
        BY <1>2, <1>7, <3>2
      <3> QED
        BY <1>3, <3>1, <3>2
    <2> QED
      BY <2>1, <2>2
  <1>9. OwnInv'
    <2> SUFFICES ASSUME NEW g \in Fire, fire[g].pc \in Waiting
                 PROVE  \E own \in SUBSET Sub : OwnOf(g, own)'
      BY DEF OwnInv
    <2>1. PICK own \in SUBSET Sub : OwnOf(g, own)
      BY DEF OwnInv
    <2>2. Silent(g) => Silent(g)'
      BY <1>1 DEF Silent
    <2>3. \A t \in own \cup fire[g].ended : sub'[t].st # "free"
      BY <1>2, <2>1, EndedSubs DEF OwnOf
    <2>4. \A t \in Sub : GoesOn(t)' => (t \in own <=> sub'[t].of = g)
      BY <1>1, <2>1 DEF OwnOf
    <2>5. redrive'.new # None /\ redrive'.old \in own => redrive'.new \in own
      BY <2>1 DEF OwnOf
    <2>6. ev.kind = "closed" /\ x \in own => Silent(g)'
      <3> SUFFICES ASSUME ev.kind = "closed", x \in own, NEW t \in Sub, GoesOn(t)' PROVE sub'[t].of # g
        BY DEF Silent
      <3>1. GoesOn(x) /\ sub[x].of = g /\ g # User
        BY <2>1, Constants DEF OwnOf
      <3>2. GoesOn(t) /\ t # x /\ sub'[t] = sub[t]
        BY <1>1
      <3> QED
        BY <3>1, <3>2, OneGoesOn
    <2>7. ev.kind = "resumed" /\ x \in own => ev.new \in own
      BY <2>1 DEF OwnOf
    <2>8. \A i \in 1..Len(inbox'[g]) :
             IF inbox'[g][i].kind = "closed" THEN inbox'[g][i].sub \in own => Silent(g)'
             ELSE inbox'[g][i].sub \in own => inbox'[g][i].new \in own
      <3> TAKE i \in 1..Len(inbox'[g])
      <3>1. CASE i \in 1..Len(inbox[g]) /\ inbox'[g][i] = inbox[g][i]
        BY <2>1, <2>2, <3>1 DEF OwnOf
      <3>2. CASE inbox'[g][i] = ev
        BY <2>6, <2>7, <3>2
      <3> QED
        BY <1>3, <3>1, <3>2
    <2>9. OwnOf(g, own)'
      BY <2>1, <2>2, <2>3, <2>4, <2>5, <2>8 DEF OwnOf
    <2> QED
      BY <2>9
  <1> QED
    BY <1>4, <1>5, <1>6, <1>8, <1>9

LEMMA EmitClosedStep == ASSUME DispatchInv, NEW s \in Sub, EmitClosed(s) PROVE DispatchInv'
  <1> USE DEF DispatchInv
  <1> DEFINE ev == [kind |-> "closed", sub |-> s, new |-> None, sess |-> sub[s].sess, full |-> sub[s].full]
  <1>1. /\ sub[s].st = "finished" /\ sub' = [sub EXCEPT ![s] = EndedSub] /\ Publish(ev)
        /\ UNCHANGED <<row, sessions, claim, fire, paused, redrive, bound, lastGen, recorded>>
    BY DEF EmitClosed
  <1>2. ev \in Event /\ ev.sub = s /\ ev.kind = "closed"
    <2>1. sub[s] \in SubType
      BY DEF Types
    <2> QED
      BY <2>1 DEF SubType, Event
  <1> HIDE DEF ev
  <1>3. sub' \in [Sub -> SubType] /\ sub'[s] = EndedSub /\ \A t \in Sub \ {s} : sub'[t] = sub[t]
    BY <1>1, SubUpdate, RestTypes
  <1>4. s # paused /\ s # redrive.old /\ GoesOn(s)
    BY <1>1, Constants DEF RunnerInv, GoesOn
  <1>5. \A t \in Sub : GoesOn(t)' <=> GoesOn(t) /\ t # s
    BY <1>1, <1>3, RestTypes DEF GoesOn
  <1>6. RunnerInv'
    BY <1>1, <1>3, <1>4, RestTypes DEF RunnerInv, Types
  <1>7. paused' \in Sub \cup {None} /\ redrive' \in [old : Sub \cup {None}, new : Sub \cup {None}]
    BY <1>1 DEF Types
  <1> QED
    BY <1>1, <1>2, <1>4, <1>5, <1>6, <1>7, AnnounceStep

LEMMA RedriveLinkStep == ASSUME DispatchInv, RedriveLink PROVE DispatchInv'
  <1> USE DEF DispatchInv
  <1> DEFINE old == redrive.old
             ev == [kind |-> "resumed", sub |-> old, new |-> redrive.new, sess |-> sub[old].sess, full |-> FALSE]
  <1>1. /\ redrive.new # None /\ sub' = [sub EXCEPT ![old] = EndedSub] /\ Publish(ev)
        /\ paused' = (IF paused = old THEN None ELSE paused) /\ redrive' = [old |-> None, new |-> None]
        /\ UNCHANGED <<row, sessions, claim, fire, bound, lastGen, recorded>>
    BY DEF RedriveLink, RedriveOver
  <1>2. /\ old \in Sub /\ sub[old].st = "paused" /\ redrive.new \in Sub /\ redrive.new # old
        /\ sub[redrive.new].st # "free"
    BY <1>1 DEF RunnerInv, Types
  <1>3. ev \in Event /\ ev.sub = old /\ ev.kind = "resumed" /\ ev.new = redrive.new
    <2>1. sub[old] \in SubType
      BY <1>2 DEF Types
    <2> QED
      BY <1>2, <2>1 DEF SubType, Event
  <1>4. redrive.old = old
    OBVIOUS
  <1> HIDE DEF ev, old
  <1>5. sub' \in [Sub -> SubType] /\ sub'[old] = EndedSub /\ \A t \in Sub \ {old} : sub'[t] = sub[t]
    BY <1>1, <1>2, SubUpdate, RestTypes
  <1>6. redrive'.old = None /\ redrive'.new = None
    BY <1>1
  <1>7. RunnerInv'
    BY <1>1, <1>2, <1>4, <1>5, <1>6, RestTypes DEF RunnerInv, Types
  <1>8. \A t \in Sub : GoesOn(t)' <=> GoesOn(t) /\ t # old
    BY <1>1, <1>4, <1>5, <1>6, RestTypes DEF GoesOn
  <1>9. paused' \in Sub \cup {None} /\ redrive' \in [old : Sub \cup {None}, new : Sub \cup {None}]
    BY <1>1 DEF Types
  <1>10. sub[old].st # "free"
    BY <1>2
  <1> QED
    BY <1>1, <1>2, <1>3, <1>4, <1>6, <1>7, <1>8, <1>9, <1>10, AnnounceStep

-----------------------------------------------------------------------------
(* The user, and every step.                                               *)

LEMMA RestFrame ==
    ASSUME DispatchInv, row' \in [there : BOOLEAN, list : RowList, sess : Session \cup {None}],
           sessions' \subseteq Session,
           UNCHANGED <<claim, fire, inbox, sub, paused, redrive, bound, lastGen, recorded>>
    PROVE  DispatchInv'
  <1> USE DEF DispatchInv
  <1>1. Types'
    BY DEF Types
  <1>2. RunnerInv' /\ ClaimInv' /\ InboxInv'
    BY DEF RunnerInv, ClaimInv, InboxInv, Subscribed
  <1>3. ListInv' /\ FireInv' /\ GenInv' /\ HeldInv'
    BY RunnerFrame
  <1>4. StreamInv'
    BY DEF StreamInv, GoesOn, Lets
  <1>5. OwnInv'
    <2>1. \A s \in Sub : GoesOn(s)' <=> GoesOn(s)
      BY DEF GoesOn
    <2>2. ASSUME NEW g \in Fire, NEW own \in SUBSET Sub, OwnOf(g, own) PROVE OwnOf(g, own)'
      <3>1. Silent(g)' <=> Silent(g)
        BY <2>1 DEF Silent
      <3> QED
        BY <2>1, <2>2, <3>1 DEF OwnOf
    <2> QED
      BY <2>2 DEF OwnInv
  <1> QED
    BY <1>1, <1>2, <1>3, <1>4, <1>5

LEMMA EditStep == ASSUME DispatchInv, Edit PROVE DispatchInv'
  <1>1. row \in [there : BOOLEAN, list : RowList, sess : Session \cup {None}] /\ sessions \subseteq Session
    BY DEF DispatchInv, Types
  <1>2. row' \in [there : BOOLEAN, list : RowList, sess : Session \cup {None}]
    <2>1. CASE \E list \in Lists \cup {Corrupt} : row' = [row EXCEPT !.list = list]
      BY <1>1, <2>1 DEF RowList
    <2>2. CASE row' = [row EXCEPT !.there = FALSE]
      BY <1>1, <2>2
    <2> QED
      BY <2>1, <2>2 DEF Edit
  <1> QED
    BY <1>1, <1>2, RestFrame DEF Edit

LEMMA DeleteSessionStep == ASSUME DispatchInv, NEW c \in Session, DeleteSession(c) PROVE DispatchInv'
  BY RestFrame DEF DeleteSession, DispatchInv, Types

LEMMA DispatchNext == DispatchInv /\ [Next]_vars => DispatchInv'
  <1> SUFFICES ASSUME DispatchInv, [Next]_vars PROVE DispatchInv'
    OBVIOUS
  <1>1. ASSUME NEW f \in Fire,
               \/ FireGet(f) \/ Reload(f) \/ Claim(f) \/ Converse(f) \/ ConversePaused(f)
               \/ Arm(f) \/ Start(f)
               \/ Hear(f) \/ Retry(f) \/ RetryPaused(f) \/ Deadline(f) \/ Drained(f) \/ GiveUp(f)
        PROVE  DispatchInv'
    BY <1>1, FireGetStep, ReloadStep, ClaimStep, ConverseStep, ConversePausedStep, ArmStep,
       StartStep, HearStep, RetryStep, RetryPausedStep, DeadlineStep, DrainedStep, GiveUpStep
  <1>2. ASSUME NEW s \in Sub, Finish(s) \/ EmitClosed(s) \/ Pause(s) PROVE DispatchInv'
    BY <1>2, FinishStep, EmitClosedStep, PauseStep
  <1>3. CASE RedriveLastTurn \/ RedriveStart \/ RedriveLink \/ RedriveFails
    BY <1>3, RedriveLastTurnStep, RedriveStartStep, RedriveLinkStep, RedriveFailsStep
  <1>4. ASSUME NEW c \in Session, UserTurn(c) \/ DeleteSession(c) PROVE DispatchInv'
    BY <1>4, UserTurnStep, DeleteSessionStep
  <1>5. CASE Edit
    BY <1>5, EditStep
  <1>6. CASE UNCHANGED vars
    <2>1. UNCHANGED <<row, sessions, claim, fire, inbox, sub, paused, redrive, bound, lastGen, recorded>>
      BY <1>6 DEF vars
    <2> QED
      BY <2>1, RestFrame DEF DispatchInv, Types
  <1> QED
    BY <1>1, <1>2, <1>3, <1>4, <1>5, <1>6 DEF Next

\* A run that may use every tool is not confined; any other stream that goes on is
\* held by an outstanding generation with a list it was let through with.
LEMMA ConfinedHolds == DispatchInv => Confined
  <1> SUFFICES ASSUME DispatchInv, NEW s \in Sub, sub[s].st = "running", sub[s].of # User
               PROVE  Check(sub[s].sess) \subseteq sub[s].lets
    BY DEF Confined
  <1> USE DEF DispatchInv
  <1> DEFINE f == sub[s].of
  <1>1. f \in Fire
    BY DEF Types, SubType
  <1>2. GoesOn(s)
    BY DEF GoesOn, RunnerInv
  <1>3. Check(sub[s].sess) \subseteq Tool
    BY DEF Check
  <1>4. ASSUME NEW b \in bound, b.sess = sub[s].sess, b.allow \subseteq sub[s].lets
        PROVE  Check(sub[s].sess) \subseteq sub[s].lets
    BY <1>4 DEF Check
  <1>5. CASE fire[f].pc \in {"over", "gaveup"}
    BY <1>2, <1>3, <1>4, <1>5 DEF StreamInv
  <1>6. CASE fire[f].pc \in Waiting
    <2>1. sub[s].sess = fire[f].sess /\ sub[s].lets = Lets(f) /\ ~fire[f].released
      BY <1>2, <1>6 DEF StreamInv
    <2>2. fire[f].pc \in Read /\ fire[f].pc \in {"armed", "wait", "drain", "watch"}
      BY <1>6 DEF Waiting, Read
    <2>3. CASE fire[f].contained
      <3>1. fire[f].allow \subseteq Lets(f)
        BY <1>1, <2>2, <2>3 DEF ListInv
      <3>2. PICK b \in bound : b = [sess |-> fire[f].sess, gen |-> fire[f].gen,
                                    allow |-> fire[f].allow, fire |-> f]
        BY <1>1, <2>1, <2>2, <2>3 DEF HeldInv
      <3>3. b.sess = sub[s].sess /\ b.allow \subseteq sub[s].lets
        BY <2>1, <3>1, <3>2
      <3> QED
        BY <1>4, <3>3
    <2>4. CASE ~fire[f].contained
      BY <1>1, <1>3, <2>1, <2>2, <2>4 DEF ListInv
    <2> QED
      BY <2>3, <2>4
  <1> QED
    BY <1>2, <1>5, <1>6 DEF StreamInv

LEMMA DispatchAlways == Spec => []DispatchInv
  BY DispatchInit, DispatchNext, PTL DEF Spec

\* Every part has its type; a fire that has its history row has returned and holds the
\* claim no longer, nothing is left in an inbox without a subscription, and
\* the registry never numbers two generations alike (chat_run_dispatcher.go:334-337,
\* scheduled_run_containment.go).
THEOREM DispatchTypes == Spec => []TypeOK
  <1>1. DispatchInv => TypeOK
    BY Constants DEF DispatchInv, TypeOK, Types, ClaimInv, InboxInv, GenInv, RowList, Claimed
  <1> QED
    BY <1>1, DispatchAlways, PTL

\* A scheduled turn uses no tool outside the lists the gate and the dispatcher let it
\* through with, for any number of fires, streams, pauses and redrives, past the deadline
\* and whatever else ends in its conversation (chat_run_dispatcher.go:293-296, 403-406,
\* 479-481, 534-549, 604-678).
THEOREM DispatchConfined == Spec => []Confined
  BY ConfinedHolds, DispatchAlways, PTL

-----------------------------------------------------------------------------
(* One turn at a time.                                                     *)

\* The fire has not looked for its conversation yet.
EarlyPC == {"idle", "gated", "ready", "claimed"}
Early(f) == fire[f].pc \in EarlyPC

\* A conversation named after a fire is named nowhere before that fire makes it.
NamedInv ==
    /\ row.sess \in Session => ~Early(row.sess)
    /\ \A f \in Fire : fire[f].link \in Session => ~Early(fire[f].link)
    /\ \A f \in Fire : fire[f].pc \in Begun => ~Early(fire[f].sess)
    /\ \A s \in Sub : sub[s].of # User /\ sub[s].sess \in Session => ~Early(sub[s].sess)

\* No turn of the schedule runs in conversation c or may be resumed there.
Vacant(c) == \A s \in Sub : Resumable(s) /\ sub[s].of # User => sub[s].sess # c

\* None runs there.
Calm(c) == \A s \in Sub : sub[s].st = "running" /\ sub[s].of # User => sub[s].sess # c

\* After the first look at its conversation a fire knows that none runs there, after the
\* second that none may be resumed there either, until it starts its own.
VacantInv ==
    \A f \in Fire : /\ fire[f].pc \in {"look", "relook"} => Calm(fire[f].sess)
                    /\ fire[f].pc \in {"conv", "armed"} => Vacant(fire[f].sess)

TurnInv == NamedInv /\ VacantInv /\ Alone

LEMMA TurnInit == Init => TurnInv
  <1> SUFFICES ASSUME Init PROVE TurnInv
    OBVIOUS
  <1>1. /\ row.sess = None
        /\ \A f \in Fire : fire[f].pc = "idle" /\ fire[f].link = None
        /\ \A s \in Sub : sub[s].st = "free" /\ sub[s].of = User
    BY DEF Init, IdleFire, FreeSub
  <1> QED
    BY <1>1, Constants DEF TurnInv, NamedInv, VacantInv, Alone, Resumable, Begun

\* The second look sees what the first could not, if RedriveSeen.
LEMMA SecondLook ==
    ASSUME DispatchInv, RedriveSeen, NEW c, Calm(c), ~HasPausedTurnIn(c)
    PROVE  Vacant(c)
  <1> SUFFICES ASSUME NEW s \in Sub, Resumable(s), sub[s].of # User, sub[s].sess = c PROVE FALSE
    BY DEF Vacant
  <1>1. sub[s].st # "running"
    BY DEF Calm
  <1>2. s = paused \/ s = redrive.old
    BY <1>1 DEF Resumable, DispatchInv, RunnerInv
  <1>3. HasPausedTurnIn(c)
    BY <1>2, Constants DEF RedriveSeen, HasPausedTurnIn
  <1> QED
    BY <1>3

\* A fire moves and no stream does.
LEMMA TurnFire ==
    ASSUME DispatchInv, TurnInv, NEW f \in Fire, UNCHANGED <<sub, redrive>>,
           \A g \in Fire \ {f} : fire'[g] = fire[g], Early(f)' => Early(f),
           row'.sess = None \/ row'.sess = row.sess \/ (row'.sess = f /\ ~Early(f)'),
           fire'[f].link = None \/ fire'[f].link = fire[f].link \/ fire'[f].link = row.sess,
           fire'[f].pc \in Begun =>
              \/ fire[f].pc \in Begun /\ fire'[f].sess = fire[f].sess
              \/ fire[f].link \in Session /\ fire'[f].sess = fire[f].link
              \/ fire'[f].sess = f /\ ~Early(f)',
           fire'[f].pc \in {"look", "relook"} => Calm(fire'[f].sess),
           fire'[f].pc \in {"conv", "armed"} => Vacant(fire'[f].sess)
    PROVE  TurnInv'
  <1> USE Constants DEF TurnInv
  <1>1. \A g \in Session : fire[g].pc \notin EarlyPC => fire'[g].pc \notin EarlyPC
    BY DEF Early, EarlyPC
  <1>2. \A g \in Fire : fire[g].pc \in Begun => fire[g].sess \in Session
    BY DEF DispatchInv, FireInv
  <1>3. NamedInv'
    <2>1. row'.sess \in Session => fire'[row'.sess].pc \notin EarlyPC
      BY <1>1 DEF NamedInv, Early
    <2>2. \A g \in Fire : fire'[g].link \in Session => fire'[fire'[g].link].pc \notin EarlyPC
      BY <1>1 DEF NamedInv, Early
    <2>3. \A g \in Fire : fire'[g].pc \in Begun => fire'[fire'[g].sess].pc \notin EarlyPC
      BY <1>1, <1>2 DEF NamedInv, Early
    <2>4. \A s \in Sub : sub[s].of # User /\ sub[s].sess \in Session => fire'[sub[s].sess].pc \notin EarlyPC
      BY <1>1 DEF NamedInv, Early
    <2> QED
      BY <2>1, <2>2, <2>3, <2>4 DEF NamedInv, Early
  <1>4. VacantInv'
    BY DEF VacantInv, Vacant, Calm, Resumable
  <1>5. Alone'
    BY DEF Alone, Resumable
  <1> QED
    BY <1>3, <1>4, <1>5

\* The runner moves: turns of the schedule end or go on, none begins.
LEMMA TurnRunner ==
    ASSUME DispatchInv, TurnInv, UNCHANGED <<row, fire>>,
           \A s \in Sub : sub'[s].of # User => /\ sub'[s].of = sub[s].of /\ sub'[s].sess = sub[s].sess
                                               /\ Resumable(s)' => Resumable(s)
                                               /\ sub'[s].st = "running" => sub[s].st = "running",
           \A s, t \in Sub : s # t /\ Resumable(s)' /\ Resumable(t)' /\ {s, t} = {redrive.old, redrive.new}
              => redrive' = redrive
    PROVE  TurnInv'
  <1> USE DEF TurnInv
  <1>1. NamedInv'
    BY DEF NamedInv, Early
  <1>2. VacantInv'
    BY DEF VacantInv, Vacant, Calm
  <1>3. Alone'
    BY DEF Alone
  <1> QED
    BY <1>1, <1>2, <1>3

\* A fire that holds the claim starts its stream in a conversation that is vacant.
LEMMA TurnLaunch ==
    ASSUME DispatchInv, TurnInv, NEW f \in Fire, fire[f].pc \in Claimed \cap Begun, Vacant(fire[f].sess),
           NEW s \in Sub, NEW rec \in SubType, sub' = [sub EXCEPT ![s] = rec],
           rec.of = f, rec.sess = fire[f].sess, UNCHANGED <<row, redrive>>,
           \A g \in Fire \ {f} : fire'[g] = fire[g],
           fire'[f].pc = "wait", fire'[f].sess = fire[f].sess, fire'[f].link = fire[f].link
    PROVE  TurnInv'
  <1> USE Constants DEF TurnInv
  <1>1. sub'[s] = rec /\ \A t \in Sub \ {s} : sub'[t] = sub[t]
    BY SubUpdate DEF DispatchInv
  <1>2. \A g \in Session : fire[g].pc \notin EarlyPC => fire'[g].pc \notin EarlyPC
    BY DEF Early, EarlyPC
  <1>3. fire[f].sess \in Session
    BY DEF DispatchInv, FireInv
  <1>4. NamedInv'
    <2>1. row'.sess \in Session => fire'[row'.sess].pc \notin EarlyPC
      BY <1>2 DEF NamedInv, Early
    <2>2. \A g \in Fire : fire'[g].link \in Session => fire'[fire'[g].link].pc \notin EarlyPC
      BY <1>2 DEF NamedInv, Early
    <2>3. \A g \in Fire : fire'[g].pc \in Begun => fire'[fire'[g].sess].pc \notin EarlyPC
      <3>1. \A g \in Fire : fire'[g].pc \in Begun => fire[g].pc \in Begun /\ fire'[g].sess = fire[g].sess
        OBVIOUS
      <3>2. \A g \in Fire : fire[g].pc \in Begun => fire[g].sess \in Session
        BY DEF DispatchInv, FireInv
      <3> QED
        BY <1>2, <3>1, <3>2 DEF NamedInv, Early
    <2>4. \A t \in Sub : sub'[t].of # User /\ sub'[t].sess \in Session => fire'[sub'[t].sess].pc \notin EarlyPC
      <3>1. \A t \in Sub \ {s} : sub'[t].of # User /\ sub'[t].sess \in Session
                                => fire'[sub'[t].sess].pc \notin EarlyPC
        BY <1>1, <1>2 DEF NamedInv, Early
      <3>2. fire'[fire[f].sess].pc \notin EarlyPC
        BY <1>2, <1>3 DEF NamedInv, Early
      <3> QED
        BY <1>1, <3>1, <3>2
    <2> QED
      BY <2>1, <2>2, <2>3, <2>4 DEF NamedInv, Early
  <1>5. \A g \in Fire : fire'[g].pc \notin {"look", "relook", "conv", "armed"}
    <2>1. \A g \in Fire : g # f => fire[g].pc \notin Claimed
      BY DEF DispatchInv, ClaimInv
    <2> QED
      BY <2>1 DEF Claimed
  <1>6. VacantInv'
    BY <1>5 DEF VacantInv
  <1>7. \A t \in Sub \ {s} : Resumable(t)' /\ sub'[t].of # User => Resumable(t) /\ sub'[t].sess # rec.sess
    BY <1>1 DEF Vacant, Resumable
  <1>8. Alone'
    BY <1>1, <1>7 DEF Alone
  <1> QED
    BY <1>4, <1>6, <1>8

LEMMA TurnOver ==
    ASSUME DispatchInv, TurnInv, NEW f \in Fire, UNCHANGED <<sub, redrive>>,
           fire' = [fire EXCEPT ![f] = OverFire] \/ fire' = [fire EXCEPT ![f] = [OverFire EXCEPT !.pc = "gaveup"]],
           row'.sess = None \/ row'.sess = row.sess
    PROVE  TurnInv'
  <1> DEFINE gone == [OverFire EXCEPT !.pc = "gaveup"]
  <1>3. /\ OverFire.pc = "over" /\ OverFire.link = None
        /\ gone.pc = "gaveup" /\ gone.link = None
    BY DEF OverFire, IdleFire
  <1> HIDE DEF gone
  <1>4. fire' = [fire EXCEPT ![f] = OverFire] \/ fire' = [fire EXCEPT ![f] = gone]
    BY DEF gone
  <1>1. /\ fire'[f].pc \in {"over", "gaveup"} /\ fire'[f].link = None
        /\ \A g \in Fire \ {f} : fire'[g] = fire[g]
    BY <1>3, <1>4 DEF DispatchInv, Types
  <1>2. ~Early(f)' /\ fire'[f].pc \notin Begun /\ fire'[f].pc \notin {"look", "relook", "conv", "armed"}
    BY <1>1 DEF Early, EarlyPC, Begun
  <1> QED
    BY <1>1, <1>2, TurnFire

LEMMA DiscardRow ==
    ASSUME DispatchInv, NEW f \in Fire, Discard(f)
    PROVE  row'.sess = None \/ row'.sess = row.sess
  BY DEF Discard, DispatchInv, Types

\* What a fire does before it looks for its conversation, and while it waits.
LEMMA TurnRest ==
    ASSUME DispatchInv, TurnInv, NEW f \in Fire, UNCHANGED <<row, sub, redrive>>,
           \A g \in Fire \ {f} : fire'[g] = fire[g], Early(f)' => Early(f),
           fire'[f].link = fire[f].link \/ fire'[f].link = row.sess,
           fire'[f].sess = fire[f].sess, fire'[f].pc \in Begun => fire[f].pc \in Begun,
           fire'[f].pc \notin {"look", "relook", "conv", "armed"}
    PROVE  TurnInv'
  BY TurnFire

LEMMA TurnFireGet == ASSUME DispatchInv, TurnInv, NEW f \in Fire, FireGet(f) PROVE TurnInv'
  <1>1. UNCHANGED <<row, sub, redrive>> /\ fire[f].pc = "idle"
    BY DEF FireGet
  <1>2. CASE fire' = [fire EXCEPT ![f] = OverFire]
    BY <1>1, <1>2, TurnOver
  <1>3. CASE fire' = [fire EXCEPT ![f].pc = "gated", ![f].gated = Decoded(row.list)]
    <2>1. /\ fire'[f].pc = "gated" /\ fire'[f].link = fire[f].link /\ fire'[f].sess = fire[f].sess
          /\ \A g \in Fire \ {f} : fire'[g] = fire[g]
      BY <1>3 DEF DispatchInv, Types, FireType
    <2> QED
      BY <1>1, <2>1, TurnRest DEF Early, EarlyPC, Begun
  <1> QED
    BY <1>2, <1>3 DEF FireGet, Return

LEMMA TurnReload == ASSUME DispatchInv, TurnInv, NEW f \in Fire, Reload(f) PROVE TurnInv'
  <1>1. UNCHANGED <<row, sub, redrive>> /\ fire[f].pc = "gated"
    BY DEF Reload
  <1> DEFINE r == ResolveRunContainment(By, fire[f].gated, row.list)
  <1>2. CASE fire' = [fire EXCEPT ![f] = OverFire]
    BY <1>1, <1>2, TurnOver
  <1>3. CASE fire' = [fire EXCEPT ![f].pc = "ready", ![f].list = row.list, ![f].link = row.sess,
                                  ![f].contained = r.contained, ![f].allow = r.allow]
    <2> HIDE DEF r
    <2>1. /\ fire'[f].pc = "ready" /\ fire'[f].link = row.sess /\ fire'[f].sess = fire[f].sess
          /\ \A g \in Fire \ {f} : fire'[g] = fire[g]
      BY <1>3 DEF DispatchInv, Types, FireType
    <2> QED
      BY <1>1, <2>1, TurnRest DEF Early, EarlyPC, Begun
  <1> QED
    BY <1>2, <1>3 DEF Reload, Return

LEMMA TurnClaim == ASSUME DispatchInv, TurnInv, NEW f \in Fire, Claim(f) PROVE TurnInv'
  <1>1. UNCHANGED <<row, sub, redrive>> /\ fire[f].pc = "ready"
    BY DEF Claim
  <1>2. CASE fire' = [fire EXCEPT ![f] = OverFire]
    BY <1>1, <1>2, TurnOver
  <1>3. CASE fire' = [fire EXCEPT ![f].pc = "claimed"]
    <2>1. /\ fire'[f].pc = "claimed" /\ fire'[f].link = fire[f].link /\ fire'[f].sess = fire[f].sess
          /\ \A g \in Fire \ {f} : fire'[g] = fire[g]
      BY <1>3 DEF DispatchInv, Types, FireType
    <2> QED
      BY <1>1, <2>1, TurnRest DEF Early, EarlyPC, Begun
  <1> QED
    BY <1>2, <1>3 DEF Claim, Return

\* The fire's own conversation is new; another one had a first look.
LEMMA TurnConverse ==
    ASSUME DispatchInv, TurnInv, NEW f \in Fire, Converse(f)
    PROVE  TurnInv'
  <1> DEFINE c == fire[f].link
  <1>1. UNCHANGED <<sub, redrive>> /\ fire[f].pc = "claimed"
    BY DEF Converse
  <1>2. CASE fire' = [fire EXCEPT ![f] = OverFire] /\ UNCHANGED row
    BY <1>1, <1>2, TurnOver
  <1>3. CASE /\ c \in sessions /\ ~HasActiveRun(c) /\ UNCHANGED row
             /\ fire' = [fire EXCEPT ![f].pc = "look", ![f].sess = c]
    <2>1. /\ fire'[f].pc = "look" /\ fire'[f].link = fire[f].link /\ fire'[f].sess = fire[f].link
          /\ \A g \in Fire \ {f} : fire'[g] = fire[g]
      BY <1>3 DEF DispatchInv, Types, FireType
    <2>2. fire[f].link \in Session
      BY <1>3 DEF DispatchInv, Types
    <2>3. Calm(fire[f].link)
      BY <1>3 DEF HasActiveRun, Calm
    <2> QED
      BY <1>1, <1>3, <2>1, <2>2, <2>3, TurnFire DEF Early, EarlyPC
  <1>4. CASE /\ row' = row \/ row' = IF row.there THEN [row EXCEPT !.sess = f] ELSE row
             /\ fire' = [fire EXCEPT ![f].pc = "conv", ![f].sess = f, ![f].created = TRUE]
    <2>1. /\ fire'[f].pc = "conv" /\ fire'[f].link = fire[f].link /\ fire'[f].sess = f
          /\ \A g \in Fire \ {f} : fire'[g] = fire[g]
      BY <1>4 DEF DispatchInv, Types, FireType
    <2>2. row'.sess = row.sess \/ row'.sess = f
      BY <1>4 DEF DispatchInv, Types
    <2>3. Vacant(f)
      BY <1>1, Constants DEF TurnInv, NamedInv, Vacant, Early, EarlyPC
    <2>4. ~Early(f)'
      BY <2>1 DEF Early, EarlyPC
    <2> QED
      BY <1>1, <2>1, <2>2, <2>3, <2>4, TurnFire
  <1> QED
    BY <1>2, <1>3, <1>4 DEF Converse, Return

LEMMA TurnConversePaused ==
    ASSUME DispatchInv, TurnInv, RedriveSeen, NEW f \in Fire, ConversePaused(f)
    PROVE  TurnInv'
  <1>1. UNCHANGED <<row, sub, redrive>> /\ fire[f].pc = "look"
    BY DEF ConversePaused
  <1>2. CASE fire' = [fire EXCEPT ![f] = OverFire]
    BY <1>1, <1>2, TurnOver
  <1>3. CASE ~HasPausedTurnIn(fire[f].sess) /\ fire' = [fire EXCEPT ![f].pc = "conv"]
    <2>1. /\ fire'[f].pc = "conv" /\ fire'[f].link = fire[f].link /\ fire'[f].sess = fire[f].sess
          /\ \A g \in Fire \ {f} : fire'[g] = fire[g]
      BY <1>3 DEF DispatchInv, Types, FireType
    <2>2. Vacant(fire[f].sess)
      BY <1>1, <1>3, SecondLook DEF TurnInv, VacantInv
    <2> QED
      BY <1>1, <1>3, <2>1, <2>2, TurnFire DEF Early, EarlyPC, Begun
  <1> QED
    BY <1>2, <1>3 DEF ConversePaused, Return

LEMMA TurnArm == ASSUME DispatchInv, TurnInv, NEW f \in Fire, Arm(f) PROVE TurnInv'
  <1>1. UNCHANGED <<sub, redrive>> /\ fire[f].pc = "conv"
    BY DEF Arm
  <1>2. CASE fire' = [fire EXCEPT ![f] = OverFire] /\ (UNCHANGED row \/ Discard(f))
    BY <1>1, <1>2, DiscardRow, TurnOver
  <1>3. CASE fire' = [fire EXCEPT ![f].pc = "armed", ![f].gen = lastGen'] /\ UNCHANGED row
    <2>1. /\ fire'[f].pc = "armed" /\ fire'[f].link = fire[f].link /\ fire'[f].sess = fire[f].sess
          /\ \A g \in Fire \ {f} : fire'[g] = fire[g]
      BY <1>3 DEF DispatchInv, Types, FireType
    <2>2. Vacant(fire[f].sess)
      BY <1>1 DEF TurnInv, VacantInv
    <2> QED
      BY <1>1, <1>3, <2>1, <2>2, TurnFire DEF Early, EarlyPC, Begun
  <1> QED
    BY <1>2, <1>3 DEF Arm, Return

LEMMA OwnFields ==
    ASSUME DispatchInv, NEW f \in Fire, NEW s \in Sub, NEW gen \in Nat,
           fire' = [fire EXCEPT ![f] = Own(f, s, gen)]
    PROVE  /\ fire'[f].pc = "wait" /\ fire'[f].sess = fire[f].sess /\ fire'[f].link = fire[f].link
           /\ \A g \in Fire \ {f} : fire'[g] = fire[g]
  BY DEF DispatchInv, Types, FireType, Own

LEMMA TurnStart == ASSUME DispatchInv, TurnInv, NEW f \in Fire, Start(f) PROVE TurnInv'
  <1> DEFINE rec == Started(fire[f].sess, f, Lets(f))
  <1>1. fire[f].pc = "armed" /\ UNCHANGED redrive
    BY DEF Start
  <1>2. CASE UNCHANGED sub /\ Discard(f) /\ fire' = [fire EXCEPT ![f] = OverFire]
    BY <1>1, <1>2, DiscardRow, TurnOver
  <1>3. CASE \E s \in Sub : /\ sub' = [sub EXCEPT ![s] = rec] /\ UNCHANGED row
                            /\ fire' = [fire EXCEPT ![f] = Own(f, s, fire[f].gen)]
    <2>1. PICK s \in Sub : /\ sub' = [sub EXCEPT ![s] = rec] /\ UNCHANGED row
                           /\ fire' = [fire EXCEPT ![f] = Own(f, s, fire[f].gen)]
      BY <1>3
    <2>2. fire[f].gen \in Nat
      BY DEF DispatchInv, Types, FireType
    <2>3. /\ fire'[f].pc = "wait" /\ fire'[f].sess = fire[f].sess /\ fire'[f].link = fire[f].link
          /\ \A g \in Fire \ {f} : fire'[g] = fire[g]
      BY <2>1, <2>2, OwnFields
    <2>4. rec \in SubType /\ rec.of = f /\ rec.sess = fire[f].sess
      <3>1. fire[f].sess \in Session \cup {None} /\ Lets(f) \in SUBSET Tool
        BY DEF DispatchInv, Types, FireType, Lets
      <3> QED
        BY <3>1, StartedType
    <2>5. Vacant(fire[f].sess) /\ fire[f].pc \in Claimed \cap Begun
      BY <1>1 DEF TurnInv, VacantInv, Claimed, Begun
    <2> HIDE DEF rec
    <2> QED
      BY <1>1, <2>1, <2>3, <2>4, <2>5, TurnLaunch
  <1> QED
    BY <1>2, <1>3 DEF Start, Return

LEMMA TurnRetry == ASSUME DispatchInv, TurnInv, NEW f \in Fire, Retry(f) PROVE TurnInv'
  <1>1. UNCHANGED <<row, sub, redrive>> /\ fire[f].pc = "retry"
    BY DEF Retry
  <1>2. CASE fire' = [fire EXCEPT ![f] = OverFire]
    BY <1>1, <1>2, TurnOver
  <1>3. CASE ~HasActiveRun(fire[f].sess) /\ fire' = [fire EXCEPT ![f].pc = "relook"]
    <2>1. /\ fire'[f].pc = "relook" /\ fire'[f].link = fire[f].link /\ fire'[f].sess = fire[f].sess
          /\ \A g \in Fire \ {f} : fire'[g] = fire[g]
      BY <1>3 DEF DispatchInv, Types, FireType
    <2>2. Calm(fire[f].sess)
      BY <1>3 DEF HasActiveRun, Calm
    <2> QED
      BY <1>1, <1>3, <2>1, <2>2, TurnFire DEF Early, EarlyPC, Begun
  <1> QED
    BY <1>2, <1>3 DEF Retry, Return

LEMMA TurnRetryPaused ==
    ASSUME DispatchInv, TurnInv, RedriveSeen, NEW f \in Fire, RetryPaused(f)
    PROVE  TurnInv'
  <1> DEFINE rec == Started(fire[f].sess, f, Lets(f))
  <1>1. fire[f].pc = "relook" /\ UNCHANGED <<row, redrive>>
    BY DEF RetryPaused
  <1>2. CASE UNCHANGED sub /\ fire' = [fire EXCEPT ![f] = OverFire]
    BY <1>1, <1>2, TurnOver
  <1>3. CASE /\ ~HasPausedTurnIn(fire[f].sess) /\ lastGen' \in Nat
             /\ \E s \in Sub : /\ sub' = [sub EXCEPT ![s] = rec]
                               /\ fire' = [fire EXCEPT ![f] = Own(f, s, lastGen')]
    <2>1. PICK s \in Sub : /\ sub' = [sub EXCEPT ![s] = rec]
                           /\ fire' = [fire EXCEPT ![f] = Own(f, s, lastGen')]
      BY <1>3
    <2>3. /\ fire'[f].pc = "wait" /\ fire'[f].sess = fire[f].sess /\ fire'[f].link = fire[f].link
          /\ \A g \in Fire \ {f} : fire'[g] = fire[g]
      BY <1>3, <2>1, OwnFields
    <2>4. rec \in SubType /\ rec.of = f /\ rec.sess = fire[f].sess
      <3>1. fire[f].sess \in Session \cup {None} /\ Lets(f) \in SUBSET Tool
        BY DEF DispatchInv, Types, FireType, Lets
      <3> QED
        BY <3>1, StartedType
    <2>5. Vacant(fire[f].sess) /\ fire[f].pc \in Claimed \cap Begun
      BY <1>1, <1>3, SecondLook DEF TurnInv, VacantInv, Claimed, Begun
    <2> HIDE DEF rec
    <2> QED
      BY <1>1, <2>1, <2>3, <2>4, <2>5, TurnLaunch
  <1>4. lastGen' \in Nat
    BY DEF RetryPaused, Contain, DispatchInv, Types
  <1>5. \/ UNCHANGED sub /\ Return(f, OverFire)
        \/ /\ ~HasPausedTurnIn(fire[f].sess)
           /\ \E s \in Sub : /\ sub' = [sub EXCEPT ![s] = rec]
                             /\ fire' = [fire EXCEPT ![f] = Own(f, s, lastGen')]
    BY DEF RetryPaused
  <1> QED
    BY <1>2, <1>3, <1>4, <1>5 DEF Return

LEMMA TurnHear == ASSUME DispatchInv, TurnInv, NEW f \in Fire, Hear(f) PROVE TurnInv'
  <1> DEFINE o == Observed(f, Head(inbox[f]))
  <1>1. UNCHANGED <<sub, redrive>> /\ fire[f].pc \in Waiting /\ inbox[f] # <<>>
    BY DEF Hear, Subscribed, Waiting
  <1>2. o \in FireType /\ o.pc = fire[f].pc /\ o.sess = fire[f].sess /\ o.link = fire[f].link
    <2>1. fire[f] \in FireType
      BY DEF DispatchInv, Types
    <2>2. o \in FireType /\ o.pc = fire[f].pc /\ o.sess = fire[f].sess
      BY <1>1, ObservedStep
    <2>3. o.link = fire[f].link
      BY <2>1 DEF Observed, FireType
    <2> QED
      BY <2>2, <2>3
  <1> HIDE DEF o
  <1>3. CASE fire' = [fire EXCEPT ![f] = OverFire] /\ (UNCHANGED row \/ Discard(f))
    BY <1>1, <1>3, DiscardRow, TurnOver
  <1>4. CASE /\ \/ fire' = [fire EXCEPT ![f] = o]
                \/ fire' = [fire EXCEPT ![f] = [o EXCEPT !.pc = "retry", !.retried = TRUE]]
             /\ UNCHANGED row
    <2>1. /\ fire'[f].pc \in Waiting \cup {"retry"} /\ fire'[f].link = fire[f].link
          /\ fire'[f].sess = fire[f].sess /\ \A g \in Fire \ {f} : fire'[g] = fire[g]
      <3>1. CASE fire' = [fire EXCEPT ![f] = o]
        BY <1>1, <1>2, <3>1 DEF DispatchInv, Types
      <3>2. CASE fire' = [fire EXCEPT ![f] = [o EXCEPT !.pc = "retry", !.retried = TRUE]]
        BY <1>1, <1>2, <3>2 DEF DispatchInv, Types, FireType
      <3> QED
        BY <1>4, <3>1, <3>2
    <2>2. /\ ~Early(f)' /\ fire[f].pc \in Begun
          /\ fire'[f].pc \notin {"look", "relook", "conv", "armed"}
      BY <1>1, <2>1 DEF Waiting, Begun, Early, EarlyPC
    <2> QED
      BY <1>1, <1>4, <2>1, <2>2, TurnRest
  <1> QED
    BY <1>3, <1>4 DEF Hear, Return, o

LEMMA TurnWait ==
    ASSUME DispatchInv, TurnInv, NEW f \in Fire, Deadline(f) \/ Drained(f) \/ GiveUp(f)
    PROVE  TurnInv'
  <1>1. UNCHANGED <<row, sub, redrive>> /\ fire[f].pc \in Waiting
    BY DEF Deadline, Drained, GiveUp, Waiting
  <1>2. CASE \/ fire' = [fire EXCEPT ![f] = OverFire]
             \/ fire' = [fire EXCEPT ![f] = [OverFire EXCEPT !.pc = "gaveup"]]
    BY <1>1, <1>2, TurnOver
  <1>3. CASE \/ fire' = [fire EXCEPT ![f].pc = "drain"]
             \/ fire' = [fire EXCEPT ![f] = [fire[f] EXCEPT !.pc = "watch"]]
    <2>1. /\ fire'[f].pc \in {"drain", "watch"} /\ fire'[f].link = fire[f].link
          /\ fire'[f].sess = fire[f].sess /\ \A g \in Fire \ {f} : fire'[g] = fire[g]
      BY <1>3 DEF DispatchInv, Types, FireType
    <2>2. /\ ~Early(f)' /\ fire[f].pc \in Begun
          /\ fire'[f].pc \notin {"look", "relook", "conv", "armed"}
      BY <1>1, <2>1 DEF Waiting, Begun, Early, EarlyPC
    <2> QED
      BY <1>1, <2>1, <2>2, TurnRest
  <1> QED
    BY <1>2, <1>3 DEF Deadline, Drained, GiveUp, Return

\* One stream changes its state, or ends.
LEMMA TurnSub ==
    ASSUME DispatchInv, TurnInv, NEW s \in Sub, NEW rec \in SubType, sub' = [sub EXCEPT ![s] = rec],
           \/ rec.of = User
           \/ rec.of = sub[s].of /\ rec.sess = sub[s].sess /\ rec.st = "finished",
           UNCHANGED <<row, fire>>,
           redrive' = redrive \/ redrive.new = None \/ (s = redrive.old /\ rec.st \in {"finished", "closed"})
    PROVE  TurnInv'
  <1>1. sub'[s] = rec /\ \A t \in Sub \ {s} : sub'[t] = sub[t]
    BY SubUpdate DEF DispatchInv
  <1>2. \A t \in Sub : sub'[t].of # User => /\ sub'[t].of = sub[t].of /\ sub'[t].sess = sub[t].sess
                                            /\ Resumable(t)' => Resumable(t)
                                            /\ sub'[t].st = "running" => sub[t].st = "running"
    BY <1>1 DEF Resumable
  <1>3. \A t, u \in Sub : t # u /\ Resumable(t)' /\ Resumable(u)' /\ {t, u} = {redrive.old, redrive.new}
           => redrive' = redrive
    <2> SUFFICES ASSUME NEW t \in Sub, NEW u \in Sub, t # u, Resumable(t)', Resumable(u)',
                        {t, u} = {redrive.old, redrive.new}
                 PROVE  redrive' = redrive
      OBVIOUS
    <2>1. redrive.new # None
      BY Constants
    <2>2. rec.st \in {"finished", "closed"} => s # t /\ s # u
      BY <1>1 DEF Resumable
    <2> QED
      BY <2>1, <2>2
  <1> QED
    BY <1>2, <1>3, TurnRunner

LEMMA TurnFinish == ASSUME DispatchInv, TurnInv, NEW s \in Sub, Finish(s) PROVE TurnInv'
  <1>1. PICK full \in BOOLEAN : sub' = [sub EXCEPT ![s].st = "finished", ![s].full = full]
    BY DEF Finish
  <1> DEFINE rec == [sub[s] EXCEPT !.st = "finished", !.full = full]
  <1>2. rec \in SubType /\ rec.st = "finished" /\ rec.of = sub[s].of /\ rec.sess = sub[s].sess
    BY DEF DispatchInv, Types, SubType
  <1>3. sub' = [sub EXCEPT ![s] = rec]
    BY <1>1 DEF DispatchInv, Types, SubType
  <1>4. UNCHANGED <<row, fire, redrive>>
    BY DEF Finish
  <1> HIDE DEF rec
  <1> QED
    BY <1>2, <1>3, <1>4, TurnSub

LEMMA TurnPause == ASSUME DispatchInv, TurnInv, NEW s \in Sub, Pause(s) PROVE TurnInv'
  <1>1. /\ sub[s].st = "running"
        /\ sub' = [t \in Sub |-> IF t = s THEN [sub[t] EXCEPT !.st = "paused"]
                                 ELSE IF t = paused /\ t # redrive.old
                                      THEN [sub[t] EXCEPT !.st = "finished"] ELSE sub[t]]
        /\ UNCHANGED <<row, fire, redrive>>
    BY DEF Pause
  <1>2. ASSUME NEW t \in Sub
        PROVE  /\ sub'[t].of = sub[t].of /\ sub'[t].sess = sub[t].sess
               /\ sub'[t].st \in {"running", "paused"} => sub[t].st \in {"running", "paused"}
               /\ sub'[t].st = "running" => sub[t].st = "running"
    <2>1. sub[t] \in SubType
      BY DEF DispatchInv, Types
    <2>2. CASE t = s
      BY <1>1, <2>1, <2>2 DEF SubType
    <2>3. CASE t # s /\ t = paused /\ t # redrive.old
      BY <1>1, <2>1, <2>3 DEF SubType
    <2>4. CASE t # s /\ ~(t = paused /\ t # redrive.old)
      BY <1>1, <2>1, <2>4 DEF SubType
    <2> QED
      BY <2>2, <2>3, <2>4
  <1>3. UNCHANGED <<row, fire, redrive>>
    BY <1>1
  <1> QED
    BY <1>2, <1>3, TurnRunner DEF Resumable

LEMMA TurnEnds ==
    ASSUME DispatchInv, TurnInv,
           \/ \E s \in Sub : EmitClosed(s)
           \/ RedriveLink \/ RedriveFails \/ RedriveLastTurn
    PROVE  TurnInv'
  <1> USE DEF DispatchInv
  <1>1. ASSUME NEW s \in Sub, EmitClosed(s) PROVE TurnInv'
    BY <1>1, RestTypes, TurnSub DEF EmitClosed
  <1>2. CASE RedriveLink
    <2>1. redrive.old \in Sub
      BY <1>2 DEF RedriveLink, RunnerInv, Types
    <2>2. sub' = [sub EXCEPT ![redrive.old] = EndedSub] /\ UNCHANGED <<row, fire>>
      BY <1>2 DEF RedriveLink, RedriveOver
    <2> QED
      BY <2>1, <2>2, RestTypes, TurnSub
  <1>3. CASE RedriveFails
    <2> DEFINE old == redrive.old
               rec == [sub[old] EXCEPT !.st = "finished"]
    <2>1. old \in Sub /\ sub' = [sub EXCEPT ![old] = rec] /\ UNCHANGED <<row, fire>> /\ redrive.new = None
      BY <1>3 DEF RedriveFails, RedriveOver, Types
    <2>2. rec \in SubType /\ rec.st = "finished" /\ rec.of = sub[old].of /\ rec.sess = sub[old].sess
      <3>1. sub[old] \in SubType
        BY <2>1 DEF Types
      <3> QED
        BY <3>1 DEF SubType
    <2> HIDE DEF old, rec
    <2> QED
      BY <2>1, <2>2, TurnSub
  <1>4. CASE RedriveLastTurn
    <2>1. UNCHANGED <<row, fire, sub>> /\ redrive.new = None
      BY <1>4 DEF RedriveLastTurn, RunnerInv
    <2> QED
      BY <2>1, Constants, TurnRunner DEF Resumable
  <1> QED
    BY <1>1, <1>2, <1>3, <1>4

LEMMA TurnUser == ASSUME DispatchInv, TurnInv, NEW c \in Session, UserTurn(c) PROVE TurnInv'
  <1>1. PICK s \in Sub : sub' = [sub EXCEPT ![s] = Started(c, User, Tool)]
    BY DEF UserTurn
  <1> DEFINE rec == Started(c, User, Tool)
  <1>2. rec \in SubType /\ rec.of = User
    BY StartedType
  <1>3. sub' = [sub EXCEPT ![s] = rec] /\ UNCHANGED <<row, fire, redrive>>
    BY <1>1 DEF UserTurn
  <1> HIDE DEF rec
  <1> QED
    BY <1>2, <1>3, TurnSub

\* The redrive of a paused turn overlaps with that turn only, and is in no conversation
\* that a fire looked at once.
LEMMA TurnRedriveStart == ASSUME DispatchInv, TurnInv, RedriveApart', RedriveStart PROVE TurnInv'
  <1> USE DEF TurnInv
  <1> DEFINE old == redrive.old
  <1>1. old # None /\ redrive.new = None /\ UNCHANGED <<row, fire>>
    BY DEF RedriveStart
  <1>2. PICK s \in Sub :
           /\ NextSub(s) /\ redrive' = [redrive EXCEPT !.new = s]
           /\ sub' = [sub EXCEPT ![s] = Started(sub[old].sess, sub[old].of, sub[old].lets)]
    BY DEF RedriveStart
  <1>3. old \in Sub /\ sub[old].st = "paused" /\ sub[s].st = "free"
    BY <1>1, <1>2 DEF DispatchInv, RunnerInv, Types, NextSub
  <1>4. /\ sub'[s].sess = sub[old].sess /\ sub'[s].of = sub[old].of
        /\ \A t \in Sub \ {s} : sub'[t] = sub[t]
    BY <1>2 DEF DispatchInv, Types, Started
  <1>5. redrive'.old = old /\ redrive'.new = s
    BY <1>2 DEF DispatchInv, Types
  <1> HIDE DEF old
  <1>6. NamedInv'
    <2>1. \A t \in Sub : sub'[t].of # User /\ sub'[t].sess \in Session => ~Early(sub'[t].sess)
      BY <1>3, <1>4 DEF NamedInv
    <2> QED
      BY <1>1, <2>1 DEF NamedInv, Early
  <1>7. \A t \in Sub : Resumable(t)' /\ sub'[t].of # User =>
           \E u \in Sub : /\ u = (IF t = s THEN old ELSE t) /\ Resumable(u)
                          /\ sub[u].of = sub'[t].of /\ sub[u].sess = sub'[t].sess
    BY <1>3, <1>4 DEF Resumable
  <1>8. VacantInv'
    <2>1. \A f \in Fire : fire[f].pc \in {"conv", "armed"} => Vacant(fire[f].sess)'
      <3> SUFFICES ASSUME NEW f \in Fire, fire[f].pc \in {"conv", "armed"}, NEW t \in Sub,
                          Resumable(t)', sub'[t].of # User
                   PROVE  sub'[t].sess # fire[f].sess
        BY <1>1 DEF Vacant
      <3> QED
        BY <1>7 DEF VacantInv, Vacant
    <2>2. \A f \in Fire : fire[f].pc \in {"look", "relook"} => Calm(fire[f].sess)'
      <3> SUFFICES ASSUME NEW f \in Fire, fire[f].pc \in {"look", "relook"}, NEW t \in Sub,
                          sub'[t].st = "running", sub'[t].of # User
                   PROVE  sub'[t].sess # fire[f].sess
        BY <1>1 DEF Calm
      <3>1. CASE t = s
        <4>1. s # None /\ sub'[old] = sub[old]
          BY <1>3, <1>4, Constants
        <4> QED
          BY <1>1, <1>4, <1>5, <3>1, <4>1 DEF RedriveApart
      <3>2. CASE t # s
        BY <1>4, <3>2 DEF VacantInv, Calm
      <3> QED
        BY <3>1, <3>2
    <2> QED
      BY <1>1, <2>1, <2>2 DEF VacantInv
  <1>9. \A t, u \in Sub : t # u /\ Resumable(t) /\ Resumable(u) /\ sub[t].sess = sub[u].sess
           /\ sub[t].of # User /\ sub[u].of # User => FALSE
    BY <1>1, Constants DEF Alone
  <1>10. Alone'
    <2> SUFFICES ASSUME NEW t \in Sub, NEW u \in Sub, t # u, Resumable(t)', Resumable(u)',
                        sub'[t].sess = sub'[u].sess, sub'[t].of # User, sub'[u].of # User
                 PROVE  sub'[t].of = sub'[u].of /\ {t, u} = {redrive'.old, redrive'.new}
      BY DEF Alone
    <2>1. PICK t0 \in Sub : /\ t0 = (IF t = s THEN old ELSE t) /\ Resumable(t0)
                            /\ sub[t0].of = sub'[t].of /\ sub[t0].sess = sub'[t].sess
      BY <1>7
    <2>2. PICK u0 \in Sub : /\ u0 = (IF u = s THEN old ELSE u) /\ Resumable(u0)
                            /\ sub[u0].of = sub'[u].of /\ sub[u0].sess = sub'[u].sess
      BY <1>7
    <2>3. t0 = u0
      BY <1>9, <2>1, <2>2
    <2> QED
      BY <1>5, <2>1, <2>2, <2>3
  <1> QED
    BY <1>6, <1>8, <1>10

LEMMA TurnNext == DispatchInv /\ TurnInv /\ RedriveSeen /\ RedriveApart' /\ [Next]_vars => TurnInv'
  <1> SUFFICES ASSUME DispatchInv, TurnInv, RedriveSeen, RedriveApart', [Next]_vars PROVE TurnInv'
    OBVIOUS
  <1>1. ASSUME NEW f \in Fire,
               \/ FireGet(f) \/ Reload(f) \/ Claim(f) \/ Converse(f) \/ ConversePaused(f)
               \/ Arm(f) \/ Start(f)
               \/ Hear(f) \/ Retry(f) \/ RetryPaused(f) \/ Deadline(f) \/ Drained(f) \/ GiveUp(f)
        PROVE  TurnInv'
    BY <1>1, TurnFireGet, TurnReload, TurnClaim, TurnConverse, TurnConversePaused, TurnArm,
       TurnStart, TurnHear, TurnRetry, TurnRetryPaused, TurnWait
  <1>2. ASSUME NEW s \in Sub, Finish(s) \/ EmitClosed(s) \/ Pause(s) PROVE TurnInv'
    BY <1>2, TurnFinish, TurnEnds, TurnPause
  <1>3. CASE RedriveLastTurn \/ RedriveStart \/ RedriveLink \/ RedriveFails
    BY <1>3, TurnEnds, TurnRedriveStart
  <1>4. ASSUME NEW c \in Session, UserTurn(c) PROVE TurnInv'
    BY <1>4, TurnUser
  <1>5. ASSUME UNCHANGED <<fire, sub, redrive>>, row'.sess = row.sess PROVE TurnInv'
    BY <1>5 DEF TurnInv, NamedInv, VacantInv, Vacant, Calm, Alone, Early, Resumable
  <1>6. ASSUME NEW c \in Session, DeleteSession(c) PROVE TurnInv'
    BY <1>5, <1>6 DEF DeleteSession
  <1>7. CASE Edit
    BY <1>5, <1>7 DEF Edit, DispatchInv, Types
  <1>8. CASE UNCHANGED vars
    BY <1>5, <1>8 DEF vars
  <1> QED
    BY <1>1, <1>2, <1>3, <1>4, <1>6, <1>7, <1>8 DEF Next

\* While no redrive is hidden by a later pause or starts between two looks, the claim and
\* the looks at the conversation keep every turn of the schedule alone in it, for any
\* number of fires and streams (chat_run_dispatcher.go:334, 395, 864-904, 1008-1011).
THEOREM DispatchOneTurn == Spec => OneTurn
  <1>1. Spec /\ []DispatchInv /\ []RedriveSeen /\ []RedriveApart => []TurnInv
    BY TurnInit, TurnNext, PTL DEF Spec
  <1>2. TurnInv => Alone
    BY DEF TurnInv
  <1> QED
    BY <1>1, <1>2, DispatchAlways, PTL DEF OneTurn
=============================================================================
