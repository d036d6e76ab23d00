----------------------------- MODULE MemorySync -----------------------------
(***************************************************************************)
(* Learned-memory sync: the memory stores of the devices of one account,   *)
(* their forget outboxes and sync lanes (core/memory/store.go,             *)
(* store_sync.go, sync_outbox.go and core/fleet/memory_sync.go), and the   *)
(* Fleet service they pull from and push to.                               *)
(*                                                                         *)
(* A device's lane is one thread: RunOnce, Enable and Disable hold cycleMu.*)
(* The user's edits do not take that lock, so they fall between any two of *)
(* its steps; each step below ends where the code writes a file or waits   *)
(* for Fleet, so a crash may fall between any two of them as well.         *)
(*                                                                         *)
(* Fleet is outside this repository. Its half is written from how the lane *)
(* uses it and from the model of it the lane's own tests run against.      *)
(*                                                                         *)
(* Stamps are Lamport pairs <<count, device>> coded as count * N + device: *)
(* what HybridClock shows of the clock is all the merge relies on. A       *)
(* CreatedHLC is only ever compared with Fleet's erased_before, so it is   *)
(* the number of the erase it sorts after (0: unstamped); the stamp is the *)
(* device's and erased_before Fleet's, so their clocks may disagree.       *)
(* SyncedAt is only ever compared with the epoch of the running reset, so  *)
(* it is 0 (zero), 1 (before the epoch) or 2 (touched by this snapshot).   *)
(***************************************************************************)
EXTENDS Naturals, FiniteSetsExt

CONSTANTS
    N,            \* the devices of the account are 1 .. N
    Memory,       \* ids of memories; each is created once, on one device
    Origin,       \* the devices that create memories
    Limit,        \* records per pull page
    Settled,      \* TRUE: Fleet's records are swept only while every device that Fleet
                  \* heard from has a cursor to refuse (see Heard)
    Skewed,       \* the memories that are stamped by a clock that differs from Fleet's,
    MaxSkew,      \* by so many erases at most, ahead or behind
    MaxRestarts,  \* snapshot restarts before a cycle gives up
    MaxEdits,     \* bound: edits of pins and scopes
    MaxForgets,   \* bound: forgets
    MaxFaults,    \* bound: crashes, failed requests and lost answers
    MaxSweeps,    \* bound: sweeps of old tombstones on Fleet
    MaxErases,    \* bound: Disable calls that also erase Fleet's copy
    MaxSwitch     \* bound: Enable, and Disable without an erase

ASSUME SyncConstants ==
    /\ Settled \in BOOLEAN
    /\ N \in Nat \ {0} /\ Limit \in Nat \ {0} /\ IsFiniteSet(Memory)
    /\ {MaxSkew, MaxRestarts, MaxEdits, MaxForgets, MaxFaults, MaxSweeps, MaxErases, MaxSwitch} \subseteq Nat

Device == 1 .. N

VARIABLES
    chunk,      \* chunk[d]: the rows of d's store, by id      (memory.gob)
    clock,      \* clock[d]: the count of d's last stamp         (hlc file)
    outbox,     \* outbox[d]: ids with a queued forget (memory_outbox.json)
    lane,       \* lane[d]: the persisted state of d's lane (memSyncState)
    work,       \* work[d]: the lane's locals; lost in a crash
    removing,   \* removing[d]: rows removed whose delete is not recorded yet
    fleet,      \* the service
    asked,      \* history: what the user did with a memory, see Asked
    wiped,      \* history: who has erased since an erase took a memory off Fleet
    spent       \* how much of each bound was used

vars == <<chunk, clock, outbox, lane, work, removing, fleet, asked, wiped, spent>>

-----------------------------------------------------------------------------
(* Rows, stamps, cursors.                                                  *)

Chunk == [scope : {"sync", "local"}, sh : Nat, pin : BOOLEAN, ph : Nat, born : Nat,
          dirty : BOOLEAN, gen : Nat, sent : BOOLEAN, syn : 0 .. 2]

Tick(d) == (clock[d] + 1) * N + d

Ticked(d) == [clock EXCEPT ![d] = @ + 1]

Touch(c) == [c EXCEPT !.dirty = TRUE, !.gen = @ + 1]

FleetMayKnow(c) == c.sent \/ c.syn # 0

Rows(d) == DOMAIN chunk[d]

\* A cursor: "" (start of a snapshot), a page of a snapshot, or a plain one.
Start == [kind |-> "start", seq |-> 0, floor |-> 0, erased |-> 0]

Plain(n) == [kind |-> "plain", seq |-> n, floor |-> 0, erased |-> 0]

Idle == [pc |-> "idle"]

At(d, pc) == work[d].pc = pc

Without(f, S) == [m \in DOMAIN f \ S |-> f[m]]

Spend(what) == spent' = [spent EXCEPT ![what] = @ + 1]

Bound == [edits |-> MaxEdits, forgets |-> MaxForgets, faults |-> MaxFaults, sweeps |-> MaxSweeps,
          erases |-> MaxErases, switch |-> MaxSwitch]

Left(what) == spent[what] < Bound[what]

Gone == [st |-> "none", scope |-> "local", sh |-> 0, pin |-> FALSE, ph |-> 0, seq |-> 0]

Init ==
    /\ chunk = [d \in Device |-> [m \in {} |-> 0]]
    /\ clock = [d \in Device |-> 0]
    /\ outbox = [d \in Device |-> {}]
    /\ lane = [d \in Device |-> [on |-> TRUE, disablePending |-> FALSE, erasePending |-> FALSE,
                                 cursor |-> Start, reset |-> "", rcursor |-> Start,
                                 restarts |-> 0, before |-> 0]]
    /\ work = [d \in Device |-> Idle]
    /\ removing = [d \in Device |-> {}]
    /\ fleet = [on |-> TRUE, seq |-> 0, floor |-> 0, erasedAt |-> 0, era |-> 1,
                rec |-> [m \in Memory |-> Gone]]
    /\ asked = [m \in Memory |-> "no"]
    /\ wiped = [m \in Memory |-> {}]
    /\ spent = [b \in DOMAIN Bound |-> 0]

-----------------------------------------------------------------------------
(* The user's edits. Each is one store operation under the store's lock,   *)
(* saved before it returns, except a forget, which is two: the row is      *)
(* removed from one file and the forget queued in another.                 *)

\* What a CreatedHLC stamped now may be.
Stamps(m) ==
    {b \in 1 .. fleet.era + MaxSkew : b = fleet.era \/ (m \in Skewed /\ fleet.era <= b + MaxSkew)}

\* Add of a new row (stampCreateLocked). An id is new on every device.
Added(d, b) == [scope |-> "sync", sh |-> Tick(d), pin |-> FALSE, ph |-> 0, born |-> b,
                dirty |-> TRUE, gen |-> 1, sent |-> FALSE, syn |-> 0]

Add(d, m) ==
    /\ asked[m] = "no"
    /\ asked' = [asked EXCEPT ![m] = "live"]
    /\ \E b \in Stamps(m) :
          chunk' = [chunk EXCEPT ![d] = [k \in DOMAIN @ \cup {m} |-> IF k = m THEN Added(d, b) ELSE @[k]]]
    /\ clock' = Ticked(d)
    /\ UNCHANGED <<outbox, lane, work, removing, fleet, wiped, spent>>

Edit(d, m, c) ==
    /\ Left("edits") /\ Spend("edits")
    /\ chunk' = [chunk EXCEPT ![d][m] = Touch(c)]
    /\ clock' = Ticked(d)
    /\ asked' = IF m \in outbox[d] \cup {r[1] : r \in removing[d]}
                THEN [asked EXCEPT ![m] = "void"] ELSE asked
    /\ UNCHANGED <<outbox, lane, work, removing, fleet, wiped>>

SetPinned(d, m) ==
    /\ m \in Rows(d)
    /\ Edit(d, m, [chunk[d][m] EXCEPT !.pin = ~@, !.ph = Tick(d)])

\* Promotion into the synced scopes and demotion out of them.
PromoteScope(d, m) ==
    /\ m \in Rows(d)
    /\ Edit(d, m, [chunk[d][m] EXCEPT !.scope = IF @ = "sync" THEN "local" ELSE "sync",
                                      !.sh = Tick(d)])

\* RemoveForSync, first half: the row leaves the store.
Remove(d, m) ==
    /\ m \in Rows(d)
    /\ Left("forgets") /\ Spend("forgets")
    /\ chunk' = [chunk EXCEPT ![d] = Without(@, {m})]
    /\ removing' = [removing EXCEPT ![d] = @ \cup {<<m, FleetMayKnow(chunk[d][m])>>}]
    /\ asked' = [asked EXCEPT ![m] = IF @ # "live" THEN @
                                     ELSE IF FleetMayKnow(chunk[d][m]) THEN "asked" ELSE "void"]
    /\ UNCHANGED <<clock, outbox, lane, work, fleet, wiped>>

\* RemoveForSync, second half: the forget is queued iff Fleet may know the id.
RecordDelete(d, m) ==
    \E r \in removing[d] :
        /\ r[1] = m
        /\ removing' = [removing EXCEPT ![d] = @ \ {r}]
        /\ IF r[2] /\ m \notin outbox[d]
           THEN /\ outbox' = [outbox EXCEPT ![d] = @ \cup {m}]
                /\ clock' = Ticked(d)
           ELSE UNCHANGED <<outbox, clock>>
        /\ asked' = IF r[2] /\ asked[m] = "asked" THEN [asked EXCEPT ![m] = "queued"] ELSE asked
        /\ UNCHANGED <<chunk, lane, work, fleet, wiped, spent>>

-----------------------------------------------------------------------------
(* Fleet: what a pull and a push answer. External.                         *)

\* Why a cursor is refused, or "". A plain cursor is held against the floor,
\* the cursor of a snapshot only against the epoch it was given in.
Stale(cu) ==
    CASE cu.kind = "plain" /\ cu.seq < fleet.floor ->
            IF cu.seq < fleet.erasedAt THEN "erased" ELSE "cursor_expired"
      [] cu.kind = "page" /\ cu.erased # fleet.erasedAt -> "erased"
      [] cu.kind = "page" /\ cu.erased = fleet.erasedAt /\ cu.floor < fleet.floor -> "cursor_expired"
      [] OTHER -> ""

After(cu) == {m \in Memory : fleet.rec[m].seq > cu.seq}

\* The records of the next page: the Limit oldest changes after the cursor.
Page(cu) == {m \in After(cu) :
                Cardinality({k \in After(cu) : fleet.rec[k].seq <= fleet.rec[m].seq}) <= Limit}

NextCursor(cu) ==
    LET last == Max({cu.seq} \cup {fleet.rec[m].seq : m \in Page(cu)})
        more == Page(cu) # After(cu)
    IN  IF cu.kind = "plain" THEN Plain(last)
        ELSE IF more THEN [kind |-> "page", seq |-> last, floor |-> fleet.floor,
                           erased |-> fleet.erasedAt]
        ELSE LET final == Max({last, fleet.floor})
             IN  IF final = 0 THEN cu ELSE Plain(final)

\* One forget. An id Fleet never saw leaves no row.
Forgotten(r) ==
    IF r.st \in {"none", "forgotten"} THEN r ELSE [Gone EXCEPT !.st = "forgotten"]

\* One upsert: the answer, and the record after it. A forgotten tombstone is
\* absorbing, a left_sync_scope one yields to a newer promotion with content,
\* and the fields of a live record merge by stamp.
Create(it) ==
    [st |-> "live", scope |-> it.scope, sh |-> it.sh, pin |-> it.pin, ph |-> it.ph, seq |-> 0]

Merge(r, it) ==
    LET newS == it.sh > r.sh
        newP == ~it.demote /\ it.ph > r.ph
    IN  [st |-> IF newS /\ it.scope = "local" THEN "left" ELSE "live",
         scope |-> IF newS THEN it.scope ELSE r.scope,
         sh |-> IF newS THEN it.sh ELSE r.sh,
         pin |-> IF newP THEN it.pin ELSE r.pin,
         ph |-> IF newP THEN it.ph ELSE r.ph,
         seq |-> r.seq]

Revives(r, it) == it.scope = "sync" /\ it.sh > r.sh

Answer(r, it) ==
    CASE r.st = "forgotten" -> "forgotten"
      [] r.st = "live" -> "accepted"
      [] r.st = "left" /\ ~Revives(r, it) -> "accepted"       \* "unchanged"
      [] OTHER -> IF it.content THEN "accepted" ELSE "content"

Upserted(r, it) ==
    CASE r.st = "live" -> Merge(r, it)
      [] r.st = "none" /\ it.content -> Create(it)
      [] r.st = "left" /\ Revives(r, it) /\ it.content -> Create(it)
      [] OTHER -> r

\* A batch: each record that changes takes the next number of the feed, in the
\* order of a fixed enumeration of the ids, which do not depend on one another.
Rank == CHOOSE r \in [Memory -> 1 .. Cardinality(Memory)] :
            \A a, b \in Memory : a # b => r[a] # r[b]

Numbered(f, new) ==
    LET changed  == {m \in Memory : new[m] # f.rec[m]}
        place(m) == Cardinality({k \in changed : k = m \/ Rank[k] < Rank[m]})
    IN  [f EXCEPT !.seq = @ + Cardinality(changed),
                  !.rec = [m \in Memory |-> IF m \in changed
                                            THEN [new[m] EXCEPT !.seq = f.seq + place(m)]
                                            ELSE f.rec[m]]]

\* Tombstones older than the floor are swept; a device behind it must resync. The
\* empty cursor is never refused: Heard(d) says that d's next pull does not start
\* with it, or that d holds nothing Fleet has had. Nor does a sweep make a device
\* give up a row whose upload it has not seen confirmed (see Answered).
Heard(d) ==
    \/ (IF lane[d].reset # "" THEN lane[d].rcursor ELSE lane[d].cursor).kind # "start"
    \/ At(d, "idle") /\ \A m \in Rows(d) : ~FleetMayKnow(chunk[d][m])

Answered(d) == \A m \in Rows(d) : chunk[d][m].sent => chunk[d][m].syn # 0

FleetSweep ==
    /\ Left("sweeps") /\ Spend("sweeps")
    /\ Settled => \A d \in Device : Heard(d) /\ Answered(d)
    /\ fleet.floor < fleet.seq
    /\ fleet' = [fleet EXCEPT !.floor = fleet.seq,
                              !.rec = [m \in Memory |-> IF @[m].st = "live" THEN @[m] ELSE Gone]]
    /\ UNCHANGED <<chunk, clock, outbox, lane, work, removing, asked, wiped>>

-----------------------------------------------------------------------------
(* The lane: pull to exhaustion, page by page.                             *)

Goto(d, w) == work' = [work EXCEPT ![d] = w]

Resetting(d) == lane[d].reset # ""

\* RunOnce on a device that is not opted in: the rest of an opt-out that Fleet
\* has not confirmed. On one that is opted in it starts with Pull.
RunOnce(d) ==
    /\ At(d, "idle") /\ ~lane[d].on
    /\ lane[d].disablePending \/ lane[d].erasePending
    /\ Goto(d, [pc |-> IF lane[d].disablePending THEN "put" ELSE "erase"])
    /\ UNCHANGED <<chunk, clock, outbox, lane, removing, fleet, asked, wiped, spent>>

\* beginReset: an epoch after every SyncedAt, and the snapshot from the start.
\* A restart keeps an erase that was not replayed yet.
BeginReset(l, reason) ==
    LET kept == l.reset = "erased" /\ reason # "erased"
    IN  [l EXCEPT !.restarts = IF l.reset = "" THEN @ ELSE @ + 1,
                  !.before = IF ~kept /\ reason = "erased" THEN fleet.era ELSE @,
                  !.reset = IF kept THEN "erased" ELSE reason,
                  !.rcursor = Start, !.cursor = Start]

NewEpoch(d) == [chunk EXCEPT ![d] = [m \in DOMAIN @ |->
                   IF @[m].syn = 0 THEN @[m] ELSE [@[m] EXCEPT !.syn = 1]]]

\* One pull request and its answer; a live record with a queued forget is
\* dropped from the page here, before the page is applied.
Pull(d) ==
    LET cu     == IF Resetting(d) THEN lane[d].rcursor ELSE lane[d].cursor
        reason == Stale(cu)
        next   == BeginReset(lane[d], reason)
        page   == Page(cu)
        kept   == {m \in page : fleet.rec[m].st = "live" => m \notin outbox[d]}
    IN  /\ At(d, "pull") \/ (At(d, "idle") /\ lane[d].on)
        /\ \/ /\ ~fleet.on
              /\ lane' = [lane EXCEPT ![d].on = FALSE]
              /\ Goto(d, Idle)
              /\ UNCHANGED <<chunk, clock>>
           \/ /\ fleet.on /\ reason # ""
              /\ lane' = [lane EXCEPT ![d] = next]
              /\ chunk' = NewEpoch(d)
              /\ Goto(d, IF next.restarts > MaxRestarts THEN Idle ELSE [pc |-> "pull"])
              /\ UNCHANGED clock
           \/ /\ fleet.on /\ reason = ""
              /\ clock' = [clock EXCEPT ![d] = Max({@} \cup
                              {fleet.rec[m].sh \div N : m \in page} \cup
                              {fleet.rec[m].ph \div N : m \in page})]
              /\ Goto(d, [pc |-> "apply", recs |-> [m \in kept |-> fleet.rec[m]],
                          acks |-> {m \in page : fleet.rec[m].st = "forgotten"} \cap outbox[d],
                          cu |-> NextCursor(cu), more |-> page # After(cu)])
              /\ UNCHANGED <<chunk, lane>>
        /\ UNCHANGED <<outbox, removing, fleet, asked, wiped, spent>>

\* What one pulled record makes of the local row. The device that demoted a
\* memory keeps its row; a row Fleet sent or was sent is removed.
Keeps(c) == c.scope = "local" \/ ~FleetMayKnow(c)

Pulled(c, r, syn) ==
    [c EXCEPT !.scope = IF r.sh > c.sh THEN r.scope ELSE @,
              !.sh    = IF r.sh > c.sh THEN r.sh ELSE @,
              !.pin   = IF r.ph > c.ph THEN r.pin ELSE @,
              !.ph    = IF r.ph > c.ph THEN r.ph ELSE @,
              !.syn   = syn]

Inserted(r, syn) ==
    [scope |-> r.scope, sh |-> r.sh, pin |-> r.pin, ph |-> r.ph, born |-> 0,
     dirty |-> FALSE, gen |-> 0, sent |-> FALSE, syn |-> syn]

\* ApplyRemote: the page under the store's lock, then one save.
ApplyPage(d) ==
    LET recs == work[d].recs
        syn  == IF Resetting(d) THEN 2 ELSE 1
        live == {m \in DOMAIN recs : recs[m].st = "live"}
        kept == {m \in Rows(d) \cap DOMAIN recs : recs[m].st = "left" /\ Keeps(chunk[d][m])}
        rows == (Rows(d) \ DOMAIN recs) \cup live \cup kept
    IN  /\ At(d, "apply")
        /\ chunk' = [chunk EXCEPT ![d] = [m \in rows |->
               IF m \in kept THEN [@[m] EXCEPT !.syn = 0, !.sent = FALSE]
               ELSE IF m \notin live THEN @[m]
               ELSE IF m \in DOMAIN @ THEN Pulled(@[m], recs[m], syn)
               ELSE Inserted(recs[m], syn)]]
        /\ Goto(d, [pc |-> "cursor", acks |-> work[d].acks, cu |-> work[d].cu, more |-> work[d].more])
        /\ UNCHANGED <<clock, outbox, lane, removing, fleet, asked, wiped, spent>>

\* The rest of a page: the queued forgets a forgotten tombstone answers, and
\* then the cursor; only the last page of the feed lets the lane go on. (The two files
\* are saved in turn; a crash between them leaves the page to be pulled again.)
SaveCursor(d) ==
    /\ At(d, "cursor")
    /\ outbox' = [outbox EXCEPT ![d] = @ \ work[d].acks]
    /\ lane' = IF Resetting(d) THEN [lane EXCEPT ![d].rcursor = work[d].cu]
                               ELSE [lane EXCEPT ![d].cursor = work[d].cu]
    /\ \/ work[d].more /\ Goto(d, [pc |-> "pull"])
       \/ work[d].more /\ Goto(d, Idle)            \* the pages of one cycle are used up
       \/ ~work[d].more /\ Goto(d, [pc |-> IF Resetting(d) THEN "sweep" ELSE "push"])
    /\ UNCHANGED <<chunk, clock, removing, fleet, asked, wiped, spent>>

\* DeleteSyncedBefore: the rows Fleet knew and the snapshot did not touch.
SyncedBefore(d) == {m \in Rows(d) : chunk[d][m].syn = 1}

\* Mutant of CreatedBefore: the sweep for an erase is left out.
MutCreatedBeforeNone(d) == {}

\* DeleteCreatedBefore: after an erase, the rows created before it, as far as a stamp
\* of the device's clock tells when it is compared with the erase's time on Fleet's.
CreatedBefore(d) ==
    {m \in Rows(d) : /\ lane[d].reset = "erased"
                     /\ chunk[d][m].syn # 2 /\ chunk[d][m].scope = "sync"
                     /\ chunk[d][m].born < lane[d].before}

\* finishReset: both sweeps, which run again if the state is not saved.
SweepRows(d) ==
    /\ At(d, "sweep")
    /\ chunk' = [chunk EXCEPT ![d] = Without(@, SyncedBefore(d) \cup CreatedBefore(d))]
    /\ Goto(d, [pc |-> "swept"])
    /\ UNCHANGED <<clock, outbox, lane, removing, fleet, asked, wiped, spent>>

FinishReset(d) ==
    /\ At(d, "swept")
    /\ lane' = [lane EXCEPT ![d].cursor = lane[d].rcursor, ![d].reset = "", ![d].before = 0,
                            ![d].rcursor = Start, ![d].restarts = 0]
    /\ chunk' = NewEpoch(d)
    /\ Goto(d, [pc |-> "push"])
    /\ UNCHANGED <<clock, outbox, removing, fleet, asked, wiped, spent>>

-----------------------------------------------------------------------------
(* The lane: push.                                                         *)

\* A row goes out when it is in a synced scope and new or changed, or when it
\* left the synced scopes and Fleet may still hold it.
PushCandidate(c) ==
    IF c.scope = "sync" THEN c.dirty \/ c.syn = 0
    ELSE c.dirty /\ FleetMayKnow(c)

PushRead(d) ==
    LET ids == {m \in Rows(d) : PushCandidate(chunk[d][m])}
    IN  /\ At(d, "push")
        /\ Goto(d, IF outbox[d] = {} /\ ids = {} THEN Idle
                   ELSE [pc |-> "mark", forgets |-> outbox[d], ids |-> ids])
        /\ UNCHANGED <<chunk, clock, outbox, lane, removing, fleet, asked, wiped, spent>>

\* A demotion sends its scope alone; content goes out until Fleet confirmed it.
BuildItem(c) ==
    [scope |-> c.scope, sh |-> c.sh, pin |-> c.pin, ph |-> c.ph, gen |-> c.gen,
     demote |-> c.scope = "local", content |-> c.scope = "sync" /\ c.syn = 0]

Marked(c, b) == [c EXCEPT !.sent = TRUE, !.born = IF @ = 0 THEN b ELSE @]

\* MarkSyncSent, saved before anything is sent: the rows that are still there,
\* stamped, as they are now.
MarkSyncSent(d) ==
    LET ids == work[d].ids \cap Rows(d)
        new == {m \in ids : chunk[d][m].born = 0}
    IN  /\ At(d, "mark")
        /\ \E b \in [new -> 1 .. fleet.era + MaxSkew] :
              /\ \A m \in new : b[m] \in Stamps(m)
              /\ chunk' = [chunk EXCEPT ![d] = [m \in DOMAIN @ |-> IF m \in ids THEN Marked(@[m], b[m]) ELSE @[m]]]
        /\ clock' = IF new # {} THEN Ticked(d) ELSE clock
        /\ Goto(d, IF ids = {} /\ work[d].forgets = {} THEN Idle
                   ELSE [pc |-> "send", forgets |-> work[d].forgets, then |-> "idle",
                         items |-> [m \in ids |-> BuildItem(chunk[d][m])]])
        /\ UNCHANGED <<outbox, lane, removing, fleet, asked, wiped, spent>>

\* pushBatch, Fleet's side: the forgets, then each upsert, unless sync is off
\* or the base cursor is stale.
Each(f, forgets) ==
    Numbered(f, [m \in Memory |-> IF m \in forgets THEN Forgotten(f.rec[m]) ELSE f.rec[m]])

Every(f, items) ==
    Numbered(f, [m \in Memory |-> IF m \in DOMAIN items THEN Upserted(f.rec[m], items[m])
                                  ELSE f.rec[m]])

Blanket(d) == IF ~fleet.on THEN "sync_disabled"
              ELSE IF Stale(lane[d].cursor) # "" THEN "resync_required" ELSE ""

Send(d) ==
    LET w     == work[d]
        first == Each(fleet, w.forgets)
    IN  /\ At(d, "send")
        /\ fleet' = IF Blanket(d) # "" THEN first ELSE Every(first, w.items)
        /\ Goto(d, [pc |-> "results", forgets |-> w.forgets, then |-> w.then, items |-> w.items,
                    res |-> [m \in DOMAIN w.items |->
                                IF m \in w.forgets /\ first.rec[m].st \in {"none", "forgotten"} THEN "forgotten"
                                ELSE IF Blanket(d) # "" THEN Blanket(d)
                                ELSE Answer(first.rec[m], w.items[m])]])
        /\ wiped' = [m \in Memory |-> IF d \in wiped[m] /\ m \in DOMAIN w.items /\ fleet'.rec[m].st = "live"
                                      THEN {} ELSE wiped[m]]
        /\ UNCHANGED <<chunk, clock, outbox, lane, removing, asked, spent>>

\* Mutant of Outcome: an answer clears the need to push whatever happened since.
MutOutcomeAlways(c, it, res) ==
    IF res = "resync_required" THEN c
    ELSE IF it.demote THEN [c EXCEPT !.syn = 0, !.sent = FALSE, !.dirty = FALSE]
    ELSE IF res = "content" THEN [c EXCEPT !.syn = 0]
    ELSE [c EXCEPT !.syn = 1, !.dirty = FALSE]

\* What an answer makes of the row that was sent: it clears the need to push
\* only if nothing was edited while the request was in flight.
Outcome(c, it, res) ==
    LET settled(x) == IF c.gen = it.gen THEN [x EXCEPT !.dirty = FALSE] ELSE x
    IN  IF res = "resync_required" THEN c
        ELSE IF it.demote THEN settled([c EXCEPT !.syn = 0, !.sent = FALSE])
        ELSE IF res = "content" THEN [c EXCEPT !.syn = 0]
        ELSE settled([c EXCEPT !.syn = 1])

\* Mutant of Acked: every forget that is queued by now.
MutAckedAll(d) == outbox[d]

\* Mutant of Acked: the answers to forgets are not looked at.
MutAckedNone(d) == {}

\* The forgets an answer settles: those that were sent, unless the same id went
\* out as an upsert too (Fleet answers one entry per id).
Acked(d) == work[d].forgets \ DOMAIN work[d].items

\* A push refused for a stale cursor starts a reset that replays no erase; the
\* pull that follows finds out whether there was one.
ResyncReason == "cursor_expired"

Resync(l, again) == [BeginReset(l, ResyncReason) EXCEPT !.restarts = @ + again]

\* applyResults, to the ack: each upsert refused for a stale cursor starts the
\* reset, or starts it again; then the forgets that were answered.
Results(d) ==
    LET w == work[d]
        refused(code) == {m \in DOMAIN w.res : w.res[m] = code}
        resync == refused("resync_required")
        again  == IF resync = {} THEN 0 ELSE Cardinality(resync) - 1
    IN  /\ At(d, "results")
        /\ \/ /\ refused("sync_disabled") # {}
              /\ lane' = [lane EXCEPT ![d].on = FALSE]
              /\ Goto(d, Idle)
              /\ UNCHANGED <<chunk, outbox>>
           \/ /\ refused("sync_disabled") = {}
              /\ lane' = IF resync = {} THEN lane
                         ELSE [lane EXCEPT ![d] = Resync(@, again)]
              /\ chunk' = IF resync = {} THEN chunk ELSE NewEpoch(d)
              /\ outbox' = [outbox EXCEPT ![d] = @ \ Acked(d)]
              /\ Goto(d, [pc |-> "outcomes", items |-> w.items, then |-> w.then, res |-> w.res])
        /\ UNCHANGED <<clock, removing, fleet, asked, wiped, spent>>

\* ApplySyncOutcomes, one save: a row deleted meanwhile is skipped, and one that
\* Fleet calls forgotten is deleted, unless it is a demotion's.
Outcomes(d) ==
    LET w    == work[d]
        gone == {m \in DOMAIN w.items : w.res[m] = "forgotten" /\ ~w.items[m].demote}
    IN  /\ At(d, "outcomes")
        /\ chunk' = [chunk EXCEPT ![d] = [m \in Rows(d) \ gone |->
               IF m \in DOMAIN w.items THEN Outcome(@[m], w.items[m], w.res[m]) ELSE @[m]]]
        /\ Goto(d, [pc |-> w.then])
        /\ UNCHANGED <<clock, outbox, lane, removing, fleet, asked, wiped, spent>>

-----------------------------------------------------------------------------
(* Opting in and out.                                                      *)

\* Disable, up to its first request: the opt-out is saved before anything is
\* sent, then the queued forgets are flushed.
Disable(d, erase) ==
    /\ At(d, "idle")
    /\ IF erase THEN Left("erases") /\ Spend("erases") ELSE Left("switch") /\ Spend("switch")
    /\ lane' = [lane EXCEPT ![d].on = FALSE, ![d].disablePending = TRUE,
                            ![d].erasePending = @ \/ erase]
    /\ Goto(d, IF outbox[d] = {} THEN [pc |-> "put"]
               ELSE [pc |-> "send", forgets |-> outbox[d], then |-> "put", items |-> [m \in {} |-> 0]])
    /\ UNCHANGED <<chunk, clock, outbox, removing, fleet, asked, wiped>>

\* putDisabled: the flag is cleared only when Fleet confirmed.
PutDisabled(d) ==
    /\ At(d, "put")
    /\ fleet' = [fleet EXCEPT !.on = FALSE]
    /\ Goto(d, [pc |-> "put_ok"])
    /\ UNCHANGED <<chunk, clock, outbox, lane, removing, asked, wiped, spent>>

PutConfirmed(d) ==
    /\ At(d, "put_ok")
    /\ lane' = [lane EXCEPT ![d].disablePending = FALSE]
    /\ Goto(d, IF lane[d].erasePending THEN [pc |-> "erase"] ELSE Idle)
    /\ UNCHANGED <<chunk, clock, outbox, removing, fleet, asked, wiped, spent>>

\* Every device can be told of an erase of the memory: it has a cursor to refuse, and
\* its row is not stamped by a clock ahead of Fleet's.
Covered(m) ==
    \A e \in Device : Heard(e) /\ (m \in Rows(e) => chunk[e][m].born <= fleet.era)

\* forget-all on Fleet.
ForgetAll(d) ==
    /\ At(d, "erase")
    /\ fleet' = [fleet EXCEPT !.seq = @ + 1, !.floor = fleet.seq + 1, !.erasedAt = fleet.seq + 1,
                              !.era = @ + 1, !.rec = [m \in Memory |-> Gone]]
    /\ wiped' = [m \in Memory |-> IF ~Covered(m) THEN {}
                                  ELSE IF fleet.rec[m].st \in {"live", "forgotten"} THEN {d}
                                  ELSE IF wiped[m] = {} THEN {} ELSE wiped[m] \cup {d}]
    /\ asked' = [m \in Memory |-> IF asked[m] = "live" /\ (m \notin Rows(d) \/ ~Covered(m))
                                  THEN "void" ELSE asked[m]]
    /\ Goto(d, [pc |-> "erased"])
    /\ UNCHANGED <<chunk, clock, outbox, lane, removing, spent>>

\* finishDisable after forget-all: three files in turn.
EraseAck(d) ==
    /\ At(d, "erased")
    /\ outbox' = [outbox EXCEPT ![d] = {}]
    /\ Goto(d, [pc |-> "clear"])
    /\ UNCHANGED <<chunk, clock, lane, removing, fleet, asked, wiped, spent>>

\* Mutant of ClearSyncMarkers: the rows keep what they know of Fleet.
MutClearSyncMarkersNot(d) ==
    /\ At(d, "clear")
    /\ Goto(d, [pc |-> "cleared"])
    /\ UNCHANGED <<chunk, clock, outbox, lane, removing, fleet, asked, wiped, spent>>

ClearSyncMarkers(d) ==
    /\ At(d, "clear")
    /\ chunk' = [chunk EXCEPT ![d] = [m \in DOMAIN @ |-> [@[m] EXCEPT !.syn = 0, !.sent = FALSE]]]
    /\ Goto(d, [pc |-> "cleared"])
    /\ UNCHANGED <<clock, outbox, lane, removing, fleet, asked, wiped, spent>>

EraseDone(d) ==
    /\ At(d, "cleared")
    /\ lane' = [lane EXCEPT ![d].cursor = Start, ![d].reset = "", ![d].before = 0,
                            ![d].rcursor = Start, ![d].restarts = 0, ![d].erasePending = FALSE]
    /\ Goto(d, Idle)
    /\ UNCHANGED <<chunk, clock, outbox, removing, fleet, asked, wiped, spent>>

\* Enable: Fleet first, then this device; an unconfirmed opt-out is dropped.
Enable(d) ==
    /\ At(d, "idle") /\ Left("switch") /\ Spend("switch")
    /\ fleet' = [fleet EXCEPT !.on = TRUE]
    /\ Goto(d, [pc |-> "enabled"])
    /\ UNCHANGED <<chunk, clock, outbox, lane, removing, asked, wiped>>

EnableConfirmed(d) ==
    /\ At(d, "enabled")
    /\ lane' = [lane EXCEPT ![d].on = TRUE, ![d].disablePending = FALSE, ![d].erasePending = FALSE]
    /\ Goto(d, Idle)
    /\ UNCHANGED <<chunk, clock, outbox, removing, fleet, asked, wiped, spent>>

\* Status, when the settings panel is opened: the device follows Fleet unless
\* its own opt-out is unconfirmed. (The answer and the update are one step here.)
Status(d) ==
    /\ fleet.on # lane[d].on /\ ~lane[d].disablePending
    /\ lane' = [lane EXCEPT ![d].on = fleet.on]
    /\ UNCHANGED <<chunk, clock, outbox, work, removing, fleet, asked, wiped, spent>>

-----------------------------------------------------------------------------
(* Faults.                                                                 *)

\* A request fails before Fleet saw it, or its answer is lost. Only the flush
\* of forgets before an opt-out goes on after that.
RequestFails(d) ==
    /\ work[d].pc \in {"pull", "send", "results", "put", "put_ok", "erase", "erased", "enabled"}
    /\ Left("faults") /\ Spend("faults")
    /\ Goto(d, IF work[d].pc \in {"send", "results"} THEN [pc |-> work[d].then] ELSE Idle)
    /\ UNCHANGED <<chunk, clock, outbox, lane, removing, fleet, asked, wiped>>

\* The process dies and is started again: the files remain.
Crash(d) ==
    /\ Left("faults") /\ Spend("faults")
    /\ work[d] # Idle \/ removing[d] # {}
    /\ Goto(d, Idle)
    /\ removing' = [removing EXCEPT ![d] = {}]
    /\ asked' = [m \in Memory |-> IF <<m, TRUE>> \in removing[d] THEN "cut" ELSE asked[m]]
    /\ UNCHANGED <<chunk, clock, outbox, lane, fleet, wiped>>

Lane(d) ==
    \/ RunOnce(d) \/ Pull(d) \/ ApplyPage(d) \/ SaveCursor(d)
    \/ SweepRows(d) \/ FinishReset(d)
    \/ PushRead(d) \/ MarkSyncSent(d) \/ Send(d) \/ Results(d) \/ Outcomes(d)
    \/ PutDisabled(d) \/ PutConfirmed(d) \/ ForgetAll(d) \/ EraseAck(d)
    \/ ClearSyncMarkers(d) \/ EraseDone(d) \/ EnableConfirmed(d)

Next ==
    \/ \E d \in Device :
        \/ Lane(d)
        \/ \E m \in Memory :
            \/ d \in Origin /\ Add(d, m)
            \/ SetPinned(d, m) \/ PromoteScope(d, m)
            \/ Remove(d, m) \/ RecordDelete(d, m)
        \/ \E erase \in BOOLEAN : Disable(d, erase)
        \/ Enable(d) \/ Status(d)
        \/ RequestFails(d) \/ Crash(d)
    \/ FleetSweep

Spec == Init /\ [][Next]_vars

\* The ticker keeps running the lane, a request is answered, and a delete
\* that was started is recorded.
FairSpec ==
    /\ Spec
    /\ \A d \in Device : WF_vars(Lane(d)) /\ \A m \in Memory : WF_vars(RecordDelete(d, m))

-----------------------------------------------------------------------------
(* Properties.                                                             *)

\* Every part has its type; a reset is for an erase or for an expired cursor, the
\* two reasons beginReset knows (memory_sync.go:905-922).
TypeOK ==
    /\ \A d \in Device :
        /\ Rows(d) \subseteq Memory /\ outbox[d] \subseteq Memory
        /\ \A m \in Rows(d) : chunk[d][m] \in Chunk
        /\ removing[d] \subseteq Memory \X BOOLEAN
        /\ lane[d].reset \in {"", "erased", "cursor_expired"}
    /\ clock \in [Device -> Nat]
    /\ asked \in [Memory -> {"no", "live", "void", "asked", "queued", "cut"}]

Quiet ==
    /\ fleet.on
    /\ \A d \in Device :
        /\ lane[d].on /\ At(d, "idle") /\ ~Resetting(d)
        /\ outbox[d] = {} /\ removing[d] = {}
        /\ After(lane[d].cursor) = {} /\ NextCursor(lane[d].cursor) = lane[d].cursor
        /\ Stale(lane[d].cursor) = ""
        /\ \A m \in Rows(d) : ~PushCandidate(chunk[d][m])

Live(m) == fleet.rec[m].st = "live"

\* memory_sync.go:823-893, 1036-1094, 1272-1366, store_sync.go:203-259, 289-402: when
\* nothing is left to pull or push, every device holds what Fleet holds:
\* the same memories in the synced scopes, with the same pins. An edit that was
\* made while a push was in flight, lost to an older stamp or dropped by a crash
\* would show here.
Agree ==
    Quiet => \A d \in Device : \A m \in {k \in Memory : asked[k] \notin {"cut", "void"}} :
        /\ Live(m) => m \in Rows(d) /\ chunk[d][m].pin = fleet.rec[m].pin
        /\ m \in Rows(d) => (Live(m) <=> chunk[d][m].scope = "sync")

Dropped(m) == ~Live(m) /\ \A d \in Device : m \in Rows(d) => chunk[d][m].scope = "local"

\* A forget that was recorded wins: once everything is quiet the memory is
\* neither on Fleet nor in the synced scopes of any device, whatever edits, scope
\* changes and resets it raced with, and whatever sweeps while every device had a
\* cursor to refuse and no upload unanswered (Settled). (RemoveForSync, Pull's
\* outbox filter, the forgotten answer of a push.)
ForgetWins == Quiet => \A m \in Memory : asked[m] = "queued" => Dropped(m)

\* And it does get there: a queued forget reaches Fleet, which acknowledges it
\* to the device that queued it, and every copy in a synced scope goes, for good.
ForgetSettles ==
    \A m \in Memory : asked[m] = "queued" ~>
        [](asked[m] = "queued" => Dropped(m) /\ \A d \in Device : m \notin outbox[d])

\* store_sync.go:313-323: a memory nobody forgot is not lost: some device still has it. A demotion
\* removes it from the other devices, never from the one that demoted it.
NeverLost ==
    \A m \in Memory : asked[m] = "live" => \E d \in Device : m \in Rows(d)

\* memory_sync.go:926-942, store_sync.go:460-480: what an erase took off Fleet does not
\* come back from another device: only a device that erased keeps its memories, and only
\* it may upload them again. It is about the memories an erase every device could be told
\* of took (Covered): a stamp that is ahead of Fleet's clock outlives the replay of the
\* erase, and a device that never got a cursor is not told.
EraseHolds == \A m \in Memory : wiped[m] # {} => ~Live(m)
=============================================================================
