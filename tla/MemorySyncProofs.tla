-------------------------- MODULE MemorySyncProofs --------------------------
(* What holds of memory sync for every number of devices and memories, every  *)
(* page size and every bound: its types; without sweeps and erases, that a    *)
(* queued forget wins and that quiet devices agree; and that an erase holds.  *)
EXTENDS MemorySync, FiniteSetTheorems, TLAPS

-----------------------------------------------------------------------------
(* Facts about the operators of the model.                                 *)

\* The maximum of a finite set of naturals: Max in a pull's clock and cursor.
LEMMA MaxType ==
    ASSUME NEW S \in SUBSET Nat, IsFiniteSet(S), S # {}
    PROVE  Max(S) \in S /\ \A y \in S : Max(S) >= y
  <1> DEFINE Up(n) == {x \in S : x >= n}
             T == {Up(n) : n \in S}
             R == StrictSubsetOrdering(S)
  <1>1. T \subseteq FiniteSubsetsOf(S)
    <2>1. \A n \in S : IsFiniteSet(Up(n)) /\ Up(n) \subseteq S
      BY FS_Subset
    <2> QED
      BY <2>1 DEF FiniteSubsetsOf
  <1>2. T # {}
    OBVIOUS
  <1>3. IsWellFoundedOn(R, FiniteSubsetsOf(S))
    BY FS_StrictSubsetOrderingWellFounded
  <1>4. \E x \in T : \A y \in T : ~(<<y, x>> \in R)
    <2> HIDE DEF T, R
    <2> QED
      BY <1>1, <1>2, <1>3, WFMin
  <1>5. PICK n \in S : \A y \in T : ~(<<y, Up(n)>> \in R)
    BY <1>4
  <1>6. ASSUME NEW m \in S PROVE n >= m
    <2>1. SUFFICES ASSUME m > n PROVE FALSE
      OBVIOUS
    <2>2. Up(m) \subseteq Up(n) /\ n \in Up(n) /\ n \notin Up(m)
      <3>1. n \in Nat /\ m \in Nat /\ n \in Up(n) /\ n \notin Up(m)
        BY <2>1
      <3>2. \A x \in S : x >= m => x >= n
        BY <2>1
      <3> QED
        BY <3>1, <3>2, Zenon
    <2>4. Up(m) \in T
      OBVIOUS
    <2>3. <<Up(m), Up(n)>> \in R
      BY <2>2, Zenon DEF StrictSubsetOrdering
    <2> QED
      BY <1>5, <2>4, <2>3
  <1> QED
    BY <1>6, Zenon DEF Max

LEMMA RangeFinite ==
    ASSUME NEW S, IsFiniteSet(S), NEW f
    PROVE  IsFiniteSet({f[x] : x \in S})
  <1> DEFINE T == {f[x] : x \in S}
             g == [x \in S |-> f[x]]
  <1>1. g \in Surjection(S, T)
    BY DEF Surjection
  <1> HIDE DEF T, g
  <1>2. IsFiniteSet(T)
    BY <1>1, FS_Surjection
  <1> QED
    BY <1>2 DEF T

-----------------------------------------------------------------------------
(* Types.                                                                  *)

Scope == {"sync", "local"}

Rec == [st : {"none", "live", "left", "forgotten"}, scope : Scope, sh : Nat, pin : BOOLEAN,
        ph : Nat, seq : Nat]

Cursor == [kind : {"start", "plain", "page"}, seq : Nat, floor : Nat, erased : Nat]

Item == [scope : Scope, sh : Nat, pin : BOOLEAN, ph : Nat, gen : Nat, demote : BOOLEAN,
         content : BOOLEAN]

LaneState == [on : BOOLEAN, disablePending : BOOLEAN, erasePending : BOOLEAN, cursor : Cursor,
              reset : {"", "erased", "cursor_expired"}, rcursor : Cursor, restarts : Nat,
              before : Nat]

Service == [on : BOOLEAN, seq : Nat, floor : Nat, erasedAt : Nat, era : Nat,
            rec : [Memory -> Rec]]

Paging(w) == w.pc \in {"apply", "cursor"}

Pushing(w) == w.pc \in {"send", "results", "outcomes"}

\* The locals of a lane at each of its steps.
WorkOK(w) ==
    /\ w.pc \in {"idle", "pull", "apply", "cursor", "sweep", "swept", "push", "mark", "send",
                 "results", "outcomes", "put", "put_ok", "erase", "erased", "clear", "cleared",
                 "enabled"}
    /\ Paging(w) => w.cu \in Cursor /\ w.more \in BOOLEAN /\ w.acks \subseteq Memory
    /\ w.pc = "apply" => /\ DOMAIN w.recs \subseteq Memory
                         /\ \A m \in DOMAIN w.recs : w.recs[m] \in Rec
    /\ w.pc = "mark" => w.ids \subseteq Memory
    /\ w.pc \in {"mark", "send", "results"} => w.forgets \subseteq Memory
    /\ Pushing(w) => /\ w.then \in {"idle", "put"}
                     /\ DOMAIN w.items \subseteq Memory
                     /\ \A m \in DOMAIN w.items : w.items[m] \in Item
    /\ w.pc \in {"results", "outcomes"} =>
        /\ DOMAIN w.res = DOMAIN w.items
        /\ \A m \in DOMAIN w.res : w.res[m] \in {"forgotten", "accepted", "content",
                                                 "sync_disabled", "resync_required"}

Bounds == {"edits", "forgets", "faults", "sweeps", "erases", "switch"}

Store(c) == DOMAIN c \subseteq Memory /\ \A m \in DOMAIN c : c[m] \in Chunk

StoreTypes == DOMAIN chunk = Device /\ \A d \in Device : Store(chunk[d])

WorkTypes == DOMAIN work = Device /\ \A d \in Device : WorkOK(work[d])

Types ==
    /\ StoreTypes /\ WorkTypes
    /\ clock \in [Device -> Nat]
    /\ outbox \in [Device -> SUBSET Memory]
    /\ lane \in [Device -> LaneState]
    /\ removing \in [Device -> SUBSET (Memory \X BOOLEAN)]
    /\ fleet \in Service
    /\ asked \in [Memory -> {"no", "live", "void", "asked", "queued", "cut"}]
    /\ wiped \in [Memory -> SUBSET Device]
    /\ spent \in [Bounds -> Nat]

\* r is the version new of a record, under a number of the feed after n, up to k.
Issued(r, new, n, k) ==
    /\ r.st = new.st /\ r.scope = new.scope /\ r.sh = new.sh /\ r.pin = new.pin /\ r.ph = new.ph
    /\ n < r.seq /\ r.seq <= k

LEMMA IssuedWider ==
    ASSUME NEW r \in Rec, NEW new, NEW n \in Nat, NEW k \in Nat, NEW n0 \in Nat, NEW k0 \in Nat,
           Issued(r, new, n, k), n >= n0, k0 >= k
    PROVE  Issued(r, new, n0, k0)
  <1>1. r.seq \in Nat
    BY DEF Rec
  <1> QED
    BY <1>1 DEF Issued

\* A batch keeps the records that do not change and numbers the others anew.
LEMMA NumberedFacts ==
    ASSUME NEW f \in Service, NEW new \in [Memory -> Rec]
    PROVE  LET g == Numbered(f, new) IN
           /\ g \in Service /\ g.seq >= f.seq
           /\ g.on = f.on /\ g.floor = f.floor /\ g.erasedAt = f.erasedAt /\ g.era = f.era
           /\ \A m \in Memory : IF new[m] = f.rec[m] THEN g.rec[m] = f.rec[m]
                                 ELSE Issued(g.rec[m], new[m], f.seq, g.seq)
  <1> DEFINE changed  == {m \in Memory : new[m] # f.rec[m]}
             upto(m)  == {k \in changed : k = m \/ Rank[k] < Rank[m]}
             place(m) == Cardinality(upto(m))
             rec == [m \in Memory |-> IF m \in changed THEN [new[m] EXCEPT !.seq = f.seq + place(m)]
                                      ELSE f.rec[m]]
             g == Numbered(f, new)
  <1>1. IsFiniteSet(changed) /\ Cardinality(changed) \in Nat
    BY FS_Subset, FS_CardinalityType, SyncConstants
  <1>2. ASSUME NEW m \in changed
        PROVE  place(m) \in Nat /\ 1 <= place(m) /\ place(m) <= Cardinality(changed)
    <2>1. upto(m) \subseteq changed /\ m \in upto(m)
      OBVIOUS
    <2> HIDE DEF changed, upto
    <2>2. IsFiniteSet(upto(m)) /\ Cardinality(upto(m)) <= Cardinality(changed)
      BY <1>1, <2>1, FS_Subset
    <2>3. Cardinality(upto(m)) \in Nat /\ Cardinality(upto(m)) # 0
      BY <2>1, <2>2, FS_CardinalityType, FS_EmptySet
    <2> QED
      BY <1>1, <2>2, <2>3
  <1>3. g = [f EXCEPT !.seq = f.seq + Cardinality(changed), !.rec = rec]
    BY DEF Numbered
  <1> HIDE DEF g, place, changed
  <1>4. f.seq \in Nat /\ f.rec \in [Memory -> Rec]
    BY DEF Service
  <1>5. \A m \in Memory : rec[m] \in Rec
    BY <1>2, <1>4 DEF Rec
  <1>6. /\ g \in Service /\ g.seq = f.seq + Cardinality(changed) /\ g.rec = rec
        /\ g.on = f.on /\ g.floor = f.floor /\ g.erasedAt = f.erasedAt /\ g.era = f.era
    <2> HIDE DEF rec
    <2>1. rec \in [Memory -> Rec]
      BY <1>5 DEF rec
    <2>2. PICK n \in Nat : n = f.seq + Cardinality(changed)
      BY <1>1, <1>4
    <2>3. g = [f EXCEPT !.seq = n, !.rec = rec]
      BY <1>3, <2>2, Zenon
    <2>4. /\ g \in Service /\ g.seq = n /\ g.rec = rec
          /\ g.on = f.on /\ g.floor = f.floor /\ g.erasedAt = f.erasedAt /\ g.era = f.era
      BY <2>1, <2>3 DEF Service
    <2> QED
      BY <2>2, <2>4
  <1>7. ASSUME NEW m \in Memory
        PROVE  IF new[m] = f.rec[m] THEN g.rec[m] = f.rec[m]
               ELSE Issued(g.rec[m], new[m], f.seq, g.seq)
    <2>1. CASE new[m] = f.rec[m]
      BY <2>1, <1>6 DEF changed
    <2>2. CASE new[m] # f.rec[m]
      <3>1. m \in changed
        BY <2>2 DEF changed
      <3>2. g.rec[m] = [new[m] EXCEPT !.seq = f.seq + place(m)] /\ new[m] \in Rec
        BY <3>1, <1>6
      <3> QED
        BY <1>1, <1>2, <1>4, <1>6, <2>2, <3>1, <3>2 DEF Issued, Rec
    <2> QED
      BY <2>1, <2>2
  <1>8. g.seq >= f.seq
    BY <1>1, <1>4, <1>6
  <1> QED
    BY <1>6, <1>7, <1>8 DEF g

\* The results of the operators on one record are records.
LEMMA RecordTypes ==
    ASSUME NEW r \in Rec
    PROVE  /\ Gone \in Rec /\ [Gone EXCEPT !.st = "forgotten"] \in Rec
           /\ Forgotten(r) \in Rec
           /\ \A it \in Item : /\ Upserted(r, it) \in Rec
                               /\ Answer(r, it) \in {"forgotten", "accepted", "content"}
  <1>1. Gone \in Rec /\ [Gone EXCEPT !.st = "forgotten"] \in Rec
    BY DEF Gone, Rec, Scope
  <1>2. Forgotten(r) \in Rec
    BY <1>1 DEF Forgotten
  <1>3. ASSUME NEW it \in Item
        PROVE  Upserted(r, it) \in Rec /\ Answer(r, it) \in {"forgotten", "accepted", "content"}
    <2>1. Create(it) \in Rec
      BY DEF Create, Rec, Item
    <2>2. Merge(r, it) \in Rec
      BY DEF Merge, Rec, Item, Scope
    <2>3. Upserted(r, it) \in Rec
      BY <2>1, <2>2 DEF Upserted
    <2>4. Answer(r, it) \in {"forgotten", "accepted", "content"}
      BY DEF Answer
    <2> QED
      BY <2>3, <2>4
  <1> QED
    BY <1>1, <1>2, <1>3

\* What one push does to one record: a forget, or the upsert of an item.
LEMMA SendRecord ==
    ASSUME Types, NEW d \in Device, Send(d)
    PROVE  /\ fleet' \in Service /\ fleet'.seq >= fleet.seq
           /\ fleet'.on = fleet.on /\ fleet'.floor = fleet.floor /\ fleet'.era = fleet.era
           /\ fleet'.erasedAt = fleet.erasedAt
           /\ \A m \in Memory :
                LET r    == fleet.rec[m]
                    s    == fleet'.rec[m]
                    w    == work[d]
                    went == m \in w.forgets /\ r.st \in {"live", "left"}
                    put  == ~went /\ m \in DOMAIN w.items /\ Blanket(d) = ""
                IN  /\ went => Issued(s, [Gone EXCEPT !.st = "forgotten"], fleet.seq, fleet'.seq)
                    /\ put => IF Upserted(r, w.items[m]) = r THEN s = r
                              ELSE Issued(s, Upserted(r, w.items[m]), fleet.seq, fleet'.seq)
                    /\ ~went /\ ~put => s = r
           /\ work' = [work EXCEPT ![d] = [pc |-> "results", forgets |-> work[d].forgets,
                         then |-> work[d].then, items |-> work[d].items, res |-> work'[d].res]]
           /\ DOMAIN work'[d].res = DOMAIN work[d].items
           /\ \A m \in DOMAIN work[d].items :
                LET r    == fleet.rec[m]
                    it   == work[d].items[m]
                    went == m \in work[d].forgets /\ r.st \in {"live", "left"}
                IN  work'[d].res[m] =
                        IF m \in work[d].forgets THEN "forgotten"
                        ELSE IF Blanket(d) # "" THEN Blanket(d) ELSE Answer(r, it)
  <1> DEFINE w == work[d]
             new1 == [m \in Memory |-> IF m \in w.forgets THEN Forgotten(fleet.rec[m]) ELSE fleet.rec[m]]
             first == Each(fleet, w.forgets)
             new2 == [m \in Memory |-> IF m \in DOMAIN w.items THEN Upserted(first.rec[m], w.items[m])
                                       ELSE first.rec[m]]
  <1>1. fleet \in Service /\ fleet.rec \in [Memory -> Rec] /\ fleet.seq \in Nat
    BY DEF Types, Service
  <1>2. WorkOK(w) /\ w.pc = "send" /\ w.forgets \subseteq Memory /\ DOMAIN w.items \subseteq Memory
        /\ \A m \in DOMAIN w.items : w.items[m] \in Item
    BY Zenon DEF Types, WorkTypes, WorkOK, Pushing, Send, At
  <1>3. new1 \in [Memory -> Rec]
    BY <1>1, RecordTypes
  <1>4. first = Numbered(fleet, new1)
    BY DEF Each
  <1>5. /\ first \in Service /\ first.seq >= fleet.seq
        /\ first.on = fleet.on /\ first.floor = fleet.floor /\ first.erasedAt = fleet.erasedAt
        /\ first.era = fleet.era
        /\ \A m \in Memory : IF new1[m] = fleet.rec[m] THEN first.rec[m] = fleet.rec[m]
                              ELSE Issued(first.rec[m], new1[m], fleet.seq, first.seq)
    <2> HIDE DEF new1, first
    <2> QED
      BY <1>1, <1>3, <1>4, NumberedFacts
  <1>6. first.rec \in [Memory -> Rec] /\ first.seq \in Nat
    BY <1>5 DEF Service
  <1>7. new2 \in [Memory -> Rec]
    <2> HIDE DEF first
    <2> QED
      BY <1>2, <1>6, RecordTypes
  <1>8. Every(first, w.items) = Numbered(first, new2)
    BY DEF Every
  <1> DEFINE last == Every(first, w.items)
  <1>9. /\ last \in Service /\ last.seq >= first.seq
        /\ last.on = first.on /\ last.floor = first.floor /\ last.erasedAt = first.erasedAt
        /\ last.era = first.era
        /\ \A m \in Memory : IF new2[m] = first.rec[m] THEN last.rec[m] = first.rec[m]
                              ELSE Issued(last.rec[m], new2[m], first.seq, last.seq)
    <2> HIDE DEF new2, first
    <2> QED
      BY <1>5, <1>7, <1>8, NumberedFacts
  <1>10. last.seq \in Nat
    BY <1>9 DEF Service
  <1>11. fleet' = IF Blanket(d) # "" THEN first ELSE last
    BY Zenon DEF Send
  <1>12. ASSUME NEW m \in Memory
         PROVE  /\ m \in w.forgets /\ fleet.rec[m].st \in {"live", "left"} =>
                      Issued(first.rec[m], [Gone EXCEPT !.st = "forgotten"], fleet.seq, first.seq)
                /\ ~(m \in w.forgets /\ fleet.rec[m].st \in {"live", "left"}) => first.rec[m] = fleet.rec[m]
    <2>1. fleet.rec[m] \in Rec
      BY <1>1
    <2>2. CASE m \in w.forgets /\ fleet.rec[m].st \in {"live", "left"}
      <3>1. new1[m] = [Gone EXCEPT !.st = "forgotten"]
        BY <2>2 DEF Forgotten
      <3>2. new1[m] # fleet.rec[m]
        BY <2>2, <3>1 DEF Gone
      <3> HIDE DEF new1, first
      <3> QED
        BY <1>5, <2>2, <3>1, <3>2
    <2>3. CASE ~(m \in w.forgets /\ fleet.rec[m].st \in {"live", "left"})
      <3>1. new1[m] = fleet.rec[m]
        BY <2>1, <2>3 DEF Forgotten, Rec
      <3> HIDE DEF new1, first
      <3> QED
        BY <1>5, <2>3, <3>1
    <2> QED
      BY <2>2, <2>3
  <1>13. ASSUME NEW m \in Memory, m \in DOMAIN w.items
         PROVE  new2[m] = Upserted(first.rec[m], w.items[m])
    BY <1>13
  <1>14. ASSUME NEW m \in Memory, m \notin DOMAIN w.items
         PROVE  new2[m] = first.rec[m]
    BY <1>14
  <1> HIDE DEF new1, new2, first, last
  <1>15. ASSUME NEW m \in Memory, first.rec[m].st = "forgotten", NEW it \in Item
         PROVE  Upserted(first.rec[m], it) = first.rec[m]
    BY <1>15 DEF Upserted
  <1>16. ASSUME NEW m \in Memory
         PROVE
                LET r    == fleet.rec[m]
                    s    == fleet'.rec[m]
                    went == m \in w.forgets /\ r.st \in {"live", "left"}
                    put  == ~went /\ m \in DOMAIN w.items /\ Blanket(d) = ""
                IN  /\ went => Issued(s, [Gone EXCEPT !.st = "forgotten"], fleet.seq, fleet'.seq)
                    /\ put => IF Upserted(r, w.items[m]) = r THEN s = r
                              ELSE Issued(s, Upserted(r, w.items[m]), fleet.seq, fleet'.seq)
                    /\ ~went /\ ~put => s = r
    <2> DEFINE r == fleet.rec[m]
               went == m \in w.forgets /\ r.st \in {"live", "left"}
    <2>1. CASE Blanket(d) # ""
      BY <2>1, <1>11, <1>12
    <2>2. CASE Blanket(d) = "" /\ m \notin DOMAIN w.items
      <3>1. fleet'.rec[m] = first.rec[m] /\ fleet'.seq >= first.seq
        BY <1>9, <1>11, <1>14, <2>2
      <3>5. fleet' = last
        BY <1>11, <2>2
      <3>2. fleet'.seq \in Nat /\ first.rec[m] \in Rec /\ fleet.seq >= fleet.seq
        BY <1>1, <1>6, <1>10, <3>5
      <3>3. CASE went
        <4>1. Issued(fleet'.rec[m], [Gone EXCEPT !.st = "forgotten"], fleet.seq, fleet'.seq)
          BY <1>1, <1>6, <1>12, <3>1, <3>2, <3>3, IssuedWider
        <4> QED
          BY <3>3, <4>1
      <3>4. CASE ~went
        BY <1>12, <2>2, <3>1, <3>4
      <3> QED
        BY <3>3, <3>4
    <2>3. CASE Blanket(d) = "" /\ m \in DOMAIN w.items /\ went
      <3>1. Issued(first.rec[m], [Gone EXCEPT !.st = "forgotten"], fleet.seq, first.seq)
        BY <1>12, <2>3
      <3>2. first.rec[m].st = "forgotten"
        BY <3>1 DEF Issued, Gone
      <3>3. fleet'.rec[m] = first.rec[m] /\ fleet' = last
        BY <1>2, <1>9, <1>11, <1>13, <1>15, <2>3, <3>2
      <3>4. first.rec[m] \in Rec /\ fleet.seq >= fleet.seq
        BY <1>1, <1>6
      <3>5. Issued(fleet'.rec[m], [Gone EXCEPT !.st = "forgotten"], fleet.seq, fleet'.seq)
        BY <1>1, <1>6, <1>9, <1>10, <3>1, <3>3, <3>4, IssuedWider
      <3> QED
        BY <2>3, <3>5
    <2>4. CASE Blanket(d) = "" /\ m \in DOMAIN w.items /\ ~went
      <3>1. first.rec[m] = r /\ fleet' = last
        BY <1>11, <1>12, <2>4
      <3>2. IF Upserted(r, w.items[m]) = r THEN fleet'.rec[m] = r
            ELSE Issued(fleet'.rec[m], Upserted(r, w.items[m]), first.seq, fleet'.seq)
        BY <1>9, <1>13, <2>4, <3>1
      <3>3. fleet'.rec[m] \in Rec /\ fleet'.seq >= fleet'.seq
        BY <1>9, <1>10, <3>1 DEF Service
      <3>4. Upserted(r, w.items[m]) # r
                => Issued(fleet'.rec[m], Upserted(r, w.items[m]), fleet.seq, fleet'.seq)
        BY <1>1, <1>5, <1>6, <1>10, <3>1, <3>2, <3>3, IssuedWider
      <3> QED
        BY <2>4, <3>2, <3>4
    <2> QED
      BY <2>1, <2>2, <2>3, <2>4
  <1>17. /\ fleet' \in Service /\ fleet'.seq >= fleet.seq
         /\ fleet'.on = fleet.on /\ fleet'.floor = fleet.floor /\ fleet'.era = fleet.era
         /\ fleet'.erasedAt = fleet.erasedAt
    <2>1. CASE fleet' = first
      BY <1>5, <2>1
    <2>2. CASE fleet' = last
      <3>1. last.seq >= fleet.seq
        BY <1>1, <1>5, <1>6, <1>9, <1>10
      <3> QED
        BY <1>5, <1>9, <2>2, <3>1
    <2> QED
      BY <1>11, <2>1, <2>2
  <1> DEFINE res == [m \in DOMAIN w.items |->
                        IF m \in w.forgets /\ first.rec[m].st \in {"none", "forgotten"} THEN "forgotten"
                        ELSE IF Blanket(d) # "" THEN Blanket(d)
                        ELSE Answer(first.rec[m], w.items[m])]
  <1>18. work' = [work EXCEPT ![d] = [pc |-> "results", forgets |-> w.forgets, then |-> w.then,
                                      items |-> w.items, res |-> res]]
    BY DEF Send, Goto, first
  <1>19. work'[d].res = res
    BY <1>18 DEF Types, WorkTypes
  <1>20. ASSUME NEW m \in DOMAIN w.items
         PROVE  res[m] = IF m \in w.forgets THEN "forgotten"
                         ELSE IF Blanket(d) # "" THEN Blanket(d) ELSE Answer(fleet.rec[m], w.items[m])
    <2>1. m \in Memory /\ fleet.rec[m] \in Rec
      BY <1>1, <1>2
    <2>2. m \in w.forgets => first.rec[m].st \in {"none", "forgotten"}
      BY <1>12, <2>1 DEF Issued, Gone, Rec
    <2>3. m \notin w.forgets => first.rec[m] = fleet.rec[m]
      BY <1>12, <2>1
    <2> QED
      BY <2>2, <2>3
  <1> QED
    <2> HIDE DEF res
    <2>1. DOMAIN res = DOMAIN w.items
      BY DEF res
    <2> QED
      BY <1>16, <1>17, <1>18, <1>19, <1>20, <2>1

\* One page of the feed and the cursor after it: the records of the page lie up
\* to the new cursor, those that were left for later pages beyond it.
LEMMA PageFacts ==
    ASSUME Types, NEW cu \in Cursor
    PROVE  LET n == NextCursor(cu) IN
           /\ Page(cu) \subseteq After(cu) /\ After(cu) \subseteq Memory
           /\ n \in Cursor /\ cu.seq <= n.seq
           /\ \A m \in Page(cu) : fleet.rec[m].seq > cu.seq /\ fleet.rec[m].seq <= n.seq
           /\ \A m \in After(cu) \ Page(cu) : fleet.rec[m].seq > n.seq
           /\ \/ n.seq = cu.seq
              \/ \E m \in Page(cu) : n.seq = fleet.rec[m].seq
              \/ n.seq = fleet.floor
           /\ n = cu \/ n = Plain(n.seq)
              \/ n = [kind |-> "page", seq |-> n.seq, floor |-> fleet.floor, erased |-> fleet.erasedAt]
           /\ cu.kind = "plain" => n.kind = "plain"
           /\ n.kind = "start" => n = cu
           /\ cu.kind # "plain" /\ n.kind = "plain" => n.seq >= fleet.floor
           /\ fleet.floor = 0 => cu.seq = n.seq \/ \E m \in Page(cu) : n.seq = fleet.rec[m].seq
  <1> DEFINE S == {cu.seq} \cup {fleet.rec[m].seq : m \in Page(cu)}
             last == Max(S)
             n == NextCursor(cu)
             final == Max({last, fleet.floor})
             pg == [kind |-> "page", seq |-> last, floor |-> fleet.floor, erased |-> fleet.erasedAt]
  <1>1. /\ cu.seq \in Nat /\ cu.kind \in {"start", "plain", "page"} /\ fleet.floor \in Nat
        /\ fleet.erasedAt \in Nat /\ \A m \in Memory : fleet.rec[m].seq \in Nat
    BY DEF Types, Cursor, Service, Rec
  <1>2. Page(cu) \subseteq After(cu) /\ After(cu) \subseteq Memory
    BY DEF Page, After
  <1>3. S \in SUBSET Nat /\ S # {}
    BY <1>1, <1>2
  <1>4. IsFiniteSet(S)
    <2>1. IsFiniteSet(Page(cu))
      BY <1>2, FS_Subset, SyncConstants
    <2>2. IsFiniteSet({fleet.rec[m].seq : m \in Page(cu)})
      <3> DEFINE f == [m \in Memory |-> fleet.rec[m].seq]
      <3>1. {fleet.rec[m].seq : m \in Page(cu)} = {f[m] : m \in Page(cu)}
        BY <1>2
      <3> HIDE DEF f
      <3> QED
        BY <2>1, <3>1, RangeFinite
    <2> QED
      BY <2>2, FS_Singleton, FS_Union
  <1>5. last \in S /\ \A y \in S : last >= y
    <2> HIDE DEF S
    <2> QED
      BY <1>3, <1>4, MaxType
  <1>6. /\ last \in Nat /\ last >= cu.seq /\ \A m \in Page(cu) : fleet.rec[m].seq <= last
        /\ last = cu.seq \/ \E m \in Page(cu) : last = fleet.rec[m].seq
    <2> HIDE DEF last
    <2>1. last \in Nat
      BY <1>3, <1>5
    <2>2. cu.seq \in S /\ \A m \in Page(cu) : fleet.rec[m].seq \in S
      OBVIOUS
    <2>3. last = cu.seq \/ \E m \in Page(cu) : last = fleet.rec[m].seq
      BY <1>5
    <2> HIDE DEF S
    <2> QED
      BY <1>1, <1>2, <1>5, <2>1, <2>2, <2>3
  <1>7. ASSUME NEW m \in After(cu) \ Page(cu) PROVE fleet.rec[m].seq > last
    <2> DEFINE Upto(k) == {j \in After(cu) : fleet.rec[j].seq <= fleet.rec[k].seq}
    <2>1. fleet.rec[m].seq > cu.seq
      BY <1>7 DEF After
    <2>2. ~(Cardinality(Upto(m)) <= Limit)
      BY <1>7 DEF Page
    <2>3. ASSUME NEW p \in Page(cu), fleet.rec[m].seq <= fleet.rec[p].seq PROVE FALSE
      <3>1. Cardinality(Upto(p)) <= Limit
        BY DEF Page
      <3>2. Upto(m) \subseteq Upto(p)
        BY <1>1, <1>2, <2>3
      <3>3. IsFiniteSet(Upto(p))
        BY <1>2, FS_Subset, SyncConstants
      <3> HIDE DEF Upto
      <3>4. Cardinality(Upto(m)) <= Cardinality(Upto(p)) /\ IsFiniteSet(Upto(m))
        BY <3>2, <3>3, FS_Subset
      <3>5. Cardinality(Upto(m)) \in Nat /\ Cardinality(Upto(p)) \in Nat
        BY <3>3, <3>4, FS_CardinalityType
      <3> QED
        BY <2>2, <3>1, <3>4, <3>5, SyncConstants
    <2> HIDE DEF last
    <2> QED
      BY <1>1, <1>2, <1>6, <1>7, <2>1, <2>3
  <1>8. final \in {last, fleet.floor} /\ final >= last /\ final >= fleet.floor
    <2>1. {last, fleet.floor} \in SUBSET Nat /\ {last, fleet.floor} # {}
      BY <1>1, <1>6
    <2>2. {last, fleet.floor} = {last} \cup {fleet.floor}
      OBVIOUS
    <2> HIDE DEF last
    <2>3. IsFiniteSet({last, fleet.floor})
      <3>1. IsFiniteSet({last}) /\ IsFiniteSet({fleet.floor})
        BY FS_Singleton
      <3>2. IsFiniteSet({last} \cup {fleet.floor})
        BY <3>1, FS_Union
      <3> QED
        BY <2>2, <3>2
    <2> QED
      BY <2>1, <2>3, MaxType
  <1>9. n = IF cu.kind = "plain" THEN Plain(last)
            ELSE IF Page(cu) # After(cu) THEN pg
            ELSE IF final = 0 THEN cu ELSE Plain(final)
    BY DEF NextCursor
  <1> HIDE DEF n, S, last, final
  <1>10. \A k \in Nat : Plain(k) \in Cursor /\ Plain(k).seq = k /\ Plain(k).kind = "plain"
    BY DEF Plain, Cursor
  <1>11. pg \in Cursor /\ pg.kind = "page" /\ pg.seq = last
    BY <1>1, <1>6 DEF Cursor
  <1>12. \A m \in Page(cu) : fleet.rec[m].seq > cu.seq
    BY DEF Page, After
  <1>13. CASE cu.kind = "plain"
    <2>1. n = Plain(last)
      BY <1>9, <1>13
    <2> QED
      BY <1>1, <1>2, <1>6, <1>7, <1>10, <1>12, <1>13, <2>1 DEF n
  <1>14. CASE cu.kind # "plain" /\ Page(cu) # After(cu)
    <2>1. n = pg
      BY <1>9, <1>14
    <2> HIDE DEF pg
    <2>2. n.seq = last /\ n.kind = "page" /\ n \in Cursor
      BY <1>11, <2>1
    <2>3. n = [kind |-> "page", seq |-> n.seq, floor |-> fleet.floor, erased |-> fleet.erasedAt]
      BY <2>1, <2>2 DEF pg
    <2> QED
      BY <1>1, <1>2, <1>6, <1>7, <1>12, <1>14, <2>2, <2>3 DEF n
  <1>15. CASE cu.kind # "plain" /\ Page(cu) = After(cu) /\ final = 0
    <2>1. n = cu /\ last = 0 /\ fleet.floor = 0 /\ cu.seq = 0
      BY <1>1, <1>6, <1>8, <1>9, <1>15
    <2> QED
      BY <1>1, <1>2, <1>6, <1>7, <1>12, <1>15, <2>1 DEF n
  <1>16. CASE cu.kind # "plain" /\ Page(cu) = After(cu) /\ final # 0
    <2>1. n = Plain(final) /\ final \in Nat
      BY <1>1, <1>6, <1>8, <1>9, <1>16
    <2>2. n # cu
      BY <1>10, <1>16, <2>1
    <2>3. n \in Cursor /\ n.seq = final /\ n.kind = "plain"
      BY <1>10, <2>1
    <2>4. \A m \in Page(cu) : fleet.rec[m].seq <= final
      BY <1>1, <1>2, <1>6, <1>8, <2>1
    <2>5. cu.seq <= final
      BY <1>1, <1>6, <1>8, <2>1
    <2>6. final = fleet.floor \/ final = cu.seq \/ \E m \in Page(cu) : final = fleet.rec[m].seq
      BY <1>6, <1>8
    <2>7. fleet.floor = 0 => final = cu.seq \/ \E m \in Page(cu) : final = fleet.rec[m].seq
      BY <1>6, <1>8, <1>16
    <2> QED
      BY <1>2, <1>8, <1>12, <1>16, <2>1, <2>2, <2>3, <2>4, <2>5, <2>6, <2>7 DEF n
  <1> QED
    BY <1>1, <1>13, <1>14, <1>15, <1>16

-----------------------------------------------------------------------------
(* The types are kept.                                                     *)

LEMMA GotoFacts ==
    ASSUME WorkTypes, NEW d \in Device, NEW w, Goto(d, w)
    PROVE  /\ work'[d] = w /\ \A e \in Device \ {d} : work'[e] = work[e]
           /\ WorkOK(w) => WorkTypes'
  BY DEF WorkTypes, Goto

Steps == {"idle", "pull", "sweep", "swept", "push", "put", "put_ok", "erase", "erased", "clear",
          "cleared", "enabled"}

LEMMA StepWork ==
    ASSUME NEW p \in Steps
    PROVE  WorkOK([pc |-> p]) /\ WorkOK(Idle) /\ Idle.pc = "idle"
  BY DEF Steps, WorkOK, Paging, Pushing, Idle

LEMMA StoreAt ==
    ASSUME StoreTypes, NEW d \in Device, NEW c, chunk' = [chunk EXCEPT ![d] = c], Store(c)
    PROVE  StoreTypes' /\ chunk'[d] = c /\ \A e \in Device \ {d} : chunk'[e] = chunk[e]
  BY DEF StoreTypes

\* A stamp is a number, whatever the clocks say.
LEMMA StampTypes ==
    ASSUME Types, NEW m
    PROVE  Stamps(m) \subseteq Nat
  <1>1. fleet.era \in Nat
    BY DEF Types, Service
  <1> QED
    BY <1>1, SyncConstants DEF Stamps

LEMMA AddedFields ==
    ASSUME NEW d, NEW b
    PROVE  Added(d, b).ph = 0 /\ Added(d, b).syn = 0 /\ Added(d, b).dirty /\ Added(d, b).pin = FALSE
  <1>1. Added(d, b).ph = 0 /\ Added(d, b).syn = 0 /\ Added(d, b).dirty = TRUE /\ Added(d, b).pin = FALSE
    BY DEF Added
  <1> QED
    BY <1>1, Zenon

LEMMA MarkedType ==
    ASSUME NEW c \in Chunk, NEW h, c.born = 0 => h \in Nat
    PROVE  Marked(c, h) \in Chunk
  <1>1. \A n \in Nat : [c EXCEPT !.sent = TRUE, !.born = n] \in Chunk
    BY DEF Chunk
  <1>2. (IF c.born = 0 THEN h ELSE c.born) \in Nat
    BY DEF Chunk
  <1>3. Marked(c, h) = [c EXCEPT !.sent = TRUE, !.born = IF c.born = 0 THEN h ELSE c.born]
    BY DEF Marked
  <1> QED
    BY <1>1, <1>2, <1>3

\* Rows that an operation may put in a store.
LEMMA ChunkTypes ==
    ASSUME NEW c \in Chunk
    PROVE  /\ Touch(c) \in Chunk
           /\ [c EXCEPT !.syn = 0, !.sent = FALSE] \in Chunk
           /\ [c EXCEPT !.syn = 1] \in Chunk
           /\ \A h \in Nat : /\ [c EXCEPT !.pin = ~@, !.ph = h] \in Chunk
                             /\ [c EXCEPT !.scope = IF @ = "sync" THEN "local" ELSE "sync", !.sh = h] \in Chunk
           /\ \A r \in Rec : \A s \in 1 .. 2 : Pulled(c, r, s) \in Chunk /\ Inserted(r, s) \in Chunk
           /\ \A it \in Item : \A res : Outcome(c, it, res) \in Chunk
           /\ BuildItem(c) \in Item
  <1>1. Touch(c) \in Chunk
    <2>1. PICK g \in Nat : g = c.gen + 1
      BY DEF Chunk
    <2>2. Touch(c) = [c EXCEPT !.dirty = TRUE, !.gen = g]
      BY <2>1 DEF Touch
    <2> QED
      BY <2>2 DEF Chunk
  <1>2. [c EXCEPT !.syn = 0, !.sent = FALSE] \in Chunk
    <2>1. \A s \in 0 .. 2 : [c EXCEPT !.syn = s, !.sent = FALSE] \in Chunk
      BY DEF Chunk
    <2> QED
      BY <2>1
  <1>8. \A s \in 0 .. 2 : [c EXCEPT !.syn = s] \in Chunk
    BY DEF Chunk
  <1>3. \A h \in Nat : /\ [c EXCEPT !.pin = ~@, !.ph = h] \in Chunk
                       /\ [c EXCEPT !.scope = IF @ = "sync" THEN "local" ELSE "sync", !.sh = h] \in Chunk
    BY DEF Chunk
  <1>4. ASSUME NEW r \in Rec, NEW s \in 1 .. 2 PROVE Pulled(c, r, s) \in Chunk /\ Inserted(r, s) \in Chunk
    <2>1. s \in 0 .. 2
      OBVIOUS
    <2>2. Inserted(r, s) \in Chunk
      BY <2>1 DEF Inserted, Chunk, Rec, Scope
    <2>3. ASSUME NEW sc \in Scope, NEW sh \in Nat, NEW pin \in BOOLEAN, NEW ph \in Nat
          PROVE  [c EXCEPT !.scope = sc, !.sh = sh, !.pin = pin, !.ph = ph, !.syn = s] \in Chunk
      BY <2>1 DEF Chunk, Scope
    <2>4. /\ r.scope \in Scope /\ c.scope \in Scope /\ r.sh \in Nat /\ c.sh \in Nat
          /\ r.pin \in BOOLEAN /\ c.pin \in BOOLEAN /\ r.ph \in Nat /\ c.ph \in Nat
      BY DEF Chunk, Rec, Scope
    <2> QED
      BY <2>2, <2>3, <2>4 DEF Pulled
  <1>5. ASSUME NEW it \in Item, NEW res PROVE Outcome(c, it, res) \in Chunk
    <2>1. ASSUME NEW x \in Chunk PROVE [x EXCEPT !.dirty = FALSE] \in Chunk
      BY DEF Chunk
    <2>2. [c EXCEPT !.syn = 0] \in Chunk /\ [c EXCEPT !.syn = 1] \in Chunk
      BY <1>8
    <2> QED
      BY <1>2, <2>1, <2>2 DEF Outcome
  <1>6. BuildItem(c) \in Item
    BY DEF BuildItem, Item, Chunk, Scope
  <1> QED
    <2>1. [c EXCEPT !.syn = 1] \in Chunk
      BY <1>8
    <2> QED
      BY <1>1, <1>2, <1>3, <1>4, <1>5, <1>6, <2>1, Zenon

LEMMA TickType ==
    ASSUME Types, NEW d \in Device
    PROVE  Tick(d) \in Nat /\ Ticked(d) \in [Device -> Nat] /\ d \in Nat /\ d >= 1 /\ d <= N /\ N \in Nat
  <1>1. d \in Nat /\ d >= 1 /\ d <= N /\ N \in Nat /\ clock[d] \in Nat
    BY SyncConstants DEF Device, Types
  <1>2. (clock[d] + 1) * N \in Nat
    BY <1>1
  <1> QED
    BY <1>1, <1>2 DEF Tick, Ticked, Types

LEMMA TypesInit == Init => Types
  <1> SUFFICES ASSUME Init PROVE Types
    OBVIOUS
  <1>1. StoreTypes
    BY DEF Init, StoreTypes, Store
  <1>2. WorkTypes
    BY StepWork DEF Init, WorkTypes, Steps
  <1>3. Start \in Cursor
    BY DEF Start, Cursor
  <1>4. lane \in [Device -> LaneState]
    BY <1>3 DEF Init, LaneState
  <1>5. fleet \in Service
    BY DEF Init, Service, Gone, Rec, Scope
  <1>6. spent \in [Bounds -> Nat]
    BY DEF Init, Bound, Bounds
  <1> QED
    BY <1>1, <1>2, <1>4, <1>5, <1>6 DEF Init, Types

\* The user's edits.
LEMMA TypesUser ==
    ASSUME Types, NEW d \in Device, NEW m \in Memory,
           Add(d, m) \/ SetPinned(d, m) \/ PromoteScope(d, m) \/ Remove(d, m) \/ RecordDelete(d, m)
    PROVE  Types'
  <1>1. Tick(d) \in Nat /\ Ticked(d) \in [Device -> Nat]
    BY TickType
  <1>2. Store(chunk[d]) /\ StoreTypes
    BY DEF Types, StoreTypes
  <1>3. spent \in [Bounds -> Nat] => \A b \in Bounds : [spent EXCEPT ![b] = @ + 1] \in [Bounds -> Nat]
    OBVIOUS
  <1>4. CASE Add(d, m)
    <2>5. PICK b \in Stamps(m) : chunk' = [chunk EXCEPT ![d] =
              [k \in DOMAIN @ \cup {m} |-> IF k = m THEN Added(d, b) ELSE @[k]]]
      BY <1>4 DEF Add
    <2>1. Added(d, b) \in Chunk
      BY <1>1, StampTypes DEF Added, Chunk
    <2> DEFINE c == [k \in DOMAIN chunk[d] \cup {m} |-> IF k = m THEN Added(d, b) ELSE chunk[d][k]]
    <2>2. Store(c)
      BY <1>2, <2>1 DEF Store
    <2>3. StoreTypes'
      <3>1. chunk' = [chunk EXCEPT ![d] = c]
        BY <2>5
      <3> HIDE DEF c
      <3> QED
        BY <1>2, <2>2, <3>1, StoreAt
    <2> QED
      BY <1>1, <1>4, <2>3 DEF Add, Types, WorkTypes
  <1>5. CASE SetPinned(d, m) \/ PromoteScope(d, m)
    <2>1. PICK c \in Chunk : m \in Rows(d) /\ Edit(d, m, c)
      <3>1. m \in Rows(d) /\ chunk[d][m] \in Chunk
        BY <1>2, <1>5 DEF SetPinned, PromoteScope, Rows, Store
      <3> QED
        BY <1>1, <1>5, <3>1, ChunkTypes, Zenon DEF SetPinned, PromoteScope
    <2>2. Touch(c) \in Chunk
      BY ChunkTypes, Zenon
    <2>3. StoreTypes'
      <3>1. chunk' = [chunk EXCEPT ![d] = [@ EXCEPT ![m] = Touch(c)]]
        BY <2>1 DEF Edit
      <3>2. Store([chunk[d] EXCEPT ![m] = Touch(c)])
        BY <1>2, <2>2 DEF Store
      <3> QED
        BY <1>2, <3>1, <3>2, StoreAt
    <2> QED
      BY <1>1, <1>3, <2>1, <2>3 DEF Edit, Spend, Types, WorkTypes, Bounds
  <1>6. CASE Remove(d, m)
    <2>1. Store(Without(chunk[d], {m}))
      BY <1>2 DEF Store, Without
    <2>2. StoreTypes'
      BY <1>2, <1>6, <2>1, StoreAt DEF Remove
    <2>3. FleetMayKnow(chunk[d][m]) \in BOOLEAN
      BY <1>2, <1>6 DEF Remove, FleetMayKnow, Rows, Store, Chunk
    <2>4. removing' \in [Device -> SUBSET (Memory \X BOOLEAN)]
      BY <1>6, <2>3 DEF Remove, Types
    <2> QED
      BY <1>3, <1>6, <2>2, <2>4 DEF Remove, Spend, Types, WorkTypes, Bounds
  <1>7. CASE RecordDelete(d, m)
    <2>1. removing' \in [Device -> SUBSET (Memory \X BOOLEAN)]
      BY <1>7 DEF RecordDelete, Types
    <2>2. outbox' \in [Device -> SUBSET Memory] /\ clock' \in [Device -> Nat]
      BY <1>1, <1>7 DEF RecordDelete, Types
    <2> QED
      BY <1>7, <2>1, <2>2 DEF RecordDelete, Types, WorkTypes, StoreTypes
  <1> QED
    BY <1>4, <1>5, <1>6, <1>7

LEMMA StartType == Start \in Cursor /\ Start.kind = "start" /\ Start.seq = 0
  BY DEF Start, Cursor

LEMMA LaneTypes ==
    ASSUME NEW l \in LaneState
    PROVE  /\ \A b \in BOOLEAN : /\ [l EXCEPT !.on = b] \in LaneState
                                 /\ [l EXCEPT !.on = FALSE, !.disablePending = TRUE, !.erasePending = b] \in LaneState
                                 /\ [l EXCEPT !.disablePending = b] \in LaneState
           /\ [l EXCEPT !.on = TRUE, !.disablePending = FALSE, !.erasePending = FALSE] \in LaneState
           /\ \A x \in Cursor : [l EXCEPT !.cursor = x] \in LaneState /\ [l EXCEPT !.rcursor = x] \in LaneState
           /\ [l EXCEPT !.cursor = l.rcursor, !.reset = "", !.before = 0, !.rcursor = Start,
                        !.restarts = 0] \in LaneState
           /\ [l EXCEPT !.cursor = Start, !.reset = "", !.before = 0, !.rcursor = Start,
                        !.restarts = 0, !.erasePending = FALSE] \in LaneState
  <1>1. \A b \in BOOLEAN : /\ [l EXCEPT !.on = b] \in LaneState
                           /\ [l EXCEPT !.on = FALSE, !.disablePending = TRUE, !.erasePending = b] \in LaneState
                           /\ [l EXCEPT !.disablePending = b] \in LaneState
    BY DEF LaneState
  <1>2. [l EXCEPT !.on = TRUE, !.disablePending = FALSE, !.erasePending = FALSE] \in LaneState
    BY DEF LaneState
  <1>3. \A x \in Cursor : [l EXCEPT !.cursor = x] \in LaneState /\ [l EXCEPT !.rcursor = x] \in LaneState
    BY DEF LaneState
  <1>4. \A x, y \in Cursor, z \in Nat, k \in Nat :
          /\ [l EXCEPT !.cursor = x, !.reset = "", !.before = z, !.rcursor = y, !.restarts = k] \in LaneState
          /\ [l EXCEPT !.cursor = x, !.reset = "", !.before = z, !.rcursor = y,
                       !.restarts = k, !.erasePending = FALSE] \in LaneState
    BY DEF LaneState
  <1>5. l.rcursor \in Cursor /\ 0 \in Nat
    BY DEF LaneState
  <1> QED
    BY <1>1, <1>2, <1>3, <1>4, <1>5, StartType, Zenon

LEMMA ResetType ==
    ASSUME Types, NEW l \in LaneState, NEW reason \in {"erased", "cursor_expired"}
    PROVE  /\ BeginReset(l, reason) \in LaneState
           /\ \A k \in Nat : [BeginReset(l, reason) EXCEPT !.restarts = @ + k] \in LaneState
           /\ BeginReset(l, reason).reset # "" /\ BeginReset(l, reason).rcursor = Start
           /\ BeginReset(l, reason).cursor = Start
           /\ BeginReset(l, reason).erasePending = l.erasePending
  <1> DEFINE b == BeginReset(l, reason)
             n == IF l.reset = "" THEN l.restarts ELSE l.restarts + 1
             kept == l.reset = "erased" /\ reason # "erased"
             before == IF ~kept /\ reason = "erased" THEN fleet.era ELSE l.before
             reset == IF kept THEN "erased" ELSE reason
  <1>1. n \in Nat /\ before \in Nat /\ reset \in {"erased", "cursor_expired"}
    <2>1. l.restarts \in Nat /\ l.before \in Nat /\ fleet.era \in Nat
      BY DEF LaneState, Types, Service
    <2>2. n \in Nat
      <3>1. l.restarts + 1 \in Nat
        BY <2>1
      <3> QED
        BY <2>1, <3>1, Zenon
    <2>3. before \in Nat
      BY <2>1, Zenon
    <2>4. reset \in {"erased", "cursor_expired"}
      OBVIOUS
    <2> QED
      BY <2>2, <2>3, <2>4
  <1>2. b = [l EXCEPT !.restarts = n, !.before = before, !.reset = reset, !.rcursor = Start,
                      !.cursor = Start]
    BY DEF BeginReset
  <1> HIDE DEF n, before, reset, b
  <1>3. b \in LaneState /\ b.reset = reset /\ b.rcursor = Start /\ b.cursor = Start /\ b.restarts = n
        /\ b.erasePending = l.erasePending
    BY <1>1, <1>2, StartType DEF LaneState
  <1>4. ASSUME NEW k \in Nat PROVE [b EXCEPT !.restarts = @ + k] \in LaneState
    <2>1. PICK j \in Nat : j = b.restarts + k
      BY <1>1, <1>3
    <2>2. [b EXCEPT !.restarts = @ + k] = [b EXCEPT !.restarts = j]
      BY <2>1
    <2> QED
      BY <1>3, <2>2 DEF LaneState
  <1> QED
    BY <1>1, <1>3, <1>4 DEF b

LEMMA LaneAt ==
    ASSUME lane \in [Device -> LaneState], NEW d \in Device, NEW l \in LaneState,
           lane' = [lane EXCEPT ![d] = l]
    PROVE  lane' \in [Device -> LaneState] /\ lane'[d] = l /\ \A e \in Device \ {d} : lane'[e] = lane[e]
  OBVIOUS

\* A new epoch changes only what the rows know of the last snapshot.
LEMMA EpochFacts ==
    ASSUME StoreTypes, NEW d \in Device, chunk' = NewEpoch(d)
    PROVE  /\ StoreTypes' /\ \A e \in Device \ {d} : chunk'[e] = chunk[e]
           /\ DOMAIN chunk'[d] = DOMAIN chunk[d]
           /\ \A m \in DOMAIN chunk[d] :
                chunk'[d][m] = IF chunk[d][m].syn = 0 THEN chunk[d][m] ELSE [chunk[d][m] EXCEPT !.syn = 1]
  <1> DEFINE c == [m \in DOMAIN chunk[d] |->
                      IF chunk[d][m].syn = 0 THEN chunk[d][m] ELSE [chunk[d][m] EXCEPT !.syn = 1]]
  <1>1. chunk' = [chunk EXCEPT ![d] = c]
    BY DEF NewEpoch
  <1>2. Store(c)
    BY ChunkTypes, Zenon DEF StoreTypes, Store
  <1>3. StoreTypes' /\ chunk'[d] = c /\ \A e \in Device \ {d} : chunk'[e] = chunk[e]
    <2> HIDE DEF c
    <2> QED
      BY <1>1, <1>2, StoreAt
  <1> QED
    BY <1>3

LEMMA StaleType == ASSUME NEW x PROVE Stale(x) \in {"", "erased", "cursor_expired"}
  BY DEF Stale

\* The clock of a pull is not behind a stamp of the page.
LEMMA PullClock ==
    ASSUME Types, NEW d \in Device, NEW P \in SUBSET Memory, NEW c,
           c = Max({clock[d]} \cup {fleet.rec[m].sh \div N : m \in P} \cup {fleet.rec[m].ph \div N : m \in P})
    PROVE  c \in Nat /\ c >= clock[d] /\ \A m \in P : c >= fleet.rec[m].ph \div N
  <1> DEFINE A == {fleet.rec[m].sh \div N : m \in P}
             B == {fleet.rec[m].ph \div N : m \in P}
             S == {clock[d]} \cup A \cup B
  <1>1. \A m \in Memory : fleet.rec[m].sh \div N \in Nat /\ fleet.rec[m].ph \div N \in Nat
    <2>1. \A k \in Nat : k \div N \in Nat
      BY SyncConstants
    <2> QED
      BY <2>1 DEF Types, Service, Rec
  <1>2. clock[d] \in Nat
    BY DEF Types
  <1>3. S \in SUBSET Nat /\ clock[d] \in S /\ \A m \in P : fleet.rec[m].ph \div N \in S
    BY <1>1, <1>2
  <1>4. IsFiniteSet(S)
    <2>1. IsFiniteSet(P)
      BY FS_Subset, SyncConstants
    <2>2. IsFiniteSet(A)
      <3> DEFINE f == [m \in Memory |-> fleet.rec[m].sh \div N]
      <3>1. A = {f[m] : m \in P}
        OBVIOUS
      <3> HIDE DEF f, A
      <3> QED
        BY <2>1, <3>1, RangeFinite
    <2>3. IsFiniteSet(B)
      <3> DEFINE f == [m \in Memory |-> fleet.rec[m].ph \div N]
      <3>1. B = {f[m] : m \in P}
        OBVIOUS
      <3> HIDE DEF f, B
      <3> QED
        BY <2>1, <3>1, RangeFinite
    <2>4. IsFiniteSet({clock[d]})
      BY FS_Singleton
    <2> HIDE DEF A, B
    <2>5. IsFiniteSet({clock[d]} \cup A)
      BY <2>2, <2>4, FS_Union
    <2> QED
      BY <2>3, <2>5, FS_Union
  <1>5. c = Max(S)
    OBVIOUS
  <1> HIDE DEF S
  <1>6. c \in S /\ \A y \in S : c >= y
    BY <1>3, <1>4, <1>5, MaxType
  <1> QED
    BY <1>3, <1>6

\* What a pull does: it is told that sync is off, refused, or given a page.
LEMMA PullCases ==
    ASSUME Types, NEW d \in Device, Pull(d)
    PROVE  LET cu == IF lane[d].reset # "" THEN lane[d].rcursor ELSE lane[d].cursor IN
           /\ cu \in Cursor
           /\ UNCHANGED <<outbox, removing, fleet, asked, wiped, spent>>
           /\ work[d].pc \in {"pull", "idle"}
           /\ \/ /\ ~fleet.on /\ Goto(d, Idle)
                 /\ lane' = [lane EXCEPT ![d] = [lane[d] EXCEPT !.on = FALSE]]
                 /\ UNCHANGED <<chunk, clock>>
              \/ /\ Stale(cu) # ""
                 /\ lane' = [lane EXCEPT ![d] = BeginReset(lane[d], Stale(cu))]
                 /\ chunk' = NewEpoch(d)
                 /\ \E p \in {"idle", "pull"} : Goto(d, [pc |-> p])
                 /\ UNCHANGED clock
              \/ /\ Stale(cu) = ""
                 /\ \E c \in Nat : /\ clock' = [clock EXCEPT ![d] = c] /\ c >= clock[d]
                                   /\ \A m \in Page(cu) : c >= fleet.rec[m].ph \div N
                 /\ Goto(d, [pc |-> "apply",
                       recs |-> [m \in {k \in Page(cu) : fleet.rec[k].st = "live" => k \notin outbox[d]}
                                    |-> fleet.rec[m]],
                       acks |-> {m \in Page(cu) : fleet.rec[m].st = "forgotten"} \cap outbox[d],
                       cu |-> NextCursor(cu), more |-> Page(cu) # After(cu)])
                 /\ UNCHANGED <<chunk, lane>>
  <1> DEFINE cu == IF lane[d].reset # "" THEN lane[d].rcursor ELSE lane[d].cursor
  <1>1. cu \in Cursor
    BY DEF Types, LaneState
  <1>2. Page(cu) \in SUBSET Memory
    BY DEF Page, After
  <1>3. cu = IF Resetting(d) THEN lane[d].rcursor ELSE lane[d].cursor
    BY DEF Resetting
  <1>4. work[d].pc \in {"pull", "idle"} /\ UNCHANGED <<outbox, removing, fleet, asked, wiped, spent>>
    BY DEF Pull, At
  <1>5. \/ /\ ~fleet.on /\ lane' = [lane EXCEPT ![d].on = FALSE]
           /\ Goto(d, Idle)
           /\ UNCHANGED <<chunk, clock>>
        \/ /\ Stale(cu) # ""
           /\ lane' = [lane EXCEPT ![d] = BeginReset(lane[d], Stale(cu))]
           /\ chunk' = NewEpoch(d)
           /\ Goto(d, Idle) \/ Goto(d, [pc |-> "pull"])
           /\ UNCHANGED clock
        \/ /\ Stale(cu) = ""
           /\ clock' = [clock EXCEPT ![d] = Max({@} \cup {fleet.rec[m].sh \div N : m \in Page(cu)} \cup
                              {fleet.rec[m].ph \div N : m \in Page(cu)})]
           /\ Goto(d, [pc |-> "apply",
                       recs |-> [m \in {k \in Page(cu) : fleet.rec[k].st = "live" => k \notin outbox[d]}
                                    |-> fleet.rec[m]],
                       acks |-> {m \in Page(cu) : fleet.rec[m].st = "forgotten"} \cap outbox[d],
                       cu |-> NextCursor(cu), more |-> Page(cu) # After(cu)])
           /\ UNCHANGED <<chunk, lane>>
    <2> HIDE DEF cu
    <2> QED
      BY <1>3, Zenon DEF Pull
  <1> HIDE DEF cu
  <1>6. ASSUME clock' = [clock EXCEPT ![d] = Max({@} \cup {fleet.rec[m].sh \div N : m \in Page(cu)} \cup
                              {fleet.rec[m].ph \div N : m \in Page(cu)})]
        PROVE  \E c \in Nat : /\ clock' = [clock EXCEPT ![d] = c] /\ c >= clock[d]
                              /\ \A m \in Page(cu) : c >= fleet.rec[m].ph \div N
    <2> DEFINE c == Max({clock[d]} \cup {fleet.rec[m].sh \div N : m \in Page(cu)} \cup
                              {fleet.rec[m].ph \div N : m \in Page(cu)})
    <2>1. clock' = [clock EXCEPT ![d] = c]
      BY <1>6
    <2>2. c \in Nat /\ c >= clock[d] /\ \A m \in Page(cu) : c >= fleet.rec[m].ph \div N
      BY <1>2, PullClock
    <2> HIDE DEF c
    <2> QED
      BY <2>1, <2>2
  <1>7. Goto(d, Idle) => Goto(d, [pc |-> "idle"])
    BY DEF Idle
  <1>8. (lane' = [lane EXCEPT ![d].on = FALSE]) => lane' = [lane EXCEPT ![d] = [lane[d] EXCEPT !.on = FALSE]]
    OBVIOUS
  <1> QED
    BY <1>1, <1>4, <1>5, <1>6, <1>7, <1>8, Zenon DEF cu

\* The lane's steps up to the push.
LEMMA TypesPull ==
    ASSUME Types, NEW d \in Device, Pull(d)
    PROVE  Types'
  <1> DEFINE cu == IF lane[d].reset # "" THEN lane[d].rcursor ELSE lane[d].cursor
  <1>1. cu \in Cursor /\ UNCHANGED <<outbox, removing, fleet, asked, wiped, spent>>
    BY PullCases
  <1>2. StoreTypes /\ WorkTypes /\ lane[d] \in LaneState /\ lane \in [Device -> LaneState]
    BY DEF Types
  <1>3. CASE Goto(d, Idle) /\ lane' = [lane EXCEPT ![d] = [lane[d] EXCEPT !.on = FALSE]] /\ UNCHANGED <<chunk, clock>>
    <2>1. WorkTypes'
      BY <1>2, <1>3, GotoFacts, StepWork DEF Steps
    <2>2. lane' \in [Device -> LaneState]
      BY <1>2, <1>3, LaneTypes, LaneAt, Zenon
    <2> QED
      BY <1>1, <1>3, <2>1, <2>2 DEF Types, StoreTypes
  <1>4. CASE /\ Stale(cu) # "" /\ chunk' = NewEpoch(d) /\ UNCHANGED clock
             /\ lane' = [lane EXCEPT ![d] = BeginReset(lane[d], Stale(cu))]
             /\ \E p \in {"idle", "pull"} : Goto(d, [pc |-> p])
    <2>1. WorkTypes'
      BY <1>2, <1>4, GotoFacts, StepWork DEF Steps
    <2>2. Stale(cu) \in {"erased", "cursor_expired"}
      BY <1>4, StaleType
    <2>3. lane' \in [Device -> LaneState]
      <3> HIDE DEF cu
      <3> QED
        BY <1>2, <1>4, <2>2, ResetType, LaneAt
    <2>4. StoreTypes'
      BY <1>2, <1>4, EpochFacts
    <2> QED
      BY <1>1, <1>4, <2>1, <2>3, <2>4 DEF Types
  <1>5. CASE /\ \E c \in Nat : clock' = [clock EXCEPT ![d] = c]
             /\ Goto(d, [pc |-> "apply",
                       recs |-> [m \in {k \in Page(cu) : fleet.rec[k].st = "live" => k \notin outbox[d]}
                                    |-> fleet.rec[m]],
                       acks |-> {m \in Page(cu) : fleet.rec[m].st = "forgotten"} \cap outbox[d],
                       cu |-> NextCursor(cu), more |-> Page(cu) # After(cu)])
             /\ UNCHANGED <<chunk, lane>>
    <2> HIDE DEF cu
    <2> DEFINE S == {k \in Page(cu) : fleet.rec[k].st = "live" => k \notin outbox[d]}
               acks == {m \in Page(cu) : fleet.rec[m].st = "forgotten"} \cap outbox[d]
               recs == [m \in S |-> fleet.rec[m]]
               more == Page(cu) # After(cu)
               w == [pc |-> "apply", recs |-> recs, acks |-> acks, cu |-> NextCursor(cu), more |-> more]
    <2>1. Page(cu) \subseteq Memory /\ NextCursor(cu) \in Cursor
      BY <1>1, PageFacts
    <2>2. \A m \in Memory : fleet.rec[m] \in Rec
      BY DEF Types, Service
    <2>3. /\ DOMAIN recs \subseteq Memory /\ (\A m \in DOMAIN recs : recs[m] \in Rec)
          /\ acks \subseteq Memory /\ more \in BOOLEAN
      BY <2>1, <2>2
    <2>4. Goto(d, w)
      BY <1>5
    <2> HIDE DEF S, acks, recs, more
    <2>5. WorkOK(w)
      BY <2>1, <2>3 DEF WorkOK, Paging, Pushing
    <2>6. WorkTypes'
      BY <1>2, <2>4, <2>5, GotoFacts
    <2>7. clock' \in [Device -> Nat]
      BY <1>5 DEF Types
    <2> QED
      BY <1>1, <1>5, <2>6, <2>7 DEF Types, StoreTypes
  <1>6. \/ Goto(d, Idle) /\ lane' = [lane EXCEPT ![d] = [lane[d] EXCEPT !.on = FALSE]] /\ UNCHANGED <<chunk, clock>>
        \/ /\ Stale(cu) # "" /\ chunk' = NewEpoch(d) /\ UNCHANGED clock
           /\ lane' = [lane EXCEPT ![d] = BeginReset(lane[d], Stale(cu))]
           /\ \E p \in {"idle", "pull"} : Goto(d, [pc |-> p])
        \/ /\ \E c \in Nat : clock' = [clock EXCEPT ![d] = c]
           /\ Goto(d, [pc |-> "apply",
                       recs |-> [m \in {k \in Page(cu) : fleet.rec[k].st = "live" => k \notin outbox[d]}
                                    |-> fleet.rec[m]],
                       acks |-> {m \in Page(cu) : fleet.rec[m].st = "forgotten"} \cap outbox[d],
                       cu |-> NextCursor(cu), more |-> Page(cu) # After(cu)])
           /\ UNCHANGED <<chunk, lane>>
    BY PullCases, Zenon
  <1> QED
    BY <1>3, <1>4, <1>5, <1>6

\* The rows after a page was applied.
LEMMA ApplyFacts ==
    ASSUME Types, NEW d \in Device, ApplyPage(d)
    PROVE  LET recs == work[d].recs
               syn  == IF lane[d].reset # "" THEN 2 ELSE 1
           IN
           /\ StoreTypes' /\ \A e \in Device \ {d} : chunk'[e] = chunk[e]
           /\ \A m \in DOMAIN chunk'[d] : m \in DOMAIN chunk[d] \/ m \in DOMAIN recs
           /\ \A m \in DOMAIN recs :
                /\ recs[m].st = "live" => /\ m \in DOMAIN chunk'[d]
                                          /\ chunk'[d][m] = IF m \in DOMAIN chunk[d] THEN Pulled(chunk[d][m], recs[m], syn)
                                                            ELSE Inserted(recs[m], syn)
                /\ recs[m].st # "live" /\ m \in DOMAIN chunk'[d] =>
                        /\ m \in DOMAIN chunk[d] /\ recs[m].st = "left" /\ Keeps(chunk[d][m])
                        /\ chunk'[d][m] = [chunk[d][m] EXCEPT !.syn = 0, !.sent = FALSE]
           /\ \A m \in DOMAIN chunk[d] \ DOMAIN recs : m \in DOMAIN chunk'[d] /\ chunk'[d][m] = chunk[d][m]
           /\ work[d].pc = "apply"
           /\ Goto(d, [pc |-> "cursor", acks |-> work[d].acks, cu |-> work[d].cu, more |-> work[d].more])
           /\ UNCHANGED <<clock, outbox, lane, removing, fleet, asked, wiped, spent>>
  <1> DEFINE recs == work[d].recs
             old  == chunk[d]
             syn  == IF lane[d].reset # "" THEN 2 ELSE 1
             live == {m \in DOMAIN recs : recs[m].st = "live"}
             kept == {m \in DOMAIN old \cap DOMAIN recs : recs[m].st = "left" /\ Keeps(old[m])}
             rows == (DOMAIN old \ DOMAIN recs) \cup live \cup kept
             row(m) == IF m \in kept THEN [old[m] EXCEPT !.syn = 0, !.sent = FALSE]
                       ELSE IF m \notin live THEN old[m]
                       ELSE IF m \in DOMAIN old THEN Pulled(old[m], recs[m], syn)
                       ELSE Inserted(recs[m], syn)
             c == [m \in rows |-> row(m)]
  <1>1. chunk' = [chunk EXCEPT ![d] = c]
    BY Zenon DEF ApplyPage, Rows, Resetting
  <1>2. work[d].pc = "apply" /\ UNCHANGED <<clock, outbox, lane, removing, fleet, asked, wiped, spent>>
        /\ Goto(d, [pc |-> "cursor", acks |-> work[d].acks, cu |-> work[d].cu, more |-> work[d].more])
    BY Zenon DEF ApplyPage, At
  <1>3. DOMAIN recs \subseteq Memory /\ \A m \in DOMAIN recs : recs[m] \in Rec
    BY <1>2 DEF Types, WorkTypes, WorkOK
  <1>4. Store(old) /\ StoreTypes
    BY DEF Types, StoreTypes
  <1>5. syn \in 1 .. 2
    OBVIOUS
  <1>6. ASSUME NEW m \in rows PROVE m \in Memory /\ row(m) \in Chunk
    <2>1. m \in Memory /\ (m \in DOMAIN old => old[m] \in Chunk)
      BY <1>3, <1>4 DEF Store
    <2>2. CASE m \in kept
      BY <2>1, <2>2, ChunkTypes, Zenon
    <2>3. CASE m \notin kept /\ m \notin live
      BY <2>1, <2>3
    <2>4. CASE m \notin kept /\ m \in live
      <3>1. recs[m] \in Rec
        BY <1>3, <2>4
      <3>2. Inserted(recs[m], syn) \in Chunk /\ (m \in DOMAIN old => Pulled(old[m], recs[m], syn) \in Chunk)
        <4> HIDE DEF syn
        <4>1. \A r \in Rec : Inserted(r, syn) \in Chunk
          <5> DEFINE x == [scope |-> "sync", sh |-> 0, pin |-> FALSE, ph |-> 0, born |-> 0,
                           dirty |-> TRUE, gen |-> 1, sent |-> FALSE, syn |-> 0]
          <5>1. x \in Chunk
            BY DEF Chunk
          <5> HIDE DEF x
          <5> QED
            BY <1>5, <5>1, ChunkTypes, Zenon
        <4> QED
          BY <1>5, <2>1, <3>1, <4>1, ChunkTypes, Zenon
      <3> HIDE DEF syn
      <3> QED
        BY <2>1, <2>4, <3>2
    <2> QED
      BY <2>2, <2>3, <2>4
  <1>7. Store(c)
    <2> HIDE DEF row, rows
    <2> QED
      BY <1>6 DEF Store
  <1>8. StoreTypes' /\ chunk'[d] = c /\ \A e \in Device \ {d} : chunk'[e] = chunk[e]
    <2> HIDE DEF c
    <2> QED
      BY <1>1, <1>4, <1>7, StoreAt
  <1> HIDE DEF syn
  <1>9. \A m \in rows : m \in DOMAIN old \/ m \in DOMAIN recs
    OBVIOUS
  <1>10. ASSUME NEW m \in DOMAIN recs
         PROVE  /\ recs[m].st = "live" => m \in rows /\ row(m) = IF m \in DOMAIN old THEN Pulled(old[m], recs[m], syn)
                                                                  ELSE Inserted(recs[m], syn)
                /\ recs[m].st # "live" /\ m \in rows =>
                        /\ m \in DOMAIN old /\ recs[m].st = "left" /\ Keeps(old[m])
                        /\ row(m) = [old[m] EXCEPT !.syn = 0, !.sent = FALSE]
    <2>1. CASE recs[m].st = "live"
      BY <2>1
    <2>2. CASE recs[m].st # "live"
      BY <2>2
    <2> QED
      BY <2>1, <2>2
  <1>11. \A m \in DOMAIN old \ DOMAIN recs : m \in rows /\ row(m) = old[m]
    OBVIOUS
  <1>12. DOMAIN c = rows /\ \A m \in rows : c[m] = row(m)
    BY Zenon
  <1> HIDE DEF c, rows, row
  <1> QED
    BY <1>2, <1>8, <1>9, <1>10, <1>11, <1>12, Zenon DEF syn

LEMMA TypesApply ==
    ASSUME Types, NEW d \in Device, ApplyPage(d)
    PROVE  Types'
  <1> DEFINE w == [pc |-> "cursor", acks |-> work[d].acks, cu |-> work[d].cu, more |-> work[d].more]
  <1>1. /\ StoreTypes' /\ work[d].pc = "apply" /\ Goto(d, w)
        /\ UNCHANGED <<clock, outbox, lane, removing, fleet, asked, wiped, spent>>
    BY ApplyFacts, Zenon
  <1>2. WorkOK(w)
    BY <1>1 DEF Types, WorkTypes, WorkOK, Paging, Pushing
  <1>3. WorkTypes'
    <2> HIDE DEF w
    <2> QED
      BY <1>1, <1>2, GotoFacts DEF Types
  <1> QED
    BY <1>1, <1>3 DEF Types

LEMMA SaveFacts ==
    ASSUME Types, NEW d \in Device, SaveCursor(d)
    PROVE  /\ Types' /\ work[d].pc = "cursor"
           /\ outbox' = [outbox EXCEPT ![d] = @ \ work[d].acks]
           /\ lane'[d] = IF lane[d].reset # "" THEN [lane[d] EXCEPT !.rcursor = work[d].cu]
                         ELSE [lane[d] EXCEPT !.cursor = work[d].cu]
           /\ \A e \in Device \ {d} : lane'[e] = lane[e]
           /\ \/ work[d].more /\ \E p \in {"pull", "idle"} : Goto(d, [pc |-> p])
              \/ ~work[d].more /\ Goto(d, [pc |-> IF lane[d].reset # "" THEN "sweep" ELSE "push"])
           /\ UNCHANGED <<chunk, clock, removing, fleet, asked, wiped, spent>>
  <1> DEFINE l == IF lane[d].reset # "" THEN [lane[d] EXCEPT !.rcursor = work[d].cu]
                  ELSE [lane[d] EXCEPT !.cursor = work[d].cu]
  <1>1. /\ work[d].pc = "cursor" /\ outbox' = [outbox EXCEPT ![d] = @ \ work[d].acks]
        /\ UNCHANGED <<chunk, clock, removing, fleet, asked, wiped, spent>>
    BY DEF SaveCursor, At
  <1>2. lane' = [lane EXCEPT ![d] = l]
    BY DEF SaveCursor, Resetting
  <1>3. work[d].cu \in Cursor /\ lane[d] \in LaneState
    BY <1>1 DEF Types, WorkTypes, WorkOK, Paging
  <1>4. l \in LaneState
    BY <1>3, LaneTypes, Zenon
  <1>5. \/ work[d].more /\ \E p \in {"pull", "idle"} : Goto(d, [pc |-> p])
        \/ ~work[d].more /\ Goto(d, [pc |-> IF lane[d].reset # "" THEN "sweep" ELSE "push"])
    BY DEF SaveCursor, Resetting, Idle
  <1>6. WorkTypes'
    BY <1>5, GotoFacts, StepWork DEF Types, Steps
  <1> HIDE DEF l
  <1>7. lane' \in [Device -> LaneState] /\ lane'[d] = l /\ \A e \in Device \ {d} : lane'[e] = lane[e]
    BY <1>2, <1>4, LaneAt DEF Types
  <1> QED
    BY <1>1, <1>5, <1>6, <1>7 DEF Types, l, StoreTypes

\* The two sweeps of a finished snapshot.
LEMMA SweepFacts ==
    ASSUME Types, NEW d \in Device, SweepRows(d)
    PROVE  /\ Types' /\ work[d].pc = "sweep" /\ Goto(d, [pc |-> "swept"])
           /\ \A e \in Device \ {d} : chunk'[e] = chunk[e]
           /\ DOMAIN chunk'[d] = DOMAIN chunk[d] \ (SyncedBefore(d) \cup CreatedBefore(d))
           /\ \A m \in DOMAIN chunk'[d] : chunk'[d][m] = chunk[d][m]
           /\ UNCHANGED <<clock, outbox, lane, removing, fleet, asked, wiped, spent>>
  <1> DEFINE c == Without(chunk[d], SyncedBefore(d) \cup CreatedBefore(d))
  <1>1. /\ work[d].pc = "sweep" /\ Goto(d, [pc |-> "swept"]) /\ chunk' = [chunk EXCEPT ![d] = c]
        /\ UNCHANGED <<clock, outbox, lane, removing, fleet, asked, wiped, spent>>
    BY DEF SweepRows, At
  <1>2. Store(c)
    BY DEF Types, StoreTypes, Store, Without
  <1>3. DOMAIN c = DOMAIN chunk[d] \ (SyncedBefore(d) \cup CreatedBefore(d)) /\ \A m \in DOMAIN c : c[m] = chunk[d][m]
    BY DEF Without
  <1>4. WorkTypes'
    BY <1>1, GotoFacts, StepWork DEF Types, Steps
  <1> HIDE DEF c
  <1>5. StoreTypes' /\ chunk'[d] = c /\ \A e \in Device \ {d} : chunk'[e] = chunk[e]
    BY <1>1, <1>2, StoreAt DEF Types
  <1> QED
    BY <1>1, <1>3, <1>4, <1>5 DEF Types

LEMMA FinishFacts ==
    ASSUME Types, NEW d \in Device, FinishReset(d)
    PROVE  /\ Types' /\ work[d].pc = "swept" /\ Goto(d, [pc |-> "push"])
           /\ lane'[d] = [lane[d] EXCEPT !.cursor = lane[d].rcursor, !.reset = "", !.before = 0,
                                         !.rcursor = Start, !.restarts = 0]
           /\ \A e \in Device \ {d} : lane'[e] = lane[e]
           /\ chunk' = NewEpoch(d)
           /\ UNCHANGED <<clock, outbox, removing, fleet, asked, wiped, spent>>
  <1> DEFINE l == [lane[d] EXCEPT !.cursor = lane[d].rcursor, !.reset = "", !.before = 0,
                                  !.rcursor = Start, !.restarts = 0]
  <1>1. /\ work[d].pc = "swept" /\ Goto(d, [pc |-> "push"]) /\ chunk' = NewEpoch(d)
        /\ UNCHANGED <<clock, outbox, removing, fleet, asked, wiped, spent>>
    BY DEF FinishReset, At
  <1>2. lane' = [lane EXCEPT ![d] = l]
    BY DEF FinishReset
  <1>3. l \in LaneState
    BY LaneTypes, Zenon DEF Types
  <1>4. WorkTypes' /\ StoreTypes'
    BY <1>1, GotoFacts, StepWork, EpochFacts DEF Types, Steps
  <1> HIDE DEF l
  <1>5. lane' \in [Device -> LaneState] /\ lane'[d] = l /\ \A e \in Device \ {d} : lane'[e] = lane[e]
    BY <1>2, <1>3, LaneAt DEF Types
  <1> QED
    BY <1>1, <1>4, <1>5 DEF Types, l

\* The rows of a push are marked and copied as they are when they are marked.
LEMMA MarkFacts ==
    ASSUME Types, NEW d \in Device, MarkSyncSent(d)
    PROVE  LET ids == work[d].ids \cap DOMAIN chunk[d] IN
           /\ Types' /\ work[d].pc = "mark" /\ \A e \in Device \ {d} : chunk'[e] = chunk[e]
           /\ DOMAIN chunk'[d] = DOMAIN chunk[d]
           /\ \A m \in DOMAIN chunk[d] : IF m \in ids THEN \E h : chunk'[d][m] = Marked(chunk[d][m], h)
                                              ELSE chunk'[d][m] = chunk[d][m]
           /\ clock' = clock \/ clock' = Ticked(d)
           /\ Goto(d, IF ids = {} /\ work[d].forgets = {} THEN Idle
                      ELSE [pc |-> "send", forgets |-> work[d].forgets, then |-> "idle",
                            items |-> [m \in ids |-> BuildItem(chunk[d][m])]])
           /\ UNCHANGED <<outbox, lane, removing, fleet, asked, wiped, spent>>
  <1> DEFINE ids == work[d].ids \cap DOMAIN chunk[d]
  <1>0. PICK b : /\ \A m \in ids : chunk[d][m].born = 0 => b[m] \in Stamps(m)
                 /\ chunk' = [chunk EXCEPT ![d] =
                       [m \in DOMAIN @ |-> IF m \in ids THEN Marked(@[m], b[m]) ELSE @[m]]]
    BY DEF MarkSyncSent, Rows
  <1> DEFINE c == [m \in DOMAIN chunk[d] |-> IF m \in ids THEN Marked(chunk[d][m], b[m]) ELSE chunk[d][m]]
             items == [m \in ids |-> BuildItem(chunk[d][m])]
             w == [pc |-> "send", forgets |-> work[d].forgets, then |-> "idle", items |-> items]
  <1>1. /\ work[d].pc = "mark" /\ chunk' = [chunk EXCEPT ![d] = c]
        /\ clock' = clock \/ clock' = Ticked(d)
        /\ Goto(d, IF ids = {} /\ work[d].forgets = {} THEN Idle ELSE w)
        /\ UNCHANGED <<outbox, lane, removing, fleet, asked, wiped, spent>>
    <2>1. work[d].pc = "mark" /\ UNCHANGED <<outbox, lane, removing, fleet, asked, wiped, spent>>
      BY DEF MarkSyncSent, At
    <2>2. chunk' = [chunk EXCEPT ![d] = c]
      BY <1>0
    <2>3. clock' = clock \/ clock' = Ticked(d)
      BY DEF MarkSyncSent
    <2>4. Goto(d, IF ids = {} /\ work[d].forgets = {} THEN Idle ELSE w)
      BY DEF MarkSyncSent, Rows
    <2> QED
      BY <2>1, <2>2, <2>3, <2>4
  <1>2. Store(chunk[d]) /\ work[d].forgets \subseteq Memory /\ work[d].ids \subseteq Memory
    BY <1>1 DEF Types, StoreTypes, WorkTypes, WorkOK
  <1>3. Store(c)
    <2>1. ASSUME NEW m \in ids PROVE Marked(chunk[d][m], b[m]) \in Chunk
      <3>1. chunk[d][m] \in Chunk /\ (chunk[d][m].born = 0 => b[m] \in Nat)
        BY <1>0, <1>2, StampTypes DEF Store
      <3> QED
        BY <3>1, MarkedType
    <2> QED
      BY <1>2, <2>1 DEF Store
  <1>4. DOMAIN items \subseteq Memory /\ \A m \in DOMAIN items : items[m] \in Item
    BY <1>2, ChunkTypes, Zenon DEF Store
  <1>5. WorkOK(w)
    <2> HIDE DEF items
    <2> QED
      BY <1>2, <1>4 DEF WorkOK, Paging, Pushing
  <1>6. WorkTypes'
    <2> HIDE DEF ids, w
    <2>1. WorkOK(IF ids = {} /\ work[d].forgets = {} THEN Idle ELSE w)
      BY <1>5, StepWork DEF Steps
    <2> QED
      BY <1>1, <2>1, GotoFacts DEF Types
  <1>7. clock' \in [Device -> Nat]
    <2> HIDE DEF ids, w, c
    <2>1. clock \in [Device -> Nat] /\ Ticked(d) \in [Device -> Nat]
      BY TickType DEF Types
    <2> QED
      BY <1>1, <2>1
  <1>8. DOMAIN c = DOMAIN chunk[d]
        /\ \A m \in DOMAIN chunk[d] : c[m] = IF m \in ids THEN Marked(chunk[d][m], b[m]) ELSE chunk[d][m]
    OBVIOUS
  <1> HIDE DEF c
  <1>9. StoreTypes' /\ chunk'[d] = c /\ \A e \in Device \ {d} : chunk'[e] = chunk[e]
    BY <1>1, <1>3, StoreAt DEF Types
  <1> QED
    BY <1>1, <1>6, <1>7, <1>8, <1>9 DEF Types

LEMMA TypesSend ==
    ASSUME Types, NEW d \in Device, Send(d)
    PROVE  Types'
  <1> DEFINE w == [pc |-> "results", forgets |-> work[d].forgets,
                   then |-> work[d].then, items |-> work[d].items, res |-> work'[d].res]
  <1>1. fleet' \in Service /\ work' = [work EXCEPT ![d] = w] /\ DOMAIN work'[d].res = DOMAIN work[d].items
    BY SendRecord
  <1>2. /\ work[d].pc = "send" /\ WorkOK(work[d]) /\ fleet \in Service
        /\ UNCHANGED <<chunk, clock, outbox, lane, removing, asked, spent>>
    BY Zenon DEF Send, At, Types, WorkTypes
  <1>3. ASSUME NEW m \in DOMAIN work[d].items
        PROVE  work'[d].res[m] \in {"forgotten", "accepted", "content", "sync_disabled", "resync_required"}
    <2>1. m \in Memory /\ work[d].items[m] \in Item
      BY <1>2 DEF WorkOK, Pushing
    <2>2. Answer(fleet.rec[m], work[d].items[m]) \in {"forgotten", "accepted", "content"}
      BY <1>2, <2>1, RecordTypes DEF Service
    <2>3. Blanket(d) \in {"", "sync_disabled", "resync_required"}
      BY DEF Blanket
    <2>4. work'[d].res[m] = IF m \in work[d].forgets THEN "forgotten"
                            ELSE IF Blanket(d) # "" THEN Blanket(d) ELSE Answer(fleet.rec[m], work[d].items[m])
      BY SendRecord
    <2> QED
      BY <2>2, <2>3, <2>4
  <1>4. WorkOK(w)
    BY <1>1, <1>2, <1>3 DEF WorkOK, Paging, Pushing
  <1>5. WorkTypes'
    <2> HIDE DEF w
    <2> QED
      BY <1>1, <1>4 DEF Types, WorkTypes
  <1>6. wiped' \in [Memory -> SUBSET Device]
    BY Zenon DEF Send, Types
  <1> QED
    BY <1>1, <1>2, <1>5, <1>6 DEF Types, StoreTypes

LEMMA ResultsFacts ==
    ASSUME Types, NEW d \in Device, Results(d)
    PROVE  /\ Types' /\ work[d].pc = "results"
           /\ \A e \in Device \ {d} : lane'[e] = lane[e]
           /\ UNCHANGED <<clock, removing, fleet, asked, wiped, spent>>
           /\ \/ /\ Goto(d, Idle) /\ lane'[d] = [lane[d] EXCEPT !.on = FALSE]
                 /\ UNCHANGED <<chunk, outbox>>
                 /\ \E m \in DOMAIN work[d].res : work[d].res[m] = "sync_disabled"
              \/ /\ outbox' = [outbox EXCEPT ![d] = @ \ Acked(d)]
                 /\ Goto(d, [pc |-> "outcomes", items |-> work[d].items, then |-> work[d].then, res |-> work[d].res])
                 /\ \A m \in DOMAIN work[d].res : work[d].res[m] # "sync_disabled"
                 /\ \/ /\ \A m \in DOMAIN work[d].res : work[d].res[m] # "resync_required"
                       /\ UNCHANGED <<chunk, lane>>
                    \/ /\ \E m \in DOMAIN work[d].res : work[d].res[m] = "resync_required"
                       /\ chunk' = NewEpoch(d)
                       /\ \E k \in Nat : lane'[d] = [BeginReset(lane[d], "cursor_expired") EXCEPT !.restarts = @ + k]
  <1> DEFINE w == work[d]
             refused(code) == {m \in DOMAIN w.res : w.res[m] = code}
             resync == refused("resync_required")
             again == IF resync = {} THEN 0 ELSE Cardinality(resync) - 1
             out == [pc |-> "outcomes", items |-> w.items, then |-> w.then, res |-> w.res]
  <1>1. w.pc = "results" /\ UNCHANGED <<clock, removing, fleet, asked, wiped, spent>>
    BY DEF Results, At
  <1>2. WorkOK(w) /\ lane[d] \in LaneState /\ StoreTypes /\ WorkTypes /\ lane \in [Device -> LaneState]
        /\ outbox \in [Device -> SUBSET Memory]
    BY DEF Types, WorkTypes
  <1>3. \/ /\ refused("sync_disabled") # {} /\ lane' = [lane EXCEPT ![d].on = FALSE]
           /\ Goto(d, Idle) /\ UNCHANGED <<chunk, outbox>>
        \/ /\ refused("sync_disabled") = {}
           /\ lane' = IF resync = {} THEN lane
                      ELSE [lane EXCEPT ![d] = Resync(@, again)]
           /\ chunk' = IF resync = {} THEN chunk ELSE NewEpoch(d)
           /\ outbox' = [outbox EXCEPT ![d] = @ \ Acked(d)]
           /\ Goto(d, out)
    BY Zenon DEF Results
  <1>4. CASE /\ refused("sync_disabled") # {} /\ lane' = [lane EXCEPT ![d].on = FALSE]
             /\ Goto(d, Idle) /\ UNCHANGED <<chunk, outbox>>
    <2>1. lane' = [lane EXCEPT ![d] = [lane[d] EXCEPT !.on = FALSE]]
      BY <1>4
    <2>2. lane' \in [Device -> LaneState] /\ lane'[d] = [lane[d] EXCEPT !.on = FALSE]
          /\ \A e \in Device \ {d} : lane'[e] = lane[e]
      BY <1>2, <2>1, LaneTypes, LaneAt, Zenon
    <2>3. WorkTypes'
      BY <1>2, <1>4, GotoFacts, StepWork DEF Steps
    <2>4. \E m \in DOMAIN work[d].res : work[d].res[m] = "sync_disabled"
      BY <1>4
    <2> QED
      BY <1>1, <1>4, <2>2, <2>3, <2>4 DEF Types, StoreTypes
  <1>5. CASE /\ refused("sync_disabled") = {}
             /\ lane' = IF resync = {} THEN lane
                        ELSE [lane EXCEPT ![d] = Resync(@, again)]
             /\ chunk' = IF resync = {} THEN chunk ELSE NewEpoch(d)
             /\ outbox' = [outbox EXCEPT ![d] = @ \ Acked(d)]
             /\ Goto(d, out)
    <2>1. WorkOK(out)
      BY <1>1, <1>2 DEF WorkOK, Paging, Pushing
    <2>2. WorkTypes'
      <3> HIDE DEF out
      <3> QED
        BY <1>2, <1>5, <2>1, GotoFacts
    <2>3. outbox' \in [Device -> SUBSET Memory]
      BY <1>2, <1>5
    <2>4. \A m \in DOMAIN work[d].res : work[d].res[m] # "sync_disabled"
      BY <1>5
    <2>5. CASE resync = {}
      <3>1. UNCHANGED <<chunk, lane>> /\ \A m \in DOMAIN work[d].res : work[d].res[m] # "resync_required"
        BY <1>5, <2>5
      <3> QED
        BY <1>1, <1>5, <2>2, <2>3, <2>4, <3>1 DEF Types, StoreTypes
    <2>6. CASE resync # {}
      <3>1. again \in Nat
        <4>1. resync \subseteq Memory
          BY <1>1, <1>2 DEF WorkOK, Pushing
        <4> HIDE DEF resync
        <4>2. IsFiniteSet(resync)
          BY <4>1, FS_Subset, SyncConstants
        <4>3. Cardinality(resync) \in Nat /\ Cardinality(resync) # 0
          BY <2>6, <4>2, FS_CardinalityType, FS_EmptySet
        <4> QED
          BY <2>6, <4>3
      <3> DEFINE l == [BeginReset(lane[d], "cursor_expired") EXCEPT !.restarts = @ + again]
      <3>2. lane' = [lane EXCEPT ![d] = l]
        <4> HIDE DEF resync, again
        <4>1. lane' = [lane EXCEPT ![d] = Resync(@, again)]
          BY <1>5, <2>6
        <4> QED
          BY <4>1 DEF Resync, ResyncReason
      <3> HIDE DEF again
      <3>3. l \in LaneState
        BY <1>2, <3>1, ResetType
      <3>4. chunk' = NewEpoch(d) /\ \E m \in DOMAIN work[d].res : work[d].res[m] = "resync_required"
        BY <1>5, <2>6
      <3>5. StoreTypes'
        BY <1>2, <3>4, EpochFacts
      <3>6. \E k \in Nat : l = [BeginReset(lane[d], "cursor_expired") EXCEPT !.restarts = @ + k]
        BY <3>1
      <3> HIDE DEF l
      <3>7. lane' \in [Device -> LaneState] /\ lane'[d] = l /\ \A e \in Device \ {d} : lane'[e] = lane[e]
        BY <1>2, <3>2, <3>3, LaneAt
      <3> QED
        BY <1>1, <1>5, <2>2, <2>3, <2>4, <3>4, <3>5, <3>6, <3>7 DEF Types
    <2> QED
      BY <2>5, <2>6
  <1> QED
    BY <1>3, <1>4, <1>5

LEMMA OutcomesFacts ==
    ASSUME Types, NEW d \in Device, Outcomes(d)
    PROVE  LET w == work[d]
               gone(m) == m \in DOMAIN w.items /\ w.res[m] = "forgotten" /\ ~w.items[m].demote
           IN
           /\ Types' /\ w.pc = "outcomes" /\ Goto(d, [pc |-> w.then])
           /\ \A e \in Device \ {d} : chunk'[e] = chunk[e]
           /\ \A m : m \in DOMAIN chunk'[d] <=> m \in DOMAIN chunk[d] /\ ~gone(m)
           /\ \A m \in DOMAIN chunk'[d] :
                chunk'[d][m] = IF m \in DOMAIN w.items THEN Outcome(chunk[d][m], w.items[m], w.res[m])
                               ELSE chunk[d][m]
           /\ UNCHANGED <<clock, outbox, lane, removing, fleet, asked, wiped, spent>>
  <1> DEFINE w == work[d]
             gone == {m \in DOMAIN w.items : w.res[m] = "forgotten" /\ ~w.items[m].demote}
             c == [m \in DOMAIN chunk[d] \ gone |->
                     IF m \in DOMAIN w.items THEN Outcome(chunk[d][m], w.items[m], w.res[m]) ELSE chunk[d][m]]
  <1>1. /\ w.pc = "outcomes" /\ Goto(d, [pc |-> w.then]) /\ chunk' = [chunk EXCEPT ![d] = c]
        /\ UNCHANGED <<clock, outbox, lane, removing, fleet, asked, wiped, spent>>
    <2>1. chunk' = [chunk EXCEPT ![d] = c]
      BY DEF Outcomes, Rows
    <2>2. w.pc = "outcomes" /\ Goto(d, [pc |-> w.then])
          /\ UNCHANGED <<clock, outbox, lane, removing, fleet, asked, wiped, spent>>
      BY DEF Outcomes, At
    <2> QED
      BY <2>1, <2>2
  <1>2. WorkOK(w) /\ Store(chunk[d]) /\ w.then \in {"idle", "put"}
    BY <1>1 DEF Types, WorkTypes, StoreTypes, WorkOK, Pushing
  <1>3. \A m \in DOMAIN w.items : w.items[m] \in Item
    BY <1>1, <1>2 DEF WorkOK, Pushing
  <1>4. Store(c)
    BY <1>2, <1>3, ChunkTypes, Zenon DEF Store
  <1>5. WorkTypes'
    BY <1>1, <1>2, GotoFacts, StepWork DEF Types, Steps
  <1>6. (\A m : m \in DOMAIN c <=> m \in DOMAIN chunk[d] /\ m \notin gone)
        /\ \A m \in DOMAIN c :
                c[m] = IF m \in DOMAIN w.items THEN Outcome(chunk[d][m], w.items[m], w.res[m])
                       ELSE chunk[d][m]
    OBVIOUS
  <1> HIDE DEF c
  <1>7. StoreTypes' /\ chunk'[d] = c /\ \A e \in Device \ {d} : chunk'[e] = chunk[e]
    BY <1>1, <1>4, StoreAt DEF Types
  <1> QED
    BY <1>1, <1>5, <1>6, <1>7 DEF Types

\* The steps of opting in and out.
LEMMA TypesSwitch ==
    ASSUME Types, NEW d \in Device,
           \/ RunOnce(d) \/ PushRead(d) \/ PutDisabled(d) \/ PutConfirmed(d) \/ ForgetAll(d)
           \/ EraseAck(d) \/ ClearSyncMarkers(d) \/ EraseDone(d) \/ EnableConfirmed(d)
           \/ Enable(d) \/ Status(d) \/ \E erase \in BOOLEAN : Disable(d, erase)
    PROVE  Types'
  <1>1. StoreTypes /\ WorkTypes /\ lane[d] \in LaneState /\ lane \in [Device -> LaneState]
        /\ outbox \in [Device -> SUBSET Memory] /\ fleet \in Service /\ spent \in [Bounds -> Nat]
        /\ Store(chunk[d]) /\ fleet.on \in BOOLEAN
    BY DEF Types, StoreTypes, Service
  <1>2. \A b \in Bounds : [spent EXCEPT ![b] = @ + 1] \in [Bounds -> Nat]
    BY <1>1
  <1>3. \A b \in BOOLEAN : [fleet EXCEPT !.on = b] \in Service
    BY <1>1 DEF Service
  <1>4. CASE RunOnce(d)
    <2>1. WorkTypes'
      BY <1>1, <1>4, GotoFacts, StepWork DEF RunOnce, Steps
    <2> QED
      BY <1>4, <2>1 DEF RunOnce, Types, StoreTypes
  <1>5. CASE PushRead(d)
    <2> DEFINE ids == {m \in Rows(d) : PushCandidate(chunk[d][m])}
               w == [pc |-> "mark", forgets |-> outbox[d], ids |-> ids]
    <2>1. ids \subseteq Memory
      BY <1>1 DEF Rows, Store
    <2>2. WorkOK(w)
      <3> HIDE DEF ids
      <3> QED
        BY <1>1, <2>1 DEF WorkOK, Paging, Pushing
    <2>3. Goto(d, IF outbox[d] = {} /\ ids = {} THEN Idle ELSE w)
      BY <1>5 DEF PushRead
    <2> HIDE DEF ids, w
    <2>4. WorkTypes'
      BY <1>1, <2>2, <2>3, GotoFacts, StepWork DEF Steps
    <2> QED
      BY <1>5, <2>4 DEF PushRead, Types, StoreTypes
  <1>6. CASE PutDisabled(d)
    <2>1. WorkTypes'
      BY <1>1, <1>6, GotoFacts, StepWork DEF PutDisabled, Steps
    <2> QED
      BY <1>3, <1>6, <2>1 DEF PutDisabled, Types, StoreTypes
  <1>7. CASE PutConfirmed(d)
    <2>1. WorkTypes'
      BY <1>1, <1>7, GotoFacts, StepWork DEF PutConfirmed, Steps
    <2>2. lane' = [lane EXCEPT ![d] = [lane[d] EXCEPT !.disablePending = FALSE]]
      BY <1>7 DEF PutConfirmed
    <2>3. lane' \in [Device -> LaneState]
      BY <1>1, <2>2, LaneTypes, LaneAt, Zenon
    <2> QED
      BY <1>7, <2>1, <2>3 DEF PutConfirmed, Types, StoreTypes
  <1>8. CASE ForgetAll(d)
    <2>1. WorkTypes'
      BY <1>1, <1>8, GotoFacts, StepWork DEF ForgetAll, Steps
    <2>2. fleet' \in Service
      <3>1. PICK n \in Nat : n = fleet.seq + 1
        BY <1>1 DEF Service
      <3>2. PICK k \in Nat : k = fleet.era + 1
        BY <1>1 DEF Service
      <3>3. [m \in Memory |-> Gone] \in [Memory -> Rec]
        BY DEF Gone, Rec, Scope
      <3>4. fleet' = [fleet EXCEPT !.seq = n, !.floor = n, !.erasedAt = n, !.era = k,
                                   !.rec = [m \in Memory |-> Gone]]
        BY <1>8, <3>1, <3>2 DEF ForgetAll
      <3> QED
        BY <1>1, <3>3, <3>4 DEF Service
    <2>3. wiped' \in [Memory -> SUBSET Device]
      BY <1>8 DEF ForgetAll, Types
    <2>4. asked' \in [Memory -> {"no", "live", "void", "asked", "queued", "cut"}]
      BY <1>8 DEF ForgetAll, Types
    <2> QED
      BY <1>8, <2>1, <2>2, <2>3, <2>4 DEF ForgetAll, Types, StoreTypes
  <1>9. CASE EraseAck(d)
    <2>1. WorkTypes'
      BY <1>1, <1>9, GotoFacts, StepWork DEF EraseAck, Steps
    <2> QED
      BY <1>1, <1>9, <2>1 DEF EraseAck, Types, StoreTypes
  <1>10. CASE ClearSyncMarkers(d)
    <2>1. WorkTypes'
      BY <1>1, <1>10, GotoFacts, StepWork DEF ClearSyncMarkers, Steps
    <2> DEFINE c == [m \in DOMAIN chunk[d] |-> [chunk[d][m] EXCEPT !.syn = 0, !.sent = FALSE]]
    <2>2. chunk' = [chunk EXCEPT ![d] = c]
      BY <1>10 DEF ClearSyncMarkers
    <2>3. Store(c)
      BY <1>1, ChunkTypes, Zenon DEF Store
    <2> HIDE DEF c
    <2>4. StoreTypes'
      BY <1>1, <2>2, <2>3, StoreAt
    <2> QED
      BY <1>10, <2>1, <2>4 DEF ClearSyncMarkers, Types
  <1>11. CASE EraseDone(d)
    <2>1. WorkTypes'
      BY <1>1, <1>11, GotoFacts, StepWork DEF EraseDone, Steps
    <2>2. lane' = [lane EXCEPT ![d] = [lane[d] EXCEPT !.cursor = Start, !.reset = "", !.before = 0,
                            !.rcursor = Start, !.restarts = 0, !.erasePending = FALSE]]
      BY <1>11 DEF EraseDone
    <2>3. lane' \in [Device -> LaneState]
      BY <1>1, <2>2, LaneTypes, LaneAt, Zenon
    <2> QED
      BY <1>11, <2>1, <2>3 DEF EraseDone, Types, StoreTypes
  <1>12. CASE EnableConfirmed(d)
    <2>1. WorkTypes'
      BY <1>1, <1>12, GotoFacts, StepWork DEF EnableConfirmed, Steps
    <2>2. lane' = [lane EXCEPT ![d] = [lane[d] EXCEPT !.on = TRUE, !.disablePending = FALSE, !.erasePending = FALSE]]
      BY <1>12 DEF EnableConfirmed
    <2>3. lane' \in [Device -> LaneState]
      BY <1>1, <2>2, LaneTypes, LaneAt, Zenon
    <2> QED
      BY <1>12, <2>1, <2>3 DEF EnableConfirmed, Types, StoreTypes
  <1>13. CASE Enable(d)
    <2>1. WorkTypes'
      BY <1>1, <1>13, GotoFacts, StepWork DEF Enable, Steps
    <2> QED
      BY <1>2, <1>3, <1>13, <2>1 DEF Enable, Spend, Bounds, Types, StoreTypes
  <1>14. CASE Status(d)
    <2>2. lane' = [lane EXCEPT ![d] = [lane[d] EXCEPT !.on = fleet.on]]
      BY <1>14 DEF Status
    <2>3. lane' \in [Device -> LaneState]
      BY <1>1, <2>2, LaneTypes, LaneAt, Zenon
    <2> QED
      BY <1>14, <2>3 DEF Status, Types, StoreTypes, WorkTypes
  <1>15. ASSUME NEW erase \in BOOLEAN, Disable(d, erase) PROVE Types'
    <2> DEFINE w == [pc |-> "send", forgets |-> outbox[d], then |-> "put", items |-> [m \in {} |-> 0]]
    <2>1. WorkOK(w)
      BY <1>1 DEF WorkOK, Paging, Pushing
    <2>2. Goto(d, IF outbox[d] = {} THEN [pc |-> "put"] ELSE w)
      BY <1>15 DEF Disable
    <2> HIDE DEF w
    <2>3. WorkTypes'
      BY <1>1, <2>1, <2>2, GotoFacts, StepWork DEF Steps
    <2>4. PICK b \in BOOLEAN : b = (lane[d].erasePending \/ erase)
      OBVIOUS
    <2>5. lane' = [lane EXCEPT ![d] = [lane[d] EXCEPT !.on = FALSE, !.disablePending = TRUE, !.erasePending = b]]
      BY <1>15, <2>4 DEF Disable
    <2>6. lane' \in [Device -> LaneState]
      BY <1>1, <2>5, LaneTypes, LaneAt, Zenon
    <2>7. spent' \in [Bounds -> Nat]
      BY <1>2, <1>15 DEF Disable, Spend, Bounds
    <2> QED
      BY <1>15, <2>3, <2>6, <2>7 DEF Disable, Types, StoreTypes
  <1> QED
    BY <1>4, <1>5, <1>6, <1>7, <1>8, <1>9, <1>10, <1>11, <1>12, <1>13, <1>14, <1>15

LEMMA TypesFault ==
    ASSUME Types
    PROVE  /\ FleetSweep => Types'
           /\ \A d \in Device : RequestFails(d) \/ Crash(d) => Types'
  <1>1. \A b \in Bounds : [spent EXCEPT ![b] = @ + 1] \in [Bounds -> Nat]
    BY DEF Types
  <1>2. ASSUME FleetSweep PROVE Types'
    <2>1. fleet \in Service /\ Gone \in Rec
      BY DEF Types, Gone, Rec, Scope
    <2> DEFINE rec == [m \in Memory |-> IF fleet.rec[m].st = "live" THEN fleet.rec[m] ELSE Gone]
    <2>2. rec \in [Memory -> Rec]
      BY <2>1 DEF Service
    <2>3. fleet' = [fleet EXCEPT !.floor = fleet.seq, !.rec = rec]
      BY <1>2 DEF FleetSweep
    <2> HIDE DEF rec
    <2>4. fleet' \in Service
      BY <2>1, <2>2, <2>3 DEF Service
    <2> QED
      BY <1>1, <1>2, <2>4 DEF FleetSweep, Spend, Bounds, Types, StoreTypes, WorkTypes
  <1>3. ASSUME NEW d \in Device, RequestFails(d) PROVE Types'
    <2>1. WorkOK(work[d]) /\ WorkTypes
      BY DEF Types, WorkTypes
    <2>2. \E p \in {"idle", "put"} : Goto(d, [pc |-> p])
      <3>1. work[d].pc \in {"send", "results"} => work[d].then \in {"idle", "put"}
        BY <2>1 DEF WorkOK, Pushing
      <3> QED
        BY <1>3, <3>1 DEF RequestFails, Idle
    <2>3. WorkTypes'
      BY <2>1, <2>2, GotoFacts, StepWork DEF Steps
    <2> QED
      BY <1>1, <1>3, <2>3 DEF RequestFails, Spend, Bounds, Types, StoreTypes
  <1>4. ASSUME NEW d \in Device, Crash(d) PROVE Types'
    <2>1. WorkTypes'
      BY <1>4, GotoFacts, StepWork DEF Crash, Steps, Types
    <2>2. removing' \in [Device -> SUBSET (Memory \X BOOLEAN)]
      BY <1>4 DEF Crash, Types
    <2>3. asked' \in [Memory -> {"no", "live", "void", "asked", "queued", "cut"}]
      BY <1>4 DEF Crash, Types
    <2> QED
      BY <1>1, <1>4, <2>1, <2>2, <2>3 DEF Crash, Spend, Bounds, Types, StoreTypes
  <1> QED
    BY <1>2, <1>3, <1>4

LEMMA TypesStep == Types /\ [Next]_vars => Types'
  <1> SUFFICES ASSUME Types, [Next]_vars PROVE Types'
    OBVIOUS
  <1>1. CASE UNCHANGED vars
    BY <1>1 DEF vars, Types, StoreTypes, WorkTypes
  <1>2. CASE Next
    BY <1>2, TypesUser, TypesPull, TypesApply, SaveFacts, SweepFacts, FinishFacts, MarkFacts,
       TypesSend, ResultsFacts, OutcomesFacts, TypesSwitch, TypesFault, Zenon DEF Next, Lane
  <1> QED
    BY <1>1, <1>2

\* Every part of the stores, the lanes, their locals and the service has its type in
\* every reachable state; a reset is for one of the two reasons beginReset knows.
THEOREM SyncTypes == Spec => []TypeOK
  <1>1. Types => TypeOK
    BY DEF Types, TypeOK, StoreTypes, Store, Rows, LaneState
  <1> QED
    BY <1>1, TypesInit, TypesStep, PTL DEF Spec

-----------------------------------------------------------------------------
(* The steps, by what they change. A step is a sweep on Fleet or the move  *)
(* of one device, which leaves the others alone.                           *)

Alone(d) ==
    \A e \in Device \ {d} : /\ chunk'[e] = chunk[e] /\ clock'[e] = clock[e] /\ outbox'[e] = outbox[e]
                            /\ lane'[e] = lane[e] /\ work'[e] = work[e] /\ removing'[e] = removing[e]

SameFeed ==
    /\ fleet'.rec = fleet.rec /\ fleet'.seq = fleet.seq /\ fleet'.floor = fleet.floor
    /\ fleet'.erasedAt = fleet.erasedAt /\ fleet'.era = fleet.era

\* The cursor of d's next pull.
Cur(d) == IF Resetting(d) THEN lane[d].rcursor ELSE lane[d].cursor

\* The locals of d after a turn.
TurnTo(d) ==
    \/ work'[d] = work[d] /\ lane'[d].erasePending = lane[d].erasePending
    \/ \E p \in {"idle", "put", "put_ok", "enabled"} : work'[d] = [pc |-> p]
    \/ work'[d] = [pc |-> "erase"] /\ lane'[d].erasePending
    \/ work'[d] = [pc |-> "send", forgets |-> outbox[d], then |-> "put", items |-> [m \in {} |-> 0]]
    \/ /\ At(d, "push") /\ lane'[d].erasePending = lane[d].erasePending
       /\ work'[d] = [pc |-> "mark", forgets |-> outbox[d],
                      ids |-> {m \in Rows(d) : PushCandidate(chunk[d][m])}]

\* Steps of opting in and out, failures, and a push that only reads: neither a row,
\* nor a queued forget, nor a cursor, nor the feed changes.
Turn(d) ==
    /\ UNCHANGED <<chunk, clock, outbox, wiped>> /\ SameFeed
    /\ lane'[d].cursor = lane[d].cursor /\ lane'[d].rcursor = lane[d].rcursor
    /\ lane'[d].reset = lane[d].reset /\ lane'[d].before = lane[d].before
    /\ lane'[d].erasePending => lane[d].erasePending \/ Left("erases")
    /\ TurnTo(d)
    /\ removing'[d] \subseteq removing[d]
    /\ \A m \in Memory : \/ asked'[m] = asked[m] /\ (<<m, TRUE>> \in removing[d] => <<m, TRUE>> \in removing'[d])
                         \/ asked'[m] = "cut" /\ <<m, TRUE>> \in removing[d]

Refused(d) ==
    /\ work[d].pc \in {"pull", "idle"} /\ Stale(Cur(d)) # ""
    /\ lane'[d] = BeginReset(lane[d], Stale(Cur(d))) /\ chunk' = NewEpoch(d)
    /\ \E p \in {"idle", "pull"} : work'[d] = [pc |-> p]
    /\ UNCHANGED <<clock, outbox, removing, fleet, asked, wiped>>

Fetched(d) ==
    /\ work[d].pc \in {"pull", "idle"} /\ Stale(Cur(d)) = ""
    /\ \E c \in Nat : /\ clock' = [clock EXCEPT ![d] = c] /\ c >= clock[d]
                      /\ \A m \in Page(Cur(d)) : c >= fleet.rec[m].ph \div N
    /\ work'[d] = [pc |-> "apply",
                   recs |-> [m \in {k \in Page(Cur(d)) : fleet.rec[k].st = "live" => k \notin outbox[d]}
                                |-> fleet.rec[m]],
                   acks |-> {m \in Page(Cur(d)) : fleet.rec[m].st = "forgotten"} \cap outbox[d],
                   cu |-> NextCursor(Cur(d)), more |-> Page(Cur(d)) # After(Cur(d))]
    /\ UNCHANGED <<chunk, lane, outbox, removing, fleet, asked, wiped>>

Told(d) ==
    /\ work[d].pc = "results"
    /\ outbox'[d] = outbox[d] \ Acked(d)
    /\ work'[d] = [pc |-> "outcomes", items |-> work[d].items, then |-> work[d].then, res |-> work[d].res]
    /\ \A m \in DOMAIN work[d].res : work[d].res[m] # "sync_disabled"
    /\ \/ /\ \A m \in DOMAIN work[d].res : work[d].res[m] # "resync_required"
          /\ UNCHANGED <<chunk, lane>>
       \/ /\ \E m \in DOMAIN work[d].res : work[d].res[m] = "resync_required"
          /\ chunk' = NewEpoch(d)
          /\ \E k \in Nat : lane'[d] = [BeginReset(lane[d], "cursor_expired") EXCEPT !.restarts = @ + k]
    /\ UNCHANGED <<clock, removing, fleet, asked, wiped>>

User(d) == \E m \in Memory : Add(d, m) \/ SetPinned(d, m) \/ PromoteScope(d, m) \/ Remove(d, m)
                             \/ RecordDelete(d, m)

\* An erase, from the answer of forget-all on.
Erasing(d) == ForgetAll(d) \/ EraseAck(d) \/ ClearSyncMarkers(d) \/ EraseDone(d)

Move(d) ==
    \/ Turn(d) \/ User(d) \/ Refused(d) \/ Fetched(d) \/ ApplyPage(d) \/ SaveCursor(d)
    \/ SweepRows(d) \/ FinishReset(d) \/ MarkSyncSent(d) \/ Send(d) \/ Told(d) \/ Outcomes(d)
    \/ Erasing(d)

LEMMA AloneUser ==
    ASSUME Types, NEW d \in Device, User(d)
    PROVE  Alone(d)
  <1>1. StoreTypes /\ clock \in [Device -> Nat] /\ outbox \in [Device -> SUBSET Memory]
        /\ removing \in [Device -> SUBSET (Memory \X BOOLEAN)]
    BY DEF Types
  <1>2. PICK m \in Memory : Add(d, m) \/ SetPinned(d, m) \/ PromoteScope(d, m) \/ Remove(d, m)
                            \/ RecordDelete(d, m)
    BY DEF User
  <1>3. CASE Add(d, m)
    BY <1>1, <1>3 DEF Add, Alone, Ticked, StoreTypes
  <1>4. CASE SetPinned(d, m) \/ PromoteScope(d, m)
    <2>1. PICK c : Edit(d, m, c)
      BY <1>4 DEF SetPinned, PromoteScope
    <2> QED
      BY <1>1, <2>1 DEF Edit, Alone, Ticked, StoreTypes
  <1>5. CASE Remove(d, m)
    BY <1>1, <1>5 DEF Remove, Alone, StoreTypes
  <1>6. CASE RecordDelete(d, m)
    BY <1>1, <1>6 DEF RecordDelete, Alone, StoreTypes, Ticked
  <1> QED
    BY <1>2, <1>3, <1>4, <1>5, <1>6

LEMMA PullMove ==
    ASSUME Types, NEW d \in Device, Pull(d)
    PROVE  Alone(d) /\ (Turn(d) \/ Refused(d) \/ Fetched(d))
  <1>1. StoreTypes /\ WorkTypes /\ lane \in [Device -> LaneState] /\ clock \in [Device -> Nat] /\ lane[d] \in LaneState
    BY DEF Types
  <1>2. Cur(d) = IF lane[d].reset # "" THEN lane[d].rcursor ELSE lane[d].cursor
    BY DEF Cur, Resetting
  <1>3. work[d].pc \in {"pull", "idle"} /\ UNCHANGED <<outbox, removing, fleet, asked, wiped, spent>>
    BY PullCases
  <1>4. \/ /\ Goto(d, Idle)
           /\ lane' = [lane EXCEPT ![d] = [lane[d] EXCEPT !.on = FALSE]]
           /\ UNCHANGED <<chunk, clock>>
        \/ /\ Stale(Cur(d)) # ""
           /\ lane' = [lane EXCEPT ![d] = BeginReset(lane[d], Stale(Cur(d)))]
           /\ chunk' = NewEpoch(d)
           /\ \E p \in {"idle", "pull"} : Goto(d, [pc |-> p])
           /\ UNCHANGED clock
        \/ /\ Stale(Cur(d)) = ""
           /\ \E c \in Nat : /\ clock' = [clock EXCEPT ![d] = c] /\ c >= clock[d]
                             /\ \A m \in Page(Cur(d)) : c >= fleet.rec[m].ph \div N
           /\ Goto(d, [pc |-> "apply",
                 recs |-> [m \in {k \in Page(Cur(d)) : fleet.rec[k].st = "live" => k \notin outbox[d]}
                              |-> fleet.rec[m]],
                 acks |-> {m \in Page(Cur(d)) : fleet.rec[m].st = "forgotten"} \cap outbox[d],
                 cu |-> NextCursor(Cur(d)), more |-> Page(Cur(d)) # After(Cur(d))])
           /\ UNCHANGED <<chunk, lane>>
    BY PullCases, Zenon DEF Cur, Resetting
  <1>5. CASE /\ Goto(d, Idle)
             /\ lane' = [lane EXCEPT ![d] = [lane[d] EXCEPT !.on = FALSE]]
             /\ UNCHANGED <<chunk, clock>>
    <2>1. lane'[d] = [lane[d] EXCEPT !.on = FALSE] /\ \A e \in Device \ {d} : lane'[e] = lane[e]
      BY <1>1, <1>5
    <2>2. work'[d] = [pc |-> "idle"] /\ \A e \in Device \ {d} : work'[e] = work[e]
      BY <1>1, <1>5, GotoFacts DEF Idle
    <2>3. Alone(d)
      BY <1>3, <1>5, <2>1, <2>2 DEF Alone
    <2>4. /\ lane'[d].cursor = lane[d].cursor /\ lane'[d].rcursor = lane[d].rcursor
          /\ lane'[d].reset = lane[d].reset /\ lane'[d].before = lane[d].before
          /\ lane'[d].erasePending = lane[d].erasePending
      BY <1>1, <2>1 DEF LaneState
    <2>5. Turn(d)
      BY <1>3, <1>5, <2>2, <2>4 DEF Turn, TurnTo, SameFeed
    <2> QED
      BY <2>3, <2>5
  <1>6. CASE /\ Stale(Cur(d)) # ""
             /\ lane' = [lane EXCEPT ![d] = BeginReset(lane[d], Stale(Cur(d)))]
             /\ chunk' = NewEpoch(d)
             /\ \E p \in {"idle", "pull"} : Goto(d, [pc |-> p])
             /\ UNCHANGED clock
    <2>1. lane'[d] = BeginReset(lane[d], Stale(Cur(d))) /\ \A e \in Device \ {d} : lane'[e] = lane[e]
      BY <1>1, <1>6
    <2>2. (\E p \in {"idle", "pull"} : work'[d] = [pc |-> p]) /\ \A e \in Device \ {d} : work'[e] = work[e]
      BY <1>1, <1>6, GotoFacts
    <2>3. \A e \in Device \ {d} : chunk'[e] = chunk[e]
      BY <1>1, <1>6, EpochFacts
    <2> QED
      BY <1>3, <1>6, <2>1, <2>2, <2>3 DEF Alone, Refused
  <1>7. CASE /\ Stale(Cur(d)) = ""
             /\ \E c \in Nat : /\ clock' = [clock EXCEPT ![d] = c] /\ c >= clock[d]
                               /\ \A m \in Page(Cur(d)) : c >= fleet.rec[m].ph \div N
             /\ Goto(d, [pc |-> "apply",
                 recs |-> [m \in {k \in Page(Cur(d)) : fleet.rec[k].st = "live" => k \notin outbox[d]}
                              |-> fleet.rec[m]],
                 acks |-> {m \in Page(Cur(d)) : fleet.rec[m].st = "forgotten"} \cap outbox[d],
                 cu |-> NextCursor(Cur(d)), more |-> Page(Cur(d)) # After(Cur(d))])
             /\ UNCHANGED <<chunk, lane>>
    <2> DEFINE w == [pc |-> "apply",
                 recs |-> [m \in {k \in Page(Cur(d)) : fleet.rec[k].st = "live" => k \notin outbox[d]}
                              |-> fleet.rec[m]],
                 acks |-> {m \in Page(Cur(d)) : fleet.rec[m].st = "forgotten"} \cap outbox[d],
                 cu |-> NextCursor(Cur(d)), more |-> Page(Cur(d)) # After(Cur(d))]
    <2>1. Goto(d, w)
      BY <1>7
    <2>2. Fetched(d) <=> work'[d] = w
      BY <1>3, <1>7, Zenon DEF Fetched
    <2> HIDE DEF w
    <2>3. work'[d] = w /\ \A e \in Device \ {d} : work'[e] = work[e]
      BY <1>1, <2>1, GotoFacts
    <2>4. \A e \in Device \ {d} : clock'[e] = clock[e]
      BY <1>1, <1>7
    <2> QED
      BY <1>3, <1>7, <2>2, <2>3, <2>4 DEF Alone
  <1> QED
    BY <1>4, <1>5, <1>6, <1>7

\* What the lane of d keeps in a turn.
LEMMA LaneTurn ==
    ASSUME NEW l \in LaneState
    PROVE  /\ \A b \in BOOLEAN :
                LET x == [l EXCEPT !.on = b]
                    y == [l EXCEPT !.on = FALSE, !.disablePending = TRUE, !.erasePending = b]
                    z == [l EXCEPT !.disablePending = b]
                IN  /\ x.cursor = l.cursor /\ x.rcursor = l.rcursor /\ x.reset = l.reset /\ x.before = l.before
                    /\ x.erasePending = l.erasePending
                    /\ y.cursor = l.cursor /\ y.rcursor = l.rcursor /\ y.reset = l.reset /\ y.before = l.before
                    /\ y.erasePending = b
                    /\ z.cursor = l.cursor /\ z.rcursor = l.rcursor /\ z.reset = l.reset /\ z.before = l.before
                    /\ z.erasePending = l.erasePending
           /\ LET x == [l EXCEPT !.on = TRUE, !.disablePending = FALSE, !.erasePending = FALSE]
              IN  /\ x.cursor = l.cursor /\ x.rcursor = l.rcursor /\ x.reset = l.reset /\ x.before = l.before
                  /\ x.erasePending = FALSE
  BY DEF LaneState

\* A turn of a lane, put together.
LEMMA TurnFrom ==
    ASSUME Types, NEW d \in Device, NEW l \in LaneState, NEW w,
           lane' = [lane EXCEPT ![d] = l], Goto(d, w), TurnTo(d),
           l.cursor = lane[d].cursor, l.rcursor = lane[d].rcursor,
           l.reset = lane[d].reset, l.before = lane[d].before,
           l.erasePending => lane[d].erasePending \/ Left("erases"),
           UNCHANGED <<chunk, clock, outbox, wiped, removing, asked>>, SameFeed
    PROVE  Alone(d) /\ Turn(d)
  <1>1. StoreTypes /\ WorkTypes /\ lane \in [Device -> LaneState] /\ clock \in [Device -> Nat]
    BY DEF Types
  <1>2. work'[d] = w /\ \A e \in Device \ {d} : work'[e] = work[e]
    BY <1>1, GotoFacts
  <1>3. lane'[d] = l /\ \A e \in Device \ {d} : lane'[e] = lane[e]
    BY <1>1
  <1>4. Alone(d)
    BY <1>2, <1>3 DEF Alone
  <1>5. Turn(d)
    BY <1>3 DEF Turn
  <1> QED
    BY <1>4, <1>5

LEMMA TurnMoves ==
    ASSUME Types, NEW d \in Device,
           \/ RunOnce(d) \/ PushRead(d) \/ PutDisabled(d) \/ PutConfirmed(d) \/ EnableConfirmed(d)
           \/ Enable(d) \/ Status(d) \/ \E erase \in BOOLEAN : Disable(d, erase)
           \/ RequestFails(d) \/ Crash(d)
    PROVE  Alone(d) /\ Turn(d)
  <1>1. /\ WorkTypes /\ lane[d] \in LaneState /\ lane \in [Device -> LaneState] /\ fleet \in Service
        /\ removing \in [Device -> SUBSET (Memory \X BOOLEAN)] /\ WorkOK(work[d])
        /\ asked \in [Memory -> {"no", "live", "void", "asked", "queued", "cut"}]
    BY DEF Types, WorkTypes
  <1>2. lane = [lane EXCEPT ![d] = lane[d]]
    BY <1>1
  <1>3. \A b \in BOOLEAN : LET f == [fleet EXCEPT !.on = b] IN
            /\ f.rec = fleet.rec /\ f.seq = fleet.seq /\ f.floor = fleet.floor
            /\ f.erasedAt = fleet.erasedAt /\ f.era = fleet.era
    BY <1>1 DEF Service
  <1>4. fleet' = fleet => SameFeed
    BY DEF SameFeed
  <1>5. \A b \in BOOLEAN : fleet' = [fleet EXCEPT !.on = b] => SameFeed
    BY <1>3 DEF SameFeed
  <1>6. CASE RunOnce(d) /\ lane[d].disablePending
    <2>1. Goto(d, [pc |-> "put"])
      BY <1>6 DEF RunOnce
    <2>2. work'[d] = [pc |-> "put"]
      BY <1>1, <2>1, GotoFacts
    <2> QED
      BY <1>1, <1>2, <1>4, <1>6, <2>1, <2>2, TurnFrom DEF RunOnce, TurnTo
  <1>7. CASE RunOnce(d) /\ ~lane[d].disablePending
    <2>1. Goto(d, [pc |-> "erase"]) /\ lane[d].erasePending /\ lane' = lane
      BY <1>7 DEF RunOnce
    <2>2. work'[d] = [pc |-> "erase"]
      BY <1>1, <2>1, GotoFacts
    <2>3. TurnTo(d)
      BY <2>1, <2>2 DEF TurnTo
    <2> QED
      BY <1>1, <1>2, <1>4, <1>7, <2>1, <2>3, TurnFrom DEF RunOnce
  <1>8. CASE PushRead(d)
    <2> DEFINE w == [pc |-> "mark", forgets |-> outbox[d], ids |-> {m \in Rows(d) : PushCandidate(chunk[d][m])}]
    <2>1. At(d, "push") /\ (Goto(d, Idle) \/ Goto(d, w)) /\ lane' = lane
      BY <1>8 DEF PushRead
    <2>2. work'[d] = w => TurnTo(d)
      BY <2>1 DEF TurnTo
    <2> HIDE DEF w
    <2>3. TurnTo(d)
      <3>1. CASE Goto(d, Idle)
        <4>1. work'[d] = [pc |-> "idle"]
          BY <1>1, <3>1, GotoFacts DEF Idle
        <4> QED
          BY <4>1 DEF TurnTo
      <3>2. CASE Goto(d, w)
        BY <1>1, <2>2, <3>2, GotoFacts
      <3> QED
        BY <2>1, <3>1, <3>2
    <2> QED
      BY <1>1, <1>2, <1>4, <1>8, <2>1, <2>3, TurnFrom DEF PushRead
  <1>9. CASE PutDisabled(d)
    <2>1. work'[d] = [pc |-> "put_ok"]
      BY <1>1, <1>9, GotoFacts DEF PutDisabled
    <2> QED
      BY <1>1, <1>2, <1>5, <1>9, <2>1, TurnFrom DEF PutDisabled, TurnTo
  <1>10. CASE PutConfirmed(d)
    <2> DEFINE l == [lane[d] EXCEPT !.disablePending = FALSE]
    <2>1. lane' = [lane EXCEPT ![d] = l]
      BY <1>10 DEF PutConfirmed
    <2>2. /\ l \in LaneState /\ l.cursor = lane[d].cursor /\ l.rcursor = lane[d].rcursor
          /\ l.reset = lane[d].reset /\ l.before = lane[d].before /\ l.erasePending = lane[d].erasePending
      BY <1>1, LaneTypes, LaneTurn, Zenon
    <2> HIDE DEF l
    <2>3. PICK w : Goto(d, w) /\ w = IF lane[d].erasePending THEN [pc |-> "erase"] ELSE [pc |-> "idle"]
      BY <1>10 DEF PutConfirmed, Idle
    <2>4. TurnTo(d)
      <3>1. work'[d] = w /\ lane'[d] = l
        BY <1>1, <2>1, <2>3, GotoFacts
      <3> QED
        BY <2>2, <2>3, <3>1 DEF TurnTo
    <2> QED
      BY <1>4, <1>10, <2>1, <2>2, <2>3, <2>4, TurnFrom DEF PutConfirmed
  <1>11. CASE EnableConfirmed(d)
    <2> DEFINE l == [lane[d] EXCEPT !.on = TRUE, !.disablePending = FALSE, !.erasePending = FALSE]
    <2>1. lane' = [lane EXCEPT ![d] = l]
      BY <1>11 DEF EnableConfirmed
    <2>2. /\ l \in LaneState /\ l.cursor = lane[d].cursor /\ l.rcursor = lane[d].rcursor
          /\ l.reset = lane[d].reset /\ l.before = lane[d].before /\ l.erasePending = FALSE
      BY <1>1, LaneTypes, LaneTurn, Zenon
    <2> HIDE DEF l
    <2>3. work'[d] = [pc |-> "idle"]
      BY <1>1, <1>11, GotoFacts DEF EnableConfirmed, Idle
    <2>4. TurnTo(d)
      BY <2>3 DEF TurnTo
    <2> QED
      BY <1>4, <1>11, <2>1, <2>2, <2>4, TurnFrom DEF EnableConfirmed
  <1>12. CASE Enable(d)
    <2>1. work'[d] = [pc |-> "enabled"]
      BY <1>1, <1>12, GotoFacts DEF Enable
    <2> QED
      BY <1>1, <1>2, <1>5, <1>12, <2>1, TurnFrom DEF Enable, TurnTo
  <1>13. CASE Status(d)
    <2>1. /\ lane'[d] = [lane[d] EXCEPT !.on = fleet.on] /\ \A e \in Device \ {d} : lane'[e] = lane[e]
          /\ UNCHANGED <<chunk, clock, outbox, work, removing, fleet, asked, wiped>>
      BY <1>1, <1>13 DEF Status
    <2>2. fleet.on \in BOOLEAN
      BY <1>1 DEF Service
    <2>3. /\ lane'[d].cursor = lane[d].cursor /\ lane'[d].rcursor = lane[d].rcursor
          /\ lane'[d].reset = lane[d].reset /\ lane'[d].before = lane[d].before
          /\ lane'[d].erasePending = lane[d].erasePending
      BY <1>1, <2>1, <2>2 DEF LaneState
    <2>4. Alone(d)
      BY <2>1 DEF Alone
    <2>5. Turn(d)
      BY <1>4, <2>1, <2>3 DEF Turn, TurnTo
    <2> QED
      BY <2>4, <2>5
  <1>14. ASSUME NEW erase \in BOOLEAN, Disable(d, erase) PROVE Alone(d) /\ Turn(d)
    <2> DEFINE w == [pc |-> "send", forgets |-> outbox[d], then |-> "put", items |-> [m \in {} |-> 0]]
    <2>1. PICK b \in BOOLEAN : b = (lane[d].erasePending \/ erase)
      OBVIOUS
    <2> DEFINE l == [lane[d] EXCEPT !.on = FALSE, !.disablePending = TRUE, !.erasePending = b]
    <2>2. lane' = [lane EXCEPT ![d] = l]
      BY <1>14, <2>1 DEF Disable
    <2>3. /\ l \in LaneState /\ l.cursor = lane[d].cursor /\ l.rcursor = lane[d].rcursor
          /\ l.reset = lane[d].reset /\ l.before = lane[d].before /\ l.erasePending = b
      BY <1>1 DEF LaneState
    <2> HIDE DEF l
    <2>4. Goto(d, [pc |-> "put"]) \/ Goto(d, w)
      BY <1>14 DEF Disable
    <2>5. b => lane[d].erasePending \/ Left("erases")
      BY <1>14, <2>1 DEF Disable
    <2>6. UNCHANGED <<chunk, clock, outbox, wiped, removing, asked>> /\ SameFeed
      BY <1>4, <1>14 DEF Disable
    <2>7. work'[d] = w => TurnTo(d)
      BY DEF TurnTo
    <2> HIDE DEF w
    <2>8. CASE Goto(d, [pc |-> "put"])
      <3>1. work'[d] = [pc |-> "put"]
        BY <1>1, <2>8, GotoFacts
      <3>2. TurnTo(d)
        BY <3>1 DEF TurnTo
      <3> QED
        BY <2>2, <2>3, <2>5, <2>6, <2>8, <3>2, TurnFrom
    <2>9. CASE Goto(d, w)
      <3>1. TurnTo(d)
        BY <1>1, <2>7, <2>9, GotoFacts
      <3> QED
        BY <2>2, <2>3, <2>5, <2>6, <2>9, <3>1, TurnFrom
    <2> QED
      BY <2>4, <2>8, <2>9
  <1>15. CASE RequestFails(d)
    <2>1. PICK p \in {"idle", "put"} : Goto(d, [pc |-> p])
      <3>1. work[d].pc \in {"send", "results"} => work[d].then \in {"idle", "put"}
        BY <1>1 DEF WorkOK, Pushing
      <3> QED
        BY <1>15, <3>1 DEF RequestFails, Idle
    <2>2. work'[d] = [pc |-> p]
      BY <1>1, <2>1, GotoFacts
    <2>3. TurnTo(d)
      BY <2>2 DEF TurnTo
    <2> QED
      BY <1>1, <1>2, <1>4, <1>15, <2>1, <2>3, TurnFrom DEF RequestFails
  <1>16. CASE Crash(d)
    <2>1. work'[d] = [pc |-> "idle"] /\ \A e \in Device \ {d} : work'[e] = work[e]
      BY <1>1, <1>16, GotoFacts DEF Crash, Idle
    <2>2. removing'[d] = {} /\ \A e \in Device \ {d} : removing'[e] = removing[e]
      BY <1>1, <1>16 DEF Crash
    <2>3. asked' = [m \in Memory |-> IF <<m, TRUE>> \in removing[d] THEN "cut" ELSE asked[m]]
      BY <1>16 DEF Crash
    <2>4. UNCHANGED <<chunk, clock, outbox, lane, fleet, wiped>>
      BY <1>16 DEF Crash
    <2>5. Alone(d)
      BY <2>1, <2>2, <2>4 DEF Alone
    <2>6. \A m \in Memory : \/ asked'[m] = asked[m] /\ (<<m, TRUE>> \in removing[d] => <<m, TRUE>> \in removing'[d])
                            \/ asked'[m] = "cut" /\ <<m, TRUE>> \in removing[d]
      BY <2>3
    <2>7. Turn(d)
      BY <1>4, <2>1, <2>2, <2>4, <2>6 DEF Turn, TurnTo
    <2> QED
      BY <2>5, <2>7
  <1> QED
    BY <1>6, <1>7, <1>8, <1>9, <1>10, <1>11, <1>12, <1>13, <1>14, <1>15, <1>16

LEMMA Moves ==
    ASSUME Types, Next
    PROVE  FleetSweep \/ \E d \in Device : Alone(d) /\ Move(d)
  <1>1. /\ StoreTypes /\ WorkTypes /\ lane \in [Device -> LaneState] /\ clock \in [Device -> Nat]
        /\ outbox \in [Device -> SUBSET Memory]
    BY DEF Types
  <1>2. ASSUME NEW d \in Device, Results(d) PROVE Alone(d) /\ (Turn(d) \/ Told(d))
    <2> DEFINE out == [pc |-> "outcomes", items |-> work[d].items, then |-> work[d].then, res |-> work[d].res]
    <2>1. /\ work[d].pc = "results" /\ \A e \in Device \ {d} : lane'[e] = lane[e]
          /\ UNCHANGED <<clock, removing, fleet, asked, wiped, spent>>
          /\ \/ /\ Goto(d, Idle) /\ lane'[d] = [lane[d] EXCEPT !.on = FALSE]
                /\ UNCHANGED <<chunk, outbox>>
             \/ /\ outbox' = [outbox EXCEPT ![d] = @ \ Acked(d)]
                /\ Goto(d, out)
                /\ \A m \in DOMAIN work[d].res : work[d].res[m] # "sync_disabled"
                /\ \/ /\ \A m \in DOMAIN work[d].res : work[d].res[m] # "resync_required"
                      /\ UNCHANGED <<chunk, lane>>
                   \/ /\ \E m \in DOMAIN work[d].res : work[d].res[m] = "resync_required"
                      /\ chunk' = NewEpoch(d)
                      /\ \E k \in Nat : lane'[d] = [BeginReset(lane[d], "cursor_expired") EXCEPT !.restarts = @ + k]
      BY <1>2, ResultsFacts, Zenon
    <2>2. CASE Goto(d, Idle) /\ lane'[d] = [lane[d] EXCEPT !.on = FALSE] /\ UNCHANGED <<chunk, outbox>>
      <3>1. work'[d] = [pc |-> "idle"] /\ \A e \in Device \ {d} : work'[e] = work[e]
        BY <1>1, <2>2, GotoFacts DEF Idle
      <3>2. /\ lane'[d].cursor = lane[d].cursor /\ lane'[d].rcursor = lane[d].rcursor
            /\ lane'[d].reset = lane[d].reset /\ lane'[d].before = lane[d].before
            /\ lane'[d].erasePending = lane[d].erasePending
        BY <1>1, <2>2, LaneTurn
      <3> QED
        BY <2>1, <2>2, <3>1, <3>2 DEF Alone, Turn, TurnTo, SameFeed
    <2>3. CASE /\ outbox' = [outbox EXCEPT ![d] = @ \ Acked(d)] /\ Goto(d, out)
               /\ \A m \in DOMAIN work[d].res : work[d].res[m] # "sync_disabled"
               /\ \/ /\ \A m \in DOMAIN work[d].res : work[d].res[m] # "resync_required"
                     /\ UNCHANGED <<chunk, lane>>
                  \/ /\ \E m \in DOMAIN work[d].res : work[d].res[m] = "resync_required"
                     /\ chunk' = NewEpoch(d)
                     /\ \E k \in Nat : lane'[d] = [BeginReset(lane[d], "cursor_expired") EXCEPT !.restarts = @ + k]
      <3>1. work'[d] = out /\ \A e \in Device \ {d} : work'[e] = work[e]
        <4> HIDE DEF out
        <4> QED
          BY <1>1, <2>3, GotoFacts
      <3>2. outbox'[d] = outbox[d] \ Acked(d) /\ \A e \in Device \ {d} : outbox'[e] = outbox[e]
        BY <1>1, <2>3
      <3>3. \A e \in Device \ {d} : chunk'[e] = chunk[e]
        BY <1>1, <2>3, EpochFacts
      <3>4. Alone(d)
        BY <2>1, <3>1, <3>2, <3>3 DEF Alone
      <3>5. Told(d)
        BY <2>1, <2>3, <3>1, <3>2, Zenon DEF Told
      <3> QED
        BY <3>4, <3>5
    <2> QED
      BY <2>1, <2>2, <2>3
  <1>3. ASSUME NEW d \in Device, ApplyPage(d) PROVE Alone(d)
    <2>1. /\ \A e \in Device \ {d} : chunk'[e] = chunk[e]
          /\ Goto(d, [pc |-> "cursor", acks |-> work[d].acks, cu |-> work[d].cu, more |-> work[d].more])
          /\ UNCHANGED <<clock, outbox, lane, removing, fleet, asked, wiped, spent>>
      BY <1>3, ApplyFacts, Zenon
    <2>2. \A e \in Device \ {d} : work'[e] = work[e]
      BY <1>1, <2>1, GotoFacts
    <2> QED
      BY <2>1, <2>2 DEF Alone
  <1>4. ASSUME NEW d \in Device, SaveCursor(d) PROVE Alone(d)
    <2>1. /\ outbox' = [outbox EXCEPT ![d] = @ \ work[d].acks] /\ \A e \in Device \ {d} : lane'[e] = lane[e]
          /\ UNCHANGED <<chunk, clock, removing, fleet, asked, wiped, spent>>
          /\ \E w : Goto(d, w)
      BY <1>4, SaveFacts
    <2>2. \A e \in Device \ {d} : work'[e] = work[e] /\ outbox'[e] = outbox[e]
      BY <1>1, <2>1, GotoFacts
    <2> QED
      BY <2>1, <2>2 DEF Alone
  <1>5. ASSUME NEW d \in Device, SweepRows(d) \/ FinishReset(d) PROVE Alone(d)
    <2>1. /\ UNCHANGED <<clock, outbox, removing>> /\ (\E w : Goto(d, w))
          /\ \A e \in Device \ {d} : chunk'[e] = chunk[e] /\ lane'[e] = lane[e]
      BY <1>1, <1>5, SweepFacts, FinishFacts, EpochFacts
    <2>2. \A e \in Device \ {d} : work'[e] = work[e]
      BY <1>1, <2>1, GotoFacts
    <2> QED
      BY <2>1, <2>2 DEF Alone
  <1>6. ASSUME NEW d \in Device, MarkSyncSent(d) \/ Outcomes(d) PROVE Alone(d)
    <2>1. /\ UNCHANGED <<outbox, lane, removing>> /\ (\E w : Goto(d, w))
          /\ \A e \in Device \ {d} : chunk'[e] = chunk[e]
          /\ clock' = clock \/ clock' = Ticked(d)
      <3>1. CASE MarkSyncSent(d)
        BY <3>1, MarkFacts
      <3>2. CASE Outcomes(d)
        BY <3>2, OutcomesFacts
      <3> QED
        BY <1>6, <3>1, <3>2
    <2>2. \A e \in Device \ {d} : work'[e] = work[e] /\ clock'[e] = clock[e]
      BY <1>1, <2>1, GotoFacts DEF Ticked
    <2> QED
      BY <2>1, <2>2 DEF Alone
  <1>7. ASSUME NEW d \in Device, Send(d) PROVE Alone(d)
    <2>1. UNCHANGED <<chunk, clock, outbox, lane, removing>> /\ \E w : Goto(d, w)
      BY <1>7, Zenon DEF Send
    <2>2. \A e \in Device \ {d} : work'[e] = work[e]
      BY <1>1, <2>1, GotoFacts
    <2> QED
      BY <2>1, <2>2 DEF Alone
  <1>8. ASSUME NEW d \in Device, Erasing(d) PROVE Alone(d)
    <2>1. \E p \in Steps : Goto(d, [pc |-> p])
      BY <1>8, Zenon DEF Erasing, ForgetAll, EraseAck, ClearSyncMarkers, EraseDone, Steps, Idle
    <2>2. \A e \in Device \ {d} : work'[e] = work[e]
      BY <1>1, <2>1, GotoFacts
    <2>3. \A e \in Device \ {d} : chunk'[e] = chunk[e] /\ clock'[e] = clock[e] /\ outbox'[e] = outbox[e]
                                  /\ lane'[e] = lane[e] /\ removing'[e] = removing[e]
      BY <1>1, <1>8, Zenon DEF Erasing, ForgetAll, EraseAck, ClearSyncMarkers, EraseDone, StoreTypes
    <2> QED
      BY <2>2, <2>3 DEF Alone
  <1>9. \A d \in Device : Pull(d) => Alone(d) /\ Move(d)
    BY PullMove DEF Move
  <1>10. \A d \in Device : User(d) => Alone(d) /\ Move(d)
    BY AloneUser DEF Move
  <1>11. ASSUME NEW d \in Device,
               \/ RunOnce(d) \/ PushRead(d) \/ PutDisabled(d) \/ PutConfirmed(d) \/ EnableConfirmed(d)
               \/ Enable(d) \/ Status(d) \/ (\E erase \in BOOLEAN : Disable(d, erase))
               \/ RequestFails(d) \/ Crash(d)
         PROVE Alone(d) /\ Move(d)
    <2>1. Alone(d) /\ Turn(d)
      BY <1>11, TurnMoves
    <2> QED
      BY <2>1 DEF Move
  <1>12. ASSUME NEW d \in Device, Lane(d) PROVE Alone(d) /\ Move(d)
    <2>1. \/ Pull(d) \/ ApplyPage(d) \/ SaveCursor(d) \/ SweepRows(d) \/ FinishReset(d) \/ MarkSyncSent(d)
          \/ Send(d) \/ Results(d) \/ Outcomes(d) \/ Erasing(d)
          \/ RunOnce(d) \/ PushRead(d) \/ PutDisabled(d) \/ PutConfirmed(d) \/ EnableConfirmed(d)
      BY <1>12 DEF Lane, Erasing
    <2>2. (\/ Turn(d) \/ Told(d) \/ ApplyPage(d) \/ SaveCursor(d) \/ SweepRows(d) \/ FinishReset(d)
           \/ MarkSyncSent(d) \/ Send(d) \/ Outcomes(d) \/ Erasing(d)) => Move(d)
      BY DEF Move
    <2>3. CASE RunOnce(d) \/ PushRead(d) \/ PutDisabled(d) \/ PutConfirmed(d) \/ EnableConfirmed(d)
      BY <1>11, <2>3
    <2>4. CASE Results(d)
      BY <1>2, <2>2, <2>4
    <2>5. CASE Pull(d)
      BY <1>9, <2>5
    <2>6. CASE \/ ApplyPage(d) \/ SaveCursor(d) \/ SweepRows(d) \/ FinishReset(d) \/ MarkSyncSent(d)
               \/ Send(d) \/ Outcomes(d) \/ Erasing(d)
      <3>1. Alone(d)
        BY <2>6, <1>3, <1>4, <1>5, <1>6, <1>7, <1>8
      <3> QED
        BY <2>2, <2>6, <3>1
    <2> QED
      BY <2>1, <2>3, <2>4, <2>5, <2>6
  <1>13. CASE \E d \in Device : Lane(d)
    BY <1>12, <1>13
  <1>14. CASE \E d \in Device : User(d)
    BY <1>10, <1>14
  <1>15. CASE \E d \in Device : \/ Enable(d) \/ Status(d) \/ (\E erase \in BOOLEAN : Disable(d, erase))
                                \/ RequestFails(d) \/ Crash(d)
    <2>1. PICK d \in Device : \/ Enable(d) \/ Status(d) \/ (\E erase \in BOOLEAN : Disable(d, erase))
                              \/ RequestFails(d) \/ Crash(d)
      BY <1>15
    <2>2. Alone(d) /\ Move(d)
      BY <1>11, <2>1
    <2> QED
      BY <2>2
  <1> QED
    BY <1>13, <1>14, <1>15, Zenon DEF Next, User

\* A refused pull and a page, piece by piece.
LEMMA RefusedFacts ==
    ASSUME Types, NEW d \in Device, Refused(d)
    PROVE  /\ work[d].pc \in {"pull", "idle"} /\ Stale(Cur(d)) \in {"erased", "cursor_expired"}
           /\ lane'[d] = BeginReset(lane[d], Stale(Cur(d))) /\ lane[d] \in LaneState
           /\ lane'[d].cursor = Start /\ lane'[d].rcursor = Start /\ lane'[d].reset # ""
           /\ lane'[d].erasePending = lane[d].erasePending
           /\ work'[d].pc \in {"idle", "pull"} /\ chunk' = NewEpoch(d)
           /\ UNCHANGED <<clock, outbox, removing, fleet, asked, wiped>>
  <1>1. /\ work[d].pc \in {"pull", "idle"} /\ Stale(Cur(d)) # ""
        /\ lane'[d] = BeginReset(lane[d], Stale(Cur(d))) /\ chunk' = NewEpoch(d)
        /\ (\E p \in {"idle", "pull"} : work'[d] = [pc |-> p])
        /\ UNCHANGED <<clock, outbox, removing, fleet, asked, wiped>>
    BY Zenon DEF Refused
  <1>2. Stale(Cur(d)) \in {"erased", "cursor_expired"} /\ lane[d] \in LaneState
    BY <1>1, StaleType DEF Types
  <1>3. work'[d].pc \in {"idle", "pull"}
    <2>1. PICK p \in {"idle", "pull"} : work'[d] = [pc |-> p]
      BY <1>1, Zenon
    <2> QED
      BY <2>1
  <1>4. lane'[d].cursor = Start /\ lane'[d].rcursor = Start /\ lane'[d].reset # ""
        /\ lane'[d].erasePending = lane[d].erasePending
    <2> DEFINE b == BeginReset(lane[d], Stale(Cur(d)))
    <2>1. b.cursor = Start /\ b.rcursor = Start /\ b.reset # "" /\ b.erasePending = lane[d].erasePending
      BY <1>2, ResetType
    <2>2. lane'[d] = b
      BY <1>1, Zenon
    <2> QED
      BY <2>1, <2>2, Zenon
  <1> QED
    BY <1>1, <1>2, <1>3, <1>4

LEMMA FetchedFacts ==
    ASSUME NEW d \in Device, Fetched(d)
    PROVE  LET w == work'[d] IN
           /\ work[d].pc \in {"pull", "idle"} /\ Stale(Cur(d)) = ""
           /\ w.pc = "apply" /\ w.cu = NextCursor(Cur(d))
           /\ w.more <=> Page(Cur(d)) # After(Cur(d))
           /\ DOMAIN w.recs \subseteq Page(Cur(d))
           /\ \A m \in Page(Cur(d)) : m \in DOMAIN w.recs <=> (fleet.rec[m].st = "live" => m \notin outbox[d])
           /\ \A m \in DOMAIN w.recs : w.recs[m] = fleet.rec[m]
           /\ \A m \in w.acks : m \in Page(Cur(d)) /\ fleet.rec[m].st = "forgotten" /\ m \in outbox[d]
           /\ UNCHANGED <<chunk, lane, outbox, removing, fleet, asked, wiped>>
  <1> DEFINE x == Cur(d)
             recs == [m \in {k \in Page(x) : fleet.rec[k].st = "live" => k \notin outbox[d]} |-> fleet.rec[m]]
             acks == {m \in Page(x) : fleet.rec[m].st = "forgotten"} \cap outbox[d]
             more == Page(x) # After(x)
  <1>1. /\ work[d].pc \in {"pull", "idle"} /\ Stale(x) = ""
        /\ work'[d] = [pc |-> "apply", recs |-> recs, acks |-> acks, cu |-> NextCursor(x), more |-> more]
        /\ UNCHANGED <<chunk, lane, outbox, removing, fleet, asked, wiped>>
    BY Zenon DEF Fetched
  <1>2. /\ DOMAIN recs \subseteq Page(x)
        /\ \A m \in Page(x) : m \in DOMAIN recs <=> (fleet.rec[m].st = "live" => m \notin outbox[d])
        /\ \A m \in DOMAIN recs : recs[m] = fleet.rec[m]
        /\ \A m \in acks : m \in Page(x) /\ fleet.rec[m].st = "forgotten" /\ m \in outbox[d]
    OBVIOUS
  <1>3. more <=> Page(x) # After(x)
    OBVIOUS
  <1> HIDE DEF recs, acks, more, x
  <1>4. /\ work'[d].pc = "apply" /\ work'[d].recs = recs /\ work'[d].acks = acks /\ work'[d].more = more
        /\ work'[d].cu = NextCursor(x)
    <2>1. work'[d] = [pc |-> "apply", recs |-> recs, acks |-> acks, cu |-> NextCursor(x), more |-> more]
      BY <1>1, Zenon
    <2> QED
      BY <2>1
  <1> QED
    BY <1>1, <1>2, <1>3, <1>4 DEF x

\* The user's steps.
Adds(d, m) ==
    /\ asked[m] = "no" /\ asked' = [asked EXCEPT ![m] = "live"]
    /\ DOMAIN chunk'[d] = DOMAIN chunk[d] \cup {m} /\ \E b \in Stamps(m) : chunk'[d][m] = Added(d, b)
    /\ \A k \in DOMAIN chunk[d] \ {m} : chunk'[d][k] = chunk[d][k]
    /\ clock' = Ticked(d) /\ UNCHANGED <<outbox, removing>>

Edits(d, m) ==
    /\ m \in DOMAIN chunk[d] /\ DOMAIN chunk'[d] = DOMAIN chunk[d]
    /\ \/ chunk'[d][m] = Touch([chunk[d][m] EXCEPT !.pin = ~@, !.ph = Tick(d)])
       \/ chunk'[d][m] = Touch([chunk[d][m] EXCEPT !.scope = IF @ = "sync" THEN "local" ELSE "sync",
                                                   !.sh = Tick(d)])
    /\ \A k \in DOMAIN chunk[d] \ {m} : chunk'[d][k] = chunk[d][k]
    /\ asked' = IF m \in outbox[d] \cup {r[1] : r \in removing[d]} THEN [asked EXCEPT ![m] = "void"] ELSE asked
    /\ clock' = Ticked(d) /\ UNCHANGED <<outbox, removing>>

Removes(d, m) ==
    /\ m \in DOMAIN chunk[d] /\ DOMAIN chunk'[d] = DOMAIN chunk[d] \ {m}
    /\ \A k \in DOMAIN chunk[d] \ {m} : chunk'[d][k] = chunk[d][k]
    /\ removing'[d] = removing[d] \cup {<<m, FleetMayKnow(chunk[d][m])>>}
    /\ asked' = [asked EXCEPT ![m] = IF @ # "live" THEN @
                                     ELSE IF FleetMayKnow(chunk[d][m]) THEN "asked" ELSE "void"]
    /\ UNCHANGED <<clock, outbox>>

Records(d, m) ==
    \E b \in BOOLEAN :
        /\ <<m, b>> \in removing[d] /\ removing'[d] = removing[d] \ {<<m, b>>}
        /\ outbox'[d] = IF b THEN outbox[d] \cup {m} ELSE outbox[d]
        /\ clock' = clock \/ clock' = Ticked(d)
        /\ asked' = IF b /\ asked[m] = "asked" THEN [asked EXCEPT ![m] = "queued"] ELSE asked
        /\ UNCHANGED chunk

LEMMA UserFacts ==
    ASSUME Types, NEW d \in Device, User(d)
    PROVE  /\ UNCHANGED <<lane, work, fleet, wiped>>
           /\ \E m \in Memory : Adds(d, m) \/ Edits(d, m) \/ Removes(d, m) \/ Records(d, m)
  <1>1. StoreTypes /\ Store(chunk[d]) /\ clock \in [Device -> Nat] /\ outbox \in [Device -> SUBSET Memory]
        /\ removing \in [Device -> SUBSET (Memory \X BOOLEAN)] /\ DOMAIN chunk = Device
    BY DEF Types, StoreTypes
  <1>2. PICK m \in Memory : Add(d, m) \/ SetPinned(d, m) \/ PromoteScope(d, m) \/ Remove(d, m)
                            \/ RecordDelete(d, m)
    BY DEF User
  <1>3. CASE Add(d, m)
    <2>4. PICK b \in Stamps(m) : chunk' = [chunk EXCEPT ![d] =
              [k \in DOMAIN @ \cup {m} |-> IF k = m THEN Added(d, b) ELSE @[k]]]
      BY <1>3 DEF Add
    <2> DEFINE c == [k \in DOMAIN chunk[d] \cup {m} |-> IF k = m THEN Added(d, b) ELSE chunk[d][k]]
    <2>1. chunk' = [chunk EXCEPT ![d] = c]
      BY <2>4
    <2>2. chunk'[d] = c
      BY <1>1, <2>1
    <2>3. Adds(d, m)
      BY <1>3, <2>2 DEF Add, Adds
    <2> QED
      BY <1>3, <2>3 DEF Add
  <1>4. ASSUME NEW c, m \in Rows(d), Edit(d, m, c)
        PROVE  /\ DOMAIN chunk'[d] = DOMAIN chunk[d] /\ chunk'[d][m] = Touch(c) /\ m \in DOMAIN chunk[d]
               /\ \A k \in DOMAIN chunk[d] \ {m} : chunk'[d][k] = chunk[d][k]
               /\ asked' = IF m \in outbox[d] \cup {r[1] : r \in removing[d]} THEN [asked EXCEPT ![m] = "void"] ELSE asked
               /\ clock' = Ticked(d) /\ UNCHANGED <<outbox, removing, lane, work, fleet, wiped>>
    <2>1. chunk'[d] = [chunk[d] EXCEPT ![m] = Touch(c)]
      BY <1>1, <1>4 DEF Edit
    <2> QED
      BY <1>4, <2>1 DEF Edit, Rows
  <1>5. CASE SetPinned(d, m)
    <2> DEFINE c == [chunk[d][m] EXCEPT !.pin = ~@, !.ph = Tick(d)]
    <2>1. m \in Rows(d) /\ Edit(d, m, c)
      BY <1>5 DEF SetPinned
    <2>2. chunk'[d][m] = Touch(c) => chunk'[d][m] = Touch([chunk[d][m] EXCEPT !.pin = ~@, !.ph = Tick(d)])
      OBVIOUS
    <2> HIDE DEF c
    <2>3. Edits(d, m)
      BY <1>4, <2>1, <2>2, Zenon DEF Edits
    <2> QED
      BY <1>4, <2>1, <2>3
  <1>6. CASE PromoteScope(d, m)
    <2> DEFINE c == [chunk[d][m] EXCEPT !.scope = IF @ = "sync" THEN "local" ELSE "sync", !.sh = Tick(d)]
    <2>1. m \in Rows(d) /\ Edit(d, m, c)
      BY <1>6 DEF PromoteScope
    <2>2. chunk'[d][m] = Touch(c) => chunk'[d][m] = Touch([chunk[d][m] EXCEPT !.scope = IF @ = "sync" THEN "local" ELSE "sync",
                                                   !.sh = Tick(d)])
      OBVIOUS
    <2> HIDE DEF c
    <2>3. Edits(d, m)
      BY <1>4, <2>1, <2>2, Zenon DEF Edits
    <2> QED
      BY <1>4, <2>1, <2>3
  <1>7. CASE Remove(d, m)
    <2>1. chunk'[d] = Without(chunk[d], {m})
      BY <1>1, <1>7 DEF Remove
    <2>2. Removes(d, m)
      BY <1>1, <1>7, <2>1 DEF Remove, Removes, Rows, Without
    <2> QED
      BY <1>7, <2>2 DEF Remove
  <1>8. CASE RecordDelete(d, m)
    <2>1. PICK r \in removing[d] :
            /\ r[1] = m
            /\ removing' = [removing EXCEPT ![d] = @ \ {r}]
            /\ IF r[2] /\ m \notin outbox[d]
               THEN /\ outbox' = [outbox EXCEPT ![d] = @ \cup {m}]
                    /\ clock' = Ticked(d)
               ELSE UNCHANGED <<outbox, clock>>
            /\ asked' = IF r[2] /\ asked[m] = "asked" THEN [asked EXCEPT ![m] = "queued"] ELSE asked
            /\ UNCHANGED <<chunk, lane, work, fleet, wiped, spent>>
      BY <1>8 DEF RecordDelete
    <2>2. PICK b \in BOOLEAN : r = <<m, b>>
      BY <1>1, <2>1
    <2>3. removing'[d] = removing[d] \ {<<m, b>>}
      BY <1>1, <2>1, <2>2
    <2>4. outbox'[d] = IF b THEN outbox[d] \cup {m} ELSE outbox[d]
      <3>1. r[2] = b
        BY <2>2
      <3>2. CASE b /\ m \notin outbox[d]
        BY <1>1, <2>1, <3>1, <3>2
      <3>3. CASE b /\ m \in outbox[d]
        <4>1. outbox' = outbox /\ outbox[d] \cup {m} = outbox[d]
          BY <2>1, <3>3
        <4> QED
          BY <3>3, <4>1
      <3>4. CASE ~b
        BY <2>1, <3>1, <3>4
      <3> QED
        BY <3>2, <3>3, <3>4
    <2>5. Records(d, m)
      BY <2>1, <2>2, <2>3, <2>4 DEF Records
    <2> QED
      BY <2>1, <2>5
  <1> QED
    BY <1>2, <1>3, <1>5, <1>6, <1>7, <1>8

-----------------------------------------------------------------------------
(* The feed: numbers of records and cursors.                               *)

Record(m) == fleet.rec[m]

\* A cursor names a place of the feed and, in a snapshot, an epoch that has been.
Placed(x) ==
    /\ x.seq <= fleet.seq /\ x.floor <= fleet.floor /\ x.erased <= fleet.erasedAt
    /\ x.kind = "start" => x = Start

FeedFleet ==
    /\ fleet.erasedAt <= fleet.floor /\ fleet.floor <= fleet.seq
    /\ \A m \in Memory : /\ Record(m).seq <= fleet.seq
                         /\ Record(m).st = "none" <=> Record(m).seq = 0
                         /\ Record(m).st = "none" => Record(m) = Gone

FeedOf(d) ==
    /\ Placed(lane[d].cursor) /\ Placed(lane[d].rcursor)
    /\ Paging(work[d]) => Placed(work[d].cu)
    /\ At(d, "apply") => \A m \in DOMAIN work[d].recs : work[d].recs[m].st # "none"
    /\ work[d].pc \in {"mark", "send", "results"} => work[d].forgets \subseteq outbox[d]

FeedInv == FeedFleet /\ \A d \in Device : FeedOf(d)

\* The feed only goes on.
Later == fleet.seq <= fleet'.seq /\ fleet.floor <= fleet'.floor /\ fleet.erasedAt <= fleet'.erasedAt

\* What a push of d does to the feed: a record that changes gets a number after
\* all others, a forgotten one stays, and one Fleet had not is d's upload.
Grows(d) ==
    /\ fleet.seq <= fleet'.seq /\ fleet'.floor = fleet.floor /\ fleet'.erasedAt = fleet.erasedAt
    /\ fleet'.era = fleet.era
    /\ \A m \in Memory :
        \/ fleet'.rec[m] = fleet.rec[m]
        \/ /\ fleet.seq < fleet'.rec[m].seq /\ fleet'.rec[m].seq <= fleet'.seq
           /\ fleet'.rec[m].st # "none" /\ fleet.rec[m].st # "forgotten"
           /\ fleet.rec[m].st = "none" => /\ At(d, "send") /\ m \in DOMAIN work[d].items
                                          /\ work[d].items[m].content /\ fleet'.rec[m].st = "live"

LEMMA UpsertedSt ==
    ASSUME NEW r \in Rec, NEW it \in Item
    PROVE  /\ r.st = "forgotten" => Upserted(r, it) = r
           /\ Upserted(r, it) # r => Upserted(r, it).st \in {"live", "left"}
           /\ r.st = "none" /\ Upserted(r, it) # r => it.content /\ Upserted(r, it).st = "live"
  <1>1. r.st \in {"none", "live", "left", "forgotten"}
    BY DEF Rec
  <1>2. Create(it).st = "live" /\ Merge(r, it).st \in {"live", "left"}
    BY DEF Create, Merge
  <1> QED
    BY <1>1, <1>2 DEF Upserted

LEMMA SendGrows ==
    ASSUME Types, NEW d \in Device, Send(d)
    PROVE  Grows(d)
  <1>1. /\ fleet' \in Service /\ fleet'.seq >= fleet.seq
        /\ fleet'.on = fleet.on /\ fleet'.floor = fleet.floor /\ fleet'.era = fleet.era
        /\ fleet'.erasedAt = fleet.erasedAt
    BY SendRecord
  <1>2. /\ work[d].pc = "send" /\ \A m \in DOMAIN work[d].items : m \in Memory /\ work[d].items[m] \in Item
    BY Zenon DEF Send, At, Types, WorkTypes, WorkOK, Pushing
  <1>3. fleet.seq \in Nat /\ fleet'.seq \in Nat /\ \A m \in Memory : fleet.rec[m] \in Rec
    BY <1>1 DEF Types, Service
  <1>4. ASSUME NEW m \in Memory
        PROVE  \/ fleet'.rec[m] = fleet.rec[m]
               \/ /\ fleet.seq < fleet'.rec[m].seq /\ fleet'.rec[m].seq <= fleet'.seq
                  /\ fleet'.rec[m].st # "none" /\ fleet.rec[m].st # "forgotten"
                  /\ fleet.rec[m].st = "none" => /\ m \in DOMAIN work[d].items
                                                 /\ work[d].items[m].content /\ fleet'.rec[m].st = "live"
    <2> DEFINE r == fleet.rec[m]
               went == m \in work[d].forgets /\ r.st \in {"live", "left"}
               put == ~went /\ m \in DOMAIN work[d].items /\ Blanket(d) = ""
    <2>1. /\ went => Issued(fleet'.rec[m], [Gone EXCEPT !.st = "forgotten"], fleet.seq, fleet'.seq)
          /\ put => IF Upserted(r, work[d].items[m]) = r THEN fleet'.rec[m] = r
                    ELSE Issued(fleet'.rec[m], Upserted(r, work[d].items[m]), fleet.seq, fleet'.seq)
          /\ ~went /\ ~put => fleet'.rec[m] = r
      BY SendRecord
    <2>2. CASE went
      BY <2>1, <2>2 DEF Issued, Gone
    <2>3. CASE put
      <3>1. r \in Rec /\ work[d].items[m] \in Item
        BY <1>2, <1>3, <2>3
      <3> DEFINE u == Upserted(r, work[d].items[m])
      <3>2. /\ r.st = "forgotten" => u = r
            /\ u # r => u.st \in {"live", "left"}
            /\ r.st = "none" /\ u # r => work[d].items[m].content /\ u.st = "live"
        BY <3>1, UpsertedSt
      <3>3. IF u = r THEN fleet'.rec[m] = r ELSE Issued(fleet'.rec[m], u, fleet.seq, fleet'.seq)
        BY <2>1, <2>3
      <3> HIDE DEF u
      <3> QED
        BY <2>3, <3>2, <3>3 DEF Issued
    <2>4. CASE ~went /\ ~put
      BY <2>1, <2>4
    <2> QED
      BY <2>2, <2>3, <2>4
  <1> QED
    BY <1>1, <1>2, <1>3, <1>4 DEF Grows, At

LEMMA FeedNumbers ==
    ASSUME Types
    PROVE  /\ fleet.seq \in Nat /\ fleet.floor \in Nat /\ fleet.erasedAt \in Nat /\ fleet.era \in Nat
           /\ \A m \in Memory : Record(m) \in Rec /\ Record(m).seq \in Nat
           /\ \A d \in Device : lane[d] \in LaneState /\ lane[d].cursor \in Cursor /\ lane[d].rcursor \in Cursor
                                /\ Cur(d) \in Cursor /\ (Paging(work[d]) => work[d].cu \in Cursor)
           /\ \A x \in Cursor : x.seq \in Nat /\ x.floor \in Nat /\ x.erased \in Nat /\ x.kind \in {"start", "plain", "page"}
  <1>1. \A x \in Cursor : x.seq \in Nat /\ x.floor \in Nat /\ x.erased \in Nat /\ x.kind \in {"start", "plain", "page"}
    BY DEF Cursor
  <1>2. /\ fleet.seq \in Nat /\ fleet.floor \in Nat /\ fleet.erasedAt \in Nat /\ fleet.era \in Nat
        /\ \A m \in Memory : Record(m) \in Rec /\ Record(m).seq \in Nat
    BY DEF Types, Service, Record, Rec
  <1>3. \A d \in Device : lane[d] \in LaneState /\ lane[d].cursor \in Cursor /\ lane[d].rcursor \in Cursor
    BY DEF Types, LaneState
  <1>4. \A d \in Device : Paging(work[d]) => work[d].cu \in Cursor
    BY DEF Types, WorkTypes, WorkOK
  <1> QED
    BY <1>1, <1>2, <1>3, <1>4 DEF Cur

LEMMA PlacedLater ==
    ASSUME Types, Types', Later, NEW x \in Cursor, Placed(x)
    PROVE  /\ x.seq <= fleet'.seq /\ x.floor <= fleet'.floor /\ x.erased <= fleet'.erasedAt
           /\ x.kind = "start" => x = Start
  <1>1. /\ fleet.seq \in Nat /\ fleet.floor \in Nat /\ fleet.erasedAt \in Nat
        /\ fleet'.seq \in Nat /\ fleet'.floor \in Nat /\ fleet'.erasedAt \in Nat
    BY DEF Types, Service
  <1>2. x.seq \in Nat /\ x.floor \in Nat /\ x.erased \in Nat
    BY DEF Cursor
  <1> QED
    BY <1>1, <1>2 DEF Placed, Later

LEMMA FeedOther ==
    ASSUME Types, Types', Later, NEW e \in Device, FeedOf(e), lane'[e] = lane[e], work'[e] = work[e],
           outbox[e] \subseteq outbox'[e]
    PROVE  FeedOf(e)'
  <1>1. lane[e].cursor \in Cursor /\ lane[e].rcursor \in Cursor /\ (Paging(work[e]) => work[e].cu \in Cursor)
    BY FeedNumbers
  <1>2. Placed(lane[e].cursor)' /\ Placed(lane[e].rcursor)'
    BY <1>1, PlacedLater DEF FeedOf, Placed
  <1>3. (Paging(work[e]) => Placed(work[e].cu))'
    BY <1>1, PlacedLater DEF FeedOf, Placed, Paging
  <1> QED
    BY <1>2, <1>3 DEF FeedOf, At

LEMMA FeedInit == Init => FeedInv
  <1> SUFFICES ASSUME Init PROVE FeedInv
    OBVIOUS
  <1>3. /\ fleet.erasedAt = 0 /\ fleet.floor = 0 /\ fleet.seq = 0 /\ Gone.seq = 0 /\ Gone.st = "none"
        /\ \A m \in Memory : fleet.rec[m] = Gone
    BY DEF Init, Gone
  <1>1. FeedFleet
    BY <1>3 DEF FeedFleet, Record
  <1>2. ASSUME NEW d \in Device PROVE FeedOf(d)
    <2>1. work[d].pc = "idle" /\ lane[d].cursor = Start /\ lane[d].rcursor = Start
      BY DEF Init, Idle
    <2>2. Placed(Start)
      BY <1>3 DEF Placed, Start
    <2> QED
      BY <2>1, <2>2 DEF FeedOf, Paging, At
  <1> QED
    BY <1>1, <1>2 DEF FeedInv

LEMMA FleetMoves ==
    ASSUME Types, NEW d \in Device, Move(d)
    PROVE  (SameFeed /\ wiped' = wiped) \/ Send(d) \/ ForgetAll(d)
  <1>1. fleet' = fleet => SameFeed
    BY DEF SameFeed
  <1>2. CASE Turn(d)
    BY <1>2 DEF Turn
  <1>3. CASE User(d)
    BY <1>1, <1>3, UserFacts
  <1>4. CASE Refused(d) \/ Fetched(d) \/ Told(d)
    BY <1>1, <1>4 DEF Refused, Fetched, Told
  <1>5. CASE ApplyPage(d) \/ SaveCursor(d) \/ SweepRows(d) \/ FinishReset(d) \/ MarkSyncSent(d) \/ Outcomes(d)
    BY <1>1, <1>5, Zenon DEF ApplyPage, SaveCursor, SweepRows, FinishReset, MarkSyncSent, Outcomes
  <1>6. CASE Erasing(d)
    BY <1>1, <1>6, Zenon DEF Erasing, EraseAck, ClearSyncMarkers, EraseDone
  <1> QED
    BY <1>2, <1>3, <1>4, <1>5, <1>6 DEF Move

\* What forget-all leaves of the feed.
LEMMA EraseFeed ==
    ASSUME Types, NEW d \in Device, ForgetAll(d)
    PROVE  /\ fleet'.seq = fleet.seq + 1 /\ fleet'.floor = fleet.seq + 1 /\ fleet'.erasedAt = fleet.seq + 1
           /\ fleet'.era = fleet.era + 1 /\ \A m \in Memory : fleet'.rec[m] = Gone
  BY DEF ForgetAll, Types, Service

LEMMA FeedLater ==
    ASSUME Types, Types', FeedInv, NEW d \in Device, Move(d)
    PROVE  Later /\ FeedFleet'
  <1>1. /\ fleet.seq \in Nat /\ fleet.floor \in Nat /\ fleet.erasedAt \in Nat
        /\ fleet'.seq \in Nat /\ fleet'.floor \in Nat /\ fleet'.erasedAt \in Nat
        /\ \A m \in Memory : fleet.rec[m].seq \in Nat /\ fleet'.rec[m].seq \in Nat
    BY DEF Types, Service, Rec
  <1>2. CASE SameFeed
    BY <1>1, <1>2 DEF SameFeed, Later, FeedInv, FeedFleet, Record
  <1>3. CASE Send(d)
    <2>1. Grows(d)
      BY <1>3, SendGrows
    <2> QED
      BY <1>1, <2>1 DEF Grows, Later, FeedInv, FeedFleet, Record
  <1>4. CASE ForgetAll(d)
    <2>1. Gone.seq = 0 /\ Gone.st = "none"
      BY DEF Gone
    <2> QED
      BY <1>1, <1>4, <2>1, EraseFeed DEF Later, FeedInv, FeedFleet, Record
  <1> QED
    BY <1>2, <1>3, <1>4, FleetMoves

\* A page and the cursor after it have their place in the feed.
LEMMA FetchPlaced ==
    ASSUME Types, FeedFleet, NEW x \in Cursor, Placed(x)
    PROVE  Placed(NextCursor(x)) /\ \A m \in Page(x) : m \in Memory /\ Record(m).st # "none"
  <1> DEFINE n == NextCursor(x)
  <1>1. /\ x.seq \in Nat /\ fleet.seq \in Nat /\ fleet.floor \in Nat /\ fleet.erasedAt \in Nat
        /\ \A m \in Memory : Record(m).seq \in Nat
    BY FeedNumbers
  <1>2. /\ Page(x) \subseteq Memory /\ n \in Cursor
        /\ \A m \in Page(x) : fleet.rec[m].seq > x.seq /\ fleet.rec[m].seq <= n.seq
        /\ \/ n.seq = x.seq \/ (\E m \in Page(x) : n.seq = fleet.rec[m].seq) \/ n.seq = fleet.floor
        /\ n = x \/ n = Plain(n.seq)
              \/ n = [kind |-> "page", seq |-> n.seq, floor |-> fleet.floor, erased |-> fleet.erasedAt]
    BY PageFacts
  <1>3. \A m \in Page(x) : m \in Memory /\ Record(m).st # "none"
    BY <1>1, <1>2 DEF FeedFleet, Record
  <1> HIDE DEF n
  <1>4. n.seq <= fleet.seq
    BY <1>1, <1>2 DEF FeedFleet, Placed, Record
  <1>5. CASE n = x
    BY <1>3, <1>5 DEF n
  <1>6. CASE n = Plain(n.seq)
    <2>1. n.floor = 0 /\ n.erased = 0 /\ n.kind = "plain"
      BY <1>6 DEF Plain
    <2>2. Placed(n)
      BY <1>1, <1>4, <2>1 DEF Placed
    <2> QED
      BY <1>3, <2>2 DEF n
  <1>7. CASE n = [kind |-> "page", seq |-> n.seq, floor |-> fleet.floor, erased |-> fleet.erasedAt]
    <2>1. n.floor = fleet.floor /\ n.erased = fleet.erasedAt /\ n.kind = "page"
      BY <1>7
    <2>2. Placed(n)
      BY <1>1, <1>4, <2>1 DEF Placed
    <2> QED
      BY <1>3, <2>2 DEF n
  <1> QED
    BY <1>2, <1>3, <1>5, <1>6, <1>7 DEF n

LEMMA StartPlaced == ASSUME Types PROVE Placed(Start)
  BY FeedNumbers DEF Placed, Start

LEMMA FeedOwn ==
    ASSUME Types, Types', FeedInv, NEW d \in Device, Alone(d), Move(d)
    PROVE  FeedOf(d)'
  <1>1. Later /\ FeedFleet' /\ FeedOf(d) /\ FeedFleet
    BY FeedLater DEF FeedInv
  <1>2. /\ lane[d].cursor \in Cursor /\ lane[d].rcursor \in Cursor /\ Cur(d) \in Cursor
        /\ Paging(work[d]) => work[d].cu \in Cursor
    BY FeedNumbers
  <1> DEFINE P(x) == /\ x.seq <= fleet'.seq /\ x.floor <= fleet'.floor /\ x.erased <= fleet'.erasedAt
                     /\ x.kind = "start" => x = Start
  <1>3. /\ P(lane[d].cursor) /\ P(lane[d].rcursor) /\ (Paging(work[d]) => P(work[d].cu)) /\ P(Start)
    <2>1. /\ P(lane[d].cursor) /\ P(lane[d].rcursor) /\ (Paging(work[d]) => P(work[d].cu))
      BY <1>1, <1>2, PlacedLater DEF FeedOf
    <2>2. P(Start)
      BY StartPlaced, StartType, <1>1, PlacedLater
    <2> QED
      BY <2>1, <2>2
  <1>4. ASSUME P(lane'[d].cursor), P(lane'[d].rcursor), work'[d].pc \in Steps PROVE FeedOf(d)'
    BY <1>4 DEF FeedOf, Placed, Steps, Paging, At
  <1>5. CASE Turn(d)
    <2>1. P(lane'[d].cursor) /\ P(lane'[d].rcursor)
      BY <1>3, <1>5 DEF Turn
    <2>2. CASE work'[d] = work[d]
      <3>1. outbox'[d] = outbox[d]
        BY <1>5 DEF Turn
      <3> QED
        BY <1>1, <1>3, <2>1, <2>2, <3>1 DEF FeedOf, Placed, At, Paging
    <2>3. CASE work'[d].pc \in Steps
      BY <1>4, <2>1, <2>3
    <2>4. CASE work'[d].pc \in {"send", "mark"} /\ work'[d].forgets = outbox'[d]
      BY <2>1, <2>4 DEF FeedOf, Placed, At, Paging
    <2>5. \/ work'[d] = work[d] \/ work'[d].pc \in Steps
          \/ work'[d].pc \in {"send", "mark"} /\ work'[d].forgets = outbox'[d]
      BY <1>5 DEF Turn, TurnTo, Steps
    <2> QED
      BY <2>2, <2>3, <2>4, <2>5
  <1>6. CASE User(d)
    <2>1. UNCHANGED <<lane, work>> /\ outbox[d] \subseteq outbox'[d]
      BY <1>6, UserFacts DEF Adds, Edits, Removes, Records
    <2> QED
      BY <1>1, <2>1, FeedOther
  <1>7. CASE Refused(d)
    <2>1. lane'[d].cursor = Start /\ lane'[d].rcursor = Start /\ work'[d].pc \in Steps
      BY <1>7, RefusedFacts DEF Steps
    <2> QED
      BY <1>3, <1>4, <2>1
  <1>8. CASE Fetched(d)
    <2>1. fleet' = fleet /\ lane' = lane /\ work'[d].pc = "apply" /\ work'[d].cu = NextCursor(Cur(d))
          /\ DOMAIN work'[d].recs \subseteq Page(Cur(d))
          /\ \A m \in DOMAIN work'[d].recs : work'[d].recs[m] = Record(m)
      BY <1>8, FetchedFacts DEF Record
    <2>2. Placed(Cur(d))
      BY <1>1 DEF FeedOf, Cur
    <2>3. Placed(NextCursor(Cur(d))) /\ \A m \in Page(Cur(d)) : m \in Memory /\ Record(m).st # "none"
      BY <1>1, <1>2, <2>2, FetchPlaced
    <2> QED
      BY <1>1, <2>1, <2>3 DEF FeedOf, Placed, At, Paging
  <1>9. CASE ApplyPage(d)
    <2>1. work[d].pc = "apply" /\ lane' = lane
          /\ Goto(d, [pc |-> "cursor", acks |-> work[d].acks, cu |-> work[d].cu, more |-> work[d].more])
      BY <1>9, ApplyFacts, Zenon
    <2>2. work'[d].pc = "cursor" /\ work'[d].cu = work[d].cu
      BY <2>1, GotoFacts DEF Types
    <2> QED
      BY <1>3, <2>1, <2>2 DEF FeedOf, Placed, At, Paging
  <1>10. CASE SaveCursor(d)
    <2>1. /\ work[d].pc = "cursor" /\ (\E p \in Steps : Goto(d, [pc |-> p]))
          /\ lane'[d] = IF lane[d].reset # "" THEN [lane[d] EXCEPT !.rcursor = work[d].cu]
                        ELSE [lane[d] EXCEPT !.cursor = work[d].cu]
      BY <1>10, SaveFacts DEF Steps
    <2>2. work'[d].pc \in Steps
      <3>1. PICK p \in Steps : Goto(d, [pc |-> p])
        BY <2>1
      <3>2. work'[d] = [pc |-> p]
        BY <3>1, GotoFacts DEF Types
      <3> QED
        BY <3>2
    <2>3. lane[d] \in LaneState /\ P(work[d].cu)
      BY <1>3, <2>1, FeedNumbers DEF Paging
    <2>4. lane'[d].cursor \in {lane[d].cursor, work[d].cu} /\ lane'[d].rcursor \in {lane[d].rcursor, work[d].cu}
      BY <2>1, <2>3 DEF LaneState
    <2>5. P(lane'[d].cursor) /\ P(lane'[d].rcursor)
      BY <1>3, <2>3, <2>4
    <2> QED
      BY <1>4, <2>2, <2>5
  <1>11. CASE SweepRows(d)
    <2>1. lane' = lane /\ Goto(d, [pc |-> "swept"])
      BY <1>11, SweepFacts
    <2>2. work'[d].pc \in Steps
      BY <2>1, GotoFacts DEF Types, Steps
    <2> QED
      BY <1>3, <1>4, <2>1, <2>2
  <1>12. CASE FinishReset(d)
    <2>1. /\ Goto(d, [pc |-> "push"])
          /\ lane'[d] = [lane[d] EXCEPT !.cursor = lane[d].rcursor, !.reset = "", !.before = 0,
                                        !.rcursor = Start, !.restarts = 0]
      BY <1>12, FinishFacts
    <2>2. work'[d].pc \in Steps
      BY <2>1, GotoFacts DEF Types, Steps
    <2>3. lane'[d].cursor = lane[d].rcursor /\ lane'[d].rcursor = Start
      BY <2>1, FeedNumbers DEF LaneState
    <2> QED
      BY <1>3, <1>4, <2>2, <2>3
  <1>13. CASE MarkSyncSent(d)
    <2> DEFINE w == [pc |-> "send", forgets |-> work[d].forgets, then |-> "idle",
                     items |-> [m \in work[d].ids \cap DOMAIN chunk[d] |-> BuildItem(chunk[d][m])]]
    <2>1. work[d].pc = "mark" /\ lane' = lane /\ outbox' = outbox /\ (Goto(d, Idle) \/ Goto(d, w))
      BY <1>13, MarkFacts
    <2>2. w.pc = "send" /\ w.forgets = work[d].forgets
      OBVIOUS
    <2> HIDE DEF w
    <2>3. work'[d] = Idle \/ work'[d] = w
      BY <2>1, GotoFacts DEF Types
    <2>4. CASE work'[d] = Idle
      BY <1>3, <1>4, <2>1, <2>4 DEF Idle, Steps
    <2>5. CASE work'[d] = w
      BY <1>1, <1>3, <2>1, <2>2, <2>5 DEF FeedOf, Placed, At, Paging
    <2> QED
      BY <2>3, <2>4, <2>5
  <1>14. CASE Send(d)
    <2>1. work[d].pc = "send" /\ lane' = lane /\ outbox' = outbox
      BY <1>14, Zenon DEF Send, At
    <2>2. work' = [work EXCEPT ![d] = [pc |-> "results", forgets |-> work[d].forgets,
                         then |-> work[d].then, items |-> work[d].items, res |-> work'[d].res]]
      BY <1>14, SendRecord
    <2>3. work'[d].pc = "results" /\ work'[d].forgets = work[d].forgets
      BY <2>2 DEF Types, WorkTypes
    <2> QED
      BY <1>1, <1>3, <2>1, <2>3 DEF FeedOf, Placed, At, Paging
  <1>15. CASE Told(d)
    <2>1. work'[d].pc = "outcomes"
      BY <1>15 DEF Told
    <2>2. P(lane'[d].cursor) /\ P(lane'[d].rcursor)
      <3>1. CASE lane' = lane
        BY <1>3, <3>1
      <3>2. ASSUME NEW k \in Nat, lane'[d] = [BeginReset(lane[d], "cursor_expired") EXCEPT !.restarts = @ + k]
            PROVE  lane'[d].cursor = Start /\ lane'[d].rcursor = Start
        <4> DEFINE b == BeginReset(lane[d], "cursor_expired")
        <4>1. b \in LaneState /\ b.cursor = Start /\ b.rcursor = Start
          BY ResetType, FeedNumbers
        <4> HIDE DEF b
        <4>2. [b EXCEPT !.restarts = @ + k].cursor = b.cursor /\ [b EXCEPT !.restarts = @ + k].rcursor = b.rcursor
          BY <4>1 DEF LaneState
        <4> QED
          BY <3>2, <4>1, <4>2 DEF b
      <3> QED
        BY <1>3, <1>15, <3>1, <3>2 DEF Told
    <2> QED
      BY <2>1, <2>2 DEF FeedOf, Placed, At, Paging
  <1>16. CASE Outcomes(d)
    <2>1. lane' = lane /\ Goto(d, [pc |-> work[d].then]) /\ work[d].pc = "outcomes"
      BY <1>16, OutcomesFacts
    <2>2. work'[d].pc \in Steps
      BY <2>1, GotoFacts DEF Types, WorkTypes, WorkOK, Pushing, Steps
    <2> QED
      BY <1>3, <1>4, <2>1, <2>2
  <1>17. CASE Erasing(d)
    <2>1. \E p \in Steps : Goto(d, [pc |-> p])
      BY <1>17, Zenon DEF Erasing, ForgetAll, EraseAck, ClearSyncMarkers, EraseDone, Steps, Idle
    <2>2. work'[d].pc \in Steps
      BY <2>1, GotoFacts DEF Types
    <2>3. CASE lane' = lane
      BY <1>3, <1>4, <2>2, <2>3
    <2>4. CASE EraseDone(d)
      <3>1. lane' = [lane EXCEPT ![d] = [lane[d] EXCEPT !.cursor = Start, !.reset = "", !.before = 0,
                              !.rcursor = Start, !.restarts = 0, !.erasePending = FALSE]]
        BY <2>4 DEF EraseDone
      <3>2. lane \in [Device -> LaneState] /\ lane[d] \in LaneState
        BY DEF Types
      <3>3. lane'[d].cursor = Start /\ lane'[d].rcursor = Start
        BY <3>1, <3>2 DEF LaneState
      <3> QED
        BY <1>3, <1>4, <2>2, <3>3
    <2> QED
      BY <1>17, <2>3, <2>4 DEF Erasing, ForgetAll, EraseAck, ClearSyncMarkers
  <1> QED
    BY <1>5, <1>6, <1>7, <1>8, <1>9, <1>10, <1>11, <1>12, <1>13, <1>14, <1>15, <1>16, <1>17 DEF Move

\* The feed's numbers go up and every cursor a device holds is of this feed.
LEMMA FeedStep == Types /\ FeedInv /\ [Next]_vars => FeedInv'
  <1> SUFFICES ASSUME Types, FeedInv, [Next]_vars PROVE FeedInv'
    OBVIOUS
  <1>1. Types'
    BY TypesStep
  <1>2. CASE UNCHANGED vars
    BY <1>2 DEF vars, FeedInv, FeedFleet, FeedOf, Placed, Record, At
  <1>3. CASE FleetSweep
    <2>1. /\ UNCHANGED <<lane, work, outbox>> /\ fleet'.floor = fleet.seq /\ fleet'.seq = fleet.seq
          /\ fleet'.erasedAt = fleet.erasedAt
          /\ \A m \in Memory : fleet'.rec[m] = fleet.rec[m] \/ fleet'.rec[m] = Gone
      BY <1>3 DEF FleetSweep, Types, Service
    <2>2. /\ fleet.seq \in Nat /\ fleet.floor \in Nat /\ fleet.erasedAt \in Nat
      BY FeedNumbers
    <2>3. Later
      BY <2>1, <2>2 DEF Later, FeedInv, FeedFleet
    <2>4. FeedFleet'
      BY <2>1, <2>2 DEF FeedInv, FeedFleet, Record, Gone
    <2> QED
      BY <1>1, <2>1, <2>3, <2>4, FeedOther DEF FeedInv
  <1>4. ASSUME NEW d \in Device, Alone(d), Move(d) PROVE FeedInv'
    <2>1. Later /\ FeedFleet' /\ FeedOf(d)'
      BY <1>1, <1>4, FeedLater, FeedOwn
    <2>2. \A e \in Device \ {d} : FeedOf(e)'
      BY <1>1, <1>4, <2>1, FeedOther DEF Alone, FeedInv
    <2> QED
      BY <2>1, <2>2 DEF FeedInv
  <1> QED
    BY <1>2, <1>3, <1>4, Moves

-----------------------------------------------------------------------------
(* Who holds a memory Fleet never had.                                     *)

\* Fleet has the memory, or an erase took it.
Known(m) == Record(m).st # "none" \/ wiped[m] # {}

Dropping(d, m) == m \in outbox[d] \/ \E b \in BOOLEAN : <<m, b>> \in removing[d]

Uploads(d, m) == At(d, "send") /\ m \in DOMAIN work[d].items

Holds(d, m) == m \in Rows(d) \/ Dropping(d, m) \/ Uploads(d, m)

\* A memory Fleet never had is with one device, which has it as a row or is
\* dropping it; before it is added it is with none.
HolderInv ==
    \A m \in Memory :
        /\ asked[m] = "no" => ~Known(m) /\ \A d \in Device : ~Holds(d, m)
        /\ ~Known(m) => /\ \A d, e \in Device : Holds(d, m) /\ Holds(e, m) => d = e
                        /\ \A d \in Device : /\ Dropping(d, m) => m \notin Rows(d)
                                             /\ At(d, "apply") => m \notin DOMAIN work[d].recs

\* Nothing of a memory Fleet never had comes to e.
Tame(e, m) ==
    /\ Holds(e, m)' => Holds(e, m)
    /\ Dropping(e, m)' /\ m \in DOMAIN chunk'[e] => Dropping(e, m) /\ m \in Rows(e)
    /\ work'[e].pc = "apply" /\ m \in DOMAIN work'[e].recs => At(e, "apply") /\ m \in DOMAIN work[e].recs

LEMMA HolderFrom ==
    ASSUME HolderInv,
           \A m \in Memory : /\ Known(m) => Known(m)'
                             /\ asked'[m] = "no" => asked[m] = "no" /\ (Known(m)' => Known(m))
                             /\ ~Known(m) => \A e \in Device : Tame(e, m)
    PROVE  HolderInv'
  BY DEF HolderInv, Tame, At, Rows

LEMMA TameOther ==
    ASSUME NEW d \in Device, Alone(d), NEW e \in Device \ {d}, NEW m \in Memory
    PROVE  Tame(e, m)
  BY DEF Alone, Tame, Holds, Dropping, Uploads, At, Rows

Shrinks(d) ==
    /\ DOMAIN chunk'[d] \subseteq DOMAIN chunk[d] /\ outbox'[d] \subseteq outbox[d]
    /\ removing'[d] \subseteq removing[d] /\ work'[d].pc \notin {"apply", "send"}

LEMMA TameShrink ==
    ASSUME NEW d \in Device, Shrinks(d), NEW m \in Memory
    PROVE  Tame(d, m)
  BY DEF Shrinks, Tame, Holds, Dropping, Uploads, At, Rows

LEMMA ShrinkMoves ==
    ASSUME Types, NEW d \in Device,
           \/ Refused(d) \/ SaveCursor(d) \/ SweepRows(d) \/ FinishReset(d) \/ Send(d) \/ Told(d)
           \/ Outcomes(d) \/ Erasing(d)
    PROVE  Shrinks(d)
  <1>1. /\ StoreTypes /\ WorkTypes /\ outbox \in [Device -> SUBSET Memory] /\ DOMAIN chunk = Device
        /\ removing \in [Device -> SUBSET (Memory \X BOOLEAN)] /\ DOMAIN work = Device
    BY DEF Types, StoreTypes, WorkTypes
  <1>2. CASE Refused(d)
    BY <1>1, <1>2, RefusedFacts, EpochFacts DEF Shrinks
  <1>3. CASE SaveCursor(d)
    <2>1. PICK p \in {"pull", "idle", "sweep", "push"} : Goto(d, [pc |-> p])
      BY <1>3, SaveFacts
    <2>2. work'[d] = [pc |-> p]
      BY <1>1, <2>1, GotoFacts
    <2>3. outbox' = [outbox EXCEPT ![d] = @ \ work[d].acks] /\ UNCHANGED <<chunk, removing>>
      BY <1>3, SaveFacts
    <2> QED
      BY <1>1, <2>2, <2>3 DEF Shrinks
  <1>4. CASE SweepRows(d)
    <2>1. work'[d] = [pc |-> "swept"]
      BY <1>1, <1>4, SweepFacts, GotoFacts
    <2> QED
      BY <1>4, <2>1, SweepFacts DEF Shrinks
  <1>5. CASE FinishReset(d)
    <2>1. work'[d] = [pc |-> "push"]
      BY <1>1, <1>5, FinishFacts, GotoFacts
    <2>2. DOMAIN chunk'[d] = DOMAIN chunk[d]
      BY <1>1, <1>5, FinishFacts, EpochFacts
    <2>3. UNCHANGED <<outbox, removing>>
      BY <1>5, FinishFacts
    <2> QED
      BY <2>1, <2>2, <2>3 DEF Shrinks
  <1>6. CASE Send(d)
    <2>1. work' = [work EXCEPT ![d] = [pc |-> "results", forgets |-> work[d].forgets,
                         then |-> work[d].then, items |-> work[d].items, res |-> work'[d].res]]
      BY <1>6, SendRecord
    <2>2. work'[d].pc = "results"
      BY <1>1, <2>1
    <2> QED
      BY <1>6, <2>2, Zenon DEF Send, Shrinks
  <1>7. CASE Told(d)
    <2>1. work'[d].pc = "outcomes" /\ outbox'[d] \subseteq outbox[d] /\ removing' = removing
      BY <1>7 DEF Told
    <2>2. DOMAIN chunk'[d] = DOMAIN chunk[d]
      BY <1>1, <1>7, EpochFacts DEF Told
    <2> QED
      BY <2>1, <2>2 DEF Shrinks
  <1>8. CASE Outcomes(d)
    <2>1. work[d].then \in {"idle", "put"} /\ Goto(d, [pc |-> work[d].then])
      BY <1>1, <1>8, OutcomesFacts DEF WorkTypes, WorkOK, Pushing
    <2>2. work'[d] = [pc |-> work[d].then]
      BY <1>1, <2>1, GotoFacts
    <2>3. DOMAIN chunk'[d] \subseteq DOMAIN chunk[d] /\ UNCHANGED <<outbox, removing>>
      BY <1>8, OutcomesFacts
    <2> QED
      BY <2>1, <2>2, <2>3 DEF Shrinks
  <1>9. CASE Erasing(d)
    <2>1. PICK p \in {"erased", "clear", "cleared", "idle"} : Goto(d, [pc |-> p])
      BY <1>9, Zenon DEF Erasing, ForgetAll, EraseAck, ClearSyncMarkers, EraseDone, Idle
    <2>2. work'[d] = [pc |-> p]
      BY <1>1, <2>1, GotoFacts
    <2>3. DOMAIN chunk'[d] = DOMAIN chunk[d] /\ outbox'[d] \subseteq outbox[d] /\ removing' = removing
      BY <1>1, <1>9, Zenon DEF Erasing, ForgetAll, EraseAck, ClearSyncMarkers, EraseDone
    <2> QED
      BY <2>2, <2>3 DEF Shrinks
  <1> QED
    BY <1>2, <1>3, <1>4, <1>5, <1>6, <1>7, <1>8, <1>9

\* Only a push of the memory makes it known.
LEMMA KnownBack ==
    ASSUME Types, NEW d \in Device, Move(d), NEW m \in Memory, Known(m)'
    PROVE  Known(m) \/ Uploads(d, m)
  <1>1. CASE SameFeed /\ wiped' = wiped
    BY <1>1 DEF SameFeed, Known, Record
  <1>2. CASE Send(d)
    <2>1. wiped'[m] # {} => wiped[m] # {}
      BY <1>2, Zenon DEF Send
    <2>2. Grows(d)
      BY <1>2, SendGrows
    <2> QED
      BY <2>1, <2>2 DEF Grows, Known, Record, Uploads
  <1>3. CASE ForgetAll(d)
    <2>1. fleet'.rec[m] = Gone /\ wiped'[m] = IF ~Covered(m) THEN {}
                                  ELSE IF fleet.rec[m].st \in {"live", "forgotten"} THEN {d}
                                  ELSE IF wiped[m] = {} THEN {} ELSE wiped[m] \cup {d}
      BY <1>3, EraseFeed DEF ForgetAll
    <2> QED
      BY <2>1 DEF Known, Record, Gone
  <1> QED
    BY <1>1, <1>2, <1>3, FleetMoves

LEMMA AskedBack ==
    ASSUME Types, NEW d \in Device, Move(d), NEW m \in Memory, asked'[m] = "no"
    PROVE  asked[m] = "no"
  <1>1. asked \in [Memory -> {"no", "live", "void", "asked", "queued", "cut"}]
    BY DEF Types
  <1>2. CASE Turn(d)
    BY <1>2 DEF Turn
  <1>3. CASE User(d)
    BY <1>1, <1>3, UserFacts DEF Adds, Edits, Removes, Records
  <1>4. CASE Refused(d) \/ Fetched(d) \/ Told(d)
    BY <1>4, Zenon DEF Refused, Fetched, Told
  <1>5. CASE ApplyPage(d) \/ SaveCursor(d) \/ SweepRows(d) \/ FinishReset(d) \/ MarkSyncSent(d) \/ Outcomes(d) \/ Send(d)
    BY <1>5, Zenon DEF ApplyPage, SaveCursor, SweepRows, FinishReset, MarkSyncSent, Outcomes, Send
  <1>6. CASE Erasing(d)
    BY <1>1, <1>6, Zenon DEF Erasing, ForgetAll, EraseAck, ClearSyncMarkers, EraseDone
  <1> QED
    BY <1>2, <1>3, <1>4, <1>5, <1>6 DEF Move

LEMMA HolderInit == Init => HolderInv
  <1> SUFFICES ASSUME Init PROVE HolderInv
    OBVIOUS
  <1>1. \A m \in Memory : ~Known(m)
    BY DEF Init, Known, Record, Gone
  <1>2. \A d \in Device : /\ DOMAIN chunk[d] = {} /\ outbox[d] = {} /\ removing[d] = {} /\ work[d].pc = "idle"
    BY DEF Init, Idle
  <1> QED
    BY <1>1, <1>2 DEF HolderInv, Holds, Dropping, Uploads, At, Rows

\* As long as what Fleet had stays known, a memory it never had has one holder.
LEMMA HolderStep ==
    ASSUME Types, FeedInv, HolderInv, [Next]_vars, \A m \in Memory : Known(m) => Known(m)'
    PROVE  HolderInv'
  <1>1. CASE UNCHANGED vars
    BY <1>1 DEF vars, HolderInv, Known, Holds, Dropping, Uploads, At, Rows, Record
  <1>2. CASE FleetSweep
    <2>1. UNCHANGED <<chunk, outbox, removing, work, asked, wiped>>
          /\ \A m \in Memory : fleet'.rec[m] = fleet.rec[m] \/ fleet'.rec[m] = Gone
      BY <1>2 DEF FleetSweep, Types, Service
    <2>2. \A m \in Memory : Known(m)' => Known(m)
      BY <2>1 DEF Known, Record, Gone
    <2>3. \A e \in Device : \A m \in Memory : Tame(e, m)
      BY <2>1 DEF Tame, Holds, Dropping, Uploads, At, Rows
    <2> QED
      BY <2>1, <2>2, <2>3, HolderFrom
  <1>3. ASSUME NEW d \in Device, Alone(d), Move(d) PROVE HolderInv'
    <2>1. ASSUME NEW m \in Memory, asked'[m] = "no" PROVE asked[m] = "no" /\ (Known(m)' => Known(m))
      <3>1. asked[m] = "no"
        BY <1>3, <2>1, AskedBack
      <3>2. ~Uploads(d, m)
        BY <3>1 DEF HolderInv, Holds
      <3> QED
        BY <1>3, <3>1, <3>2, KnownBack
    <2>2. SUFFICES (\A m \in Memory : ~Known(m) => Tame(d, m)) \/ HolderInv'
      BY <1>3, <2>1, HolderFrom, TameOther
    <2>3. CASE Turn(d)
      <3>1. UNCHANGED <<chunk, outbox>> /\ removing'[d] \subseteq removing[d]
        BY <2>3 DEF Turn
      <3>2. \/ work'[d] = work[d] \/ work'[d].pc \notin {"apply", "send"}
            \/ work'[d].pc = "send" /\ DOMAIN work'[d].items = {}
        BY <2>3 DEF Turn, TurnTo
      <3> QED
        BY <3>1, <3>2 DEF Tame, Holds, Dropping, Uploads, At, Rows
    <2>4. CASE User(d)
      <3>1. UNCHANGED <<lane, work, fleet, wiped>>
        BY <2>4, UserFacts
      <3>2. PICK k \in Memory : Adds(d, k) \/ Edits(d, k) \/ Removes(d, k) \/ Records(d, k)
        BY <2>4, UserFacts
      <3>3. CASE Adds(d, k)
        <4>1. /\ asked[k] = "no" /\ asked' = [asked EXCEPT ![k] = "live"]
              /\ DOMAIN chunk'[d] = DOMAIN chunk[d] \cup {k} /\ UNCHANGED <<outbox, removing>>
          BY <3>3 DEF Adds
        <4>2. asked'[k] = "live"
          BY <4>1 DEF Types
        <4>3. ~Known(k) /\ \A e \in Device : ~Holds(e, k) /\ (At(e, "apply") => k \notin DOMAIN work[e].recs)
          BY <4>1 DEF HolderInv
        <4>4. \A m \in Memory \ {k} : Tame(d, m)
          BY <3>1, <4>1 DEF Tame, Holds, Dropping, Uploads, At, Rows
        <4>5. \A e \in Device : /\ ~Dropping(e, k)' /\ (Holds(e, k)' => e = d)
                                /\ (At(e, "apply") => k \notin DOMAIN work[e].recs)'
          BY <1>3, <3>1, <4>1, <4>3 DEF Alone, Holds, Dropping, Uploads, At, Rows
        <4>6. \A m \in Memory : Known(m)' <=> Known(m)
          BY <3>1 DEF Known, Record
        <4>7. \A m \in Memory \ {k} : \A e \in Device : Tame(e, m)
          BY <1>3, <4>4, TameOther
        <4>8. ASSUME NEW m \in Memory
              PROVE  /\ asked'[m] = "no" => ~Known(m)' /\ \A e \in Device : ~Holds(e, m)'
                     /\ ~Known(m)' => /\ \A e, f \in Device : Holds(e, m)' /\ Holds(f, m)' => e = f
                                      /\ \A e \in Device : /\ Dropping(e, m)' => m \notin DOMAIN chunk'[e]
                                                           /\ work'[e].pc = "apply" => m \notin DOMAIN work'[e].recs
          <5>1. CASE m = k
            BY <4>2, <4>5, <5>1 DEF At
          <5>2. CASE m # k
            BY <2>1, <4>6, <4>7, <5>2 DEF HolderInv, Tame, At, Rows
          <5> QED
            BY <5>1, <5>2
        <4> QED
          BY <4>8 DEF HolderInv, At, Rows
      <3>4. CASE Edits(d, k)
        BY <3>1, <3>4 DEF Edits, Tame, Holds, Dropping, Uploads, At, Rows
      <3>5. CASE Removes(d, k)
        <4>1. /\ k \in DOMAIN chunk[d] /\ DOMAIN chunk'[d] = DOMAIN chunk[d] \ {k}
              /\ removing'[d] = removing[d] \cup {<<k, FleetMayKnow(chunk[d][k])>>} /\ UNCHANGED outbox
          BY <3>5 DEF Removes
        <4>2. \A m \in Memory \ {k} : Dropping(d, m)' => Dropping(d, m)
          BY <4>1 DEF Dropping
        <4> QED
          BY <3>1, <4>1, <4>2 DEF Tame, Holds, Uploads, At, Rows
      <3>6. CASE Records(d, k)
        <4>1. PICK b \in BOOLEAN :
                /\ <<k, b>> \in removing[d] /\ removing'[d] = removing[d] \ {<<k, b>>}
                /\ outbox'[d] = IF b THEN outbox[d] \cup {k} ELSE outbox[d]
                /\ UNCHANGED chunk
          BY <3>6 DEF Records
        <4>2. \A m \in Memory : Dropping(d, m)' => Dropping(d, m)
          BY <4>1 DEF Dropping
        <4> QED
          BY <3>1, <4>1, <4>2 DEF Tame, Holds, Uploads, At, Rows
      <3> QED
        BY <3>2, <3>3, <3>4, <3>5, <3>6
    <2>5. CASE \/ Refused(d) \/ SaveCursor(d) \/ SweepRows(d) \/ FinishReset(d) \/ Send(d) \/ Told(d)
               \/ Outcomes(d) \/ Erasing(d)
      BY <2>5, ShrinkMoves, TameShrink
    <2>6. CASE Fetched(d)
      <3>1. /\ work'[d].pc = "apply" /\ DOMAIN work'[d].recs \subseteq Page(Cur(d))
            /\ UNCHANGED <<chunk, outbox, removing>>
        BY <2>6, FetchedFacts
      <3>2. Placed(Cur(d)) /\ Cur(d) \in Cursor /\ FeedFleet
        BY FeedNumbers DEF FeedInv, FeedOf, Cur
      <3>3. \A m \in Page(Cur(d)) : Record(m).st # "none"
        BY <3>2, FetchPlaced
      <3> QED
        BY <3>1, <3>3 DEF Tame, Holds, Dropping, Uploads, At, Rows, Known
    <2>7. CASE ApplyPage(d)
      <3>1. /\ work[d].pc = "apply" /\ UNCHANGED <<outbox, removing>>
            /\ \A m \in DOMAIN chunk'[d] : m \in DOMAIN chunk[d] \/ m \in DOMAIN work[d].recs
            /\ Goto(d, [pc |-> "cursor", acks |-> work[d].acks, cu |-> work[d].cu, more |-> work[d].more])
        BY <2>7, ApplyFacts, Zenon
      <3>2. work'[d].pc = "cursor"
        BY <3>1, GotoFacts DEF Types
      <3>3. \A m \in Memory : ~Known(m) => m \notin DOMAIN work[d].recs
        BY <3>1 DEF HolderInv, At
      <3> QED
        BY <3>1, <3>2, <3>3 DEF Tame, Holds, Dropping, Uploads, At, Rows
    <2>8. CASE MarkSyncSent(d)
      <3> DEFINE w == [pc |-> "send", forgets |-> work[d].forgets, then |-> "idle",
                       items |-> [m \in work[d].ids \cap DOMAIN chunk[d] |-> BuildItem(chunk[d][m])]]
      <3>1. /\ work[d].pc = "mark" /\ UNCHANGED <<outbox, removing>> /\ DOMAIN chunk'[d] = DOMAIN chunk[d]
            /\ Goto(d, Idle) \/ Goto(d, w)
        BY <2>8, MarkFacts
      <3>2. w.pc = "send" /\ DOMAIN w.items \subseteq DOMAIN chunk[d]
        OBVIOUS
      <3> HIDE DEF w
      <3>3. work'[d] = Idle \/ work'[d] = w
        BY <3>1, GotoFacts DEF Types
      <3> QED
        BY <3>1, <3>2, <3>3 DEF Tame, Holds, Dropping, Uploads, At, Rows, Idle
    <2> QED
      BY <1>3, <2>3, <2>4, <2>5, <2>6, <2>7, <2>8 DEF Move
  <1> QED
    BY <1>1, <1>2, <1>3, Moves

\* The locals of a lane after each step of a pull or a push.
LEMMA ApplyWork ==
    ASSUME Types, NEW d \in Device, ApplyPage(d)
    PROVE  /\ work[d].pc = "apply" /\ work'[d].pc = "cursor" /\ work'[d].cu = work[d].cu
           /\ work'[d].acks = work[d].acks /\ work'[d].more = work[d].more
           /\ UNCHANGED <<clock, outbox, lane, removing, fleet, asked, wiped>>
  <1>1. /\ work[d].pc = "apply" /\ UNCHANGED <<clock, outbox, lane, removing, fleet, asked, wiped>>
        /\ Goto(d, [pc |-> "cursor", acks |-> work[d].acks, cu |-> work[d].cu, more |-> work[d].more])
    BY ApplyFacts, Zenon
  <1>2. work'[d] = [pc |-> "cursor", acks |-> work[d].acks, cu |-> work[d].cu, more |-> work[d].more]
    BY <1>1, GotoFacts DEF Types
  <1> QED
    BY <1>1, <1>2

LEMMA SaveWork ==
    ASSUME Types, NEW d \in Device, SaveCursor(d)
    PROVE  /\ work[d].pc = "cursor" /\ outbox'[d] = outbox[d] \ work[d].acks
           /\ lane'[d].reset = lane[d].reset /\ lane'[d].before = lane[d].before
           /\ lane'[d].erasePending = lane[d].erasePending
           /\ IF lane[d].reset # "" THEN lane'[d].rcursor = work[d].cu /\ lane'[d].cursor = lane[d].cursor
              ELSE lane'[d].cursor = work[d].cu /\ lane'[d].rcursor = lane[d].rcursor
           /\ work'[d].pc \in IF work[d].more THEN {"pull", "idle"}
                              ELSE {IF lane[d].reset # "" THEN "sweep" ELSE "push"}
           /\ UNCHANGED <<chunk, clock, removing, fleet, asked, wiped>>
  <1>1. /\ work[d].pc = "cursor" /\ outbox' = [outbox EXCEPT ![d] = @ \ work[d].acks]
        /\ lane'[d] = IF lane[d].reset # "" THEN [lane[d] EXCEPT !.rcursor = work[d].cu]
                      ELSE [lane[d] EXCEPT !.cursor = work[d].cu]
        /\ \/ work[d].more /\ \E p \in {"pull", "idle"} : Goto(d, [pc |-> p])
           \/ ~work[d].more /\ Goto(d, [pc |-> IF lane[d].reset # "" THEN "sweep" ELSE "push"])
        /\ UNCHANGED <<chunk, clock, removing, fleet, asked, wiped>>
    BY SaveFacts
  <1>2. PICK p \in {"pull", "idle", "sweep", "push"} :
            /\ Goto(d, [pc |-> p])
            /\ p \in IF work[d].more THEN {"pull", "idle"} ELSE {IF lane[d].reset # "" THEN "sweep" ELSE "push"}
    BY <1>1
  <1>3. work'[d] = [pc |-> p]
    BY <1>2, GotoFacts DEF Types
  <1>4. lane[d] \in LaneState /\ outbox \in [Device -> SUBSET Memory]
    BY DEF Types
  <1>5. /\ lane'[d].reset = lane[d].reset /\ lane'[d].before = lane[d].before
        /\ lane'[d].erasePending = lane[d].erasePending
        /\ IF lane[d].reset # "" THEN lane'[d].rcursor = work[d].cu /\ lane'[d].cursor = lane[d].cursor
           ELSE lane'[d].cursor = work[d].cu /\ lane'[d].rcursor = lane[d].rcursor
    BY <1>1, <1>4 DEF LaneState
  <1>6. work'[d].pc = p
    BY <1>3
  <1> QED
    BY <1>1, <1>2, <1>4, <1>5, <1>6

LEMMA MarkWork ==
    ASSUME Types, NEW d \in Device, MarkSyncSent(d)
    PROVE  LET ids == work[d].ids \cap DOMAIN chunk[d] IN
           /\ work[d].pc = "mark"
           /\ \/ work'[d].pc = "idle" /\ ids = {} /\ work[d].forgets = {}
              \/ /\ work'[d].pc = "send" /\ work'[d].forgets = work[d].forgets /\ work'[d].then = "idle"
                 /\ DOMAIN work'[d].items = ids
                 /\ \A m \in ids : work'[d].items[m] = BuildItem(chunk[d][m])
           /\ DOMAIN chunk'[d] = DOMAIN chunk[d]
           /\ \A m \in DOMAIN chunk[d] : IF m \in ids THEN \E h : chunk'[d][m] = Marked(chunk[d][m], h)
                                              ELSE chunk'[d][m] = chunk[d][m]
           /\ clock' = clock \/ clock' = Ticked(d)
           /\ UNCHANGED <<outbox, lane, removing, fleet, asked, wiped>>
  <1> DEFINE ids == work[d].ids \cap DOMAIN chunk[d]
             items == [m \in ids |-> BuildItem(chunk[d][m])]
             w == [pc |-> "send", forgets |-> work[d].forgets, then |-> "idle", items |-> items]
  <1>1. /\ work[d].pc = "mark" /\ DOMAIN chunk'[d] = DOMAIN chunk[d]
        /\ \A m \in DOMAIN chunk[d] : IF m \in ids THEN \E h : chunk'[d][m] = Marked(chunk[d][m], h)
                                           ELSE chunk'[d][m] = chunk[d][m]
        /\ clock' = clock \/ clock' = Ticked(d)
        /\ Goto(d, IF ids = {} /\ work[d].forgets = {} THEN Idle ELSE w)
        /\ UNCHANGED <<outbox, lane, removing, fleet, asked, wiped>>
    BY MarkFacts
  <1>2. DOMAIN items = ids /\ \A m \in ids : items[m] = BuildItem(chunk[d][m])
    OBVIOUS
  <1> HIDE DEF items, ids
  <1>3. w.pc = "send" /\ w.forgets = work[d].forgets /\ w.then = "idle" /\ w.items = items /\ Idle.pc = "idle"
    BY DEF Idle
  <1> HIDE DEF w
  <1>4. work'[d] = IF ids = {} /\ work[d].forgets = {} THEN Idle ELSE w
    BY <1>1, GotoFacts DEF Types
  <1> QED
    BY <1>1, <1>2, <1>3, <1>4 DEF ids

LEMMA SendWork ==
    ASSUME Types, NEW d \in Device, Send(d)
    PROVE  /\ work[d].pc = "send" /\ work'[d].pc = "results" /\ work'[d].forgets = work[d].forgets
           /\ work'[d].then = work[d].then /\ work'[d].items = work[d].items
           /\ DOMAIN work'[d].res = DOMAIN work[d].items
           /\ \A m \in DOMAIN work[d].items :
                /\ m \in Memory /\ work[d].items[m] \in Item
                /\ work'[d].res[m] = IF m \in work[d].forgets THEN "forgotten"
                                     ELSE IF Blanket(d) # "" THEN Blanket(d)
                                     ELSE Answer(fleet.rec[m], work[d].items[m])
           /\ UNCHANGED <<chunk, clock, outbox, lane, removing, asked>>
  <1>1. work' = [work EXCEPT ![d] = [pc |-> "results", forgets |-> work[d].forgets,
                         then |-> work[d].then, items |-> work[d].items, res |-> work'[d].res]]
    BY SendRecord
  <1>2. /\ work[d].pc = "send" /\ \A m \in DOMAIN work[d].items : m \in Memory /\ work[d].items[m] \in Item
    BY Zenon DEF Send, At, Types, WorkTypes, WorkOK, Pushing
  <1>3. /\ work'[d].pc = "results" /\ work'[d].forgets = work[d].forgets
        /\ work'[d].then = work[d].then /\ work'[d].items = work[d].items
    BY <1>1 DEF Types, WorkTypes
  <1>4. DOMAIN work'[d].res = DOMAIN work[d].items /\ \A m \in DOMAIN work[d].items :
            work'[d].res[m] = IF m \in work[d].forgets THEN "forgotten"
                              ELSE IF Blanket(d) # "" THEN Blanket(d)
                              ELSE Answer(fleet.rec[m], work[d].items[m])
    BY SendRecord
  <1>5. UNCHANGED <<chunk, clock, outbox, lane, removing, asked>>
    BY Zenon DEF Send
  <1> QED
    BY <1>2, <1>3, <1>4, <1>5

LEMMA ToldWork ==
    ASSUME NEW d \in Device, Told(d)
    PROVE  /\ work[d].pc = "results" /\ work'[d].pc = "outcomes" /\ work'[d].items = work[d].items
           /\ work'[d].then = work[d].then /\ work'[d].res = work[d].res
           /\ outbox'[d] = outbox[d] \ (work[d].forgets \ DOMAIN work[d].items)
           /\ UNCHANGED <<clock, removing, fleet, asked, wiped>>
  <1>1. /\ work[d].pc = "results" /\ outbox'[d] = outbox[d] \ Acked(d)
        /\ work'[d] = [pc |-> "outcomes", items |-> work[d].items, then |-> work[d].then, res |-> work[d].res]
        /\ UNCHANGED <<clock, removing, fleet, asked, wiped>>
    BY Zenon DEF Told
  <1> QED
    BY <1>1 DEF Acked

LEMMA OutcomeWork ==
    ASSUME Types, NEW d \in Device, Outcomes(d)
    PROVE  /\ work[d].pc = "outcomes" /\ work'[d].pc = work[d].then /\ work[d].then \in {"idle", "put"}
           /\ UNCHANGED <<clock, outbox, lane, removing, fleet, asked, wiped>>
           /\ \A m : m \in DOMAIN chunk'[d] <=>
                     /\ m \in DOMAIN chunk[d]
                     /\ ~(m \in DOMAIN work[d].items /\ work[d].res[m] = "forgotten" /\ ~work[d].items[m].demote)
           /\ \A m \in DOMAIN chunk'[d] :
                chunk'[d][m] = IF m \in DOMAIN work[d].items THEN Outcome(chunk[d][m], work[d].items[m], work[d].res[m])
                               ELSE chunk[d][m]
           /\ \A m \in DOMAIN work[d].items : m \in Memory /\ work[d].items[m] \in Item
  <1>1. /\ work[d].pc = "outcomes" /\ Goto(d, [pc |-> work[d].then])
        /\ UNCHANGED <<clock, outbox, lane, removing, fleet, asked, wiped>>
        /\ \A m : m \in DOMAIN chunk'[d] <=>
                     /\ m \in DOMAIN chunk[d]
                     /\ ~(m \in DOMAIN work[d].items /\ work[d].res[m] = "forgotten" /\ ~work[d].items[m].demote)
        /\ \A m \in DOMAIN chunk'[d] :
                chunk'[d][m] = IF m \in DOMAIN work[d].items THEN Outcome(chunk[d][m], work[d].items[m], work[d].res[m])
                               ELSE chunk[d][m]
    BY OutcomesFacts
  <1>2. work[d].then \in {"idle", "put"} /\ \A m \in DOMAIN work[d].items : m \in Memory /\ work[d].items[m] \in Item
    BY <1>1 DEF Types, WorkTypes, WorkOK, Pushing
  <1>3. work'[d] = [pc |-> work[d].then]
    BY <1>1, GotoFacts DEF Types
  <1>4. work'[d].pc = work[d].then
    BY <1>3
  <1> QED
    BY <1>1, <1>2, <1>4

-----------------------------------------------------------------------------
(* Without sweeps and erases.                                              *)

Calm == MaxSweeps = 0 /\ MaxErases = 0

CalmOf(d) ==
    /\ lane[d].reset = "" /\ ~lane[d].erasePending
    /\ work[d].pc \notin {"erase", "erased", "clear", "cleared", "sweep", "swept"}
    /\ work[d].pc \in {"results", "outcomes"} =>
            \A m \in DOMAIN work[d].res : work[d].res[m] # "resync_required"

\* Nothing was ever swept or erased: no cursor is refused and no snapshot is taken.
CalmInv ==
    /\ fleet.floor = 0
    /\ \A m \in Memory : wiped[m] = {}
    /\ \A d \in Device : CalmOf(d)

\* A pulled record is the one Fleet has, or Fleet's has changed since.
PageOf(d) ==
    /\ Paging(work[d]) => lane[d].cursor.seq <= work[d].cu.seq
    /\ At(d, "apply") => \A m \in DOMAIN work[d].recs :
        /\ work[d].recs[m] = Record(m) \/ Record(m).seq > work[d].cu.seq
        /\ work[d].recs[m].st = "forgotten" => Record(m).st = "forgotten"

\* A row of a forgotten memory is on a device that has not read the tombstone.
TombOf(d) ==
    \A m \in Rows(d) : Record(m).st = "forgotten" =>
        /\ lane[d].cursor.seq < Record(m).seq
        /\ At(d, "apply") /\ m \notin DOMAIN work[d].recs => work[d].cu.seq < Record(m).seq
        /\ At(d, "cursor") => work[d].cu.seq < Record(m).seq

\* What settles a queued forget: a tombstone, or an id Fleet never had.
AckOf(d) ==
    /\ Paging(work[d]) => \A m \in work[d].acks : Record(m).st = "forgotten"
    /\ At(d, "results") => \A m \in work[d].forgets \ DOMAIN work[d].items :
                               Record(m).st \in {"none", "forgotten"}

\* Where a queued forget is: in an outbox or on Fleet, or the memory is nowhere.
Handled(m) ==
    \/ \E d \in Device : m \in outbox[d]
    \/ Record(m).st = "forgotten"
    \/ Record(m).st = "none" /\ \A d \in Device : m \notin Rows(d) /\ ~Uploads(d, m)

ForgetInv ==
    /\ \A d \in Device : PageOf(d) /\ TombOf(d) /\ AckOf(d)
    /\ \A m \in Memory : asked[m] = "queued" => Handled(m)

\* The moves that are left without sweeps and erases.
CalmMove(d) ==
    \/ Turn(d) \/ User(d) \/ Fetched(d) \/ ApplyPage(d) \/ SaveCursor(d) \/ MarkSyncSent(d) \/ Send(d)
    \/ Told(d) /\ UNCHANGED <<chunk, lane>>
    \/ Outcomes(d)

LEMMA TurnWork ==
    ASSUME NEW d \in Device, Turn(d)
    PROVE  \/ work'[d] = work[d]
           \/ work'[d].pc \in {"idle", "put", "put_ok", "enabled", "mark"}
           \/ work'[d].pc = "erase" /\ lane'[d].erasePending
           \/ work'[d].pc = "send" /\ DOMAIN work'[d].items = {} /\ work'[d].then = "put"
  <1>1. TurnTo(d)
    BY DEF Turn
  <1>2. ASSUME NEW p \in {"idle", "put", "put_ok", "enabled"}, work'[d] = [pc |-> p] PROVE work'[d].pc = p
    BY <1>2
  <1>3. ASSUME work'[d] = [pc |-> "send", forgets |-> outbox[d], then |-> "put", items |-> [m \in {} |-> 0]]
        PROVE  work'[d].pc = "send" /\ DOMAIN work'[d].items = {} /\ work'[d].then = "put"
    BY <1>3
  <1>4. ASSUME work'[d] = [pc |-> "mark", forgets |-> outbox[d],
                           ids |-> {m \in Rows(d) : PushCandidate(chunk[d][m])}]
        PROVE  work'[d].pc = "mark"
    BY <1>4
  <1> QED
    BY <1>1, <1>2, <1>3, <1>4 DEF TurnTo

LEMMA CalmFresh ==
    ASSUME Types, FeedInv, CalmInv, NEW x \in Cursor, Placed(x)
    PROVE  Stale(x) = ""
  <1>1. fleet.floor = 0 /\ fleet.erasedAt \in Nat /\ fleet.erasedAt <= 0
    BY FeedNumbers DEF CalmInv, FeedInv, FeedFleet
  <1>2. x.seq \in Nat /\ x.floor \in Nat /\ x.erased \in Nat /\ x.erased <= fleet.erasedAt
    BY DEF Cursor, Placed
  <1>3. fleet.erasedAt = 0 /\ x.erased = 0
    BY <1>1, <1>2
  <1> QED
    BY <1>1, <1>2, <1>3 DEF Stale

LEMMA CalmNext ==
    ASSUME Calm, Types, FeedInv, CalmInv, Next
    PROVE  \E d \in Device : Alone(d) /\ CalmMove(d)
  <1>1. ~FleetSweep
    <2>1. ~(spent["sweeps"] < MaxSweeps)
      BY DEF Calm, Types, Bounds
    <2> QED
      BY <2>1 DEF FleetSweep, Left, Bound
  <1>2. PICK d \in Device : Alone(d) /\ Move(d)
    BY <1>1, Moves
  <1>3. CalmOf(d) /\ Cur(d) \in Cursor /\ Placed(Cur(d))
    BY FeedNumbers DEF CalmInv, FeedInv, FeedOf, Cur
  <1>4. ~Refused(d)
    <2>1. Stale(Cur(d)) = ""
      BY <1>3, CalmFresh
    <2> QED
      BY <2>1, Zenon DEF Refused
  <1>5. ~SweepRows(d) /\ ~FinishReset(d) /\ ~Erasing(d)
    BY <1>3, Zenon DEF CalmOf, SweepRows, FinishReset, Erasing, ForgetAll, EraseAck, ClearSyncMarkers, EraseDone, At
  <1>6. Told(d) => UNCHANGED <<chunk, lane>>
    BY <1>3, Zenon DEF Told, CalmOf
  <1> QED
    BY <1>2, <1>4, <1>5, <1>6 DEF Move, CalmMove

LEMMA CalmGrows ==
    ASSUME Types, CalmInv, NEW d \in Device, CalmMove(d)
    PROVE  Grows(d) /\ \A m \in Memory : wiped'[m] = {}
  <1>1. ~ForgetAll(d)
    BY DEF CalmInv, CalmOf, ForgetAll, At
  <1>2. Move(d)
    BY DEF Move, CalmMove
  <1>3. CASE Send(d)
    BY <1>3, SendGrows, Zenon DEF Send, CalmInv
  <1>4. CASE SameFeed /\ wiped' = wiped
    <2>1. fleet.seq \in Nat
      BY FeedNumbers
    <2> QED
      BY <1>4, <2>1 DEF SameFeed, Grows, CalmInv
  <1> QED
    BY <1>1, <1>2, <1>3, <1>4, FleetMoves

LEMMA CalmInit == Init => CalmInv
  <1> SUFFICES ASSUME Init PROVE CalmInv
    OBVIOUS
  <1>1. fleet.floor = 0 /\ \A m \in Memory : wiped[m] = {}
    BY DEF Init
  <1>2. \A d \in Device : lane[d].reset = "" /\ ~lane[d].erasePending /\ work[d].pc = "idle"
    BY DEF Init, Idle
  <1> QED
    BY <1>1, <1>2 DEF CalmInv, CalmOf

LEMMA CalmStep ==
    ASSUME Calm, Types, FeedInv, CalmInv, NEW d \in Device, Alone(d), CalmMove(d)
    PROVE  CalmInv'
  <1>1. fleet'.floor = 0 /\ \A m \in Memory : wiped'[m] = {}
    BY CalmGrows DEF Grows, CalmInv
  <1>2. ASSUME NEW e \in Device \ {d} PROVE CalmOf(e)'
    <2>1. lane'[e] = lane[e] /\ work'[e] = work[e] /\ CalmOf(e)
      BY DEF Alone, CalmInv
    <2> QED
      BY <2>1 DEF CalmOf
  <1>3. SUFFICES CalmOf(d)'
    BY <1>1, <1>2 DEF CalmInv
  <1>4. CalmOf(d)
    BY DEF CalmInv
  <1>5. CASE Turn(d)
    <2>1. ~Left("erases")
      <3>1. ~(spent["erases"] < MaxErases)
        BY DEF Calm, Types, Bounds
      <3> QED
        BY <3>1 DEF Left, Bound
    <2>2. lane'[d].reset = "" /\ ~lane'[d].erasePending
      BY <1>4, <1>5, <2>1 DEF Turn, CalmOf
    <2> QED
      BY <1>4, <1>5, <2>2, TurnWork DEF CalmOf
  <1>6. CASE User(d)
    BY <1>4, <1>6, UserFacts DEF CalmOf
  <1>7. CASE Fetched(d)
    BY <1>4, <1>7, FetchedFacts DEF CalmOf
  <1>8. CASE ApplyPage(d)
    BY <1>4, <1>8, ApplyWork DEF CalmOf
  <1>9. CASE SaveCursor(d)
    <2>1. lane[d].reset = "" /\ ~lane[d].erasePending
      BY <1>4 DEF CalmOf
    <2>2. lane'[d].reset = "" /\ ~lane'[d].erasePending /\ work'[d].pc \in {"pull", "idle", "push"}
      BY <1>9, <2>1, SaveWork
    <2> QED
      BY <2>2 DEF CalmOf
  <1>10. CASE MarkSyncSent(d)
    <2>1. lane' = lane /\ work'[d].pc \in {"idle", "send"}
      BY <1>10, MarkWork
    <2> QED
      BY <1>4, <2>1 DEF CalmOf
  <1>11. CASE Send(d)
    <2>1. Stale(lane[d].cursor) = ""
      BY CalmFresh, FeedNumbers DEF FeedInv, FeedOf
    <2>2. Blanket(d) # "resync_required"
      BY <2>1 DEF Blanket
    <2>3. lane' = lane /\ work'[d].pc = "results" /\ DOMAIN work'[d].res = DOMAIN work[d].items
      BY <1>11, SendWork
    <2>4. ASSUME NEW m \in DOMAIN work[d].items PROVE work'[d].res[m] # "resync_required"
      <3>1. /\ m \in Memory /\ work[d].items[m] \in Item
            /\ work'[d].res[m] = IF m \in work[d].forgets THEN "forgotten"
                                 ELSE IF Blanket(d) # "" THEN Blanket(d)
                                 ELSE Answer(fleet.rec[m], work[d].items[m])
        BY <1>11, SendWork
      <3>2. Answer(fleet.rec[m], work[d].items[m]) \in {"forgotten", "accepted", "content"}
        BY <3>1, RecordTypes, FeedNumbers DEF Record
      <3> QED
        BY <2>2, <3>1, <3>2
    <2> QED
      BY <1>4, <2>3, <2>4 DEF CalmOf
  <1>12. CASE Told(d) /\ UNCHANGED <<chunk, lane>>
    BY <1>4, <1>12, ToldWork DEF CalmOf
  <1>13. CASE Outcomes(d)
    <2>1. lane' = lane /\ work'[d].pc \in {"idle", "put"}
      BY <1>13, OutcomeWork
    <2> QED
      BY <1>4, <2>1 DEF CalmOf
  <1> QED
    BY <1>5, <1>6, <1>7, <1>8, <1>9, <1>10, <1>11, <1>12, <1>13 DEF CalmMove

-----------------------------------------------------------------------------
(* A queued forget wins.                                                   *)

\* What a device that does not move keeps while the feed goes on.
LEMMA PageOther ==
    ASSUME Types, Types', FeedInv, NEW d \in Device, Grows(d), NEW e \in Device,
           lane'[e].cursor = lane[e].cursor, work'[e] = work[e] \/ ~Paging(work'[e]),
           \A m \in DOMAIN chunk'[e] : m \in DOMAIN chunk[e] \/ fleet'.rec[m].st # "forgotten",
           PageOf(e), TombOf(e)
    PROVE  PageOf(e)' /\ TombOf(e)'
  <1>1. /\ fleet.seq \in Nat /\ \A m \in Memory : fleet.rec[m].seq \in Nat /\ fleet'.rec[m].seq \in Nat
        /\ lane[e].cursor.seq \in Nat /\ lane[e].cursor.seq <= fleet.seq
        /\ Paging(work[e]) => work[e].cu.seq \in Nat /\ work[e].cu.seq <= fleet.seq
        /\ At(e, "apply") => DOMAIN work[e].recs \subseteq Memory
        /\ Rows(e) \subseteq Memory
    <2>1. \A m \in Memory : fleet.rec[m].seq \in Nat /\ fleet'.rec[m].seq \in Nat
      BY DEF Types, Service, Rec
    <2>2. lane[e].cursor.seq <= fleet.seq /\ (Paging(work[e]) => work[e].cu.seq <= fleet.seq)
      BY DEF FeedInv, FeedOf, Placed
    <2>3. (At(e, "apply") => DOMAIN work[e].recs \subseteq Memory) /\ Rows(e) \subseteq Memory
      BY DEF Types, WorkTypes, WorkOK, At, StoreTypes, Store, Rows
    <2> QED
      BY <2>1, <2>2, <2>3, FeedNumbers
  <1>2. \A m \in Memory : \/ fleet'.rec[m] = fleet.rec[m]
                          \/ fleet'.rec[m].seq > fleet.seq /\ fleet.rec[m].st # "forgotten"
    BY <1>1 DEF Grows
  <1>3. PageOf(e)'
    <2>1. (Paging(work[e]) => lane[e].cursor.seq <= work[e].cu.seq)'
      BY DEF PageOf, Paging
    <2>2. ASSUME work'[e].pc = "apply", NEW m \in DOMAIN work'[e].recs
          PROVE  /\ work'[e].recs[m] = fleet'.rec[m] \/ fleet'.rec[m].seq > work'[e].cu.seq
                 /\ work'[e].recs[m].st = "forgotten" => fleet'.rec[m].st = "forgotten"
      <3>1. work'[e] = work[e]
        BY <2>2 DEF Paging
      <3>2. m \in Memory /\ work[e].cu.seq \in Nat /\ work[e].cu.seq <= fleet.seq
        BY <1>1, <2>2, <3>1 DEF At, Paging
      <3>3. /\ work[e].recs[m] = fleet.rec[m] \/ fleet.rec[m].seq > work[e].cu.seq
            /\ work[e].recs[m].st = "forgotten" => fleet.rec[m].st = "forgotten"
        BY <2>2, <3>1 DEF PageOf, At, Record
      <3> QED
        BY <1>1, <1>2, <3>1, <3>2, <3>3
    <2> QED
      BY <2>1, <2>2 DEF PageOf, At, Record
  <1>4. TombOf(e)'
    <2>1. ASSUME NEW m \in DOMAIN chunk'[e], fleet'.rec[m].st = "forgotten"
          PROVE  /\ lane[e].cursor.seq < fleet'.rec[m].seq
                 /\ At(e, "apply") /\ m \notin DOMAIN work[e].recs => work[e].cu.seq < fleet'.rec[m].seq
                 /\ At(e, "cursor") => work[e].cu.seq < fleet'.rec[m].seq
      <3>1. m \in Memory /\ m \in Rows(e)
        BY <1>1, <2>1 DEF Rows
      <3>2. CASE fleet'.rec[m] = fleet.rec[m]
        BY <2>1, <3>1, <3>2 DEF TombOf, Record
      <3>3. CASE fleet'.rec[m].seq > fleet.seq
        BY <1>1, <3>1, <3>3 DEF Paging, At
      <3> QED
        BY <1>2, <3>1, <3>2, <3>3
    <2>2. CASE work'[e] = work[e]
      BY <2>1, <2>2 DEF TombOf, At, Record, Rows
    <2>3. CASE ~Paging(work'[e])
      BY <2>1, <2>3 DEF TombOf, At, Record, Rows, Paging
    <2> QED
      BY <2>2, <2>3
  <1> QED
    BY <1>3, <1>4

\* A forget that was answered "nothing to forget" stays so: nobody else has the memory.
LEMMA AckOther ==
    ASSUME Types, FeedInv, CalmInv, HolderInv, NEW d \in Device, Grows(d), NEW e \in Device \ {d},
           work'[e] = work[e], AckOf(e)
    PROVE  AckOf(e)'
  <1>1. \A m \in Memory : \/ fleet'.rec[m] = fleet.rec[m]
                          \/ /\ fleet.rec[m].st # "forgotten"
                             /\ fleet.rec[m].st = "none" => Uploads(d, m)
    BY DEF Grows, Uploads
  <1>2. Paging(work[e]) => work[e].acks \subseteq Memory
    BY DEF Types, WorkTypes, WorkOK
  <1>3. ASSUME work[e].pc = "results", NEW m \in work[e].forgets \ DOMAIN work[e].items
        PROVE  fleet'.rec[m].st \in {"none", "forgotten"}
    <2>1. m \in outbox[e] /\ m \in Memory /\ fleet.rec[m].st \in {"none", "forgotten"}
      BY <1>3 DEF FeedInv, FeedOf, AckOf, At, Record, Types
    <2>2. CASE fleet.rec[m].st = "none"
      <3>1. ~Known(m)
        BY <2>1, <2>2 DEF Known, Record, CalmInv
      <3>2. Holds(e, m)
        BY <2>1 DEF Holds, Dropping
      <3>3. ~Uploads(d, m)
        BY <2>1, <3>1, <3>2 DEF HolderInv, Holds
      <3> QED
        BY <1>1, <2>1, <2>2, <3>3
    <2> QED
      BY <1>1, <2>1, <2>2
  <1> QED
    BY <1>1, <1>2, <1>3 DEF AckOf, At, Record, Paging

\* The parts of a device that moves.
LEMMA ForgetOwn ==
    ASSUME Types, Types', FeedInv, CalmInv, HolderInv, ForgetInv, NEW d \in Device, CalmMove(d)
    PROVE  PageOf(d)' /\ TombOf(d)' /\ AckOf(d)'
  <1>1. Grows(d) /\ PageOf(d) /\ TombOf(d) /\ AckOf(d)
    BY CalmGrows DEF ForgetInv
  <1>2. Cur(d) = lane[d].cursor /\ lane[d].reset = ""
    BY DEF CalmInv, CalmOf, Cur, Resetting
  <1>3. /\ lane[d].cursor \in Cursor /\ lane[d].cursor.seq \in Nat
        /\ \A m \in Memory : fleet.rec[m].seq \in Nat
        /\ Paging(work[d]) => work[d].cu.seq \in Nat
        /\ Rows(d) \subseteq Memory
    BY FeedNumbers DEF Record, Types, StoreTypes, Store, Rows
  <1>4. CASE Turn(d)
    <2>1. UNCHANGED chunk /\ lane'[d].cursor = lane[d].cursor /\ SameFeed
      BY <1>4 DEF Turn
    <2>2. work'[d] = work[d] \/ (~Paging(work'[d]) /\ work'[d].pc # "results")
      BY <1>4, TurnWork DEF Paging
    <2>3. AckOf(d)'
      BY <1>1, <2>1, <2>2 DEF AckOf, At, Record, SameFeed, Paging
    <2> QED
      BY <1>1, <2>1, <2>2, <2>3, PageOther
  <1>5. CASE User(d)
    <2>1. UNCHANGED <<lane, work, fleet, wiped>>
      BY <1>5, UserFacts
    <2>2. PICK k \in Memory : Adds(d, k) \/ Edits(d, k) \/ Removes(d, k) \/ Records(d, k)
      BY <1>5, UserFacts
    <2>3. DOMAIN chunk'[d] \subseteq DOMAIN chunk[d] \/ (asked[k] = "no" /\ DOMAIN chunk'[d] = DOMAIN chunk[d] \cup {k})
      BY <2>2 DEF Adds, Edits, Removes, Records
    <2>4. asked[k] = "no" => fleet.rec[k].st = "none"
      BY DEF HolderInv, Known, Record
    <2>5. \A m \in DOMAIN chunk'[d] : m \in DOMAIN chunk[d] \/ fleet'.rec[m].st # "forgotten"
      BY <2>1, <2>3, <2>4
    <2>6. AckOf(d)'
      BY <1>1, <2>1 DEF AckOf, At, Record, Paging
    <2> QED
      BY <1>1, <2>1, <2>5, <2>6, PageOther
  <1>6. CASE Fetched(d)
    <2> DEFINE x == lane[d].cursor
               n == NextCursor(x)
               w == work'[d]
    <2>1. /\ w.pc = "apply" /\ w.cu = n /\ DOMAIN w.recs \subseteq Page(x)
          /\ \A m \in Page(x) : m \in DOMAIN w.recs <=> (fleet.rec[m].st = "live" => m \notin outbox[d])
          /\ \A m \in DOMAIN w.recs : w.recs[m] = fleet.rec[m]
          /\ \A m \in w.acks : m \in Page(x) /\ fleet.rec[m].st = "forgotten" /\ m \in outbox[d]
          /\ UNCHANGED <<chunk, lane, outbox, removing, fleet, asked, wiped>>
      BY <1>2, <1>6, FetchedFacts
    <2>2. /\ x.seq <= n.seq /\ \A m \in After(x) \ Page(x) : fleet.rec[m].seq > n.seq
          /\ n.seq \in Nat
      BY <1>3, PageFacts, FeedNumbers
    <2> HIDE DEF n
    <2>3. PageOf(d)'
      BY <2>1, <2>2 DEF PageOf, At, Record, Paging
    <2>4. AckOf(d)'
      BY <2>1 DEF AckOf, At, Record, Paging
    <2>5. ASSUME NEW m \in Rows(d), fleet.rec[m].st = "forgotten"
          PROVE  x.seq < fleet.rec[m].seq /\ (m \notin DOMAIN w.recs => n.seq < fleet.rec[m].seq)
      <3>1. m \in After(x) /\ x.seq < fleet.rec[m].seq
        BY <1>1, <1>3, <2>5 DEF TombOf, Record, After
      <3>2. m \notin DOMAIN w.recs => m \notin Page(x)
        BY <2>1, <2>5
      <3> QED
        BY <1>3, <2>2, <3>1, <3>2
    <2>6. TombOf(d)'
      BY <2>1, <2>5 DEF TombOf, At, Record, Rows
    <2> QED
      BY <2>3, <2>4, <2>6
  <1>7. CASE ApplyPage(d)
    <2>1. /\ work[d].pc = "apply" /\ work'[d].pc = "cursor" /\ work'[d].cu = work[d].cu
          /\ work'[d].acks = work[d].acks /\ UNCHANGED <<lane, fleet>>
      BY <1>7, ApplyWork
    <2>2. /\ \A m \in DOMAIN chunk'[d] : m \in DOMAIN chunk[d] \/ m \in DOMAIN work[d].recs
          /\ \A m \in DOMAIN work[d].recs : m \in DOMAIN chunk'[d] => work[d].recs[m].st \in {"live", "left"}
      BY <1>7, ApplyFacts, Zenon
    <2>3. PageOf(d)' /\ AckOf(d)'
      BY <1>1, <2>1 DEF PageOf, AckOf, At, Record, Paging
    <2>4. ASSUME NEW m \in DOMAIN chunk'[d], fleet.rec[m].st = "forgotten"
          PROVE  lane[d].cursor.seq < fleet.rec[m].seq /\ work[d].cu.seq < fleet.rec[m].seq
      <3>1. CASE m \in DOMAIN work[d].recs
        <4>1. m \in Memory
          BY <2>1, <3>1 DEF Types, WorkTypes, WorkOK
        <4>2. fleet.rec[m].seq > work[d].cu.seq /\ lane[d].cursor.seq <= work[d].cu.seq
          BY <1>1, <2>1, <2>2, <2>4, <3>1 DEF PageOf, At, Record, Paging
        <4> QED
          BY <1>3, <2>1, <4>1, <4>2 DEF Paging
      <3>2. CASE m \notin DOMAIN work[d].recs
        BY <1>1, <2>1, <2>2, <2>4, <3>2 DEF TombOf, At, Record, Rows
      <3> QED
        BY <3>1, <3>2
    <2>5. TombOf(d)'
      BY <2>1, <2>4 DEF TombOf, At, Record, Rows
    <2> QED
      BY <2>3, <2>5
  <1>8. CASE SaveCursor(d)
    <2>1. /\ work[d].pc = "cursor" /\ lane'[d].cursor = work[d].cu /\ UNCHANGED <<chunk, fleet>>
          /\ work'[d].pc \in {"pull", "idle", "push"}
      BY <1>2, <1>8, SaveWork
    <2> QED
      BY <1>1, <2>1 DEF PageOf, TombOf, AckOf, At, Record, Rows, Paging
  <1>9. CASE MarkSyncSent(d) \/ Outcomes(d) \/ (Told(d) /\ UNCHANGED <<chunk, lane>>)
    <2>1. /\ lane' = lane /\ fleet' = fleet /\ DOMAIN chunk'[d] \subseteq DOMAIN chunk[d]
          /\ work'[d].pc \in {"idle", "send", "outcomes", "put"}
      BY <1>9, MarkWork, OutcomeWork, ToldWork
    <2>2. AckOf(d)'
      BY <2>1 DEF AckOf, Paging, At
    <2> QED
      BY <1>1, <2>1, <2>2, PageOther DEF Paging
  <1>10. CASE Send(d)
    <2>1. /\ work[d].pc = "send" /\ work'[d].pc = "results" /\ work'[d].forgets = work[d].forgets
          /\ work'[d].items = work[d].items /\ UNCHANGED <<chunk, lane>>
      BY <1>10, SendWork
    <2>2. ASSUME NEW m \in work[d].forgets \ DOMAIN work[d].items
          PROVE  fleet'.rec[m].st \in {"none", "forgotten"}
      <3>1. m \in Memory /\ fleet.rec[m].st \in {"none", "live", "left", "forgotten"}
        BY <2>1, FeedNumbers DEF Types, WorkTypes, WorkOK, Rec, Record
      <3>2. CASE fleet.rec[m].st \in {"live", "left"}
        <4>1. Issued(fleet'.rec[m], [Gone EXCEPT !.st = "forgotten"], fleet.seq, fleet'.seq)
          BY <1>10, <3>1, <3>2, SendRecord
        <4> QED
          BY <4>1 DEF Issued, Gone
      <3>3. CASE fleet.rec[m].st \in {"none", "forgotten"}
        <4>1. fleet'.rec[m] = fleet.rec[m]
          BY <1>10, <3>1, <3>3, SendRecord
        <4> QED
          BY <3>3, <4>1
      <3> QED
        BY <3>1, <3>2, <3>3
    <2>3. AckOf(d)'
      BY <2>1, <2>2 DEF AckOf, At, Record, Paging
    <2> QED
      BY <1>1, <2>1, <2>3, PageOther DEF Paging
  <1> QED
    BY <1>4, <1>5, <1>6, <1>7, <1>8, <1>9, <1>10 DEF CalmMove

\* What a calm move brings to a device, and what it takes out of its outbox.
LEMMA CalmArrives ==
    ASSUME Types, NEW d \in Device, CalmMove(d), NEW m \in Memory
    PROVE  /\ m \in DOMAIN chunk'[d] => \/ m \in Rows(d) \/ asked[m] = "no"
                                        \/ At(d, "apply") /\ m \in DOMAIN work[d].recs
           /\ Uploads(d, m)' => Uploads(d, m) \/ m \in Rows(d)
           /\ m \in outbox[d] \ outbox'[d] =>
                /\ SameFeed /\ UNCHANGED chunk /\ work'[d].pc # "send"
                /\ \/ At(d, "cursor") /\ m \in work[d].acks
                   \/ At(d, "results") /\ m \in work[d].forgets \ DOMAIN work[d].items
           /\ asked'[m] = "queued" => asked[m] = "queued" \/ m \in outbox'[d]
  <1> USE DEF Rows, Uploads, At
  <1>1. CASE Turn(d)
    BY <1>1, TurnWork DEF Turn
  <1>2. CASE User(d)
    <2>1. UNCHANGED <<lane, work, fleet, wiped>>
      BY <1>2, UserFacts
    <2>2. PICK k \in Memory : Adds(d, k) \/ Edits(d, k) \/ Removes(d, k) \/ Records(d, k)
      BY <1>2, UserFacts
    <2>3. asked \in [Memory -> {"no", "live", "void", "asked", "queued", "cut"}]
      BY DEF Types
    <2>4. CASE Adds(d, k)
      BY <2>1, <2>3, <2>4 DEF Adds
    <2>5. CASE Edits(d, k)
      BY <2>1, <2>3, <2>5 DEF Edits
    <2>6. CASE Removes(d, k)
      <3>1. /\ DOMAIN chunk'[d] \subseteq DOMAIN chunk[d] /\ UNCHANGED outbox
            /\ asked' = [asked EXCEPT ![k] = IF @ # "live" THEN @
                                     ELSE IF FleetMayKnow(chunk[d][k]) THEN "asked" ELSE "void"]
        BY <2>6 DEF Removes
      <3>2. asked'[m] = "queued" => asked[m] = "queued"
        BY <2>3, <3>1
      <3> QED
        BY <2>1, <3>1, <3>2
    <2>7. CASE Records(d, k)
      BY <2>1, <2>3, <2>7 DEF Records
    <2> QED
      BY <2>2, <2>4, <2>5, <2>6, <2>7
  <1>3. CASE Fetched(d)
    BY <1>3, FetchedFacts
  <1>4. CASE ApplyPage(d)
    <2>1. /\ work[d].pc = "apply" /\ work'[d].pc = "cursor" /\ UNCHANGED <<outbox, asked>>
      BY <1>4, ApplyWork
    <2>2. \A k \in DOMAIN chunk'[d] : k \in DOMAIN chunk[d] \/ k \in DOMAIN work[d].recs
      BY <1>4, ApplyFacts, Zenon
    <2> QED
      BY <2>1, <2>2
  <1>5. CASE SaveCursor(d)
    <2>1. /\ work[d].pc = "cursor" /\ outbox'[d] = outbox[d] \ work[d].acks
          /\ work'[d].pc # "send" /\ UNCHANGED <<chunk, fleet, asked>>
      BY <1>5, SaveWork
    <2> QED
      BY <2>1 DEF SameFeed
  <1>6. CASE MarkSyncSent(d)
    BY <1>6, MarkWork
  <1>7. CASE Send(d)
    BY <1>7, SendWork
  <1>8. CASE Told(d) /\ UNCHANGED <<chunk, lane>>
    BY <1>8, ToldWork DEF SameFeed
  <1>9. CASE Outcomes(d)
    BY <1>9, OutcomeWork
  <1> QED
    BY <1>1, <1>2, <1>3, <1>4, <1>5, <1>6, <1>7, <1>8, <1>9 DEF CalmMove

\* A queued forget stays queued until it is on Fleet or the memory is nowhere.
LEMMA HandledStep ==
    ASSUME Types, FeedInv, CalmInv, HolderInv, ForgetInv, NEW d \in Device, Alone(d), CalmMove(d),
           NEW m \in Memory, asked'[m] = "queued"
    PROVE  Handled(m)'
  <1>1. Grows(d)
    BY CalmGrows
  <1>2. ASSUME m \in outbox'[d] PROVE Handled(m)'
    BY <1>2 DEF Handled
  <1>3. SUFFICES ASSUME m \notin outbox'[d] PROVE Handled(m)'
    BY <1>2
  <1>4. asked[m] = "queued" /\ Handled(m)
    BY <1>3, CalmArrives DEF ForgetInv
  <1>5. CASE Record(m).st = "forgotten"
    <2>1. fleet'.rec[m].st = "forgotten"
      BY <1>1, <1>5 DEF Grows, Record
    <2> QED
      BY <2>1 DEF Handled, Record
  <1>6. ASSUME Record(m).st = "none", \A e \in Device : m \notin Rows(e) /\ ~Uploads(e, m) PROVE Handled(m)'
    <2>1. fleet'.rec[m] = fleet.rec[m]
      BY <1>1, <1>6 DEF Grows, Uploads, Record, At
    <2>2. ~Known(m)
      BY <1>6 DEF Known, CalmInv
    <2>3. At(d, "apply") => m \notin DOMAIN work[d].recs
      BY <2>2 DEF HolderInv
    <2>4. m \notin DOMAIN chunk'[d] /\ ~Uploads(d, m)'
      BY <1>4, <1>6, <2>3, CalmArrives
    <2>5. ASSUME NEW e \in Device \ {d} PROVE m \notin DOMAIN chunk'[e] /\ ~Uploads(e, m)'
      BY <1>6 DEF Alone, Rows, Uploads, At
    <2> QED
      BY <1>6, <2>1, <2>4, <2>5 DEF Handled, Record, Rows
  <1>7. ASSUME NEW e \in Device, m \in outbox[e], Record(m).st # "forgotten" PROVE Handled(m)'
    <2>1. CASE e # d
      <3>1. m \in outbox'[e]
        BY <1>7, <2>1 DEF Alone
      <3> QED
        BY <3>1 DEF Handled
    <2>2. CASE e = d
      <3>1. /\ SameFeed /\ UNCHANGED chunk /\ work'[d].pc # "send"
            /\ \/ At(d, "cursor") /\ m \in work[d].acks
               \/ At(d, "results") /\ m \in work[d].forgets \ DOMAIN work[d].items
        BY <1>3, <1>7, <2>2, CalmArrives
      <3>2. Record(m).st = "none" /\ At(d, "results")
        BY <1>7, <3>1 DEF ForgetInv, AckOf, Paging, At
      <3>3. ~Known(m) /\ Dropping(d, m) /\ Holds(d, m)
        BY <1>7, <2>2, <3>2 DEF Known, CalmInv, Dropping, Holds
      <3>4. m \notin Rows(d) /\ \A f \in Device \ {d} : ~Holds(f, m)
        BY <3>3 DEF HolderInv
      <3>5. \A f \in Device : m \notin DOMAIN chunk'[f]
        BY <3>1, <3>4 DEF Holds, Rows
      <3>6. \A f \in Device : ~Uploads(f, m)'
        BY <3>1, <3>4 DEF Holds, Uploads, At, Alone
      <3>7. Record(m)' = Record(m)
        BY <3>1 DEF SameFeed, Record
      <3> QED
        BY <3>2, <3>5, <3>6, <3>7 DEF Handled, Rows
    <2> QED
      BY <2>1, <2>2
  <1> QED
    BY <1>4, <1>5, <1>6, <1>7 DEF Handled

LEMMA ForgetInit == Init => ForgetInv
  <1> SUFFICES ASSUME Init PROVE ForgetInv
    OBVIOUS
  <1>1. \A d \in Device : DOMAIN chunk[d] = {} /\ work[d].pc = "idle"
    BY DEF Init, Idle
  <1>2. \A m \in Memory : asked[m] # "queued"
    BY DEF Init
  <1> QED
    BY <1>1, <1>2 DEF ForgetInv, PageOf, TombOf, AckOf, Paging, At, Rows

LEMMA ForgetStep ==
    ASSUME Calm, Types, FeedInv, CalmInv, HolderInv, ForgetInv, [Next]_vars
    PROVE  CalmInv' /\ HolderInv' /\ ForgetInv'
  <1>1. Types'
    BY TypesStep
  <1>2. CASE UNCHANGED vars
    <2>1. \A m \in Memory : Known(m) => Known(m)'
      BY <1>2 DEF vars, Known, Record
    <2>2. HolderInv'
      BY <2>1, HolderStep
    <2>3. CalmInv'
      BY <1>2 DEF vars, CalmInv, CalmOf
    <2>4. ForgetInv'
      BY <1>2 DEF vars, ForgetInv, PageOf, TombOf, AckOf, Handled, Uploads, At, Rows, Record
    <2> QED
      BY <2>2, <2>3, <2>4
  <1>3. CASE Next
    <2>1. PICK d \in Device : Alone(d) /\ CalmMove(d)
      BY <1>3, CalmNext
    <2>2. Grows(d) /\ CalmInv'
      BY <2>1, CalmGrows, CalmStep
    <2>3. \A m \in Memory : Known(m) => Known(m)'
      BY <2>2 DEF Known, Record, Grows, CalmInv
    <2>4. HolderInv'
      BY <2>3, HolderStep
    <2>5. PageOf(d)' /\ TombOf(d)' /\ AckOf(d)'
      BY <1>1, <2>1, ForgetOwn
    <2>6. ASSUME NEW e \in Device \ {d} PROVE PageOf(e)' /\ TombOf(e)' /\ AckOf(e)'
      <3>1. lane'[e] = lane[e] /\ work'[e] = work[e] /\ chunk'[e] = chunk[e]
        BY <2>1 DEF Alone
      <3>2. PageOf(e) /\ TombOf(e) /\ AckOf(e)
        BY DEF ForgetInv
      <3>3. PageOf(e)' /\ TombOf(e)'
        BY <1>1, <2>2, <3>1, <3>2, PageOther
      <3>4. AckOf(e)'
        BY <2>2, <3>1, <3>2, AckOther
      <3> QED
        BY <3>3, <3>4
    <2>7. \A m \in Memory : asked'[m] = "queued" => Handled(m)'
      BY <2>1, HandledStep
    <2> QED
      BY <2>2, <2>4, <2>5, <2>6, <2>7 DEF ForgetInv
  <1> QED
    BY <1>2, <1>3

\* When all is quiet no forget is queued any more and every tombstone was read.
LEMMA ForgetGoal ==
    ASSUME Types, ForgetInv
    PROVE  ForgetWins
  <1> SUFFICES ASSUME Quiet, NEW m \in Memory, asked[m] = "queued" PROVE Dropped(m)
    BY DEF ForgetWins
  <1>1. \A d \in Device : outbox[d] = {} /\ After(lane[d].cursor) = {}
    BY DEF Quiet
  <1>2. Handled(m)
    BY DEF ForgetInv
  <1>3. CASE Record(m).st = "forgotten"
    <2>1. ASSUME NEW d \in Device, m \in Rows(d) PROVE FALSE
      <3>1. lane[d].cursor.seq < fleet.rec[m].seq /\ lane[d].cursor.seq \in Nat /\ fleet.rec[m].seq \in Nat
        BY <1>3, <2>1, FeedNumbers DEF ForgetInv, TombOf, Record
      <3> QED
        BY <1>1, <3>1 DEF After
    <2> QED
      BY <1>3, <2>1 DEF Dropped, Live, Record
  <1>4. CASE Record(m).st = "none" /\ \A d \in Device : m \notin Rows(d)
    BY <1>4 DEF Dropped, Live, Record
  <1> QED
    BY <1>1, <1>2, <1>3, <1>4 DEF Handled

\* A forget that was recorded wins (ForgetWins), with any number of devices,
\* memories, edits, scope changes, crashes, failed requests and lost answers, if
\* Fleet sweeps no tombstone and nobody erases.
THEOREM SyncForget == Calm => (Spec => []ForgetWins)
  <1> SUFFICES ASSUME Calm PROVE Spec => []ForgetWins
    OBVIOUS
  <1> DEFINE Inv == Types /\ FeedInv /\ CalmInv /\ HolderInv /\ ForgetInv
  <1>1. Init => Inv
    BY TypesInit, FeedInit, CalmInit, HolderInit, ForgetInit
  <1>2. Inv /\ [Next]_vars => Inv'
    BY TypesStep, FeedStep, ForgetStep
  <1>3. Inv => ForgetWins
    BY ForgetGoal
  <1> HIDE DEF Inv
  <1> QED
    BY <1>1, <1>2, <1>3, PTL DEF Spec

-----------------------------------------------------------------------------
(* And without scope changes.                                              *)

\* Every row is in a synced scope: nobody demotes a memory.
AllSynced == \A d \in Device : \A m \in Rows(d) : chunk[d][m].scope = "sync"

\* Fleet has no demoted memory, and none is on its way.
SyncFleet == \A m \in Memory : Record(m).st # "left"

SyncOf(d) ==
    /\ At(d, "apply") => \A m \in DOMAIN work[d].recs : work[d].recs[m].st # "left"
    /\ Pushing(work[d]) => \A m \in DOMAIN work[d].items :
                               work[d].items[m].scope = "sync" /\ ~work[d].items[m].demote

Pardoned(m) == asked[m] \in {"cut", "void"}

\* d has the memory, or its user asked for it to go.
Seen(d, m) == m \in Rows(d) \/ m \in outbox[d] \/ <<m, TRUE>> \in removing[d] \/ Pardoned(m)

Newer(d, m) == m \in Rows(d) /\ m \notin outbox[d] => chunk[d][m].ph >= Record(m).ph

\* What d has read up to place n of the feed.
Read(d, m, n) == Live(m) /\ Record(m).seq <= n => Seen(d, m) /\ Newer(d, m)

ReadOf(d) ==
    \A m \in Memory :
        /\ Read(d, m, lane[d].cursor.seq)
        /\ At(d, "cursor") => Read(d, m, work[d].cu.seq)
        /\ At(d, "apply") /\ m \notin DOMAIN work[d].recs => Read(d, m, work[d].cu.seq)

\* What a row says of Fleet, and a pulled record too.
MarkOf(d) ==
    /\ \A m \in Rows(d) :
        /\ Record(m).st # "none" => FleetMayKnow(chunk[d][m])
        /\ chunk[d][m].syn # 0 \/ ~chunk[d][m].dirty => Record(m).st # "none"
        /\ ~chunk[d][m].dirty /\ Live(m) => chunk[d][m].ph <= Record(m).ph
    /\ At(d, "apply") => \A m \in DOMAIN work[d].recs : Live(m) => work[d].recs[m].ph <= Record(m).ph

\* An item is the row it was made of unless the row was edited since.
Copy(c, i) == c.sent /\ i.gen <= c.gen /\ (i.gen = c.gen => i.ph = c.ph)

\* An accepted item is on Fleet, and what Fleet calls forgotten is.
ItemOf(d) ==
    /\ Pushing(work[d]) => \A m \in DOMAIN work[d].items :
        asked[m] # "no" /\ (m \in Rows(d) => Copy(chunk[d][m], work[d].items[m]))
    /\ At(d, "send") => \A m \in DOMAIN work[d].items \cap work[d].forgets : Record(m).st # "none"
    /\ work[d].pc \in {"results", "outcomes"} => \A m \in DOMAIN work[d].items :
        /\ work[d].res[m] = "accepted" => \/ Record(m).st = "forgotten"
                                          \/ Live(m) /\ work[d].items[m].ph <= Record(m).ph
        /\ work[d].res[m] = "forgotten" => Record(m).st = "forgotten"
    /\ At(d, "outcomes") => \A m \in DOMAIN work[d].items : work[d].res[m] # "sync_disabled"

\* A device's clock is not behind a stamp of its rows, nor of what it pulled.
Ahead(d) ==
    /\ \A m \in Rows(d) : chunk[d][m].ph <= clock[d] * N + N
    /\ At(d, "apply") => \A m \in DOMAIN work[d].recs : work[d].recs[m].ph <= clock[d] * N + N

AgreeOf(d) == SyncOf(d) /\ ReadOf(d) /\ MarkOf(d) /\ ItemOf(d) /\ Ahead(d)

\* The pins there are of a memory, with their stamps: in the record, the rows and
\* the copies in flight.
VersionOf(d, m, p, b) ==
    \/ m \in Rows(d) /\ p = chunk[d][m].ph /\ b = chunk[d][m].pin
    \/ At(d, "apply") /\ m \in DOMAIN work[d].recs /\ p = work[d].recs[m].ph /\ b = work[d].recs[m].pin
    \/ Uploads(d, m) /\ p = work[d].items[m].ph /\ b = work[d].items[m].pin

Version(m, p, b) ==
    \/ p = Record(m).ph /\ b = Record(m).pin
    \/ \E d \in Device : VersionOf(d, m, p, b)

\* A stamp that was given out.
Stamp(n) == n = 0 \/ \E e \in Device : \E k \in Nat : k <= clock[e] /\ n = k * N + e

\* A stamp stands for one pin.
PinInv ==
    \A m \in Memory : \A p, b, c :
        Version(m, p, b) => Stamp(p) /\ (p = 0 => b = FALSE) /\ (Version(m, p, c) => b = c)

LEMMA StampArith ==
    ASSUME NEW k \in Nat
    PROVE  /\ k * N \in Nat /\ (k + 1) * N = k * N + N
           /\ \A j \in Nat : k <= j => k * N <= j * N
           /\ \A p \in Nat : p \div N <= k => p <= k * N + N
  BY SyncConstants

\* Stamps of two ticks differ.
LEMMA StampUnique ==
    ASSUME NEW k \in Nat, NEW j \in Nat, NEW d \in Device, NEW e \in Device, k * N + d = j * N + e
    PROVE  k = j /\ d = e
  <1>1. ASSUME NEW x \in Nat, NEW y \in Nat, NEW a \in Device, NEW b \in Device, x < y
        PROVE  x * N + a < y * N + b
    <2>1. (x + 1) * N <= y * N /\ (x + 1) * N = x * N + N /\ x * N \in Nat /\ y * N \in Nat
      <3>1. x + 1 \in Nat /\ x + 1 <= y
        BY <1>1
      <3> QED
        BY <3>1, StampArith
    <2> QED
      BY <2>1, SyncConstants DEF Device
  <1>2. k * N \in Nat /\ j * N \in Nat
    BY StampArith
  <1>3. ~(k < j) /\ ~(j < k)
    <2>1. k < j => k * N + d < j * N + e
      BY <1>1
    <2>2. j < k => j * N + e < k * N + d
      BY <1>1
    <2> QED
      BY <1>2, <2>1, <2>2 DEF Device
  <1>4. k = j
    BY <1>3
  <1> QED
    BY <1>2, <1>4 DEF Device

\* The fields of a row after an edit of its pin, an answer, a pulled record, a mark.
Repinned(c, n) == Touch([c EXCEPT !.pin = ~@, !.ph = n])

LEMMA PinnedFields ==
    ASSUME NEW c \in Chunk, NEW n \in Nat
    PROVE  LET u == Repinned(c, n) IN
           /\ u.ph = n /\ (u.pin <=> ~c.pin) /\ u.dirty /\ u.gen = c.gen + 1 /\ u.syn = c.syn
           /\ (u.sent <=> c.sent) /\ u.scope = c.scope /\ u \in Chunk
  <1> DEFINE e == [c EXCEPT !.pin = ~@, !.ph = n]
  <1>1. e \in Chunk /\ e.ph = n /\ e.gen = c.gen /\ e.syn = c.syn /\ e.scope = c.scope /\ e.sent = c.sent
    BY DEF Chunk
  <1>2. e.pin = ~c.pin
    BY DEF Chunk
  <1> HIDE DEF e
  <1>3. e.gen \in Nat
    BY <1>1 DEF Chunk
  <1>4. PICK g \in Nat : g = e.gen + 1
    BY <1>3
  <1> DEFINE t == [e EXCEPT !.dirty = TRUE, !.gen = g]
  <1>5. Touch(e) = t
    BY <1>4 DEF Touch
  <1>6. t.ph = e.ph /\ t.pin = e.pin /\ t.dirty = TRUE /\ t.gen = g /\ t.syn = e.syn /\ t.sent = e.sent
        /\ t.scope = e.scope /\ t \in Chunk
    BY <1>1 DEF Chunk
  <1> DEFINE u == Repinned(c, n)
  <1>7. u = t
    BY <1>5 DEF e, Repinned
  <1> HIDE DEF u
  <1> HIDE DEF t
  <1>8. (u.pin <=> ~c.pin) /\ u.dirty /\ (u.sent <=> c.sent)
    BY <1>1, <1>2, <1>6, <1>7, Zenon
  <1> QED
    BY <1>1, <1>4, <1>6, <1>7, <1>8 DEF u

LEMMA OutcomeFields ==
    ASSUME NEW c \in Chunk, NEW it \in Item, ~it.demote, NEW res \in {"accepted", "content"}
    PROVE  LET o == Outcome(c, it, res) IN
           /\ o.ph = c.ph /\ o.pin = c.pin /\ o.gen = c.gen /\ (o.sent <=> c.sent)
           /\ o.syn # 0 => c.syn # 0 \/ res = "accepted"
           /\ ~o.dirty => ~c.dirty \/ (res = "accepted" /\ c.gen = it.gen)
  <1> DEFINE s == [c EXCEPT !.syn = 1]
             z == [c EXCEPT !.syn = 0]
             t == [s EXCEPT !.dirty = FALSE]
  <1>1. CASE res = "content"
    <2>1. Outcome(c, it, res) = z
      BY <1>1 DEF Outcome
    <2>2. z.ph = c.ph /\ z.pin = c.pin /\ z.gen = c.gen /\ z.sent = c.sent /\ z.syn = 0 /\ z.dirty = c.dirty
      BY DEF Chunk
    <2> HIDE DEF z
    <2> QED
      BY <2>1, <2>2
  <1>2. CASE res = "accepted"
    <2>1. Outcome(c, it, res) = IF c.gen = it.gen THEN t ELSE s
      BY <1>2 DEF Outcome
    <2>2. s.ph = c.ph /\ s.pin = c.pin /\ s.gen = c.gen /\ s.sent = c.sent /\ s.dirty = c.dirty
      BY DEF Chunk
    <2>3. t.ph = c.ph /\ t.pin = c.pin /\ t.gen = c.gen /\ t.sent = c.sent
      BY DEF Chunk
    <2> HIDE DEF t, s
    <2> QED
      BY <1>2, <2>1, <2>2, <2>3
  <1> QED
    BY <1>1, <1>2

LEMMA PulledFields ==
    ASSUME NEW c \in Chunk, NEW r \in Rec
    PROVE  /\ LET p == Pulled(c, r, 1) IN
              /\ p.syn = 1 /\ p.ph >= r.ph /\ (p.dirty <=> c.dirty)
              /\ \/ p.ph = c.ph /\ p.pin = c.pin
                 \/ p.ph = r.ph /\ p.pin = r.pin
           /\ LET i == Inserted(r, 1) IN i.syn = 1 /\ i.ph = r.ph /\ i.pin = r.pin /\ ~i.dirty
  <1>1. c.ph \in Nat /\ r.ph \in Nat
    BY DEF Chunk, Rec
  <1>2. Inserted(r, 1).syn = 1 /\ Inserted(r, 1).ph = r.ph /\ Inserted(r, 1).pin = r.pin
        /\ Inserted(r, 1).dirty = FALSE
    BY DEF Inserted
  <1> DEFINE p == Pulled(c, r, 1)
  <1>3. p.syn = 1 /\ p.dirty = c.dirty /\ p.ph = IF r.ph > c.ph THEN r.ph ELSE c.ph
    BY DEF Pulled, Chunk
  <1>4. p.pin = IF r.ph > c.ph THEN r.pin ELSE c.pin
    BY DEF Pulled, Chunk
  <1> HIDE DEF p
  <1>5. p.ph >= r.ph
    BY <1>1, <1>3
  <1>6. (p.ph = c.ph /\ p.pin = c.pin) \/ (p.ph = r.ph /\ p.pin = r.pin)
    BY <1>3, <1>4
  <1>7. p.dirty <=> c.dirty
    BY <1>3, Zenon
  <1> QED
    BY <1>2, <1>3, <1>5, <1>6, <1>7 DEF p

LEMMA MarkedFields ==
    ASSUME NEW c \in Chunk, NEW h
    PROVE  /\ LET k == Marked(c, h) IN /\ k.ph = c.ph /\ k.pin = c.pin /\ k.gen = c.gen /\ k.sent
                                    /\ k.syn = c.syn /\ (k.dirty <=> c.dirty)
           /\ LET i == BuildItem(c) IN /\ i.ph = c.ph /\ i.pin = c.pin /\ i.gen = c.gen /\ i.scope = c.scope
                                       /\ (i.demote <=> c.scope = "local")
  <1>1. /\ BuildItem(c).ph = c.ph /\ BuildItem(c).pin = c.pin /\ BuildItem(c).gen = c.gen
        /\ BuildItem(c).scope = c.scope /\ BuildItem(c).demote = (c.scope = "local")
    BY DEF BuildItem
  <1>2. /\ Marked(c, h).ph = c.ph /\ Marked(c, h).pin = c.pin /\ Marked(c, h).gen = c.gen /\ Marked(c, h).sent = TRUE
        /\ Marked(c, h).syn = c.syn /\ Marked(c, h).dirty = c.dirty
    BY DEF Marked, Chunk
  <1>3. (BuildItem(c).demote <=> c.scope = "local") /\ Marked(c, h).sent /\ (Marked(c, h).dirty <=> c.dirty)
    BY <1>1, <1>2, Zenon
  <1> QED
    BY <1>1, <1>2, <1>3

\* An upsert while no memory is demoted.
LEMMA UpsertedSync ==
    ASSUME NEW r \in Rec, NEW it \in Item, r.st # "left", it.scope = "sync", ~it.demote
    PROVE  LET u == Upserted(r, it) IN
           /\ u.st # "left" /\ (r.st = "live" => u.st = "live" /\ u.ph >= r.ph /\ u.ph >= it.ph)
           /\ (u.ph = r.ph /\ u.pin = r.pin) \/ (u.ph = it.ph /\ u.pin = it.pin)
           /\ r.st = "none" /\ it.content => u.st = "live" /\ u.ph = it.ph
  <1>1. r.ph \in Nat /\ it.ph \in Nat /\ r.st \in {"none", "live", "left", "forgotten"}
    BY DEF Rec, Item
  <1>2. CASE r.st = "live"
    <2>1. Upserted(r, it) = Merge(r, it)
      BY <1>2 DEF Upserted
    <2>2. Merge(r, it).st = "live" /\ Merge(r, it).ph = IF it.ph > r.ph THEN it.ph ELSE r.ph
      BY DEF Merge
    <2>3. Merge(r, it).pin = IF it.ph > r.ph THEN it.pin ELSE r.pin
      BY DEF Merge
    <2> QED
      BY <1>1, <1>2, <2>1, <2>2, <2>3
  <1>3. CASE r.st = "none" /\ it.content
    <2>1. Upserted(r, it) = Create(it)
      BY <1>3 DEF Upserted
    <2>2. Create(it).st = "live" /\ Create(it).ph = it.ph /\ Create(it).pin = it.pin
      BY DEF Create
    <2> QED
      BY <1>3, <2>1, <2>2
  <1>4. CASE r.st = "forgotten" \/ (r.st = "none" /\ ~it.content)
    <2>1. Upserted(r, it) = r
      BY <1>4 DEF Upserted
    <2> QED
      BY <1>4, <2>1
  <1> QED
    BY <1>1, <1>2, <1>3, <1>4

\* What a push does to the records while no memory is demoted.
Rises(d) ==
    \A m \in Memory :
        \/ fleet'.rec[m] = fleet.rec[m]
        \/ /\ At(d, "send") /\ fleet.seq < fleet'.rec[m].seq
           /\ fleet'.rec[m].st \in {"live", "forgotten"} /\ fleet.rec[m].st # "forgotten"
           /\ fleet.rec[m].st = "none" => Uploads(d, m)
           /\ fleet.rec[m].st = "live" /\ fleet'.rec[m].st = "live" => fleet.rec[m].ph <= fleet'.rec[m].ph

LEMMA SendRises ==
    ASSUME Types, SyncFleet, NEW d \in Device, SyncOf(d), Send(d)
    PROVE  /\ Rises(d) /\ SyncFleet'
           /\ \A m \in Memory :
                \/ fleet'.rec[m].ph = fleet.rec[m].ph /\ fleet'.rec[m].pin = fleet.rec[m].pin
                \/ fleet'.rec[m].ph = 0 /\ fleet'.rec[m].pin = FALSE
                \/ /\ m \in DOMAIN work[d].items
                   /\ fleet'.rec[m].ph = work[d].items[m].ph /\ fleet'.rec[m].pin = work[d].items[m].pin
           /\ \A m \in DOMAIN work[d].items :
                /\ work'[d].res[m] = "accepted" => \/ fleet'.rec[m].st = "forgotten"
                                                   \/ fleet'.rec[m].st = "live" /\ work[d].items[m].ph <= fleet'.rec[m].ph
                /\ work'[d].res[m] = "forgotten" /\ (m \in work[d].forgets => fleet.rec[m].st # "none") =>
                        fleet'.rec[m].st = "forgotten"
  <1>1. /\ work[d].pc = "send" /\ \A m \in DOMAIN work[d].items :
                /\ m \in Memory /\ work[d].items[m] \in Item
                /\ work'[d].res[m] = IF m \in work[d].forgets THEN "forgotten"
                                     ELSE IF Blanket(d) # "" THEN Blanket(d)
                                     ELSE Answer(fleet.rec[m], work[d].items[m])
    BY SendWork
  <1>2. \A m \in DOMAIN work[d].items : work[d].items[m].scope = "sync" /\ ~work[d].items[m].demote
    BY <1>1 DEF SyncOf, Pushing
  <1>3. fleet.seq \in Nat /\ \A m \in Memory : fleet.rec[m] \in Rec /\ fleet.rec[m].st # "left"
    BY FeedNumbers DEF SyncFleet, Record
  <1>4. ASSUME NEW m \in Memory
        PROVE  LET r == fleet.rec[m]
                   s == fleet'.rec[m]
                   i == work[d].items[m]
                   in == m \in DOMAIN work[d].items
               IN
               /\ s.st # "left"
               /\ s = r \/ /\ fleet.seq < s.seq /\ s.st \in {"live", "forgotten"} /\ r.st # "forgotten"
                           /\ r.st = "none" => in
                           /\ r.st = "live" /\ s.st = "live" => r.ph <= s.ph
               /\ \/ s.ph = r.ph /\ s.pin = r.pin
                  \/ s.ph = 0 /\ s.pin = FALSE
                  \/ in /\ s.ph = i.ph /\ s.pin = i.pin
               /\ in /\ work'[d].res[m] = "accepted" => s.st = "forgotten" \/ (s.st = "live" /\ i.ph <= s.ph)
               /\ in /\ work'[d].res[m] = "forgotten" /\ (m \in work[d].forgets => r.st # "none") => s.st = "forgotten"
    <2> DEFINE r == fleet.rec[m]
               s == fleet'.rec[m]
               i == work[d].items[m]
               in == m \in DOMAIN work[d].items
               went == m \in work[d].forgets /\ r.st \in {"live", "left"}
               put == ~went /\ in /\ Blanket(d) = ""
    <2>1. /\ went => Issued(s, [Gone EXCEPT !.st = "forgotten"], fleet.seq, fleet'.seq)
          /\ put => IF Upserted(r, i) = r THEN s = r ELSE Issued(s, Upserted(r, i), fleet.seq, fleet'.seq)
          /\ ~went /\ ~put => s = r
      BY SendRecord
    <2>2. r \in Rec /\ r.st \in {"none", "live", "forgotten"} /\ r.ph \in Nat
      BY <1>3 DEF Rec
    <2>3. in => i \in Item /\ i.ph \in Nat
      BY <1>1 DEF Item
    <2>4. CASE went
      <3> DEFINE g == [Gone EXCEPT !.st = "forgotten"]
      <3>1. g.st = "forgotten" /\ g.ph = 0 /\ g.pin = FALSE
        BY DEF Gone
      <3>2. Issued(s, g, fleet.seq, fleet'.seq)
        BY <2>1, <2>4
      <3> HIDE DEF g
      <3>3. s.st = "forgotten" /\ s.ph = 0 /\ s.pin = FALSE /\ fleet.seq < s.seq
        BY <3>1, <3>2 DEF Issued
      <3> QED
        BY <2>4, <3>3
    <2>5. CASE ~went /\ put
      <3> DEFINE u == Upserted(r, i)
      <3>1. /\ u.st # "left" /\ (r.st = "live" => u.st = "live" /\ u.ph >= r.ph /\ u.ph >= i.ph)
            /\ (u.ph = r.ph /\ u.pin = r.pin) \/ (u.ph = i.ph /\ u.pin = i.pin)
            /\ r.st = "none" /\ i.content => u.st = "live" /\ u.ph = i.ph
        BY <1>2, <1>3, <2>3, <2>5, UpsertedSync
      <3>2. r.st = "forgotten" => u = r
        BY <2>2, <2>3, <2>5, UpsertedSt
      <3>3. u # r => u.st \in {"live", "left"}
        BY <2>2, <2>3, <2>5, UpsertedSt
      <3>4. IF u = r THEN s = r ELSE Issued(s, u, fleet.seq, fleet'.seq)
        BY <2>1, <2>5
      <3>5. work'[d].res[m] = IF m \in work[d].forgets THEN "forgotten" ELSE Answer(r, i)
        BY <1>1, <2>5
      <3>6. Answer(r, i) = CASE r.st = "forgotten" -> "forgotten" [] r.st = "live" -> "accepted"
                             [] OTHER -> IF i.content THEN "accepted" ELSE "content"
        BY <2>2 DEF Answer
      <3> HIDE DEF u
      <3>7. s.st = u.st /\ s.ph = u.ph /\ s.pin = u.pin
        BY <3>4 DEF Issued
      <3>8. s = r \/ (fleet.seq < s.seq /\ s.st = "live" /\ r.st # "forgotten")
        BY <3>1, <3>2, <3>3, <3>4, <3>7 DEF Issued
      <3>9. u.ph \in Nat
        BY <2>2, <2>3, <2>5, <3>1
      <3>10. r.st = "live" => r.ph <= s.ph /\ i.ph <= s.ph /\ s.st = "live"
        BY <2>2, <2>3, <2>5, <3>1, <3>7, <3>9
      <3>11. work'[d].res[m] = "accepted" => s.st = "forgotten" \/ (s.st = "live" /\ i.ph <= s.ph)
        <4>1. CASE r.st = "none" /\ i.content
          <5>1. u.st = "live" /\ u.ph = i.ph
            BY <3>1, <4>1, Zenon
          <5>2. in
            BY <2>5
          <5>3. i.ph \in Nat
            BY <2>3, <5>2
          <5> QED
            BY <3>7, <5>1, <5>3
        <4>2. CASE r.st = "none" /\ ~i.content
          <5>1. Answer(r, i) = "content"
            BY <4>2 DEF Answer
          <5> QED
            BY <3>5, <5>1
        <4>3. CASE r.st = "live"
          BY <3>10, <4>3
        <4>4. CASE r.st = "forgotten"
          BY <3>2, <3>7, <4>4
        <4> QED
          BY <2>2, <4>1, <4>2, <4>3, <4>4
      <3>12. work'[d].res[m] = "forgotten" /\ (m \in work[d].forgets => r.st # "none") => s.st = "forgotten"
        BY <2>2, <2>5, <3>2, <3>5, <3>6, <3>7
      <3>13. (s.ph = r.ph /\ s.pin = r.pin) \/ (s.ph = i.ph /\ s.pin = i.pin)
        BY <3>1, <3>7
      <3> QED
        BY <2>5, <3>1, <3>7, <3>8, <3>10, <3>11, <3>12, <3>13
    <2>6. CASE ~went /\ ~put
      <3>1. s = r
        BY <2>1, <2>6
      <3>2. in => work'[d].res[m] = IF m \in work[d].forgets THEN "forgotten" ELSE Blanket(d)
        BY <1>1, <2>6
      <3>3. Blanket(d) \notin {"accepted", "forgotten"}
        BY DEF Blanket
      <3> QED
        BY <2>2, <2>6, <3>1, <3>2, <3>3
    <2> QED
      BY <2>4, <2>5, <2>6
  <1>5. Rises(d)
    BY <1>1, <1>4 DEF Rises, Uploads, At
  <1>6. SyncFleet'
    BY <1>4 DEF SyncFleet, Record
  <1> QED
    BY <1>1, <1>4, <1>5, <1>6

\* What e keeps when its rows, its outbox and its cursor stay: of its locals it may
\* drop all.
LEMMA AgreeStill ==
    ASSUME Types, Types', FeedInv, CalmInv, HolderInv, SyncFleet, NEW d \in Device, Rises(d),
           NEW e \in Device, e # d \/ SameFeed, AgreeOf(e),
           lane'[e].cursor = lane[e].cursor, chunk'[e] = chunk[e], outbox'[e] = outbox[e],
           clock[e] <= clock'[e],
           \/ work'[e] = work[e]
           \/ ~Paging(work'[e]) /\ (Pushing(work'[e]) => work'[e].pc = "send" /\ DOMAIN work'[e].items = {}),
           \A m \in Memory : /\ <<m, TRUE>> \in removing[e] => <<m, TRUE>> \in removing'[e] \/ Pardoned(m)'
                             /\ Pardoned(m) => Pardoned(m)'
                             /\ asked'[m] = "no" => asked[m] = "no"
    PROVE  AgreeOf(e)'
  <1>1. /\ fleet.seq \in Nat /\ lane[e].cursor.seq \in Nat /\ lane[e].cursor.seq <= fleet.seq
        /\ \A m \in Memory : /\ fleet.rec[m].seq \in Nat /\ fleet'.rec[m].seq \in Nat
                             /\ fleet.rec[m].ph \in Nat /\ fleet'.rec[m].ph \in Nat
                             /\ fleet.rec[m].st \in {"none", "live", "forgotten"}
        /\ Paging(work[e]) => work[e].cu.seq \in Nat /\ work[e].cu.seq <= fleet.seq
    <2>1. \A m \in Memory : /\ fleet.rec[m].seq \in Nat /\ fleet'.rec[m].seq \in Nat
                            /\ fleet.rec[m].ph \in Nat /\ fleet'.rec[m].ph \in Nat
                            /\ fleet.rec[m].st \in {"none", "live", "forgotten"}
      BY DEF Types, Service, Rec, SyncFleet, Record
    <2>2. lane[e].cursor.seq <= fleet.seq /\ (Paging(work[e]) => work[e].cu.seq <= fleet.seq)
      BY DEF FeedInv, FeedOf, Placed
    <2> QED
      BY <2>1, <2>2, FeedNumbers
  <1>2. /\ Rows(e) \subseteq Memory /\ \A m \in Rows(e) : chunk[e][m].ph \in Nat
        /\ At(e, "apply") => \A m \in DOMAIN work[e].recs : m \in Memory /\ work[e].recs[m].ph \in Nat
        /\ Pushing(work[e]) => \A m \in DOMAIN work[e].items : m \in Memory /\ work[e].items[m].ph \in Nat
    <2>1. Rows(e) \subseteq Memory /\ \A m \in Rows(e) : chunk[e][m].ph \in Nat
      BY DEF Types, StoreTypes, Store, Rows, Chunk
    <2>2. At(e, "apply") => \A m \in DOMAIN work[e].recs : m \in Memory /\ work[e].recs[m].ph \in Nat
      BY DEF Types, WorkTypes, WorkOK, At, Rec
    <2>3. Pushing(work[e]) => \A m \in DOMAIN work[e].items : m \in Memory /\ work[e].items[m].ph \in Nat
      BY DEF Types, WorkTypes, WorkOK, Item
    <2> QED
      BY <2>1, <2>2, <2>3
  <1>3. ASSUME NEW m \in Memory
        PROVE  \/ fleet'.rec[m] = fleet.rec[m]
               \/ /\ fleet.seq < fleet'.rec[m].seq /\ fleet'.rec[m].st \in {"live", "forgotten"}
                  /\ fleet.rec[m].st # "forgotten"
                  /\ m \in Rows(e) \/ (At(e, "apply") /\ m \in DOMAIN work[e].recs) => fleet.rec[m].st = "live"
                  /\ fleet.rec[m].st = "live" /\ fleet'.rec[m].st = "live" => fleet.rec[m].ph <= fleet'.rec[m].ph
    <2>1. CASE SameFeed
      BY <2>1 DEF SameFeed
    <2>2. CASE e # d
      <3>1. fleet.rec[m].st = "none" => ~Known(m)
        BY DEF Known, Record, CalmInv
      <3>2. fleet.rec[m].st = "none" /\ Uploads(d, m) =>
                m \notin Rows(e) /\ ~(At(e, "apply") /\ m \in DOMAIN work[e].recs)
        BY <2>2, <3>1 DEF HolderInv, Holds
      <3> QED
        BY <1>1, <3>2 DEF Rises
    <2> QED
      BY <2>1, <2>2
  <1>4. SyncOf(e)'
    BY DEF AgreeOf, SyncOf, At, Paging, Pushing
  <1>5. ReadOf(e)'
    <2>1. ASSUME NEW m \in Memory, NEW n \in Nat, n <= fleet.seq, Read(e, m, n) PROVE Read(e, m, n)'
      <3>1. SUFFICES ASSUME fleet'.rec[m].st = "live", fleet'.rec[m].seq <= n PROVE Seen(e, m)' /\ Newer(e, m)'
        BY DEF Read, Live, Record
      <3>2. fleet'.rec[m] = fleet.rec[m]
        BY <1>1, <1>3, <2>1, <3>1
      <3>3. Seen(e, m) /\ Newer(e, m)
        BY <2>1, <3>1, <3>2 DEF Read, Live, Record
      <3> QED
        BY <3>2, <3>3 DEF Seen, Newer, Rows, Record
    <2>2. ASSUME NEW m \in Memory
          PROVE  /\ Read(e, m, lane[e].cursor.seq)'
                 /\ work'[e].pc = "cursor" => Read(e, m, work[e].cu.seq)'
                 /\ work'[e].pc = "apply" /\ m \notin DOMAIN work'[e].recs => Read(e, m, work[e].cu.seq)'
      <3>1. /\ Read(e, m, lane[e].cursor.seq)
            /\ work[e].pc = "cursor" => Read(e, m, work[e].cu.seq)
            /\ work[e].pc = "apply" /\ m \notin DOMAIN work[e].recs => Read(e, m, work[e].cu.seq)
        BY DEF AgreeOf, ReadOf, At
      <3>2. Read(e, m, lane[e].cursor.seq)'
        BY <1>1, <2>1, <3>1
      <3>3. ASSUME work'[e].pc \in {"cursor", "apply"} PROVE work'[e] = work[e] /\ Paging(work[e])
        BY <3>3 DEF Paging
      <3>4. ASSUME work'[e].pc = "cursor" PROVE Read(e, m, work[e].cu.seq)'
        BY <1>1, <2>1, <3>1, <3>3, <3>4
      <3>5. ASSUME work'[e].pc = "apply", m \notin DOMAIN work'[e].recs PROVE Read(e, m, work[e].cu.seq)'
        BY <1>1, <2>1, <3>1, <3>3, <3>5
      <3> QED
        BY <3>2, <3>4, <3>5
    <2> QED
      BY <2>2 DEF ReadOf, At
  <1>6. MarkOf(e)'
    <2>1. ASSUME NEW m \in Rows(e)
          PROVE  /\ fleet'.rec[m].st # "none" => FleetMayKnow(chunk[e][m])
                 /\ chunk[e][m].syn # 0 \/ ~chunk[e][m].dirty => fleet'.rec[m].st # "none"
                 /\ ~chunk[e][m].dirty /\ fleet'.rec[m].st = "live" => chunk[e][m].ph <= fleet'.rec[m].ph
      <3>1. /\ fleet.rec[m].st # "none" => FleetMayKnow(chunk[e][m])
            /\ chunk[e][m].syn # 0 \/ ~chunk[e][m].dirty => fleet.rec[m].st # "none"
            /\ ~chunk[e][m].dirty /\ fleet.rec[m].st = "live" => chunk[e][m].ph <= fleet.rec[m].ph
        BY DEF AgreeOf, MarkOf, Record, Live
      <3> QED
        BY <1>1, <1>2, <1>3, <3>1
    <2>2. ASSUME work'[e].pc = "apply", NEW m \in DOMAIN work'[e].recs, fleet'.rec[m].st = "live"
          PROVE  work'[e].recs[m].ph <= fleet'.rec[m].ph
      <3>1. work'[e] = work[e] /\ At(e, "apply")
        BY <2>2 DEF Paging, At
      <3>2. fleet.rec[m].st = "live" => work[e].recs[m].ph <= fleet.rec[m].ph
        BY <2>2, <3>1 DEF AgreeOf, MarkOf, Record, Live
      <3> QED
        BY <1>1, <1>2, <1>3, <2>2, <3>1, <3>2
    <2> QED
      BY <2>1, <2>2 DEF MarkOf, Rows, Record, Live, At
  <1>7. ItemOf(e)'
    <2>1. ItemOf(e)
      BY DEF AgreeOf
    <2>2. CASE work'[e] = work[e]
      <3>1. ASSUME Pushing(work[e]), NEW m \in DOMAIN work[e].items
            PROVE  asked'[m] # "no" /\ (m \in Rows(e) => Copy(chunk[e][m], work[e].items[m]))
        BY <1>2, <2>1, <3>1 DEF ItemOf
      <3>2. ASSUME At(e, "send"), NEW m \in DOMAIN work[e].items \cap work[e].forgets PROVE fleet'.rec[m].st # "none"
        <4>1. m \in Memory /\ fleet.rec[m].st # "none"
          BY <1>2, <2>1, <3>2 DEF ItemOf, Record, At, Pushing
        <4> QED
          BY <1>3, <4>1
      <3>3. ASSUME work[e].pc \in {"results", "outcomes"}, NEW m \in DOMAIN work[e].items
            PROVE  /\ work[e].res[m] = "accepted" => \/ fleet'.rec[m].st = "forgotten"
                                                     \/ fleet'.rec[m].st = "live" /\ work[e].items[m].ph <= fleet'.rec[m].ph
                   /\ work[e].res[m] = "forgotten" => fleet'.rec[m].st = "forgotten"
        <4>1. m \in Memory /\ work[e].items[m].ph \in Nat
          BY <1>2, <3>3 DEF Pushing
        <4>2. /\ work[e].res[m] = "accepted" => \/ fleet.rec[m].st = "forgotten"
                                                \/ fleet.rec[m].st = "live" /\ work[e].items[m].ph <= fleet.rec[m].ph
              /\ work[e].res[m] = "forgotten" => fleet.rec[m].st = "forgotten"
          BY <2>1, <3>3 DEF ItemOf, Record, Live
        <4> QED
          BY <1>1, <1>3, <4>1, <4>2
      <3> QED
        BY <2>1, <2>2, <3>1, <3>2, <3>3 DEF ItemOf, Rows, Record, Live, At
    <2>3. CASE Pushing(work'[e]) => work'[e].pc = "send" /\ DOMAIN work'[e].items = {}
      BY <2>3 DEF ItemOf, Pushing, At
    <2> QED
      BY <2>2, <2>3
  <1>8. Ahead(e)'
    <2>1. clock[e] \in Nat /\ clock'[e] \in Nat /\ clock[e] * N \in Nat /\ clock'[e] * N \in Nat
          /\ clock[e] * N <= clock'[e] * N
      BY StampArith DEF Types
    <2> DEFINE low == clock[e] * N
               high == clock'[e] * N
    <2>2. \A m \in Rows(e) : chunk[e][m].ph <= low + N
      BY DEF AgreeOf, Ahead
    <2>3. At(e, "apply") => \A m \in DOMAIN work[e].recs : work[e].recs[m].ph <= low + N
      BY DEF AgreeOf, Ahead
    <2>4. low \in Nat /\ high \in Nat /\ low <= high
      BY <2>1
    <2> HIDE DEF low, high
    <2>5. \A m \in Rows(e) : chunk[e][m].ph <= high + N
      BY <1>2, <2>2, <2>4, SyncConstants
    <2>6. work'[e].pc = "apply" => \A m \in DOMAIN work'[e].recs : work'[e].recs[m].ph <= high + N
      <3>1. work'[e].pc = "apply" => work'[e] = work[e]
        BY DEF Paging
      <3> QED
        BY <1>2, <2>3, <2>4, <3>1, SyncConstants DEF At
    <2> QED
      BY <2>5, <2>6 DEF Ahead, Rows, At, high
  <1> QED
    BY <1>4, <1>5, <1>6, <1>7, <1>8 DEF AgreeOf

\* The types of what a device has.
LEMMA AgreeTypes ==
    ASSUME Types, NEW d \in Device
    PROVE  /\ Rows(d) \subseteq Memory
           /\ \A m \in Rows(d) : chunk[d][m] \in Chunk /\ chunk[d][m].ph \in Nat /\ chunk[d][m].gen \in Nat
           /\ \A m \in Memory : fleet.rec[m] \in Rec /\ fleet.rec[m].ph \in Nat /\ fleet.rec[m].seq \in Nat
           /\ At(d, "apply") => \A m \in DOMAIN work[d].recs :
                    m \in Memory /\ work[d].recs[m] \in Rec /\ work[d].recs[m].ph \in Nat
           /\ Pushing(work[d]) => \A m \in DOMAIN work[d].items :
                    /\ m \in Memory /\ work[d].items[m] \in Item /\ work[d].items[m].ph \in Nat
                    /\ work[d].items[m].gen \in Nat
           /\ clock[d] \in Nat /\ clock[d] * N \in Nat /\ N \in Nat
  <1>1. /\ Rows(d) \subseteq Memory
        /\ \A m \in Rows(d) : chunk[d][m] \in Chunk /\ chunk[d][m].ph \in Nat /\ chunk[d][m].gen \in Nat
    BY DEF Types, StoreTypes, Store, Rows, Chunk
  <1>2. \A m \in Memory : fleet.rec[m] \in Rec /\ fleet.rec[m].ph \in Nat /\ fleet.rec[m].seq \in Nat
    BY DEF Types, Service, Rec
  <1>3. At(d, "apply") => \A m \in DOMAIN work[d].recs :
                    m \in Memory /\ work[d].recs[m] \in Rec /\ work[d].recs[m].ph \in Nat
    BY DEF Types, WorkTypes, WorkOK, At, Rec
  <1>4. Pushing(work[d]) => \A m \in DOMAIN work[d].items :
                    /\ m \in Memory /\ work[d].items[m] \in Item /\ work[d].items[m].ph \in Nat
                    /\ work[d].items[m].gen \in Nat
    BY DEF Types, WorkTypes, WorkOK, Item
  <1>5. clock[d] \in Nat /\ clock[d] * N \in Nat /\ N \in Nat
    BY StampArith, SyncConstants DEF Types
  <1> QED
    BY <1>1, <1>2, <1>3, <1>4, <1>5

\* A tick is after every stamp the device has seen, and the clock keeps up with it.
LEMMA TickAhead ==
    ASSUME Types, NEW d \in Device, clock' = Ticked(d)
    PROVE  /\ clock'[d] = clock[d] + 1 /\ clock[d] * N \in Nat /\ clock'[d] * N = clock[d] * N + N
           /\ Tick(d) = clock[d] * N + N + d /\ Tick(d) \in Nat
           /\ Tick(d) > clock[d] * N + N /\ Tick(d) <= clock'[d] * N + N
  <1>1. clock[d] \in Nat /\ clock'[d] = clock[d] + 1 /\ clock[d] * N \in Nat
    BY StampArith DEF Types, Ticked
  <1>2. (clock[d] + 1) * N = clock[d] * N + N
    BY <1>1, StampArith
  <1>3. Tick(d) = (clock[d] + 1) * N + d
    BY DEF Tick
  <1> DEFINE low == clock[d] * N
             high == (clock[d] + 1) * N
  <1> HIDE DEF low, high
  <1>4. low \in Nat /\ high = low + N /\ Tick(d) = high + d
    BY <1>1, <1>2, <1>3 DEF low, high
  <1>5. clock'[d] * N = high /\ clock[d] * N = low
    BY <1>1 DEF low, high
  <1>6. Tick(d) = low + N + d /\ Tick(d) \in Nat /\ Tick(d) > low + N /\ Tick(d) <= high + N
    BY <1>4, SyncConstants DEF Device
  <1> QED
    BY <1>1, <1>4, <1>5, <1>6

\* Without scope changes an edit is of a pin.
LEMMA EditsPin ==
    ASSUME Types, Types', AllSynced, AllSynced', NEW d \in Device, NEW m \in Memory, Edits(d, m)
    PROVE  /\ m \in Rows(d) /\ chunk[d][m] \in Chunk
           /\ chunk'[d][m] = Repinned(chunk[d][m], Tick(d))
  <1>1. m \in DOMAIN chunk[d] /\ m \in DOMAIN chunk'[d] /\ chunk[d][m] \in Chunk /\ chunk[d][m].scope = "sync"
        /\ chunk'[d][m].scope = "sync"
    BY DEF Edits, AllSynced, Rows, Types, StoreTypes, Store
  <1>2. ASSUME chunk'[d][m] = Touch([chunk[d][m] EXCEPT !.scope = IF @ = "sync" THEN "local" ELSE "sync",
                                                         !.sh = Tick(d)])
        PROVE  FALSE
    <2> DEFINE c == [chunk[d][m] EXCEPT !.scope = IF @ = "sync" THEN "local" ELSE "sync", !.sh = Tick(d)]
    <2>1. c.scope = "local"
      BY <1>1 DEF Chunk
    <2>2. Touch(c).scope = c.scope
      BY <1>1 DEF Touch, Chunk
    <2> HIDE DEF c
    <2>3. chunk'[d][m] = Touch(c)
      BY <1>2 DEF c
    <2> QED
      BY <1>1, <2>1, <2>2, <2>3
  <1> QED
    BY <1>1, <1>2 DEF Edits, Rows, Repinned

LEMMA AgreeUser ==
    ASSUME Types, Types', HolderInv, AllSynced, AllSynced', NEW d \in Device, AgreeOf(d), User(d)
    PROVE  AgreeOf(d)'
  <1>1. UNCHANGED <<lane, work, fleet, wiped>>
    BY UserFacts
  <1>2. PICK k \in Memory : Adds(d, k) \/ Edits(d, k) \/ Removes(d, k) \/ Records(d, k)
    BY UserFacts
  <1>3. /\ SyncOf(d) /\ ReadOf(d) /\ MarkOf(d) /\ ItemOf(d) /\ Ahead(d)
        /\ asked \in [Memory -> {"no", "live", "void", "asked", "queued", "cut"}]
    BY DEF AgreeOf, Types
  <1>4. SyncOf(d)'
    BY <1>1, <1>3 DEF SyncOf, At, Pushing
  <1> DEFINE low == clock[d] * N
             high == clock'[d] * N
  <1>5. /\ low \in Nat /\ N \in Nat /\ Rows(d) \subseteq Memory
        /\ \A m \in Rows(d) : chunk[d][m] \in Chunk /\ chunk[d][m].ph \in Nat /\ chunk[d][m].gen \in Nat
        /\ \A m \in Memory : fleet.rec[m].ph \in Nat
        /\ At(d, "apply") => \A m \in DOMAIN work[d].recs : work[d].recs[m].ph \in Nat
        /\ Pushing(work[d]) => \A m \in DOMAIN work[d].items : m \in Memory /\ work[d].items[m].gen \in Nat
    BY AgreeTypes
  <1>6. clock' = Ticked(d) => /\ high = low + N /\ Tick(d) \in Nat /\ Tick(d) > low + N /\ Tick(d) <= high + N
    BY TickAhead
  <1>7. /\ \A m \in Rows(d) : chunk[d][m].ph <= low + N
        /\ At(d, "apply") => \A m \in DOMAIN work[d].recs : work[d].recs[m].ph <= low + N
    BY <1>3 DEF Ahead
  <1>8. ASSUME \A m \in DOMAIN chunk'[d] : chunk'[d][m].ph <= high + N, clock' = Ticked(d) \/ high = low
        PROVE  Ahead(d)'
    <2>1. high \in Nat /\ high >= low
      <3> HIDE DEF low, high
      <3> QED
        BY <1>5, <1>6, <1>8
    <2>2. work'[d].pc = "apply" => \A m \in DOMAIN work'[d].recs : work'[d].recs[m].ph <= high + N
      <3> HIDE DEF low, high
      <3> QED
        BY <1>1, <1>5, <1>7, <2>1 DEF At
    <2> QED
      BY <1>8, <2>2 DEF Ahead, Rows, At
  <1>9. ASSUME \A m \in Memory : /\ Seen(d, m) /\ fleet.rec[m].st = "live" => Seen(d, m)'
                                 /\ Newer(d, m) /\ fleet.rec[m].st = "live" => Newer(d, m)'
        PROVE  ReadOf(d)'
    BY <1>1, <1>3, <1>9 DEF ReadOf, Read, Live, Record, At
  <1>10. CASE Adds(d, k)
    <2>1. /\ asked[k] = "no" /\ asked' = [asked EXCEPT ![k] = "live"]
          /\ DOMAIN chunk'[d] = DOMAIN chunk[d] \cup {k} /\ \E b \in Stamps(k) : chunk'[d][k] = Added(d, b)
          /\ \A m \in DOMAIN chunk[d] \ {k} : chunk'[d][m] = chunk[d][m]
          /\ clock' = Ticked(d) /\ UNCHANGED <<outbox, removing>>
      BY <1>10 DEF Adds
    <2>2. fleet.rec[k].st = "none" /\ k \notin Rows(d)
      BY <2>1 DEF HolderInv, Known, Record, Holds
    <2>3. chunk'[d][k].ph = 0 /\ chunk'[d][k].syn = 0 /\ chunk'[d][k].dirty
      BY <2>1, AddedFields
    <2>4. ReadOf(d)'
      <3>1. \A m \in Memory : Seen(d, m) => Seen(d, m)'
        BY <1>3, <2>1 DEF Seen, Rows, Pardoned
      <3>2. \A m \in Memory : Newer(d, m) /\ fleet.rec[m].st = "live" => Newer(d, m)'
        BY <1>1, <2>1, <2>2 DEF Newer, Rows, Record
      <3> QED
        BY <1>9, <3>1, <3>2
    <2>5. MarkOf(d)'
      <3>1. \A m \in DOMAIN chunk'[d] : m = k \/ (m \in DOMAIN chunk[d] /\ chunk'[d][m] = chunk[d][m])
        BY <2>1
      <3> QED
        BY <1>1, <1>3, <2>1, <2>2, <2>3, <3>1 DEF MarkOf, Rows, Record, Live, At
    <2>6. ItemOf(d)'
      <3>1. Pushing(work[d]) => \A m \in DOMAIN work[d].items : m # k /\ m \in Memory
        BY <1>3, <1>5, <2>1 DEF ItemOf
      <3> QED
        BY <1>1, <1>3, <2>1, <3>1 DEF ItemOf, Rows, Record, Live, At
    <2>7. Ahead(d)'
      <3> HIDE DEF low, high
      <3>1. \A m \in DOMAIN chunk'[d] : chunk'[d][m].ph <= high + N
        BY <1>5, <1>6, <1>7, <2>1, <2>3 DEF Rows
      <3> QED
        BY <1>8, <2>1, <3>1
    <2> QED
      BY <1>4, <2>4, <2>5, <2>6, <2>7 DEF AgreeOf
  <1>11. CASE Edits(d, k)
    <2> DEFINE c == chunk[d][k]
               t == chunk'[d][k]
    <2>1. /\ k \in Rows(d) /\ DOMAIN chunk'[d] = DOMAIN chunk[d]
          /\ \A m \in DOMAIN chunk[d] \ {k} : chunk'[d][m] = chunk[d][m]
          /\ clock' = Ticked(d) /\ UNCHANGED <<outbox, removing>>
      BY <1>11 DEF Edits, Rows
    <2>2. \A m \in Memory : (Pardoned(m) => Pardoned(m)') /\ (asked'[m] = "no" => asked[m] = "no")
      BY <1>3, <1>11 DEF Edits, Pardoned
    <2>3. /\ t.ph = Tick(d) /\ t.dirty /\ t.gen = c.gen + 1 /\ t.syn = c.syn /\ (t.sent <=> c.sent)
      <3>1. t = Repinned(c, Tick(d)) /\ c \in Chunk
        BY <1>11, EditsPin
      <3>2. Tick(d) \in Nat
        BY <1>6, <2>1
      <3> HIDE DEF c, t
      <3> QED
        BY <3>1, <3>2, PinnedFields
    <2>4. t.ph > c.ph
      <3> HIDE DEF low, high
      <3> QED
        BY <1>5, <1>6, <1>7, <2>1, <2>3
    <2>5. ReadOf(d)'
      <3>1. \A m \in Memory : Seen(d, m) => Seen(d, m)'
        BY <2>1, <2>2 DEF Seen, Rows
      <3>2. ASSUME NEW m \in Memory, Newer(d, m) PROVE Newer(d, m)'
        <4>1. CASE m = k
          <5>1. m \notin outbox[d] => c.ph >= fleet.rec[k].ph
            BY <2>1, <3>2, <4>1 DEF Newer, Record
          <5>2. m \notin outbox[d] => t.ph >= fleet.rec[k].ph
            BY <1>5, <1>6, <2>1, <2>3, <2>4, <5>1
          <5> QED
            BY <1>1, <2>1, <4>1, <5>2 DEF Newer, Record, Rows
        <4>2. CASE m # k
          BY <1>1, <2>1, <3>2, <4>2 DEF Newer, Record, Rows
        <4> QED
          BY <4>1, <4>2
      <3> QED
        BY <1>9, <3>1, <3>2
    <2>6. MarkOf(d)'
      <3>1. FleetMayKnow(t) <=> FleetMayKnow(c)
        BY <2>3 DEF FleetMayKnow
      <3>2. ASSUME NEW m \in Rows(d)
            PROVE  /\ fleet.rec[m].st # "none" => FleetMayKnow(chunk'[d][m])
                   /\ chunk'[d][m].syn # 0 \/ ~chunk'[d][m].dirty => fleet.rec[m].st # "none"
                   /\ ~chunk'[d][m].dirty /\ fleet.rec[m].st = "live" => chunk'[d][m].ph <= fleet.rec[m].ph
        <4>1. CASE m = k
          BY <1>3, <2>1, <2>3, <3>1, <4>1 DEF MarkOf, Record
        <4>2. CASE m # k
          BY <1>3, <2>1, <4>2 DEF MarkOf, Record, Live, Rows
        <4> QED
          BY <4>1, <4>2
      <3> QED
        BY <1>1, <1>3, <2>1, <3>2 DEF MarkOf, Rows, Record, Live, At
    <2>7. ItemOf(d)'
      <3>1. ASSUME Pushing(work[d]), NEW m \in DOMAIN work[d].items
            PROVE  asked'[m] # "no" /\ (m \in Rows(d) => Copy(chunk'[d][m], work[d].items[m]))
        <4>1. m \in Memory /\ asked[m] # "no" /\ (m \in Rows(d) => Copy(chunk[d][m], work[d].items[m]))
              /\ work[d].items[m].gen \in Nat
          BY <1>3, <1>5, <3>1 DEF ItemOf
        <4>2. CASE m = k
          <5>1. c.sent /\ work[d].items[k].gen <= c.gen /\ c.gen \in Nat
            BY <1>5, <2>1, <4>1, <4>2 DEF Copy
          <5>2. t.sent
            BY <2>3, <5>1
          <5>3. work[d].items[k].gen <= t.gen /\ work[d].items[k].gen # t.gen
            BY <2>3, <4>1, <4>2, <5>1
          <5> QED
            BY <2>2, <4>1, <4>2, <5>2, <5>3 DEF Copy
        <4>3. CASE m # k
          BY <2>1, <2>2, <4>1, <4>3 DEF Rows
        <4> QED
          BY <4>2, <4>3
      <3> QED
        BY <1>1, <1>3, <2>1, <3>1 DEF ItemOf, Rows, Record, Live, At
    <2>8. Ahead(d)'
      <3> HIDE DEF low, high
      <3>1. \A m \in DOMAIN chunk'[d] : chunk'[d][m].ph <= high + N
        BY <1>5, <1>6, <1>7, <2>1, <2>3 DEF Rows
      <3> QED
        BY <1>8, <2>1, <3>1
    <2> QED
      BY <1>4, <2>5, <2>6, <2>7, <2>8 DEF AgreeOf
  <1>12. CASE Removes(d, k)
    <2>1. /\ k \in Rows(d) /\ DOMAIN chunk'[d] = DOMAIN chunk[d] \ {k}
          /\ \A m \in DOMAIN chunk[d] \ {k} : chunk'[d][m] = chunk[d][m]
          /\ removing[d] \subseteq removing'[d] /\ UNCHANGED <<clock, outbox>>
      BY <1>12 DEF Removes, Rows
    <2>2. FleetMayKnow(chunk[d][k]) => <<k, TRUE>> \in removing'[d]
      <3>1. removing'[d] = removing[d] \cup {<<k, FleetMayKnow(chunk[d][k])>>}
        BY <1>12 DEF Removes
      <3>2. FleetMayKnow(chunk[d][k]) \in BOOLEAN
        BY DEF FleetMayKnow
      <3>3. FleetMayKnow(chunk[d][k]) => FleetMayKnow(chunk[d][k]) = TRUE
        BY <3>2
      <3> QED
        BY <3>1, <3>3
    <2>3. \A m \in Memory : (Pardoned(m) => Pardoned(m)') /\ (asked'[m] = "no" => asked[m] = "no")
      <3>1. asked' = [asked EXCEPT ![k] = IF @ # "live" THEN @
                                     ELSE IF FleetMayKnow(chunk[d][k]) THEN "asked" ELSE "void"]
        BY <1>12 DEF Removes
      <3> QED
        BY <1>3, <3>1 DEF Pardoned
    <2>4. fleet.rec[k].st = "live" => FleetMayKnow(chunk[d][k])
      BY <1>3, <2>1 DEF MarkOf, Record
    <2>5. ReadOf(d)'
      <3>1. \A m \in Memory : Seen(d, m) /\ fleet.rec[m].st = "live" => Seen(d, m)'
        BY <2>1, <2>2, <2>3, <2>4 DEF Seen, Rows
      <3>2. \A m \in Memory : Newer(d, m) => Newer(d, m)'
        BY <1>1, <2>1 DEF Newer, Rows, Record
      <3> QED
        BY <1>9, <3>1, <3>2
    <2>6. MarkOf(d)'
      BY <1>1, <1>3, <2>1 DEF MarkOf, Rows, Record, Live, At
    <2>7. ItemOf(d)'
      BY <1>1, <1>3, <1>5, <2>1, <2>3 DEF ItemOf, Rows, Record, Live, At
    <2>8. Ahead(d)'
      BY <1>1, <1>3, <2>1 DEF Ahead, Rows, At
    <2> QED
      BY <1>4, <2>5, <2>6, <2>7, <2>8 DEF AgreeOf
  <1>13. CASE Records(d, k)
    <2>1. PICK b \in BOOLEAN :
            /\ <<k, b>> \in removing[d] /\ removing'[d] = removing[d] \ {<<k, b>>}
            /\ outbox'[d] = IF b THEN outbox[d] \cup {k} ELSE outbox[d]
            /\ clock' = clock \/ clock' = Ticked(d)
            /\ asked' = IF b /\ asked[k] = "asked" THEN [asked EXCEPT ![k] = "queued"] ELSE asked
            /\ UNCHANGED chunk
      BY <1>13 DEF Records
    <2>2. \A m \in Memory : (Pardoned(m) => Pardoned(m)') /\ (asked'[m] = "no" => asked[m] = "no")
      BY <1>3, <2>1 DEF Pardoned
    <2>3. outbox[d] \subseteq outbox'[d]
      BY <2>1
    <2>4. ASSUME NEW m \in Memory, <<m, TRUE>> \in removing[d]
          PROVE  <<m, TRUE>> \in removing'[d] \/ m \in outbox'[d]
      BY <2>1, <2>4
    <2>5. ReadOf(d)'
      <3>1. \A m \in Memory : Seen(d, m) => Seen(d, m)'
        BY <2>1, <2>2, <2>3, <2>4 DEF Seen, Rows
      <3>2. \A m \in Memory : Newer(d, m) => Newer(d, m)'
        BY <1>1, <2>1, <2>3 DEF Newer, Rows, Record
      <3> QED
        BY <1>9, <3>1, <3>2
    <2>6. MarkOf(d)'
      BY <1>1, <1>3, <2>1 DEF MarkOf, Rows, Record, Live, At
    <2>7. ItemOf(d)'
      BY <1>1, <1>3, <1>5, <2>1, <2>2 DEF ItemOf, Rows, Record, Live, At
    <2>8. Ahead(d)'
      <3>1. chunk' = chunk /\ (clock' = Ticked(d) \/ high = low)
        BY <2>1
      <3> HIDE DEF low, high
      <3>2. \A m \in DOMAIN chunk'[d] : chunk'[d][m].ph <= high + N
        BY <1>5, <1>6, <1>7, <3>1 DEF Rows
      <3> QED
        BY <1>8, <3>1, <3>2
    <2> QED
      BY <1>4, <2>5, <2>6, <2>7, <2>8 DEF AgreeOf
  <1> QED
    BY <1>2, <1>10, <1>11, <1>12, <1>13

LEMMA AgreeFetched ==
    ASSUME Types, Types', FeedInv, CalmInv, SyncFleet, NEW d \in Device, AgreeOf(d), Fetched(d)
    PROVE  AgreeOf(d)'
  <1> DEFINE x == lane[d].cursor
             n == NextCursor(x)
             w == work'[d]
  <1>1. Cur(d) = x
    BY DEF CalmInv, CalmOf, Cur, Resetting
  <1>2. /\ w.pc = "apply" /\ w.cu = n /\ DOMAIN w.recs \subseteq Page(x)
        /\ \A m \in Page(x) : m \in DOMAIN w.recs <=> (fleet.rec[m].st = "live" => m \notin outbox[d])
        /\ \A m \in DOMAIN w.recs : w.recs[m] = fleet.rec[m]
        /\ UNCHANGED <<chunk, lane, outbox, removing, fleet, asked, wiped>>
    BY <1>1, FetchedFacts
  <1>3. x \in Cursor /\ x.seq \in Nat
    BY FeedNumbers
  <1>4. /\ Page(x) \subseteq Memory /\ n.seq \in Nat /\ x.seq <= n.seq
        /\ \A m \in After(x) \ Page(x) : fleet.rec[m].seq > n.seq
    BY <1>3, PageFacts, FeedNumbers
  <1> HIDE DEF n, x, w
  <1>5. /\ SyncOf(d) /\ ReadOf(d) /\ MarkOf(d) /\ ItemOf(d) /\ Ahead(d)
        /\ \A m \in Memory : fleet.rec[m].ph \in Nat /\ fleet.rec[m].seq \in Nat
        /\ Rows(d) \subseteq Memory /\ \A m \in Rows(d) : chunk[d][m].ph \in Nat
    BY AgreeTypes DEF AgreeOf
  <1>6. SyncOf(d)'
    BY <1>2, <1>4, <1>5 DEF SyncOf, SyncFleet, Record, At, Pushing, w
  <1>7. ASSUME NEW m \in Memory
        PROVE  Read(d, m, x.seq) /\ (m \notin DOMAIN w.recs => Read(d, m, n.seq))
    <2>1. Read(d, m, x.seq)
      BY <1>5 DEF ReadOf, x
    <2>2. ASSUME m \notin DOMAIN w.recs, fleet.rec[m].st = "live", fleet.rec[m].seq <= n.seq, ~(fleet.rec[m].seq <= x.seq)
          PROVE  m \in outbox[d]
      <3>1. m \in After(x)
        BY <1>3, <1>5, <2>2 DEF After
      <3>2. m \in Page(x)
        BY <1>4, <1>5, <2>2, <3>1
      <3> QED
        BY <1>2, <2>2, <3>2
    <2>3. m \in outbox[d] => Seen(d, m) /\ Newer(d, m)
      BY DEF Seen, Newer
    <2> QED
      BY <2>1, <2>2, <2>3 DEF Read, Live, Record
  <1>8. ReadOf(d)'
    <2>1. \A m \in Memory : \A k : Read(d, m, k) => Read(d, m, k)'
      BY <1>2 DEF Read, Seen, Newer, Live, Record, Rows, Pardoned
    <2>2. PICK a \in Nat, b \in Nat : a = x.seq /\ b = n.seq
      BY <1>3, <1>4
    <2>3. \A m \in Memory : Read(d, m, a)' /\ (m \notin DOMAIN w.recs => Read(d, m, b)')
      BY <1>7, <2>1, <2>2
    <2>4. lane'[d].cursor.seq = a /\ work'[d].cu.seq = b /\ work'[d].pc = "apply"
      BY <1>2, <2>2 DEF x, w
    <2> QED
      BY <1>2, <2>3, <2>4 DEF ReadOf, At, w
  <1>9. MarkOf(d)'
    <2>1. \A m \in DOMAIN w.recs : w.recs[m].ph <= fleet.rec[m].ph
      BY <1>2, <1>4, <1>5
    <2> QED
      BY <1>2, <1>5, <2>1 DEF MarkOf, Rows, Record, Live, At, w
  <1>10. ItemOf(d)'
    BY <1>2 DEF ItemOf, Pushing, At, w
  <1>11. Ahead(d)'
    <2>1. PICK c \in Nat : /\ clock' = [clock EXCEPT ![d] = c] /\ c >= clock[d]
                           /\ \A m \in Page(x) : c >= fleet.rec[m].ph \div N
      BY <1>1, Zenon DEF Fetched
    <2>2. clock'[d] = c /\ clock[d] \in Nat
      BY <2>1 DEF Types
    <2> DEFINE low == clock[d] * N
               high == c * N
    <2>3. low \in Nat /\ high \in Nat /\ low <= high
      BY <2>1, <2>2, StampArith
    <2>4. \A m \in Page(x) : fleet.rec[m].ph <= high + N
      <3>1. ASSUME NEW m \in Page(x) PROVE fleet.rec[m].ph <= c * N + N
        <4>1. fleet.rec[m].ph \in Nat /\ fleet.rec[m].ph \div N <= c
          <5>1. fleet.rec[m].ph \in Nat
            BY <1>4, <1>5
          <5>2. fleet.rec[m].ph \div N \in Nat
            BY <5>1, SyncConstants
          <5> QED
            BY <2>1, <5>1, <5>2
        <4> QED
          BY <4>1, StampArith
      <3> QED
        BY <3>1
    <2>5. \A m \in Rows(d) : chunk[d][m].ph <= low + N
      BY <1>5 DEF Ahead
    <2> HIDE DEF low, high
    <2>6. \A m \in Rows(d) : chunk[d][m].ph <= high + N
      BY <1>5, <2>3, <2>5, SyncConstants
    <2>7. \A m \in DOMAIN w.recs : w.recs[m].ph <= high + N
      BY <1>2, <2>4
    <2> QED
      BY <1>2, <2>2, <2>6, <2>7 DEF Ahead, Rows, At, high, w
  <1> QED
    BY <1>6, <1>8, <1>9, <1>10, <1>11 DEF AgreeOf

LEMMA AgreeApply ==
    ASSUME Types, Types', FeedInv, CalmInv, HolderInv, ForgetInv, NEW d \in Device, AgreeOf(d), ApplyPage(d)
    PROVE  AgreeOf(d)'
  <1> DEFINE recs == work[d].recs
             cu == work[d].cu
  <1>1. /\ At(d, "apply") /\ work'[d].pc = "cursor" /\ work'[d].cu = cu
        /\ UNCHANGED <<clock, outbox, lane, removing, fleet, asked, wiped>>
    BY ApplyWork DEF At
  <1>2. lane[d].reset = ""
    BY DEF CalmInv, CalmOf
  <1>3. /\ \A m \in DOMAIN chunk'[d] : m \in DOMAIN chunk[d] \/ m \in DOMAIN recs
        /\ \A m \in DOMAIN recs :
             /\ recs[m].st = "live" => /\ m \in DOMAIN chunk'[d]
                                       /\ chunk'[d][m] = IF m \in DOMAIN chunk[d] THEN Pulled(chunk[d][m], recs[m], 1)
                                                         ELSE Inserted(recs[m], 1)
             /\ recs[m].st # "live" /\ m \in DOMAIN chunk'[d] => recs[m].st = "left"
        /\ \A m \in DOMAIN chunk[d] \ DOMAIN recs : m \in DOMAIN chunk'[d] /\ chunk'[d][m] = chunk[d][m]
    BY <1>2, ApplyFacts, Zenon
  <1>4. /\ SyncOf(d) /\ ReadOf(d) /\ MarkOf(d) /\ ItemOf(d) /\ Ahead(d) /\ PageOf(d)
        /\ \A m \in Memory : fleet.rec[m] \in Rec /\ fleet.rec[m].ph \in Nat /\ fleet.rec[m].seq \in Nat
        /\ Rows(d) \subseteq Memory
        /\ \A m \in Rows(d) : chunk[d][m] \in Chunk /\ chunk[d][m].ph \in Nat
        /\ \A m \in DOMAIN recs : m \in Memory /\ recs[m] \in Rec /\ recs[m].ph \in Nat
    BY <1>1, AgreeTypes DEF AgreeOf, ForgetInv
  <1>5. cu.seq \in Nat /\ lane[d].cursor.seq \in Nat /\ lane[d].cursor.seq <= cu.seq
    BY <1>1, <1>4, FeedNumbers DEF PageOf, Paging, At
  <1>6. \A m \in DOMAIN recs : fleet.rec[m].st # "none" /\ recs[m].st # "left"
    BY <1>1, <1>4 DEF HolderInv, Known, CalmInv, Record, SyncOf
  \* What the page made of each row.
  <1>7. ASSUME NEW m \in DOMAIN chunk'[d]
        PROVE  \/ m \in DOMAIN chunk[d] \ DOMAIN recs /\ chunk'[d][m] = chunk[d][m]
               \/ /\ m \in DOMAIN recs /\ chunk'[d][m].syn = 1 /\ chunk'[d][m].ph >= recs[m].ph
                  /\ \/ /\ m \in DOMAIN chunk[d] /\ (~chunk'[d][m].dirty => ~chunk[d][m].dirty)
                        /\ chunk'[d][m].ph = chunk[d][m].ph \/ chunk'[d][m].ph = recs[m].ph
                     \/ chunk'[d][m].ph = recs[m].ph
    <2>1. CASE m \notin DOMAIN recs
      BY <1>3, <2>1
    <2>2. CASE m \in DOMAIN recs /\ m \in DOMAIN chunk[d]
      <3>1. chunk'[d][m] = Pulled(chunk[d][m], recs[m], 1) /\ chunk[d][m] \in Chunk /\ recs[m] \in Rec
        BY <1>3, <1>4, <1>6, <2>2 DEF Rows
      <3>2. LET p == Pulled(chunk[d][m], recs[m], 1) IN
                /\ p.syn = 1 /\ p.ph >= recs[m].ph /\ (p.dirty <=> chunk[d][m].dirty)
                /\ p.ph = chunk[d][m].ph \/ p.ph = recs[m].ph
        BY <3>1, PulledFields
      <3> QED
        BY <2>2, <3>1, <3>2
    <2>3. CASE m \in DOMAIN recs /\ m \notin DOMAIN chunk[d]
      <3>1. chunk'[d][m] = Inserted(recs[m], 1) /\ recs[m] \in Rec
        BY <1>3, <1>4, <1>6, <2>3
      <3>2. Inserted(recs[m], 1).syn = 1 /\ Inserted(recs[m], 1).ph = recs[m].ph
        BY DEF Inserted
      <3> QED
        BY <1>4, <2>3, <3>1, <3>2
    <2> QED
      BY <2>1, <2>2, <2>3
  <1> HIDE DEF recs
  <1>8. SyncOf(d)' /\ ItemOf(d)'
    BY <1>1 DEF SyncOf, ItemOf, At, Pushing
  <1>9. ASSUME NEW m \in Memory PROVE Read(d, m, cu.seq)'
    <2>1. SUFFICES ASSUME fleet.rec[m].st = "live", fleet.rec[m].seq <= cu.seq PROVE Seen(d, m)' /\ Newer(d, m)'
      BY <1>1 DEF Read, Live, Record
    <2>2. CASE m \in DOMAIN recs
      <3>1. recs[m] = fleet.rec[m]
        BY <1>1, <1>4, <1>5, <2>1, <2>2 DEF PageOf, Record, recs
      <3>2. m \in DOMAIN chunk'[d] /\ chunk'[d][m].ph >= fleet.rec[m].ph
        BY <1>3, <1>7, <2>1, <2>2, <3>1
      <3> QED
        BY <1>1, <3>2 DEF Seen, Newer, Rows, Record
    <2>3. CASE m \notin DOMAIN recs
      <3>1. Seen(d, m) /\ Newer(d, m)
        BY <1>1, <1>4, <2>1, <2>3 DEF ReadOf, Read, Live, Record, recs
      <3>2. (m \in DOMAIN chunk[d] <=> m \in DOMAIN chunk'[d]) /\ (m \in DOMAIN chunk[d] => chunk'[d][m] = chunk[d][m])
        BY <1>3, <2>3
      <3> QED
        BY <1>1, <3>1, <3>2 DEF Seen, Newer, Rows, Record, Pardoned
    <2> QED
      BY <2>2, <2>3
  <1>10. ReadOf(d)'
    <2>1. \A m \in Memory : Read(d, m, lane[d].cursor.seq)'
      BY <1>1, <1>4, <1>5, <1>9 DEF Read, Record
    <2> QED
      BY <1>1, <1>9, <2>1 DEF ReadOf, At, Read
  <1>11. MarkOf(d)'
    <2>1. ASSUME NEW m \in DOMAIN chunk'[d]
          PROVE  /\ fleet.rec[m].st # "none" => FleetMayKnow(chunk'[d][m])
                 /\ chunk'[d][m].syn # 0 \/ ~chunk'[d][m].dirty => fleet.rec[m].st # "none"
                 /\ ~chunk'[d][m].dirty /\ fleet.rec[m].st = "live" => chunk'[d][m].ph <= fleet.rec[m].ph
      <3>1. CASE m \in DOMAIN chunk[d] /\ chunk'[d][m] = chunk[d][m]
        BY <1>4, <3>1 DEF MarkOf, Rows, Record, Live
      <3>2. CASE m \in DOMAIN recs /\ chunk'[d][m].syn = 1
        <4>1. FleetMayKnow(chunk'[d][m]) /\ fleet.rec[m].st # "none"
          BY <1>6, <3>2 DEF FleetMayKnow
        <4>2. fleet.rec[m].st = "live" => recs[m].ph <= fleet.rec[m].ph
          BY <1>1, <1>4, <3>2 DEF MarkOf, Live, Record, recs
        <4>3. m \in DOMAIN chunk[d] /\ ~chunk[d][m].dirty /\ fleet.rec[m].st = "live" => chunk[d][m].ph <= fleet.rec[m].ph
          BY <1>4 DEF MarkOf, Live, Record, Rows
        <4> QED
          BY <1>7, <3>2, <4>1, <4>2, <4>3
      <3> QED
        BY <1>7, <3>1, <3>2
    <2> QED
      BY <1>1, <2>1 DEF MarkOf, Rows, Record, Live, At
  <1>12. Ahead(d)'
    <2> DEFINE high == clock[d] * N
    <2>1. /\ \A m \in DOMAIN chunk[d] : chunk[d][m].ph <= high + N
          /\ \A m \in DOMAIN recs : recs[m].ph <= high + N
      BY <1>1, <1>4 DEF Ahead, Rows, recs
    <2> HIDE DEF high
    <2>2. \A m \in DOMAIN chunk'[d] : chunk'[d][m].ph <= high + N
      BY <1>7, <2>1
    <2> QED
      BY <1>1, <2>2 DEF Ahead, Rows, At, high
  <1> QED
    BY <1>8, <1>10, <1>11, <1>12 DEF AgreeOf

LEMMA AgreeSave ==
    ASSUME Types, CalmInv, ForgetInv, NEW d \in Device, AgreeOf(d), SaveCursor(d)
    PROVE  AgreeOf(d)'
  <1>1. lane[d].reset = ""
    BY DEF CalmInv, CalmOf
  <1>2. /\ work[d].pc = "cursor" /\ outbox'[d] = outbox[d] \ work[d].acks /\ lane'[d].cursor = work[d].cu
        /\ work'[d].pc \in {"pull", "idle", "push"} /\ UNCHANGED <<chunk, clock, removing, fleet, asked, wiped>>
    BY <1>1, SaveWork
  <1>3. SyncOf(d) /\ ReadOf(d) /\ MarkOf(d) /\ Ahead(d)
    BY DEF AgreeOf
  <1>4. \A m \in work[d].acks : fleet.rec[m].st = "forgotten"
    BY <1>2 DEF ForgetInv, AckOf, Paging, Record
  <1>5. SyncOf(d)' /\ ItemOf(d)' /\ MarkOf(d)' /\ Ahead(d)'
    BY <1>2, <1>3 DEF SyncOf, ItemOf, MarkOf, Ahead, At, Pushing, Rows, Record, Live
  <1>6. ASSUME NEW m \in Memory PROVE Read(d, m, lane[d].cursor.seq)'
    <2>1. Read(d, m, work[d].cu.seq)
      BY <1>2, <1>3 DEF ReadOf, At
    <2>2. fleet.rec[m].st = "live" => (m \in outbox'[d] <=> m \in outbox[d])
      BY <1>2, <1>4
    <2> QED
      BY <1>2, <2>1, <2>2 DEF Read, Seen, Newer, Live, Record, Rows, Pardoned
  <1>7. ReadOf(d)'
    BY <1>2, <1>6 DEF ReadOf, At
  <1> QED
    BY <1>5, <1>7 DEF AgreeOf

LEMMA AgreeMark ==
    ASSUME Types, Types', FeedInv, CalmInv, HolderInv, AllSynced, NEW d \in Device, AgreeOf(d), MarkSyncSent(d)
    PROVE  AgreeOf(d)'
  <1> DEFINE ids == work[d].ids \cap DOMAIN chunk[d]
  <1>1. /\ work[d].pc = "mark"
        /\ \/ work'[d].pc = "idle"
           \/ /\ work'[d].pc = "send" /\ work'[d].forgets = work[d].forgets
              /\ DOMAIN work'[d].items = ids /\ \A m \in ids : work'[d].items[m] = BuildItem(chunk[d][m])
        /\ DOMAIN chunk'[d] = DOMAIN chunk[d]
        /\ \A m \in DOMAIN chunk[d] : IF m \in ids THEN \E h : chunk'[d][m] = Marked(chunk[d][m], h)
                                           ELSE chunk'[d][m] = chunk[d][m]
        /\ clock' = clock \/ clock' = Ticked(d)
        /\ UNCHANGED <<outbox, lane, removing, fleet, asked, wiped>>
    BY MarkWork
  <1>2. /\ ReadOf(d) /\ MarkOf(d) /\ Ahead(d)
        /\ Rows(d) \subseteq Memory /\ \A m \in Rows(d) : chunk[d][m] \in Chunk /\ chunk[d][m].ph \in Nat
        /\ \A m \in Rows(d) : chunk[d][m].gen \in Nat
    BY AgreeTypes DEF AgreeOf
  <1>3. ASSUME NEW m \in DOMAIN chunk[d]
        PROVE  LET c == chunk[d][m]
                   k == chunk'[d][m]
                   i == BuildItem(c)
               IN  /\ k.ph = c.ph /\ k.syn = c.syn /\ (k.dirty <=> c.dirty) /\ (c.sent => k.sent)
                   /\ m \in ids => k.sent /\ k.gen = c.gen
                   /\ i.gen = c.gen /\ i.ph = c.ph /\ i.scope = "sync" /\ ~i.demote
    <2>1. chunk[d][m] \in Chunk /\ chunk[d][m].scope = "sync"
      BY <1>2 DEF Rows, AllSynced
    <2>2. CASE m \in ids
      <3>1. PICK h : chunk'[d][m] = Marked(chunk[d][m], h)
        BY <1>1, <2>2
      <3> QED
        BY <2>1, <3>1, MarkedFields
    <2>3. CASE m \notin ids
      <3>1. chunk'[d][m] = chunk[d][m]
        BY <1>1, <2>3
      <3> QED
        BY <2>1, <2>3, <3>1, MarkedFields
    <2> QED
      BY <2>2, <2>3
  <1> HIDE DEF ids
  <1>4. SyncOf(d)'
    <2>1. \A m \in ids : m \in DOMAIN chunk[d]
      BY DEF ids
    <2> QED
      BY <1>1, <1>3, <2>1 DEF SyncOf, At, Pushing
  <1>5. ReadOf(d)'
    <2>1. \A m \in Memory : (Seen(d, m) => Seen(d, m)') /\ (Newer(d, m) => Newer(d, m)')
      BY <1>1, <1>3 DEF Seen, Newer, Rows, Record, Pardoned
    <2> QED
      BY <1>1, <1>2, <2>1 DEF ReadOf, Read, Live, Record, At
  <1>6. MarkOf(d)'
    <2>1. \A m \in DOMAIN chunk[d] : FleetMayKnow(chunk[d][m]) => FleetMayKnow(chunk'[d][m])
      BY <1>3 DEF FleetMayKnow
    <2> QED
      BY <1>1, <1>2, <1>3, <2>1 DEF MarkOf, Rows, Record, Live, At
  <1>7. ItemOf(d)'
    <2>1. ASSUME NEW m \in ids
          PROVE  /\ m \in DOMAIN chunk[d] /\ asked[m] # "no"
                 /\ Copy(chunk'[d][m], BuildItem(chunk[d][m]))
                 /\ m \in work[d].forgets => fleet.rec[m].st # "none"
      <3>1. m \in Rows(d) /\ m \in Memory
        BY <1>2 DEF ids, Rows
      <3>2. asked[m] # "no"
        BY <3>1 DEF HolderInv, Holds
      <3>3. chunk[d][m].gen \in Nat
        BY <1>2, <3>1
      <3>4. Copy(chunk'[d][m], BuildItem(chunk[d][m]))
        BY <1>3, <3>1, <3>3 DEF Copy, Rows
      <3>5. m \in work[d].forgets => m \in outbox[d]
        BY <1>1 DEF FeedInv, FeedOf
      <3>6. m \in outbox[d] => Known(m)
        BY <3>1 DEF HolderInv, Dropping
      <3> QED
        BY <3>1, <3>2, <3>4, <3>5, <3>6 DEF Rows, Known, CalmInv, Record
    <2> QED
      BY <1>1, <2>1 DEF ItemOf, Rows, Record, At, Pushing
  <1>8. Ahead(d)'
    <2> DEFINE low == clock[d] * N
               high == clock'[d] * N
    <2>1. low \in Nat /\ N \in Nat /\ high \in Nat /\ (clock' = Ticked(d) => high = low + N)
      <3>1. clock'[d] \in Nat /\ clock[d] \in Nat
        BY DEF Types
      <3> QED
        BY <3>1, StampArith, SyncConstants, TickAhead
    <2>2. \A m \in DOMAIN chunk[d] : chunk[d][m].ph <= low + N
      BY <1>2 DEF Ahead, Rows
    <2>3. high >= low
      <3>1. clock' = clock => high = low
        OBVIOUS
      <3> HIDE DEF low, high
      <3> QED
        BY <1>1, <2>1, <3>1
    <2> HIDE DEF low, high
    <2>4. \A m \in DOMAIN chunk'[d] : chunk'[d][m].ph <= high + N
      BY <1>1, <1>2, <1>3, <2>1, <2>2, <2>3 DEF Rows
    <2> QED
      BY <1>1, <2>4 DEF Ahead, Rows, At, high
  <1> QED
    BY <1>4, <1>5, <1>6, <1>7, <1>8 DEF AgreeOf

LEMMA AgreeSend ==
    ASSUME Types, Types', FeedInv, SyncFleet, NEW d \in Device, AgreeOf(d), Send(d)
    PROVE  AgreeOf(d)'
  <1>1. /\ work[d].pc = "send" /\ work'[d].pc = "results" /\ work'[d].items = work[d].items
        /\ UNCHANGED <<chunk, clock, outbox, lane, removing, asked>>
    BY SendWork
  <1>2. /\ SyncOf(d) /\ ReadOf(d) /\ MarkOf(d) /\ ItemOf(d) /\ Ahead(d)
        /\ Rows(d) \subseteq Memory /\ \A m \in Rows(d) : chunk[d][m].ph \in Nat
        /\ \A m \in Memory : fleet.rec[m].ph \in Nat /\ fleet.rec[m].seq \in Nat
    BY AgreeTypes DEF AgreeOf
  <1>3. Rises(d)
    BY <1>2, SendRises
  <1>4. \A m \in DOMAIN work[d].items :
            /\ work'[d].res[m] = "accepted" => \/ fleet'.rec[m].st = "forgotten"
                                               \/ fleet'.rec[m].st = "live" /\ work[d].items[m].ph <= fleet'.rec[m].ph
            /\ work'[d].res[m] = "forgotten" /\ (m \in work[d].forgets => fleet.rec[m].st # "none") =>
                    fleet'.rec[m].st = "forgotten"
    BY <1>2, SendRises
  <1>5. /\ \A m \in Memory : fleet'.rec[m].seq \in Nat /\ fleet'.rec[m].ph \in Nat
                             /\ fleet.rec[m].st \in {"none", "live", "forgotten"}
        /\ lane[d].cursor.seq \in Nat /\ lane[d].cursor.seq <= fleet.seq /\ fleet.seq \in Nat
    <2>1. \A m \in Memory : fleet'.rec[m].seq \in Nat /\ fleet'.rec[m].ph \in Nat
      BY DEF Types, Service, Rec
    <2>2. \A m \in Memory : fleet.rec[m].st \in {"none", "live", "forgotten"}
      BY DEF Types, Service, Rec, SyncFleet, Record
    <2> QED
      BY <2>1, <2>2, FeedNumbers DEF FeedInv, FeedOf, Placed
  <1>6. SyncOf(d)' /\ Ahead(d)'
    BY <1>1, <1>2 DEF SyncOf, Ahead, At, Pushing, Rows
  <1>7. ReadOf(d)'
    <2>1. ASSUME NEW m \in Memory, fleet'.rec[m].st = "live", fleet'.rec[m].seq <= lane[d].cursor.seq
          PROVE  Seen(d, m)' /\ Newer(d, m)'
      <3>1. fleet'.rec[m] = fleet.rec[m]
        BY <1>3, <1>5, <2>1 DEF Rises
      <3>2. Seen(d, m) /\ Newer(d, m)
        BY <1>2, <2>1, <3>1 DEF ReadOf, Read, Live, Record
      <3> QED
        BY <1>1, <3>1, <3>2 DEF Seen, Newer, Rows, Record, Pardoned
    <2> QED
      BY <1>1, <2>1 DEF ReadOf, Read, Live, Record, At
  <1>8. MarkOf(d)'
    <2>1. ASSUME NEW m \in Rows(d)
          PROVE  /\ fleet'.rec[m].st # "none" => FleetMayKnow(chunk[d][m])
                 /\ chunk[d][m].syn # 0 \/ ~chunk[d][m].dirty => fleet'.rec[m].st # "none"
                 /\ ~chunk[d][m].dirty /\ fleet'.rec[m].st = "live" => chunk[d][m].ph <= fleet'.rec[m].ph
      <3>1. /\ fleet.rec[m].st # "none" => FleetMayKnow(chunk[d][m])
            /\ chunk[d][m].syn # 0 \/ ~chunk[d][m].dirty => fleet.rec[m].st # "none"
            /\ ~chunk[d][m].dirty /\ fleet.rec[m].st = "live" => chunk[d][m].ph <= fleet.rec[m].ph
        BY <1>2 DEF MarkOf, Record, Live
      <3>2. Uploads(d, m) => FleetMayKnow(chunk[d][m])
        BY <1>2 DEF Uploads, ItemOf, Copy, Pushing, FleetMayKnow, At
      <3> QED
        BY <1>2, <1>3, <1>5, <3>1, <3>2 DEF Rises
    <2> QED
      BY <1>1, <2>1 DEF MarkOf, Rows, Record, Live, At
  <1>9. ItemOf(d)'
    <2>1. \A m \in DOMAIN work[d].items : m \in work[d].forgets => fleet.rec[m].st # "none"
      BY <1>1, <1>2 DEF ItemOf, At, Record
    <2>2. \A m \in DOMAIN work[d].items :
              asked[m] # "no" /\ (m \in Rows(d) => Copy(chunk[d][m], work[d].items[m]))
      BY <1>1, <1>2 DEF ItemOf, Pushing
    <2> QED
      BY <1>1, <1>4, <2>1, <2>2 DEF ItemOf, Rows, Record, Live, At
  <1> QED
    BY <1>6, <1>7, <1>8, <1>9 DEF AgreeOf

LEMMA AgreeTold ==
    ASSUME Types, ForgetInv, NEW d \in Device, AgreeOf(d), Told(d), UNCHANGED <<chunk, lane>>
    PROVE  AgreeOf(d)'
  <1>1. /\ work[d].pc = "results" /\ work'[d].pc = "outcomes" /\ work'[d].items = work[d].items
        /\ work'[d].res = work[d].res
        /\ outbox'[d] = outbox[d] \ (work[d].forgets \ DOMAIN work[d].items)
        /\ UNCHANGED <<clock, removing, fleet, asked, wiped>>
    BY ToldWork
  <1>2. SyncOf(d) /\ ReadOf(d) /\ MarkOf(d) /\ ItemOf(d) /\ Ahead(d)
    BY DEF AgreeOf
  <1>3. \A m \in work[d].forgets \ DOMAIN work[d].items : fleet.rec[m].st # "live"
    BY <1>1 DEF ForgetInv, AckOf, At, Record
  <1>4. \A m \in DOMAIN work[d].items : work[d].res[m] # "sync_disabled"
    <2>1. DOMAIN work[d].res = DOMAIN work[d].items
      BY <1>1 DEF Types, WorkTypes, WorkOK
    <2> QED
      BY <2>1, Zenon DEF Told
  <1>5. SyncOf(d)' /\ MarkOf(d)' /\ Ahead(d)'
    BY <1>1, <1>2 DEF SyncOf, MarkOf, Ahead, At, Pushing, Rows, Record, Live
  <1>6. ItemOf(d)'
    BY <1>1, <1>2, <1>4 DEF ItemOf, Rows, Record, Live, At, Pushing
  <1>7. ReadOf(d)'
    <2>1. \A m \in Memory : fleet.rec[m].st = "live" => (m \in outbox'[d] <=> m \in outbox[d])
      BY <1>1, <1>3
    <2> QED
      BY <1>1, <1>2, <2>1 DEF ReadOf, Read, Seen, Newer, Live, Record, Rows, Pardoned, At
  <1> QED
    BY <1>5, <1>6, <1>7 DEF AgreeOf

LEMMA AgreeOutcomes ==
    ASSUME Types, CalmInv, NEW d \in Device, AgreeOf(d), Outcomes(d)
    PROVE  AgreeOf(d)'
  <1>1. /\ work[d].pc = "outcomes" /\ work'[d].pc \in {"idle", "put"}
        /\ UNCHANGED <<clock, outbox, lane, removing, fleet, asked, wiped>>
        /\ \A m : m \in DOMAIN chunk'[d] <=>
                     /\ m \in DOMAIN chunk[d]
                     /\ ~(m \in DOMAIN work[d].items /\ work[d].res[m] = "forgotten" /\ ~work[d].items[m].demote)
        /\ \A m \in DOMAIN chunk'[d] :
                chunk'[d][m] = IF m \in DOMAIN work[d].items THEN Outcome(chunk[d][m], work[d].items[m], work[d].res[m])
                               ELSE chunk[d][m]
        /\ \A m \in DOMAIN work[d].items : m \in Memory /\ work[d].items[m] \in Item
    BY OutcomeWork
  <1>2. /\ SyncOf(d) /\ ReadOf(d) /\ MarkOf(d) /\ ItemOf(d) /\ Ahead(d)
        /\ Rows(d) \subseteq Memory /\ \A m \in Rows(d) : chunk[d][m] \in Chunk /\ chunk[d][m].ph \in Nat
    BY AgreeTypes DEF AgreeOf
  <1>3. \A m \in DOMAIN work[d].items :
            /\ ~work[d].items[m].demote
            /\ work[d].res[m] \in {"forgotten", "accepted", "content"}
            /\ m \in Rows(d) => Copy(chunk[d][m], work[d].items[m])
            /\ work[d].res[m] = "accepted" => \/ fleet.rec[m].st = "forgotten"
                                              \/ fleet.rec[m].st = "live" /\ work[d].items[m].ph <= fleet.rec[m].ph
            /\ work[d].res[m] = "forgotten" => fleet.rec[m].st = "forgotten"
    <2>1. DOMAIN work[d].res = DOMAIN work[d].items /\ \A m \in DOMAIN work[d].res :
                work[d].res[m] \in {"forgotten", "accepted", "content", "sync_disabled", "resync_required"}
      BY <1>1 DEF Types, WorkTypes, WorkOK
    <2>2. \A m \in DOMAIN work[d].res : work[d].res[m] # "resync_required"
      BY <1>1 DEF CalmInv, CalmOf
    <2>3. \A m \in DOMAIN work[d].items : ~work[d].items[m].demote
      BY <1>1, <1>2 DEF SyncOf, Pushing
    <2> QED
      BY <1>1, <1>2, <2>1, <2>2, <2>3 DEF ItemOf, Pushing, At, Record, Live
  <1>4. ASSUME NEW m \in DOMAIN chunk'[d]
        PROVE  LET c == chunk[d][m]
                   o == chunk'[d][m]
               IN  /\ m \in DOMAIN chunk[d] /\ o.ph = c.ph
                   /\ (c.sent => o.sent) /\ (o.sent \/ o.syn = c.syn)
                   /\ o.syn # 0 => c.syn # 0 \/ fleet.rec[m].st # "none"
                   /\ ~o.dirty => \/ ~c.dirty
                                  \/ fleet.rec[m].st # "none" /\ (fleet.rec[m].st = "live" => o.ph <= fleet.rec[m].ph)
    <2>1. CASE m \notin DOMAIN work[d].items
      BY <1>1, <2>1
    <2>2. CASE m \in DOMAIN work[d].items
      <3> DEFINE c == chunk[d][m]
                 i == work[d].items[m]
                 res == work[d].res[m]
                 o == Outcome(c, i, res)
      <3>1. c \in Chunk /\ i \in Item /\ ~i.demote /\ res \in {"accepted", "content"} /\ m \in DOMAIN chunk[d]
            /\ chunk'[d][m] = o
        BY <1>1, <1>2, <1>3, <2>2 DEF Rows
      <3>2. c.sent /\ (i.gen = c.gen => i.ph = c.ph)
        BY <1>3, <2>2, <3>1 DEF Copy, Rows
      <3>3. /\ o.ph = c.ph /\ (o.sent <=> c.sent) /\ (o.syn # 0 => c.syn # 0 \/ res = "accepted")
            /\ ~o.dirty => ~c.dirty \/ (res = "accepted" /\ c.gen = i.gen)
        BY <3>1, OutcomeFields
      <3>4. res = "accepted" => fleet.rec[m].st # "none" /\ (fleet.rec[m].st = "live" => i.ph <= fleet.rec[m].ph)
        BY <1>3, <2>2
      <3> HIDE DEF o, c, i, res
      <3> QED
        BY <3>1, <3>2, <3>3, <3>4 DEF c
    <2> QED
      BY <2>1, <2>2
  <1>5. SyncOf(d)' /\ ItemOf(d)'
    BY <1>1 DEF SyncOf, ItemOf, At, Pushing
  <1>6. ReadOf(d)'
    <2>1. \A m \in Memory : fleet.rec[m].st = "live" => (m \in DOMAIN chunk[d] <=> m \in DOMAIN chunk'[d])
      BY <1>1, <1>3
    <2>2. \A m \in Memory : fleet.rec[m].st = "live" => (Seen(d, m) => Seen(d, m)') /\ (Newer(d, m) => Newer(d, m)')
      BY <1>1, <1>4, <2>1 DEF Seen, Newer, Rows, Record, Pardoned
    <2> QED
      BY <1>1, <1>2, <2>2 DEF ReadOf, Read, Live, Record, At
  <1>7. MarkOf(d)'
    <2>1. ASSUME NEW m \in DOMAIN chunk'[d]
          PROVE  /\ fleet.rec[m].st # "none" => FleetMayKnow(chunk'[d][m])
                 /\ chunk'[d][m].syn # 0 \/ ~chunk'[d][m].dirty => fleet.rec[m].st # "none"
                 /\ ~chunk'[d][m].dirty /\ fleet.rec[m].st = "live" => chunk'[d][m].ph <= fleet.rec[m].ph
      <3>1. /\ fleet.rec[m].st # "none" => FleetMayKnow(chunk[d][m])
            /\ chunk[d][m].syn # 0 \/ ~chunk[d][m].dirty => fleet.rec[m].st # "none"
            /\ ~chunk[d][m].dirty /\ fleet.rec[m].st = "live" => chunk[d][m].ph <= fleet.rec[m].ph
        BY <1>2, <1>4 DEF MarkOf, Record, Live, Rows
      <3>2. FleetMayKnow(chunk[d][m]) => FleetMayKnow(chunk'[d][m])
        BY <1>4 DEF FleetMayKnow
      <3> QED
        BY <1>4, <3>1, <3>2
    <2> QED
      BY <1>1, <2>1 DEF MarkOf, Rows, Record, Live, At
  <1>8. Ahead(d)'
    BY <1>1, <1>2, <1>4 DEF Ahead, Rows, At
  <1> QED
    BY <1>5, <1>6, <1>7, <1>8 DEF AgreeOf

LEMMA PinFrom ==
    ASSUME Types, Types', PinInv, \A e \in Device : clock[e] <= clock'[e],
           \A m \in Memory : \A p, b : Version(m, p, b)' => Version(m, p, b) \/ (p = 0 /\ b = FALSE)
    PROVE  PinInv'
  <1>1. \A e \in Device : clock[e] \in Nat /\ clock'[e] \in Nat
    BY DEF Types
  <1>2. ASSUME NEW p, Stamp(p) PROVE Stamp(p)'
    <2>1. CASE p = 0
      BY <2>1 DEF Stamp
    <2>2. ASSUME NEW e \in Device, NEW k \in Nat, k <= clock[e], p = k * N + e PROVE Stamp(p)'
      <3>1. k <= clock'[e]
        BY <1>1, <2>2
      <3> QED
        BY <2>2, <3>1 DEF Stamp
    <2> QED
      BY <1>2, <2>1, <2>2 DEF Stamp
  <1>3. Stamp(0)'
    BY DEF Stamp
  <1>4. ASSUME NEW m \in Memory, NEW p, NEW b, NEW c, Version(m, p, b)'
        PROVE  Stamp(p)' /\ (p = 0 => b = FALSE) /\ (Version(m, p, c)' => b = c)
    <2>1. Version(m, p, b) => Stamp(p) /\ (p = 0 => b = FALSE) /\ (Version(m, p, c) => b = c)
      BY DEF PinInv
    <2>2. Version(m, p, c) => (p = 0 => c = FALSE)
      BY DEF PinInv
    <2>3. Version(m, p, c)' => Version(m, p, c) \/ (p = 0 /\ c = FALSE)
      OBVIOUS
    <2>4. Version(m, p, b) \/ (p = 0 /\ b = FALSE)
      BY <1>4
    <2>5. Stamp(p)'
      BY <1>2, <1>3, <2>1, <2>4
    <2> QED
      BY <2>1, <2>2, <2>3, <2>4, <2>5
  <1> QED
    BY <1>4 DEF PinInv

\* An edit of a pin gives it a stamp no other has.
LEMMA PinEdit ==
    ASSUME Types, Types', PinInv, AllSynced, AllSynced', NEW d \in Device, NEW k \in Memory,
           Alone(d), Edits(d, k), UNCHANGED <<lane, work, fleet, wiped>>
    PROVE  PinInv'
  <1> DEFINE a == chunk'[d][k].pin
  <1>1. /\ k \in Rows(d) /\ DOMAIN chunk'[d] = DOMAIN chunk[d]
        /\ \A m \in DOMAIN chunk[d] \ {k} : chunk'[d][m] = chunk[d][m] /\ clock' = Ticked(d)
    BY DEF Edits, Rows
  <1>2. clock' = Ticked(d)
    BY DEF Edits
  <1>10. PICK n \in Nat : n = Tick(d)
    <2>1. Tick(d) \in Nat
      BY <1>2, TickAhead
    <2> QED
      BY <2>1
  <1>3. /\ clock'[d] = clock[d] + 1 /\ n \in Nat /\ n = (clock[d] + 1) * N + d /\ n > 0
        /\ \A e \in Device : clock[e] \in Nat /\ clock[e] <= clock'[e]
    <2>1. clock'[d] = clock[d] + 1 /\ clock[d] * N \in Nat /\ n \in Nat /\ n > clock[d] * N + N
      BY <1>2, <1>10, TickAhead
    <2>2. n > 0
      BY <2>1, SyncConstants
    <2>3. \A e \in Device : clock[e] \in Nat /\ clock[e] <= clock'[e]
      BY <1>2 DEF Types, Ticked
    <2> QED
      BY <1>10, <2>1, <2>2, <2>3 DEF Tick
  <1>4. ~Stamp(n)
    <2>1. ASSUME NEW e \in Device, NEW j \in Nat, j <= clock[e], n = j * N + e PROVE FALSE
      <3>1. clock[d] + 1 \in Nat /\ (clock[d] + 1) * N + d = j * N + e
        BY <1>3, <2>1
      <3>2. clock[d] + 1 = j /\ d = e
        BY <3>1, StampUnique
      <3> QED
        BY <1>3, <2>1, <3>2
    <2> QED
      BY <1>3, <2>1 DEF Stamp
  <1>5. Stamp(n)'
    <2>1. clock'[d] \in Nat /\ n = clock'[d] * N + d
      BY <1>3
    <2> QED
      BY <2>1 DEF Stamp
  <1>6. chunk'[d][k].ph = n
    <2>1. chunk'[d][k] = Repinned(chunk[d][k], n) /\ chunk[d][k] \in Chunk
      BY <1>10, EditsPin
    <2>2. Repinned(chunk[d][k], n).ph = n
      BY <2>1, PinnedFields
    <2> QED
      BY <2>1, <2>2, Zenon
  <1>7. ASSUME NEW m \in Memory, NEW p, NEW b, Version(m, p, b)'
        PROVE  Version(m, p, b) \/ (m = k /\ p = n /\ b = a)
    <2>1. CASE p = Record(m)'.ph /\ b = Record(m)'.pin
      BY <2>1 DEF Version, Record
    <2>2. ASSUME NEW e \in Device, VersionOf(e, m, p, b)' PROVE Version(m, p, b) \/ (m = k /\ p = n /\ b = a)
      <3>1. CASE e # d
        <4>1. VersionOf(e, m, p, b)
          BY <2>2, <3>1 DEF VersionOf, Alone, At, Rows, Uploads
        <4> QED
          BY <4>1 DEF Version
      <3>2. CASE e = d /\ ~(m = k /\ p = n /\ b = a)
        <4>1. VersionOf(e, m, p, b)
          BY <1>1, <1>6, <2>2, <3>2 DEF VersionOf, At, Rows, Uploads
        <4> QED
          BY <4>1 DEF Version
      <3> QED
        BY <3>1, <3>2
    <2> QED
      BY <1>7, <2>1, <2>2 DEF Version
  <1>8. ASSUME NEW p, Stamp(p) PROVE Stamp(p)'
    <2>1. CASE p = 0
      BY <2>1 DEF Stamp
    <2>2. ASSUME NEW e \in Device, NEW j \in Nat, j <= clock[e], p = j * N + e PROVE Stamp(p)'
      <3>1. j <= clock'[e] /\ clock'[e] \in Nat
        BY <1>3, <2>2 DEF Types
      <3> QED
        BY <2>2, <3>1 DEF Stamp
    <2> QED
      BY <1>8, <2>1, <2>2 DEF Stamp
  <1>9. ASSUME NEW m \in Memory, NEW p, NEW b, NEW c, Version(m, p, b)'
        PROVE  Stamp(p)' /\ (p = 0 => b = FALSE) /\ (Version(m, p, c)' => b = c)
    <2>1. Version(m, p, b) => Stamp(p) /\ (p = 0 => b = FALSE) /\ (Version(m, p, c) => b = c)
      BY DEF PinInv
    <2>2. Version(m, p, c) => Stamp(p)
      BY DEF PinInv
    <2>3. Version(m, p, b) \/ (m = k /\ p = n /\ b = a)
      BY <1>7, <1>9
    <2>4. Version(m, p, c)' => Version(m, p, c) \/ (m = k /\ p = n /\ c = a)
      BY <1>7
    <2>5. Stamp(p)'
      BY <1>5, <1>8, <2>1, <2>3
    <2>6. p = 0 => b = FALSE
      BY <1>3, <2>1, <2>3
    <2> HIDE DEF a
    <2>7. Version(m, p, c)' => b = c
      BY <1>4, <2>1, <2>2, <2>3, <2>4
    <2> QED
      BY <2>5, <2>6, <2>7
  <1> QED
    BY <1>9 DEF PinInv

LEMMA PinStep ==
    ASSUME Types, Types', FeedInv, CalmInv, SyncFleet, PinInv, AllSynced, AllSynced',
           NEW d \in Device, AgreeOf(d), Alone(d), CalmMove(d),
           \A e \in Device : clock[e] <= clock'[e]
    PROVE  PinInv'
  <1>1. SUFFICES
            \/ PinInv'
            \/ \A m \in Memory : \A p, b :
                 /\ p = fleet'.rec[m].ph /\ b = fleet'.rec[m].pin => Version(m, p, b) \/ (p = 0 /\ b = FALSE)
                 /\ VersionOf(d, m, p, b)' => Version(m, p, b) \/ (p = 0 /\ b = FALSE)
    <2>1. ASSUME \A m \in Memory : \A p, b :
                 /\ p = fleet'.rec[m].ph /\ b = fleet'.rec[m].pin => Version(m, p, b) \/ (p = 0 /\ b = FALSE)
                 /\ VersionOf(d, m, p, b)' => Version(m, p, b) \/ (p = 0 /\ b = FALSE)
          PROVE  PinInv'
      <3>1. \A e \in Device \ {d} : \A m \in Memory : \A p, b : VersionOf(e, m, p, b)' => VersionOf(e, m, p, b)
        BY DEF VersionOf, Alone, At, Rows, Uploads
      <3>2. ASSUME NEW m \in Memory, NEW p, NEW b, Version(m, p, b)' PROVE Version(m, p, b) \/ (p = 0 /\ b = FALSE)
        <4>1. CASE p = fleet'.rec[m].ph /\ b = fleet'.rec[m].pin
          BY <2>1, <4>1
        <4>2. ASSUME NEW e \in Device, VersionOf(e, m, p, b)' PROVE Version(m, p, b) \/ (p = 0 /\ b = FALSE)
          <5>1. CASE e = d
            BY <2>1, <4>2, <5>1
          <5>2. CASE e # d
            BY <3>1, <4>2, <5>2 DEF Version
          <5> QED
            BY <5>1, <5>2
        <4> QED
          BY <3>2, <4>1, <4>2 DEF Version, Record
      <3> QED
        BY <3>2, PinFrom
    <2> QED
      BY <2>1
  <1>2. /\ Rows(d) \subseteq Memory /\ \A m \in Rows(d) : chunk[d][m] \in Chunk
        /\ SyncOf(d) /\ ItemOf(d)
    BY AgreeTypes DEF AgreeOf
  <1>3. fleet'.rec = fleet.rec => \A m \in Memory : \A p, b :
            p = fleet'.rec[m].ph /\ b = fleet'.rec[m].pin => Version(m, p, b)
    BY DEF Version, Record
  <1>4. \A m \in Memory : \A p, b : VersionOf(d, m, p, b) => Version(m, p, b)
    BY DEF Version
  <1>5. CASE Turn(d)
    <2>1. chunk' = chunk /\ fleet'.rec = fleet.rec
      BY <1>5 DEF Turn, SameFeed
    <2>2. \/ work'[d] = work[d]
          \/ work'[d].pc \notin {"apply", "send"}
          \/ work'[d].pc = "send" /\ DOMAIN work'[d].items = {}
      BY <1>5, TurnWork
    <2>3. \A m \in Memory : \A p, b : VersionOf(d, m, p, b)' => VersionOf(d, m, p, b)
      BY <2>1, <2>2 DEF VersionOf, At, Rows, Uploads
    <2> QED
      BY <1>3, <1>4, <2>1, <2>3
  <1>6. CASE User(d)
    <2>1. UNCHANGED <<lane, work, fleet, wiped>>
      BY <1>6, UserFacts
    <2>2. PICK k \in Memory : Adds(d, k) \/ Edits(d, k) \/ Removes(d, k) \/ Records(d, k)
      BY <1>6, UserFacts
    <2>3. CASE Edits(d, k)
      BY <2>1, <2>3, PinEdit
    <2>4. CASE Adds(d, k)
      <3>1. /\ DOMAIN chunk'[d] = DOMAIN chunk[d] \cup {k} /\ \E b \in Stamps(k) : chunk'[d][k] = Added(d, b)
            /\ \A m \in DOMAIN chunk[d] \ {k} : chunk'[d][m] = chunk[d][m]
        BY <2>4 DEF Adds
      <3>2. chunk'[d][k].ph = 0 /\ chunk'[d][k].pin = FALSE
        BY <3>1, AddedFields
      <3>3. \A m \in Memory : \A p, b : VersionOf(d, m, p, b)' => VersionOf(d, m, p, b) \/ (p = 0 /\ b = FALSE)
        BY <2>1, <3>1, <3>2 DEF VersionOf, At, Rows, Uploads
      <3> QED
        BY <1>3, <1>4, <2>1, <3>3
    <2>5. CASE Removes(d, k) \/ Records(d, k)
      <3>1. DOMAIN chunk'[d] \subseteq DOMAIN chunk[d] /\ \A m \in DOMAIN chunk'[d] : chunk'[d][m] = chunk[d][m]
        BY <2>5 DEF Removes, Records
      <3>2. \A m \in Memory : \A p, b : VersionOf(d, m, p, b)' => VersionOf(d, m, p, b)
        BY <2>1, <3>1 DEF VersionOf, At, Rows, Uploads
      <3> QED
        BY <1>3, <1>4, <2>1, <3>2
    <2> QED
      BY <2>2, <2>3, <2>4, <2>5
  <1>7. CASE Fetched(d)
    <2>1. /\ work'[d].pc = "apply" /\ \A m \in DOMAIN work'[d].recs : work'[d].recs[m] = fleet.rec[m]
          /\ UNCHANGED <<chunk, fleet>>
      BY <1>7, FetchedFacts
    <2>2. \A m \in Memory : \A p, b : VersionOf(d, m, p, b)' => Version(m, p, b)
      BY <2>1 DEF VersionOf, Version, At, Rows, Uploads, Record
    <2> QED
      BY <1>3, <2>1, <2>2
  <1>8. CASE ApplyPage(d)
    <2>1. work[d].pc = "apply" /\ work'[d].pc = "cursor" /\ fleet' = fleet
      BY <1>8, ApplyWork
    <2>2. lane[d].reset = ""
      BY DEF CalmInv, CalmOf
    <2>3. \A m \in DOMAIN work[d].recs : work[d].recs[m].st # "left" /\ work[d].recs[m] \in Rec
      BY <1>2, <2>1, AgreeTypes DEF SyncOf, At
    <2>4. ASSUME NEW m \in DOMAIN chunk'[d]
          PROVE  LET n == chunk'[d][m] IN
                 \/ m \in DOMAIN chunk[d] /\ n.ph = chunk[d][m].ph /\ n.pin = chunk[d][m].pin
                 \/ m \in DOMAIN work[d].recs /\ n.ph = work[d].recs[m].ph /\ n.pin = work[d].recs[m].pin
      <3> DEFINE r == work[d].recs[m]
      <3>1. CASE m \notin DOMAIN work[d].recs
        <4>1. m \in DOMAIN chunk[d] /\ chunk'[d][m] = chunk[d][m]
          BY <1>8, <2>4, <3>1, ApplyFacts, Zenon
        <4> QED
          BY <4>1
      <3>2. CASE m \in DOMAIN work[d].recs /\ m \in DOMAIN chunk[d]
        <4>1. chunk'[d][m] = Pulled(chunk[d][m], r, 1)
          BY <1>8, <2>2, <2>3, <3>2, ApplyFacts, Zenon
        <4>2. chunk[d][m] \in Chunk /\ r \in Rec
          BY <1>2, <2>3, <3>2 DEF Rows
        <4>3. LET q == Pulled(chunk[d][m], r, 1) IN
                \/ q.ph = chunk[d][m].ph /\ q.pin = chunk[d][m].pin
                \/ q.ph = r.ph /\ q.pin = r.pin
          BY <4>2, PulledFields
        <4> QED
          BY <3>2, <4>1, <4>3
      <3>3. CASE m \in DOMAIN work[d].recs /\ m \notin DOMAIN chunk[d]
        <4>1. chunk'[d][m] = Inserted(r, 1)
          BY <1>8, <2>2, <2>3, <3>3, ApplyFacts, Zenon
        <4>2. Inserted(r, 1).ph = r.ph /\ Inserted(r, 1).pin = r.pin
          BY DEF Inserted
        <4> QED
          BY <3>3, <4>1, <4>2
      <3> QED
        BY <3>1, <3>2, <3>3
    <2>5. \A m \in Memory : \A p, b : VersionOf(d, m, p, b)' => VersionOf(d, m, p, b)
      BY <2>1, <2>4 DEF VersionOf, At, Rows, Uploads
    <2> QED
      BY <1>3, <1>4, <2>1, <2>5
  <1>9. CASE SaveCursor(d) \/ (Told(d) /\ UNCHANGED <<chunk, lane>>)
    <2>1. work'[d].pc \notin {"apply", "send"} /\ UNCHANGED <<chunk, fleet>>
      BY <1>9, SaveWork, ToldWork
    <2>2. \A m \in Memory : \A p, b : VersionOf(d, m, p, b)' => VersionOf(d, m, p, b)
      BY <2>1 DEF VersionOf, At, Rows, Uploads
    <2> QED
      BY <1>3, <1>4, <2>1, <2>2
  <1>10. CASE MarkSyncSent(d)
    <2> DEFINE ids == work[d].ids \cap DOMAIN chunk[d]
    <2>1. /\ \/ work'[d].pc = "idle"
             \/ /\ work'[d].pc = "send" /\ DOMAIN work'[d].items = ids
                /\ \A m \in ids : work'[d].items[m] = BuildItem(chunk[d][m])
          /\ DOMAIN chunk'[d] = DOMAIN chunk[d]
          /\ \A m \in DOMAIN chunk[d] : IF m \in ids THEN \E h : chunk'[d][m] = Marked(chunk[d][m], h)
                                             ELSE chunk'[d][m] = chunk[d][m]
          /\ fleet' = fleet
      BY <1>10, MarkWork
    <2>2. ids \subseteq DOMAIN chunk[d]
      OBVIOUS
    <2>3. ASSUME NEW m \in DOMAIN chunk[d]
          PROVE  /\ chunk'[d][m].ph = chunk[d][m].ph /\ chunk'[d][m].pin = chunk[d][m].pin
                 /\ BuildItem(chunk[d][m]).ph = chunk[d][m].ph /\ BuildItem(chunk[d][m]).pin = chunk[d][m].pin
      BY <1>2, <2>1, MarkedFields DEF Rows
    <2> HIDE DEF ids
    <2>4. ASSUME NEW m \in Memory, NEW p, NEW b, VersionOf(d, m, p, b)' PROVE VersionOf(d, m, p, b)
      <3>1. \/ m \in DOMAIN chunk[d] /\ p = chunk'[d][m].ph /\ b = chunk'[d][m].pin
            \/ m \in ids /\ p = BuildItem(chunk[d][m]).ph /\ b = BuildItem(chunk[d][m]).pin
        BY <2>1, <2>4 DEF VersionOf, At, Rows, Uploads
      <3> QED
        BY <2>1, <2>2, <2>3, <3>1 DEF VersionOf, Rows
    <2> QED
      BY <1>3, <1>4, <2>1, <2>4
  <1>11. CASE Send(d)
    <2>1. work[d].pc = "send" /\ work'[d].pc = "results" /\ UNCHANGED chunk
      BY <1>11, SendWork
    <2>2. ASSUME NEW m \in Memory
          PROVE  \/ fleet'.rec[m].ph = fleet.rec[m].ph /\ fleet'.rec[m].pin = fleet.rec[m].pin
                 \/ fleet'.rec[m].ph = 0 /\ fleet'.rec[m].pin = FALSE
                 \/ /\ m \in DOMAIN work[d].items
                    /\ fleet'.rec[m].ph = work[d].items[m].ph /\ fleet'.rec[m].pin = work[d].items[m].pin
      BY <1>2, <1>11, SendRises
    <2>3. ASSUME NEW m \in Memory, NEW p, NEW b, p = fleet'.rec[m].ph, b = fleet'.rec[m].pin
          PROVE  Version(m, p, b) \/ (p = 0 /\ b = FALSE)
      <3>1. CASE p = fleet.rec[m].ph /\ b = fleet.rec[m].pin
        BY <3>1 DEF Version, Record
      <3>2. CASE m \in DOMAIN work[d].items /\ p = work[d].items[m].ph /\ b = work[d].items[m].pin
        <4>1. VersionOf(d, m, p, b)
          BY <2>1, <3>2 DEF VersionOf, Uploads, At
        <4> QED
          BY <1>4, <4>1
      <3> QED
        BY <2>2, <2>3, <3>1, <3>2
    <2>4. \A m \in Memory : \A p, b : VersionOf(d, m, p, b)' => VersionOf(d, m, p, b)
      BY <2>1 DEF VersionOf, At, Rows, Uploads
    <2> QED
      BY <1>4, <2>3, <2>4
  <1>12. CASE Outcomes(d)
    <2>1. /\ work[d].pc = "outcomes" /\ work'[d].pc \in {"idle", "put"} /\ fleet' = fleet
          /\ \A m : m \in DOMAIN chunk'[d] <=>
                     /\ m \in DOMAIN chunk[d]
                     /\ ~(m \in DOMAIN work[d].items /\ work[d].res[m] = "forgotten" /\ ~work[d].items[m].demote)
          /\ \A m \in DOMAIN chunk'[d] :
                chunk'[d][m] = IF m \in DOMAIN work[d].items THEN Outcome(chunk[d][m], work[d].items[m], work[d].res[m])
                               ELSE chunk[d][m]
          /\ \A m \in DOMAIN work[d].items : work[d].items[m] \in Item
      BY <1>12, OutcomeWork
    <2>2. \A m \in DOMAIN work[d].items :
              ~work[d].items[m].demote /\ work[d].res[m] \in {"forgotten", "accepted", "content"}
      <3>1. DOMAIN work[d].res = DOMAIN work[d].items /\ \A m \in DOMAIN work[d].res :
                work[d].res[m] \in {"forgotten", "accepted", "content", "sync_disabled", "resync_required"}
        BY <2>1 DEF Types, WorkTypes, WorkOK
      <3>2. \A m \in DOMAIN work[d].res : work[d].res[m] # "resync_required"
        BY <2>1 DEF CalmInv, CalmOf
      <3> QED
        BY <1>2, <2>1, <3>1, <3>2 DEF ItemOf, SyncOf, Pushing, At
    <2>3. ASSUME NEW m \in DOMAIN chunk'[d]
          PROVE  m \in DOMAIN chunk[d] /\ chunk'[d][m].ph = chunk[d][m].ph /\ chunk'[d][m].pin = chunk[d][m].pin
      <3>1. CASE m \notin DOMAIN work[d].items
        BY <2>1, <3>1
      <3>2. CASE m \in DOMAIN work[d].items
        <4>1. /\ m \in DOMAIN chunk[d] /\ chunk[d][m] \in Chunk /\ work[d].items[m] \in Item
              /\ ~work[d].items[m].demote /\ work[d].res[m] \in {"accepted", "content"}
              /\ chunk'[d][m] = Outcome(chunk[d][m], work[d].items[m], work[d].res[m])
          BY <1>2, <2>1, <2>2, <3>2 DEF Rows
        <4> QED
          BY <4>1, OutcomeFields
      <3> QED
        BY <3>1, <3>2
    <2>4. \A m \in Memory : \A p, b : VersionOf(d, m, p, b)' => VersionOf(d, m, p, b)
      BY <2>1, <2>3 DEF VersionOf, At, Rows, Uploads
    <2> QED
      BY <1>3, <1>4, <2>1, <2>4
  <1> QED
    BY <1>1, <1>5, <1>6, <1>7, <1>8, <1>9, <1>10, <1>11, <1>12 DEF CalmMove

LEMMA AgreeInit == Init => SyncFleet /\ (\A d \in Device : AgreeOf(d)) /\ PinInv
  <1> SUFFICES ASSUME Init PROVE SyncFleet /\ (\A d \in Device : AgreeOf(d)) /\ PinInv
    OBVIOUS
  <1>1. \A d \in Device : DOMAIN chunk[d] = {} /\ work[d].pc = "idle" /\ clock[d] = 0
    BY DEF Init, Idle
  <1>2. \A m \in Memory : Record(m).st = "none" /\ Record(m).ph = 0 /\ Record(m).pin = FALSE
    BY DEF Init, Gone, Record
  <1>3. SyncFleet
    BY <1>2 DEF SyncFleet
  <1>4. \A d \in Device : SyncOf(d) /\ MarkOf(d) /\ ItemOf(d) /\ Ahead(d)
    BY <1>1 DEF SyncOf, MarkOf, ItemOf, Ahead, At, Pushing, Rows
  <1>5. \A d \in Device : ReadOf(d)
    BY <1>1, <1>2 DEF ReadOf, Read, Live, At, Record
  <1>6. \A m \in Memory : \A p, b : Version(m, p, b) => p = 0 /\ b = FALSE
    BY <1>1, <1>2 DEF Version, VersionOf, Uploads, At, Rows
  <1>7. PinInv
    <2>1. Stamp(0)
      BY DEF Stamp
    <2>2. ASSUME NEW m \in Memory, NEW p, NEW b, NEW c, Version(m, p, b)
          PROVE  Stamp(p) /\ (p = 0 => b = FALSE) /\ (Version(m, p, c) => b = c)
      <3>1. p = 0 /\ b = FALSE /\ (Version(m, p, c) => c = FALSE)
        BY <1>6, <2>2
      <3> QED
        BY <2>1, <3>1
    <2> QED
      BY <2>2 DEF PinInv
  <1> QED
    BY <1>3, <1>4, <1>5, <1>7 DEF AgreeOf

LEMMA CalmClock ==
    ASSUME Types, NEW d \in Device, Alone(d), CalmMove(d)
    PROVE  \A e \in Device : clock[e] <= clock'[e]
  <1>1. clock \in [Device -> Nat]
    BY DEF Types
  <1>2. clock' = clock \/ clock' = Ticked(d) => \A e \in Device : clock[e] <= clock'[e]
    BY <1>1 DEF Ticked
  <1>3. CASE Fetched(d)
    <2>1. PICK c \in Nat : clock' = [clock EXCEPT ![d] = c] /\ c >= clock[d]
      BY <1>3 DEF Fetched
    <2> QED
      BY <1>1, <2>1
  <1>4. CASE User(d)
    BY <1>2, <1>4, UserFacts DEF Adds, Edits, Removes, Records
  <1>5. CASE Turn(d) \/ SaveCursor(d) \/ Told(d)
    BY <1>2, <1>5, SaveWork, ToldWork DEF Turn
  <1>6. CASE ApplyPage(d) \/ MarkSyncSent(d) \/ Send(d) \/ Outcomes(d)
    BY <1>2, <1>6, ApplyWork, MarkWork, SendWork, OutcomeWork
  <1> QED
    BY <1>3, <1>4, <1>5, <1>6 DEF CalmMove

LEMMA CalmAsked ==
    ASSUME Types, NEW d \in Device, CalmMove(d), NEW m \in Memory
    PROVE  (Pardoned(m) => Pardoned(m)') /\ (asked'[m] = "no" => asked[m] = "no")
  <1>1. asked'[m] = "no" => asked[m] = "no"
    <2>1. Move(d)
      BY DEF CalmMove, Move
    <2> QED
      BY <2>1, AskedBack
  <1>2. CASE Turn(d)
    BY <1>1, <1>2 DEF Turn, Pardoned
  <1>3. CASE User(d)
    <2>1. asked \in [Memory -> {"no", "live", "void", "asked", "queued", "cut"}]
      BY DEF Types
    <2>2. PICK k \in Memory : Adds(d, k) \/ Edits(d, k) \/ Removes(d, k) \/ Records(d, k)
      BY <1>3, UserFacts
    <2>3. asked'[m] = asked[m] \/ asked'[m] = "void" \/ asked[m] \in {"no", "live", "asked"}
      BY <2>1, <2>2 DEF Adds, Edits, Removes, Records
    <2> QED
      BY <1>1, <2>3 DEF Pardoned
  <1>4. CASE Fetched(d) \/ SaveCursor(d) \/ Told(d)
    BY <1>1, <1>4, FetchedFacts, SaveWork, ToldWork DEF Pardoned
  <1>5. CASE ApplyPage(d) \/ MarkSyncSent(d) \/ Send(d) \/ Outcomes(d)
    BY <1>1, <1>5, ApplyWork, MarkWork, SendWork, OutcomeWork DEF Pardoned
  <1> QED
    BY <1>2, <1>3, <1>4, <1>5 DEF CalmMove

LEMMA CalmFleet ==
    ASSUME Types, NEW d \in Device, CalmMove(d)
    PROVE  Send(d) \/ SameFeed
  <1>1. CASE Turn(d)
    BY <1>1 DEF Turn
  <1>2. CASE User(d) \/ Fetched(d) \/ SaveCursor(d) \/ Told(d)
    BY <1>2, UserFacts, FetchedFacts, SaveWork, ToldWork DEF SameFeed
  <1>3. CASE ApplyPage(d) \/ MarkSyncSent(d) \/ Outcomes(d)
    BY <1>3, ApplyWork, MarkWork, OutcomeWork DEF SameFeed
  <1> QED
    BY <1>1, <1>2, <1>3 DEF CalmMove

LEMMA AgreeStep ==
    ASSUME Calm, Types, FeedInv, CalmInv, HolderInv, ForgetInv,
           SyncFleet, \A d \in Device : AgreeOf(d), PinInv, AllSynced, AllSynced', [Next]_vars
    PROVE  SyncFleet' /\ (\A d \in Device : AgreeOf(d)') /\ PinInv'
  <1>1. Types'
    BY TypesStep
  <1>2. CASE UNCHANGED vars
    <2>1. UNCHANGED <<chunk, clock, outbox, lane, work, removing, fleet, asked>>
      BY <1>2 DEF vars
    <2>2. SyncFleet' /\ PinInv'
      BY <2>1 DEF SyncFleet, PinInv, Version, VersionOf, Stamp, Record, At, Rows, Uploads
    <2>3. ASSUME NEW d \in Device PROVE AgreeOf(d)'
      <3>1. SyncOf(d)' /\ MarkOf(d)' /\ ItemOf(d)' /\ Ahead(d)'
        BY <2>1 DEF AgreeOf, SyncOf, MarkOf, ItemOf, Ahead, At, Rows, Record, Live
      <3>2. ReadOf(d)'
        BY <2>1 DEF AgreeOf, ReadOf, Read, Seen, Newer, Pardoned, At, Rows, Record, Live
      <3> QED
        BY <3>1, <3>2 DEF AgreeOf
    <2> QED
      BY <2>2, <2>3
  <1>3. CASE Next
    <2>1. PICK d \in Device : Alone(d) /\ CalmMove(d)
      BY <1>3, CalmNext
    <2>2. \A e \in Device : clock[e] <= clock'[e]
      BY <2>1, CalmClock
    <2>3. \A m \in Memory : (Pardoned(m) => Pardoned(m)') /\ (asked'[m] = "no" => asked[m] = "no")
      BY <2>1, CalmAsked
    <2>4. AgreeOf(d) /\ SyncOf(d)
      BY DEF AgreeOf
    <2>5. Rises(d) /\ SyncFleet'
      <3>1. CASE Send(d)
        BY <2>4, <3>1, SendRises
      <3>2. CASE SameFeed
        BY <3>2 DEF SameFeed, Rises, SyncFleet, Record
      <3> QED
        BY <2>1, <3>1, <3>2, CalmFleet
    <2>6. PinInv'
      BY <1>1, <2>1, <2>2, <2>4, PinStep
    <2>7. ASSUME NEW e \in Device \ {d} PROVE AgreeOf(e)'
      <3>1. /\ lane'[e].cursor = lane[e].cursor /\ chunk'[e] = chunk[e] /\ outbox'[e] = outbox[e]
            /\ clock[e] <= clock'[e] /\ work'[e] = work[e] /\ removing'[e] = removing[e] /\ AgreeOf(e)
        BY <2>1, <2>2 DEF Alone
      <3> QED
        BY <1>1, <2>3, <2>5, <3>1, AgreeStill
    <2>8. AgreeOf(d)'
      <3>1. CASE Turn(d)
        <4>1. /\ lane'[d].cursor = lane[d].cursor /\ chunk'[d] = chunk[d] /\ outbox'[d] = outbox[d]
              /\ SameFeed
              /\ \A m \in Memory : <<m, TRUE>> \in removing[d] => <<m, TRUE>> \in removing'[d] \/ Pardoned(m)'
          BY <3>1 DEF Turn, Pardoned
        <4>2. \/ work'[d] = work[d]
              \/ ~Paging(work'[d]) /\ (Pushing(work'[d]) => work'[d].pc = "send" /\ DOMAIN work'[d].items = {})
          BY <3>1, TurnWork DEF Paging, Pushing
        <4> QED
          BY <1>1, <2>2, <2>3, <2>4, <2>5, <4>1, <4>2, AgreeStill
      <3>2. CASE User(d)
        BY <1>1, <2>4, <3>2, AgreeUser
      <3>3. CASE Fetched(d)
        BY <1>1, <2>4, <3>3, AgreeFetched
      <3>4. CASE ApplyPage(d)
        BY <1>1, <2>4, <3>4, AgreeApply
      <3>5. CASE SaveCursor(d)
        BY <2>4, <3>5, AgreeSave
      <3>6. CASE MarkSyncSent(d)
        BY <1>1, <2>4, <3>6, AgreeMark
      <3>7. CASE Send(d)
        BY <1>1, <2>4, <3>7, AgreeSend
      <3>8. CASE Told(d) /\ UNCHANGED <<chunk, lane>>
        BY <2>4, <3>8, AgreeTold
      <3>9. CASE Outcomes(d)
        BY <2>4, <3>9, AgreeOutcomes
      <3> QED
        BY <2>1, <3>1, <3>2, <3>3, <3>4, <3>5, <3>6, <3>7, <3>8, <3>9 DEF CalmMove
    <2> QED
      BY <2>5, <2>6, <2>7, <2>8
  <1> QED
    BY <1>2, <1>3

\* When all is quiet every record was read and every row is clean: neither pin is
\* older than the other, so they are the same.
LEMMA AgreeGoal ==
    ASSUME Types, ForgetInv, SyncFleet, \A d \in Device : AgreeOf(d), PinInv, AllSynced
    PROVE  Agree
  <1> SUFFICES ASSUME Quiet, NEW d \in Device, NEW m \in Memory, asked[m] \notin {"cut", "void"}
               PROVE  /\ Live(m) => m \in Rows(d) /\ chunk[d][m].pin = fleet.rec[m].pin
                      /\ m \in Rows(d) => (Live(m) <=> chunk[d][m].scope = "sync")
    BY DEF Agree
  <1>1. /\ outbox[d] = {} /\ removing[d] = {} /\ After(lane[d].cursor) = {}
        /\ \A k \in Rows(d) : ~PushCandidate(chunk[d][k])
    BY DEF Quiet
  <1>2. Record(m).seq <= lane[d].cursor.seq
    <2>1. lane[d].cursor.seq \in Nat /\ Record(m).seq \in Nat
      BY FeedNumbers DEF Record
    <2> QED
      BY <1>1, <2>1 DEF After, Record
  <1>3. ReadOf(d) /\ MarkOf(d) /\ TombOf(d)
    BY DEF AgreeOf, ForgetInv
  <1>4. m \in Rows(d) => chunk[d][m].scope = "sync" /\ ~chunk[d][m].dirty /\ chunk[d][m].syn # 0
    BY <1>1 DEF AllSynced, PushCandidate
  <1>5. ASSUME Live(m) PROVE m \in Rows(d) /\ chunk[d][m].pin = fleet.rec[m].pin
    <2>1. Seen(d, m) /\ Newer(d, m)
      BY <1>2, <1>3, <1>5 DEF ReadOf, Read
    <2>2. m \in Rows(d)
      BY <1>1, <2>1 DEF Seen, Pardoned
    <2>3. chunk[d][m].ph >= Record(m).ph
      BY <1>1, <2>1, <2>2 DEF Newer
    <2>4. chunk[d][m].ph <= Record(m).ph
      BY <1>3, <1>4, <1>5, <2>2 DEF MarkOf
    <2>5. chunk[d][m].ph = Record(m).ph
      BY <2>2, <2>3, <2>4, AgreeTypes DEF Record
    <2>6. Version(m, Record(m).ph, chunk[d][m].pin) /\ Version(m, Record(m).ph, Record(m).pin)
      BY <2>2, <2>5 DEF Version, VersionOf
    <2> QED
      BY <2>2, <2>6 DEF PinInv, Record
  <1>6. ASSUME m \in Rows(d) PROVE Live(m)
    <2>1. Record(m).st # "none"
      BY <1>3, <1>4, <1>6 DEF MarkOf
    <2>2. Record(m).st # "forgotten"
      <3>1. lane[d].cursor.seq \in Nat /\ Record(m).seq \in Nat
        BY FeedNumbers DEF Record
      <3> QED
        BY <1>2, <1>3, <1>6, <3>1 DEF TombOf
    <2>3. Record(m).st \in {"none", "live", "left", "forgotten"}
      BY AgreeTypes DEF Record, Rec
    <2> QED
      BY <2>1, <2>2, <2>3 DEF SyncFleet, Live, Record
  <1> QED
    BY <1>4, <1>5, <1>6

\* Devices that keep their memories in the synced scopes agree with Fleet when all
\* is quiet (Agree), with any number of devices, memories, edits of pins, forgets,
\* switches, crashes, failed requests and lost answers, if Fleet sweeps no
\* tombstone and nobody erases.
THEOREM SyncAgree == Calm => (Spec /\ []AllSynced => []Agree)
  <1> SUFFICES ASSUME Calm PROVE Spec /\ []AllSynced => []Agree
    OBVIOUS
  <1> DEFINE Base == Types /\ FeedInv /\ CalmInv /\ HolderInv /\ ForgetInv
             Inv == Base /\ SyncFleet /\ (\A d \in Device : AgreeOf(d)) /\ PinInv
  <1>1. Init => Inv
    BY TypesInit, FeedInit, CalmInit, HolderInit, ForgetInit, AgreeInit
  <1>2. Inv /\ AllSynced /\ AllSynced' /\ [Next]_vars => Inv'
    BY TypesStep, FeedStep, ForgetStep, AgreeStep
  <1>3. Inv /\ AllSynced => Agree
    BY AgreeGoal
  <1> HIDE DEF Inv
  <1> QED
    BY <1>1, <1>2, <1>3, PTL DEF Spec

-----------------------------------------------------------------------------
(* With erases, by one device.                                             *)

\* Only d0 ever erases Fleet's copy.
SoleEraser(d0) == \A d \in Device : lane[d].erasePending => d = d0

\* Every device can be told of an erase: it has a cursor to refuse, and none of its
\* rows is stamped by a clock ahead of Fleet's. It makes every memory Covered.
Reached ==
    (\E d \in Device : At(d, "erase")) =>
        \A e \in Device : Heard(e) /\ \A m \in Rows(e) : chunk[e][m].born <= fleet.era

\* A cursor that an erase at place n of the feed has left behind.
Behind(x, n) == \/ x.kind = "plain" /\ x.seq < n
                \/ x.kind = "page" /\ x.erased # n

Old(x) == Behind(x, fleet.erasedAt)

\* A row Fleet had, which its device does not know to be there.
Open(e, m) == m \in Rows(e) /\ chunk[e][m].syn = 0 /\ Known(m)

\* The erase that is being replayed removes the row.
Replay(e, m) == lane[e].reset = "erased" /\ chunk[e][m].born < lane[e].before

\* A pull from x meets the memory, or is refused for an erase.
Meets(m, x) == Old(x) \/ (Record(m).st # "none" /\ Record(m).seq > x.seq)

OwnPush(d) == \/ work[d].pc \in {"push", "mark"}
              \/ Pushing(work[d]) /\ work[d].then = "idle"

\* No sweep has moved the floor since the cursor was given.
Paged(x) == x.kind = "page" => x.floor = x.erased

\* Rows are swept in a reset only.
Sweeps(d) == work[d].pc \in {"sweep", "swept"} => lane[d].reset # ""

\* What a lane's steps say of its state.
LaneOf(d) ==
    /\ work[d].pc \in {"erase", "erased", "clear", "cleared"} => lane[d].erasePending
    /\ Paged(lane[d].cursor) /\ Paged(lane[d].rcursor)
    /\ Paging(work[d]) => Paged(work[d].cu) /\ (work[d].cu.kind = "start" => Cur(d).kind = "start")
    /\ OwnPush(d) /\ ~At(d, "outcomes") => lane[d].reset = ""
    /\ Sweeps(d)
    /\ Pushing(work[d]) /\ work[d].then = "put" => DOMAIN work[d].items = {}
    /\ At(d, "results") => \A m, k \in DOMAIN work[d].res :
            work[d].res[m] = "accepted" => work[d].res[k] # "resync_required"
    /\ At(d, "outcomes") => \A m \in DOMAIN work[d].res : work[d].res[m] # "sync_disabled"

\* What an erase took off Fleet is not there, and only d0 erased.
WipeInv(d0) ==
    /\ fleet.floor = fleet.erasedAt
    /\ \A m \in Memory : wiped[m] \subseteq {d0} /\ (wiped[m] # {} => Record(m).st = "none")

\* A row of a device that never erases: one Fleet lost will be refused or swept.
RowOf(e, m) ==
    LET c == chunk[e][m] IN
    /\ Known(m) => FleetMayKnow(c)
    /\ c.syn # 0 => Known(m)
    /\ c.syn = 0 => ~Dropping(e, m)
    /\ c.syn # 0 /\ Record(m).st = "none" /\ ~(Resetting(e) /\ c.syn = 1) =>
            Old(Cur(e)) /\ (Paging(work[e]) => Old(work[e].cu))
    /\ At(e, "swept") => c.syn # 1

\* An open row: the erase removes it, or a pull finds it, before it is pushed again.
OpenOf(e, m) ==
    /\ \/ Record(m).st = "none" \/ Old(Cur(e)) \/ (Paging(work[e]) /\ Old(work[e].cu))
       => chunk[e][m].born < fleet.era
    /\ lane[e].reset # "cursor_expired"
    /\ Replay(e, m) \/ Meets(m, Cur(e))
    /\ At(e, "sweep") => Replay(e, m)
    /\ ~At(e, "swept")
    /\ At(e, "apply") => Replay(e, m) \/ m \in DOMAIN work[e].recs
                         \/ (work[e].more /\ Meets(m, work[e].cu))
    /\ At(e, "cursor") => Replay(e, m) \/ (work[e].more /\ Meets(m, work[e].cu))
    /\ OwnPush(e) => /\ work[e].pc \in {"results", "outcomes"}
                     /\ m \in DOMAIN work[e].items /\ work[e].res[m] = "accepted"

\* What such a device has pulled and sends: no content of a memory Fleet had.
FlightOf(e) ==
    /\ At(e, "apply") => \A m \in DOMAIN work[e].recs : Record(m).st = "none" =>
            Old(Cur(e)) /\ Old(work[e].cu)
    /\ At(e, "send") => \A m \in DOMAIN work[e].items :
        /\ work[e].items[m].content => ~Known(m) /\ m \notin work[e].forgets
        /\ ~work[e].items[m].content /\ Record(m).st = "none" => Old(lane[e].cursor)
        /\ m \in Rows(e) => chunk[e][m].sent
    /\ work[e].pc \in {"results", "outcomes"} => \A m \in DOMAIN work[e].res :
            work[e].res[m] # "content" /\ (work[e].res[m] = "accepted" => Known(m))

KeepOf(e) ==
    /\ \A m \in Rows(e) : RowOf(e, m) /\ (Open(e, m) => OpenOf(e, m))
    /\ FlightOf(e)

\* With no sweep since, a cursor is refused for an erase or not at all.
LEMMA StaleErased ==
    ASSUME Types, NEW x \in Cursor, Paged(x), fleet.floor = fleet.erasedAt
    PROVE  Stale(x) = IF Old(x) THEN "erased" ELSE ""
  <1>1. x.seq \in Nat /\ x.floor \in Nat /\ x.erased \in Nat /\ x.kind \in {"start", "plain", "page"}
        /\ fleet.floor \in Nat
    BY FeedNumbers
  <1>2. CASE x.kind = "plain"
    BY <1>1, <1>2 DEF Stale, Old, Behind
  <1>3. CASE x.kind = "page"
    <2>1. x.floor = x.erased
      BY <1>3 DEF Paged
    <2>2. CASE x.erased = fleet.erasedAt
      BY <1>1, <1>3, <2>1, <2>2 DEF Stale, Old, Behind
    <2>3. CASE x.erased # fleet.erasedAt
      BY <1>1, <1>3, <2>3 DEF Stale, Old, Behind
    <2> QED
      BY <2>2, <2>3
  <1>4. CASE x.kind = "start"
    BY <1>4 DEF Stale, Old, Behind
  <1> QED
    BY <1>1, <1>2, <1>3, <1>4

\* The cursor a pull answers with is a new one.
LEMMA FetchNew ==
    ASSUME Types, FeedFleet, NEW x \in Cursor, Placed(x), Paged(x), ~Old(x), fleet.floor = fleet.erasedAt
    PROVE  LET n == NextCursor(x) IN n \in Cursor /\ ~Old(n) /\ Paged(n) /\ (n.kind = "start" => x.kind = "start")
  <1> DEFINE n == NextCursor(x)
  <1>1. /\ n \in Cursor /\ x.seq <= n.seq /\ (x.kind = "plain" => n.kind = "plain") /\ (n.kind = "start" => n = x)
        /\ n = x \/ n = Plain(n.seq) \/ n = [kind |-> "page", seq |-> n.seq, floor |-> fleet.floor, erased |-> fleet.erasedAt]
        /\ x.kind # "plain" /\ n.kind = "plain" => n.seq >= fleet.floor
    BY PageFacts
  <1>2. x.seq \in Nat /\ n.seq \in Nat /\ fleet.erasedAt \in Nat
    BY <1>1, FeedNumbers
  <1> HIDE DEF n
  <1>3. ASSUME n = x PROVE ~Old(n) /\ Paged(n)
    BY <1>1, <1>3
  <1>4. ASSUME n = Plain(n.seq) PROVE ~Old(n) /\ Paged(n)
    <2>1. n.kind = "plain"
      BY <1>4 DEF Plain
    <2>2. n.seq >= fleet.erasedAt
      BY <1>1, <1>2, <2>1 DEF Old, Behind
    <2> QED
      BY <1>1, <1>2, <2>1, <2>2 DEF Old, Behind, Paged
  <1>5. ASSUME n = [kind |-> "page", seq |-> n.seq, floor |-> fleet.floor, erased |-> fleet.erasedAt]
        PROVE  ~Old(n) /\ Paged(n)
    <2>1. n.kind = "page" /\ n.floor = fleet.floor /\ n.erased = fleet.erasedAt
      BY <1>5
    <2> QED
      BY <1>1, <2>1 DEF Old, Behind, Paged
  <1> QED
    BY <1>1, <1>3, <1>4, <1>5 DEF n

\* An erase leaves every cursor but the first behind.
LEMMA ErasePasses ==
    ASSUME Types, NEW d \in Device, ForgetAll(d), NEW x \in Cursor, Placed(x), x.kind # "start",
           FeedFleet
    PROVE  Behind(x, fleet'.erasedAt)
  <1>1. fleet'.erasedAt = fleet.seq + 1
    BY EraseFeed
  <1>2. x.seq \in Nat /\ x.erased \in Nat /\ x.kind \in {"plain", "page"} /\ fleet.seq \in Nat /\ fleet.erasedAt \in Nat
        /\ fleet.floor \in Nat
    BY FeedNumbers
  <1>3. x.seq <= fleet.seq /\ x.erased <= fleet.erasedAt /\ fleet.erasedAt <= fleet.floor /\ fleet.floor <= fleet.seq
    BY DEF Placed, FeedFleet
  <1> QED
    BY <1>1, <1>2, <1>3 DEF Behind

LEMMA BeginFields ==
    ASSUME Types, NEW l \in LaneState, NEW reason \in {"erased", "cursor_expired"}
    PROVE  LET b == BeginReset(l, reason) IN
           /\ b.cursor = Start /\ b.rcursor = Start /\ b.erasePending = l.erasePending /\ b.reset # ""
           /\ reason = "erased" => b.reset = "erased" /\ b.before = fleet.era
  <1>1. fleet.era \in Nat
    BY FeedNumbers
  <1> QED
    BY <1>1 DEF BeginReset, LaneState

\* The steps of an erase.
LEMMA ErasingWork ==
    ASSUME Types, NEW d \in Device, Erasing(d)
    PROVE  /\ work[d].pc \in {"erase", "erased", "clear", "cleared"}
           /\ work'[d].pc \in {"erased", "clear", "cleared", "idle"}
           /\ work'[d].pc # "idle" => lane' = lane
           /\ lane' = lane \/ (lane'[d].cursor = Start /\ lane'[d].rcursor = Start)
  <1>1. CASE ForgetAll(d)
    <2>1. Goto(d, [pc |-> "erased"]) /\ lane' = lane /\ work[d].pc = "erase"
      BY <1>1 DEF ForgetAll, At
    <2>2. work'[d] = [pc |-> "erased"]
      BY <2>1, GotoFacts DEF Types
    <2> QED
      BY <2>1, <2>2
  <1>2. CASE EraseAck(d)
    <2>1. Goto(d, [pc |-> "clear"]) /\ lane' = lane /\ work[d].pc = "erased"
      BY <1>2 DEF EraseAck, At
    <2>2. work'[d] = [pc |-> "clear"]
      BY <2>1, GotoFacts DEF Types
    <2> QED
      BY <2>1, <2>2
  <1>3. CASE ClearSyncMarkers(d)
    <2>1. Goto(d, [pc |-> "cleared"]) /\ lane' = lane /\ work[d].pc = "clear"
      BY <1>3 DEF ClearSyncMarkers, At
    <2>2. work'[d] = [pc |-> "cleared"]
      BY <2>1, GotoFacts DEF Types
    <2> QED
      BY <2>1, <2>2
  <1>4. CASE EraseDone(d)
    <2>1. Goto(d, Idle) /\ work[d].pc = "cleared"
      BY <1>4 DEF EraseDone, At
    <2>2. work'[d] = Idle
      BY <2>1, GotoFacts DEF Types
    <2>3. lane'[d].cursor = Start /\ lane'[d].rcursor = Start
      <3>1. lane'[d] = [lane[d] EXCEPT !.cursor = Start, !.reset = "", !.before = 0,
                                       !.rcursor = Start, !.restarts = 0, !.erasePending = FALSE]
        BY <1>4 DEF EraseDone, Types
      <3>2. lane[d] \in LaneState
        BY DEF Types
      <3> QED
        BY <3>1, <3>2 DEF LaneState
    <2> QED
      BY <2>1, <2>2, <2>3 DEF Idle
  <1> QED
    BY <1>1, <1>2, <1>3, <1>4 DEF Erasing

LEMMA SweepWork ==
    ASSUME Types, NEW d \in Device, SweepRows(d)
    PROVE  work[d].pc = "sweep" /\ work'[d].pc = "swept" /\ UNCHANGED <<outbox, lane, removing, fleet, asked, wiped>>
  <1>1. work'[d] = [pc |-> "swept"]
    BY SweepFacts, GotoFacts DEF Types
  <1> QED
    BY <1>1, SweepFacts

LEMMA FinishWork ==
    ASSUME Types, NEW d \in Device, FinishReset(d)
    PROVE  /\ work[d].pc = "swept" /\ work'[d].pc = "push" /\ chunk' = NewEpoch(d)
           /\ lane'[d].cursor = lane[d].rcursor /\ lane'[d].rcursor = Start /\ lane'[d].reset = ""
           /\ lane'[d].erasePending = lane[d].erasePending
           /\ UNCHANGED <<outbox, removing, fleet, asked, wiped>>
  <1>1. work'[d] = [pc |-> "push"]
    BY FinishFacts, GotoFacts DEF Types
  <1>2. lane'[d] = [lane[d] EXCEPT !.cursor = lane[d].rcursor, !.reset = "", !.before = 0,
                                   !.rcursor = Start, !.restarts = 0]
    BY FinishFacts
  <1>3. lane[d] \in LaneState
    BY DEF Types
  <1>4. /\ lane'[d].cursor = lane[d].rcursor /\ lane'[d].rcursor = Start /\ lane'[d].reset = ""
        /\ lane'[d].erasePending = lane[d].erasePending
    BY <1>2, <1>3 DEF LaneState
  <1>5. work'[d].pc = "push"
    BY <1>1
  <1>6. chunk' = NewEpoch(d) /\ work[d].pc = "swept" /\ UNCHANGED <<outbox, removing, fleet, asked, wiped>>
    BY FinishFacts
  <1> QED
    BY <1>4, <1>5, <1>6

LEMMA ToldLane ==
    ASSUME Types, NEW d \in Device, Told(d)
    PROVE  \/ /\ \A m \in DOMAIN work[d].res : work[d].res[m] # "resync_required"
              /\ UNCHANGED <<chunk, lane>>
           \/ /\ \E m \in DOMAIN work[d].res : work[d].res[m] = "resync_required"
              /\ chunk' = NewEpoch(d) /\ lane'[d].cursor = Start /\ lane'[d].rcursor = Start
              /\ lane'[d].reset # "" /\ lane'[d].erasePending = lane[d].erasePending
  <1>1. SUFFICES ASSUME NEW k \in Nat, lane'[d] = [BeginReset(lane[d], "cursor_expired") EXCEPT !.restarts = @ + k]
                 PROVE  /\ lane'[d].cursor = Start /\ lane'[d].rcursor = Start
                        /\ lane'[d].reset # "" /\ lane'[d].erasePending = lane[d].erasePending
    BY DEF Told
  <1> DEFINE b == BeginReset(lane[d], "cursor_expired")
  <1>2. lane[d] \in LaneState
    BY DEF Types
  <1>3. b \in LaneState /\ b.cursor = Start /\ b.rcursor = Start /\ b.reset # "" /\ b.erasePending = lane[d].erasePending
    BY <1>2, ResetType
  <1>4. lane'[d] = [b EXCEPT !.restarts = @ + k]
    BY <1>1
  <1> HIDE DEF b
  <1>7. b.restarts \in Nat
    BY <1>3 DEF LaneState
  <1>5. PICK j \in Nat : j = b.restarts + k
    BY <1>7
  <1>6. lane'[d] = [b EXCEPT !.restarts = j]
    BY <1>4, <1>5
  <1> QED
    BY <1>3, <1>6 DEF LaneState

\* Nobody demotes: the records, what was pulled and what is sent are in a synced scope.
LEMMA SyncOwn ==
    ASSUME Types, AllSynced, SyncFleet, NEW d \in Device, SyncOf(d), Move(d)
    PROVE  SyncOf(d)'
  <1>1. CASE Turn(d)
    BY <1>1, TurnWork DEF SyncOf, At, Pushing
  <1>2. CASE User(d)
    BY <1>2, UserFacts DEF SyncOf, At
  <1>3. CASE Refused(d)
    BY <1>3, RefusedFacts DEF SyncOf, At, Pushing
  <1>4. CASE Fetched(d)
    <2>1. work'[d].pc = "apply" /\ DOMAIN work'[d].recs \subseteq Page(Cur(d))
          /\ \A m \in DOMAIN work'[d].recs : work'[d].recs[m] = fleet.rec[m]
      BY <1>4, FetchedFacts
    <2>2. Page(Cur(d)) \subseteq Memory
      BY FeedNumbers, PageFacts
    <2> QED
      BY <2>1, <2>2 DEF SyncOf, SyncFleet, Record, At, Pushing
  <1>5. CASE ApplyPage(d) \/ SaveCursor(d)
    <2>1. work'[d].pc \notin {"apply", "send", "results", "outcomes"}
      BY <1>5, ApplyWork, SaveWork
    <2> QED
      BY <2>1 DEF SyncOf, At, Pushing
  <1>6. CASE SweepRows(d) \/ FinishReset(d) \/ Outcomes(d) \/ Erasing(d)
    <2>1. work'[d].pc \notin {"apply", "send", "results", "outcomes"}
      BY <1>6, SweepWork, FinishWork, OutcomeWork, ErasingWork
    <2> QED
      BY <2>1 DEF SyncOf, At, Pushing
  <1>7. CASE MarkSyncSent(d)
    <2> DEFINE ids == work[d].ids \cap DOMAIN chunk[d]
    <2>1. \/ work'[d].pc = "idle"
          \/ /\ work'[d].pc = "send" /\ DOMAIN work'[d].items = ids
             /\ \A m \in ids : work'[d].items[m] = BuildItem(chunk[d][m])
      BY <1>7, MarkWork
    <2>2. ASSUME NEW m \in ids PROVE BuildItem(chunk[d][m]).scope = "sync" /\ ~BuildItem(chunk[d][m]).demote
      <3>1. chunk[d][m].scope = "sync"
        BY DEF AllSynced, Rows
      <3> QED
        BY <3>1 DEF BuildItem
    <2> HIDE DEF ids
    <2> QED
      BY <2>1, <2>2 DEF SyncOf, At, Pushing
  <1>8. CASE Send(d)
    BY <1>8, SendWork DEF SyncOf, At, Pushing
  <1>9. CASE Told(d)
    BY <1>9, ToldWork DEF SyncOf, At, Pushing
  <1> QED
    BY <1>1, <1>2, <1>3, <1>4, <1>5, <1>6, <1>7, <1>8, <1>9 DEF Move

LEMMA SyncStep ==
    ASSUME Types, AllSynced, SyncFleet, \A d \in Device : SyncOf(d), NEW d \in Device, Alone(d), Move(d)
    PROVE  SyncFleet' /\ \A e \in Device : SyncOf(e)'
  <1>1. SyncFleet'
    <2>1. CASE SameFeed
      BY <2>1 DEF SameFeed, SyncFleet, Record
    <2>2. CASE Send(d)
      BY <2>2, SendRises
    <2>3. CASE ForgetAll(d)
      BY <2>3, EraseFeed DEF SyncFleet, Record, Gone
    <2> QED
      BY <2>1, <2>2, <2>3, FleetMoves
  <1>2. ASSUME NEW e \in Device \ {d} PROVE SyncOf(e)'
    BY DEF Alone, SyncOf, At
  <1> QED
    BY <1>1, <1>2, SyncOwn

LEMMA LaneOwn ==
    ASSUME Types, FeedInv, NEW d \in Device, LaneOf(d), Move(d), fleet.floor = fleet.erasedAt
    PROVE  LaneOf(d)'
  <1>1. /\ work[d].pc \in {"erase", "erased", "clear", "cleared"} => lane[d].erasePending
        /\ Paged(lane[d].cursor) /\ Paged(lane[d].rcursor) /\ Paged(Cur(d))
        /\ Paging(work[d]) => Paged(work[d].cu) /\ (work[d].cu.kind = "start" => Cur(d).kind = "start")
    BY DEF LaneOf, Cur
  <1>2. Paged(Start) /\ Start.kind = "start"
    BY DEF Paged, Start
  <1>3. CASE Turn(d)
    <2>1. /\ lane'[d].cursor = lane[d].cursor /\ lane'[d].rcursor = lane[d].rcursor
          /\ lane'[d].reset = lane[d].reset
      BY <1>3 DEF Turn
    <2>2. CASE work'[d] = work[d] /\ lane'[d].erasePending = lane[d].erasePending
      <3>1. Sweeps(d)'
        BY <2>1, <2>2 DEF LaneOf, Sweeps
      <3> QED
        BY <2>1, <2>2, <3>1 DEF LaneOf, Cur, OwnPush, At, Resetting
    <2>3. CASE work'[d].pc \in {"idle", "put", "put_ok", "enabled"}
      BY <1>1, <2>1, <2>3 DEF LaneOf, OwnPush, At, Paging, Pushing, Sweeps
    <2>4. CASE work'[d].pc = "erase" /\ lane'[d].erasePending
      BY <1>1, <2>1, <2>4 DEF LaneOf, OwnPush, At, Paging, Pushing, Sweeps
    <2>5. CASE work'[d].pc = "send" /\ DOMAIN work'[d].items = {} /\ work'[d].then = "put"
      BY <1>1, <2>1, <2>5 DEF LaneOf, OwnPush, At, Paging, Pushing, Sweeps
    <2>6. CASE work[d].pc = "push" /\ work'[d].pc = "mark"
      <3>1. lane[d].reset = ""
        BY <2>6 DEF LaneOf, OwnPush, At
      <3> QED
        BY <1>1, <2>1, <2>6, <3>1 DEF LaneOf, OwnPush, At, Paging, Pushing, Sweeps
    <2>7. TurnTo(d)
      BY <1>3 DEF Turn
    <2>8. ASSUME NEW p \in {"idle", "put", "put_ok", "enabled"}, work'[d] = [pc |-> p] PROVE work'[d].pc = p
      BY <2>8
    <2>9. ASSUME work'[d] = [pc |-> "send", forgets |-> outbox[d], then |-> "put", items |-> [m \in {} |-> 0]]
          PROVE  work'[d].pc = "send" /\ DOMAIN work'[d].items = {} /\ work'[d].then = "put"
      BY <2>9
    <2>10. ASSUME work'[d] = [pc |-> "mark", forgets |-> outbox[d],
                              ids |-> {m \in Rows(d) : PushCandidate(chunk[d][m])}]
           PROVE  work'[d].pc = "mark"
      BY <2>10
    <2> QED
      BY <2>2, <2>3, <2>4, <2>5, <2>6, <2>7, <2>8, <2>9, <2>10 DEF TurnTo, At
  <1>4. CASE User(d)
    <2>1. UNCHANGED <<lane, work>>
      BY <1>4, UserFacts
    <2>2. Sweeps(d)'
      BY <2>1 DEF LaneOf, Sweeps
    <2> QED
      BY <2>1, <2>2 DEF LaneOf, Cur, OwnPush, At, Resetting
  <1>5. CASE Refused(d)
    <2>1. lane'[d].cursor = Start /\ lane'[d].rcursor = Start /\ work'[d].pc \in {"idle", "pull"}
      BY <1>5, RefusedFacts
    <2> QED
      BY <1>2, <2>1 DEF LaneOf, OwnPush, At, Paging, Pushing, Sweeps
  <1>6. CASE Fetched(d)
    <2>1. work'[d].pc = "apply" /\ work'[d].cu = NextCursor(Cur(d)) /\ UNCHANGED lane /\ Stale(Cur(d)) = ""
      BY <1>6, FetchedFacts
    <2>2. Cur(d) \in Cursor /\ Placed(Cur(d)) /\ FeedFleet
      BY FeedNumbers DEF FeedInv, FeedOf, Cur
    <2>3. ~Old(Cur(d))
      BY <1>1, <2>1, <2>2, StaleErased
    <2>4. Paged(NextCursor(Cur(d))) /\ (NextCursor(Cur(d)).kind = "start" => Cur(d).kind = "start")
      BY <1>1, <2>2, <2>3, FetchNew
    <2>5. Cur(d)' = Cur(d)
      BY <2>1 DEF Cur, Resetting
    <2> QED
      BY <1>1, <2>1, <2>4, <2>5 DEF LaneOf, OwnPush, At, Paging, Pushing, Sweeps
  <1>7. CASE ApplyPage(d)
    <2>1. /\ work[d].pc = "apply" /\ work'[d].pc = "cursor" /\ work'[d].cu = work[d].cu /\ lane' = lane
      BY <1>7, ApplyWork
    <2>2. Cur(d)' = Cur(d)
      BY <2>1 DEF Cur, Resetting
    <2> QED
      BY <1>1, <2>1, <2>2 DEF LaneOf, OwnPush, At, Paging, Pushing, Sweeps
  <1>8. CASE SaveCursor(d)
    <2>1. /\ work[d].pc = "cursor" /\ lane'[d].reset = lane[d].reset
          /\ lane'[d].cursor \in {lane[d].cursor, work[d].cu}
          /\ lane'[d].rcursor \in {lane[d].rcursor, work[d].cu}
          /\ work'[d].pc \in {"pull", "idle", "sweep", "push"}
          /\ work'[d].pc = "push" => lane[d].reset = ""
          /\ work'[d].pc = "sweep" => lane[d].reset # ""
      BY <1>8, SaveWork
    <2>2. Paged(lane'[d].cursor) /\ Paged(lane'[d].rcursor)
      BY <1>1, <2>1 DEF Paging
    <2> QED
      BY <2>1, <2>2 DEF LaneOf, OwnPush, At, Paging, Pushing, Sweeps
  <1>9. CASE SweepRows(d)
    <2>1. lane' = lane /\ work'[d].pc = "swept" /\ work[d].pc = "sweep"
      BY <1>9, SweepWork
    <2>2. lane[d].reset # ""
      BY <2>1 DEF LaneOf, Sweeps
    <2> QED
      BY <1>1, <2>1, <2>2 DEF LaneOf, OwnPush, At, Paging, Pushing, Sweeps
  <1>10. CASE FinishReset(d)
    <2>1. lane'[d].cursor = lane[d].rcursor /\ lane'[d].rcursor = Start /\ lane'[d].reset = "" /\ work'[d].pc = "push"
      BY <1>10, FinishWork
    <2> QED
      BY <1>1, <1>2, <2>1 DEF LaneOf, OwnPush, At, Paging, Pushing, Sweeps
  <1>11. CASE MarkSyncSent(d)
    <2>1. /\ work[d].pc = "mark" /\ lane' = lane
          /\ work'[d].pc = "idle" \/ (work'[d].pc = "send" /\ work'[d].then = "idle")
      BY <1>11, MarkWork
    <2>2. lane[d].reset = ""
      BY <2>1 DEF LaneOf, OwnPush, At
    <2> QED
      BY <1>1, <2>1, <2>2 DEF LaneOf, OwnPush, At, Paging, Pushing, Sweeps
  <1>12. CASE Send(d)
    <2>1. /\ work[d].pc = "send" /\ work'[d].pc = "results" /\ work'[d].then = work[d].then
          /\ work'[d].items = work[d].items /\ lane' = lane /\ DOMAIN work'[d].res = DOMAIN work[d].items
      BY <1>12, SendWork
    <2>2. ASSUME NEW m \in DOMAIN work[d].items
          PROVE  /\ Blanket(d) # "" => work'[d].res[m] # "accepted"
                 /\ Blanket(d) = "" => work'[d].res[m] # "resync_required"
      <3>1. /\ m \in Memory /\ work[d].items[m] \in Item
            /\ work'[d].res[m] = IF m \in work[d].forgets THEN "forgotten"
                                 ELSE IF Blanket(d) # "" THEN Blanket(d)
                                 ELSE Answer(fleet.rec[m], work[d].items[m])
        BY <1>12, SendWork
      <3>2. Answer(fleet.rec[m], work[d].items[m]) \in {"forgotten", "accepted", "content"}
        BY <3>1, RecordTypes, FeedNumbers DEF Record
      <3>3. Blanket(d) \in {"", "sync_disabled", "resync_required"}
        BY DEF Blanket
      <3> QED
        BY <3>1, <3>2, <3>3
    <2>3. OwnPush(d) => lane[d].reset = ""
      BY <2>1 DEF LaneOf, At
    <2>4. work[d].then = "put" => DOMAIN work[d].items = {}
      BY <2>1 DEF LaneOf, Pushing
    <2> QED
      BY <1>1, <2>1, <2>2, <2>3, <2>4 DEF LaneOf, OwnPush, At, Paging, Pushing, Sweeps
  <1>13. CASE Told(d)
    <2>1. /\ work[d].pc = "results" /\ work'[d].pc = "outcomes" /\ work'[d].items = work[d].items
          /\ work'[d].then = work[d].then /\ work'[d].res = work[d].res
      BY <1>13, ToldWork
    <2>2. \A m \in DOMAIN work[d].res : work[d].res[m] # "sync_disabled"
      BY <1>13, Zenon DEF Told
    <2>3. Paged(lane'[d].cursor) /\ Paged(lane'[d].rcursor)
      BY <1>1, <1>2, <1>13, ToldLane
    <2>4. work[d].then = "put" => DOMAIN work[d].items = {}
      BY <2>1 DEF LaneOf, Pushing
    <2> QED
      BY <2>1, <2>2, <2>3, <2>4 DEF LaneOf, OwnPush, At, Paging, Pushing, Sweeps
  <1>14. CASE Outcomes(d)
    <2>1. lane' = lane /\ work'[d].pc \in {"idle", "put"}
      BY <1>14, OutcomeWork
    <2> QED
      BY <1>1, <2>1 DEF LaneOf, OwnPush, At, Paging, Pushing, Sweeps
  <1>15. CASE Erasing(d)
    <2>1. /\ work[d].pc \in {"erase", "erased", "clear", "cleared"}
          /\ work'[d].pc \in {"erased", "clear", "cleared", "idle"}
          /\ work'[d].pc # "idle" => lane' = lane
          /\ lane' = lane \/ (lane'[d].cursor = Start /\ lane'[d].rcursor = Start)
      BY <1>15, ErasingWork
    <2> QED
      BY <1>1, <1>2, <2>1 DEF LaneOf, OwnPush, At, Paging, Pushing, Sweeps
  <1> QED
    BY <1>3, <1>4, <1>5, <1>6, <1>7, <1>8, <1>9, <1>10, <1>11, <1>12, <1>13, <1>14, <1>15 DEF Move

LEMMA SendKnown ==
    ASSUME Types, NEW d \in Device, Send(d)
    PROVE  /\ Grows(d)
           /\ \A m \in Memory : /\ Known(m) => Known(m)'
                                /\ wiped'[m] = IF d \in wiped[m] /\ m \in DOMAIN work[d].items /\ fleet'.rec[m].st = "live"
                                               THEN {} ELSE wiped[m]
  <1>1. Grows(d)
    BY SendGrows
  <1>2. ASSUME NEW m \in Memory
        PROVE  wiped'[m] = IF d \in wiped[m] /\ m \in DOMAIN work[d].items /\ fleet'.rec[m].st = "live"
                           THEN {} ELSE wiped[m]
    BY Zenon DEF Send
  <1>3. \A m \in Memory : Known(m) => Known(m)'
    BY <1>1, <1>2 DEF Known, Record, Grows
  <1> QED
    BY <1>1, <1>2, <1>3

LEMMA EraseKnown ==
    ASSUME Types, SyncFleet, NEW d \in Device, ForgetAll(d), NEW m \in Memory, Covered(m)
    PROVE  /\ Known(m)' <=> Known(m)
           /\ wiped'[m] = {d} \/ (wiped[m] = {} /\ wiped'[m] = {}) \/ wiped'[m] = wiped[m] \cup {d}
  <1>1. wiped'[m] = IF fleet.rec[m].st \in {"live", "forgotten"} THEN {d}
                    ELSE IF wiped[m] = {} THEN {} ELSE wiped[m] \cup {d}
    BY DEF ForgetAll
  <1>2. fleet'.rec[m].st = "none"
    BY EraseFeed DEF Gone
  <1>3. fleet.rec[m].st \in {"none", "live", "forgotten"}
    <2>1. Record(m) \in Rec
      BY FeedNumbers
    <2>2. Record(m).st \in {"none", "live", "left", "forgotten"}
      BY <2>1 DEF Rec
    <2> QED
      BY <2>2 DEF SyncFleet, Record
  <1> QED
    BY <1>1, <1>2, <1>3 DEF Known, Record

\* Fleet does not forget that it had a memory.
LEMMA KnownStep ==
    ASSUME Types, SyncFleet, NEW d \in Device, Move(d), ForgetAll(d) => Reached, NEW m \in Memory
    PROVE  Known(m) => Known(m)'
  <1>1. CASE SameFeed /\ wiped' = wiped
    BY <1>1 DEF SameFeed, Known, Record
  <1>2. CASE Send(d)
    BY <1>2, SendKnown
  <1>3. CASE ForgetAll(d)
    BY <1>3, EraseKnown DEF Reached, Covered, ForgetAll
  <1> QED
    BY <1>1, <1>2, <1>3, FleetMoves

LEMMA WipeStep ==
    ASSUME Types, SyncFleet, NEW d0 \in Device, SoleEraser(d0), WipeInv(d0),
           NEW d \in Device, LaneOf(d), d # d0 => FlightOf(d), Move(d), ForgetAll(d) => Reached
    PROVE  WipeInv(d0)'
  <1>1. fleet.floor = fleet.erasedAt /\ \A m \in Memory : wiped[m] \subseteq {d0} /\ (wiped[m] # {} => fleet.rec[m].st = "none")
    BY DEF WipeInv, Record
  <1>2. CASE SameFeed /\ wiped' = wiped
    BY <1>2 DEF SameFeed, WipeInv, Record
  <1>3. CASE Send(d)
    <2>1. fleet'.floor = fleet'.erasedAt
      BY <1>1, <1>3, SendKnown DEF Grows
    <2>2. ASSUME NEW m \in Memory PROVE wiped'[m] \subseteq {d0} /\ (wiped'[m] # {} => fleet'.rec[m].st = "none")
      <3>1. /\ \/ fleet'.rec[m] = fleet.rec[m]
               \/ fleet.rec[m].st = "none" => /\ At(d, "send") /\ m \in DOMAIN work[d].items
                                              /\ work[d].items[m].content /\ fleet'.rec[m].st = "live"
            /\ wiped'[m] = IF d \in wiped[m] /\ m \in DOMAIN work[d].items /\ fleet'.rec[m].st = "live"
                           THEN {} ELSE wiped[m]
        BY <1>3, SendKnown DEF Grows
      <3>2. SUFFICES ASSUME wiped'[m] # {}, fleet'.rec[m].st # "none" PROVE FALSE
        BY <1>1, <3>1
      <3>3. wiped[m] # {} /\ wiped'[m] = wiped[m] /\ fleet.rec[m].st = "none"
        BY <1>1, <3>1, <3>2
      <3>4. /\ At(d, "send") /\ m \in DOMAIN work[d].items /\ work[d].items[m].content
            /\ fleet'.rec[m].st = "live"
        BY <3>1, <3>2, <3>3
      <3>5. d \notin wiped[m]
        BY <3>1, <3>2, <3>4
      <3>6. d # d0
        BY <1>1, <3>3, <3>5
      <3>7. ~Known(m)
        BY <3>4, <3>6 DEF FlightOf
      <3> QED
        BY <3>3, <3>7 DEF Known
    <2> QED
      BY <2>1, <2>2 DEF WipeInv, Record
  <1>4. CASE ForgetAll(d)
    <2>1. d = d0
      BY <1>4 DEF ForgetAll, At, LaneOf, SoleEraser
    <2>2. fleet'.floor = fleet'.erasedAt /\ \A m \in Memory : fleet'.rec[m].st = "none"
      BY <1>4, EraseFeed DEF Gone
    <2>3. \A m \in Memory : wiped'[m] \subseteq {d0}
      BY <1>1, <1>4, <2>1, EraseKnown DEF Reached, Covered, ForgetAll
    <2> QED
      BY <2>2, <2>3 DEF WipeInv, Record
  <1> QED
    BY <1>2, <1>3, <1>4, FleetMoves

\* What another device's step leaves of Fleet, but for an erase.
Spread(d) ==
    /\ fleet'.erasedAt = fleet.erasedAt /\ fleet'.era = fleet.era
    /\ \A m \in Memory :
        /\ \/ fleet'.rec[m] = fleet.rec[m]
           \/ fleet.seq < fleet'.rec[m].seq /\ fleet'.rec[m].st # "none"
        /\ Known(m) => Known(m)'
        /\ Known(m)' => Known(m) \/ Uploads(d, m)

LEMMA SpreadMoves ==
    ASSUME Types, SyncFleet, NEW d \in Device, Move(d), ~ForgetAll(d)
    PROVE  Spread(d)
  <1>1. \A m \in Memory : (Known(m) => Known(m)') /\ (Known(m)' => Known(m) \/ Uploads(d, m))
    BY KnownStep, KnownBack
  <1>2. CASE SameFeed
    BY <1>1, <1>2 DEF Spread, SameFeed
  <1>3. CASE Send(d)
    BY <1>1, <1>3, SendKnown DEF Spread, Grows
  <1> QED
    BY <1>2, <1>3, FleetMoves

\* A record that was to be met still is.
LEMMA MeetsStill ==
    ASSUME Types, Types', FeedInv, NEW d \in Device, Spread(d), NEW m \in Memory, NEW x \in Cursor, Placed(x),
           Behind(x, fleet.erasedAt) \/ (fleet.rec[m].st # "none" /\ fleet.rec[m].seq > x.seq)
    PROVE  Behind(x, fleet'.erasedAt) \/ (fleet'.rec[m].st # "none" /\ fleet'.rec[m].seq > x.seq)
  <1>1. x.seq \in Nat /\ fleet.seq \in Nat /\ x.seq <= fleet.seq /\ fleet'.rec[m].seq \in Nat
    <2>1. fleet' \in Service
      BY DEF Types
    <2> QED
      BY <2>1, FeedNumbers DEF Placed, Service, Rec
  <1> QED
    BY <1>1 DEF Spread

LEMMA KeepOther ==
    ASSUME Types, Types', FeedInv, HolderInv, NEW d \in Device, Alone(d), Spread(d),
           NEW e \in Device \ {d}, KeepOf(e)
    PROVE  KeepOf(e)'
  <1>1. /\ chunk'[e] = chunk[e] /\ lane'[e] = lane[e] /\ work'[e] = work[e]
        /\ outbox'[e] = outbox[e] /\ removing'[e] = removing[e]
    BY DEF Alone
  <1>2. fleet'.erasedAt = fleet.erasedAt /\ fleet'.era = fleet.era
    BY DEF Spread
  <1>3. DOMAIN chunk[e] \subseteq Memory /\ (At(e, "apply") => DOMAIN work[e].recs \subseteq Memory)
        /\ (Pushing(work[e]) => DOMAIN work[e].items \subseteq Memory)
    BY DEF Types, StoreTypes, Store, WorkTypes, WorkOK, At
  <1>4. ASSUME NEW m \in Memory, Holds(e, m) PROVE Known(m)' <=> Known(m)
    <2>1. ASSUME Uploads(d, m), ~Known(m) PROVE FALSE
      <3>1. Holds(d, m)
        BY <2>1 DEF Holds
      <3> QED
        BY <1>4, <2>1, <3>1 DEF HolderInv
    <2> QED
      BY <2>1 DEF Spread
  <1>5. \A m \in Memory : fleet'.rec[m].st = "none" => fleet.rec[m].st = "none"
    BY DEF Spread
  <1>6. /\ Cur(e) \in Cursor /\ Placed(Cur(e)) /\ Cur(e)' = Cur(e)
        /\ Paging(work[e]) => work[e].cu \in Cursor /\ Placed(work[e].cu)
    BY <1>1, FeedNumbers DEF FeedInv, FeedOf, Cur, Resetting
  <1>7. ASSUME NEW m \in DOMAIN chunk[e] PROVE RowOf(e, m)'
    <2>1. m \in Memory /\ Holds(e, m) /\ RowOf(e, m)
      BY <1>3 DEF Holds, Rows, KeepOf
    <2>2. (Known(m)' <=> Known(m)) /\ (fleet'.rec[m].st = "none" => fleet.rec[m].st = "none")
      BY <1>4, <1>5, <2>1
    <2> QED
      BY <1>1, <1>2, <1>6, <2>1, <2>2 DEF RowOf, Dropping, Resetting, At, Old, Record
  <1>8. ASSUME NEW m \in DOMAIN chunk[e], Open(e, m)' PROVE OpenOf(e, m)'
    <2>1. m \in Memory /\ Holds(e, m)
      BY <1>3 DEF Holds, Rows
    <2>2. Open(e, m)
      BY <1>1, <1>4, <1>8, <2>1 DEF Open, Rows
    <2>3. OpenOf(e, m)
      BY <2>2 DEF KeepOf, Rows
    <2>4. Meets(m, Cur(e)) => Meets(m, Cur(e))'
      BY <1>6, <2>1, MeetsStill DEF Meets, Old, Record
    <2>5. Paging(work[e]) /\ Meets(m, work[e].cu) => Meets(m, work[e].cu)'
      BY <1>1, <1>6, <2>1, MeetsStill DEF Meets, Old, Record
    <2>6. Replay(e, m)' <=> Replay(e, m)
      BY <1>1 DEF Replay
    <2>7. \/ fleet'.rec[m].st = "none" \/ Behind(Cur(e), fleet'.erasedAt) \/ (Paging(work[e]) /\ Behind(work[e].cu, fleet'.erasedAt))
          => chunk[e][m].born < fleet'.era
      BY <1>2, <1>5, <2>1, <2>3 DEF OpenOf, Record, Old
    <2> QED
      BY <1>1, <1>6, <2>3, <2>4, <2>5, <2>6, <2>7 DEF OpenOf, Paging, OwnPush, At, Old, Record
  <1>9. FlightOf(e)'
    <2>1. FlightOf(e)
      BY DEF KeepOf
    <2>2. ASSUME At(e, "apply"), NEW m \in DOMAIN work[e].recs, fleet'.rec[m].st = "none"
          PROVE  Behind(Cur(e), fleet'.erasedAt) /\ Behind(work[e].cu, fleet'.erasedAt)
      <3>1. m \in Memory
        BY <1>3, <2>2
      <3> QED
        BY <1>2, <1>5, <2>1, <2>2, <3>1 DEF FlightOf, Old, Record
    <2>3. ASSUME At(e, "send"), NEW m \in DOMAIN work[e].items
          PROVE  /\ work[e].items[m].content => ~Known(m)' /\ m \notin work[e].forgets
                 /\ ~work[e].items[m].content /\ fleet'.rec[m].st = "none" => Behind(lane[e].cursor, fleet'.erasedAt)
                 /\ m \in Rows(e) => chunk[e][m].sent
      <3>1. m \in Memory /\ Holds(e, m)
        BY <1>3, <2>3 DEF Pushing, At, Holds, Uploads
      <3>2. Known(m)' <=> Known(m)
        BY <1>4, <3>1
      <3>3. /\ work[e].items[m].content => ~Known(m) /\ m \notin work[e].forgets
            /\ ~work[e].items[m].content /\ fleet.rec[m].st = "none" => Behind(lane[e].cursor, fleet.erasedAt)
            /\ m \in Rows(e) => chunk[e][m].sent
        BY <2>1, <2>3 DEF FlightOf, Record, Old
      <3> QED
        BY <1>2, <1>5, <3>1, <3>2, <3>3
    <2>4. ASSUME work[e].pc \in {"results", "outcomes"}, NEW m \in DOMAIN work[e].res
          PROVE  work[e].res[m] # "content" /\ (work[e].res[m] = "accepted" => Known(m)')
      <3>1. m \in Memory
        <4>1. DOMAIN work[e].res = DOMAIN work[e].items
          BY <2>4 DEF Types, WorkTypes, WorkOK
        <4> QED
          BY <1>3, <2>4, <4>1 DEF Pushing
      <3> QED
        BY <2>1, <2>4, <3>1 DEF FlightOf, Spread
    <2> QED
      BY <1>1, <1>6, <2>2, <2>3, <2>4 DEF FlightOf, At, Record, Rows, Old
  <1> QED
    BY <1>1, <1>7, <1>8, <1>9 DEF KeepOf, Rows

\* An erase: every device it finds has a cursor it will refuse, or nothing of Fleet's.
LEMMA KeepErase ==
    ASSUME Reached, Types, Types', FeedInv, HolderInv, SyncFleet, NEW d \in Device, Alone(d), ForgetAll(d),
           NEW e \in Device \ {d}, LaneOf(e), KeepOf(e)
    PROVE  KeepOf(e)'
  <1>1. /\ chunk'[e] = chunk[e] /\ lane'[e] = lane[e] /\ work'[e] = work[e]
        /\ outbox'[e] = outbox[e] /\ removing'[e] = removing[e]
    BY DEF Alone
  <1>2. /\ DOMAIN chunk[e] \subseteq Memory /\ \A m \in DOMAIN chunk[e] : chunk[e][m].born \in Nat
        /\ At(e, "apply") => DOMAIN work[e].recs \subseteq Memory
        /\ Pushing(work[e]) => DOMAIN work[e].items \subseteq Memory
    BY DEF Types, StoreTypes, Store, WorkTypes, WorkOK, At, Chunk
  <1>0. \A m \in Memory : Covered(m)
    BY DEF Reached, Covered, ForgetAll
  <1>3. \A m \in Memory : (Known(m)' <=> Known(m)) /\ fleet'.rec[m].st = "none"
    BY <1>0, EraseKnown, EraseFeed DEF Gone
  <1>4. fleet'.era = fleet.era + 1 /\ fleet.era \in Nat
    BY EraseFeed, FeedNumbers
  <1>5. /\ Cur(e) \in Cursor /\ Placed(Cur(e)) /\ Cur(e)' = Cur(e) /\ FeedFleet
        /\ Paging(work[e]) => work[e].cu \in Cursor /\ Placed(work[e].cu)
    BY <1>1, FeedNumbers DEF FeedInv, FeedOf, Cur, Resetting
  <1>6. \/ Cur(e).kind # "start"
        \/ At(e, "idle") /\ \A m \in Rows(e) : ~FleetMayKnow(chunk[e][m])
    BY DEF Reached, ForgetAll, Heard, Cur, Resetting
  <1>7. Cur(e).kind # "start" => Behind(Cur(e), fleet'.erasedAt)
    BY <1>5, ErasePasses
  <1>8. Paging(work[e]) => Behind(Cur(e), fleet'.erasedAt) /\ Behind(work[e].cu, fleet'.erasedAt)
    <2>1. SUFFICES ASSUME Paging(work[e]) PROVE Behind(Cur(e), fleet'.erasedAt) /\ Behind(work[e].cu, fleet'.erasedAt)
      OBVIOUS
    <2>2. Cur(e).kind # "start"
      BY <1>6, <2>1 DEF Paging, At
    <2>3. work[e].cu.kind # "start"
      BY <2>1, <2>2 DEF LaneOf
    <2> QED
      BY <1>5, <1>7, <2>1, <2>2, <2>3, ErasePasses
  <1>9. ASSUME NEW m \in DOMAIN chunk[e] PROVE RowOf(e, m)'
    <2>1. m \in Memory /\ RowOf(e, m) /\ chunk[e][m].born \in Nat
      BY <1>2 DEF Rows, KeepOf
    <2>2. chunk[e][m].syn # 0 => Behind(Cur(e), fleet'.erasedAt)
      BY <1>6, <1>7 DEF FleetMayKnow, Rows
    <2> QED
      BY <1>1, <1>3, <1>5, <1>8, <2>1, <2>2 DEF RowOf, Dropping, Resetting, At, Old, Record
  <1>10. ASSUME NEW m \in DOMAIN chunk[e], Open(e, m)' PROVE OpenOf(e, m)'
    <2>1. m \in Memory /\ chunk[e][m].born \in Nat
      BY <1>2
    <2>2. Open(e, m)
      BY <1>1, <1>3, <1>10, <2>1 DEF Open, Rows
    <2>3. OpenOf(e, m) /\ RowOf(e, m) /\ Known(m) /\ chunk[e][m].syn = 0
      BY <2>2 DEF KeepOf, Rows, Open
    <2>4. Behind(Cur(e), fleet'.erasedAt)
      BY <1>6, <1>7, <2>3 DEF RowOf, Rows
    <2>5. chunk[e][m].born < fleet'.era
      BY <1>4, <2>1 DEF Reached, ForgetAll, Rows
    <2>6. Replay(e, m)' <=> Replay(e, m)
      BY <1>1 DEF Replay
    <2>7. Meets(m, Cur(e))' /\ (Paging(work[e]) => Meets(m, work[e].cu)')
      BY <1>1, <1>5, <1>8, <2>4 DEF Meets, Old
    <2> QED
      BY <1>1, <1>5, <2>3, <2>5, <2>6, <2>7 DEF OpenOf, Paging, OwnPush, At
  <1>11. FlightOf(e)'
    <2>1. FlightOf(e)
      BY DEF KeepOf
    <2>2. At(e, "apply") => Behind(Cur(e), fleet'.erasedAt) /\ Behind(work[e].cu, fleet'.erasedAt)
      BY <1>8 DEF Paging, At
    <2>3. ASSUME At(e, "send"), NEW m \in DOMAIN work[e].items
          PROVE  /\ work[e].items[m].content => ~Known(m)' /\ m \notin work[e].forgets
                 /\ Behind(lane[e].cursor, fleet'.erasedAt)
                 /\ m \in Rows(e) => chunk[e][m].sent
      <3>1. m \in Memory /\ work[e].then = "idle"
        BY <1>2, <2>3 DEF Pushing, At, LaneOf, Types, WorkTypes, WorkOK
      <3>2. lane[e].reset = ""
        BY <2>3, <3>1 DEF LaneOf, OwnPush, Pushing, At
      <3>3. Behind(lane[e].cursor, fleet'.erasedAt)
        BY <1>6, <1>7, <2>3, <3>2 DEF Cur, Resetting, At
      <3>4. /\ work[e].items[m].content => ~Known(m) /\ m \notin work[e].forgets
            /\ m \in Rows(e) => chunk[e][m].sent
        BY <2>1, <2>3 DEF FlightOf
      <3> QED
        BY <1>3, <3>1, <3>3, <3>4
    <2>4. ASSUME work[e].pc \in {"results", "outcomes"}, NEW m \in DOMAIN work[e].res
          PROVE  work[e].res[m] # "content" /\ (work[e].res[m] = "accepted" => Known(m)')
      <3>1. m \in Memory
        <4>1. DOMAIN work[e].res = DOMAIN work[e].items
          BY <2>4 DEF Types, WorkTypes, WorkOK
        <4> QED
          BY <1>2, <2>4, <4>1 DEF Pushing
      <3> QED
        BY <1>3, <2>1, <2>4, <3>1 DEF FlightOf
    <2> QED
      BY <1>1, <1>5, <2>2, <2>3, <2>4 DEF FlightOf, At, Record, Rows, Old
  <1> QED
    BY <1>1, <1>9, <1>10, <1>11 DEF KeepOf, Rows

\* The steps of a device that never erases.
LEMMA SameKnown ==
    ASSUME SameFeed, wiped' = wiped
    PROVE  /\ fleet'.erasedAt = fleet.erasedAt /\ fleet'.era = fleet.era
           /\ \A m \in Memory : (Known(m)' <=> Known(m)) /\ fleet'.rec[m] = fleet.rec[m]
  BY DEF SameFeed, Known, Record

LEMMA EpochRow ==
    ASSUME Types, NEW e \in Device, chunk' = NewEpoch(e)
    PROVE  /\ DOMAIN chunk'[e] = DOMAIN chunk[e]
           /\ \A m \in DOMAIN chunk[e] :
                LET c == chunk[e][m]
                    k == chunk'[e][m]
                IN  /\ k.born = c.born /\ (c.sent => k.sent) /\ k.syn = IF c.syn = 0 THEN 0 ELSE 1
                    /\ FleetMayKnow(c) => FleetMayKnow(k)
  <1>1. DOMAIN chunk'[e] = DOMAIN chunk[e]
    BY EpochFacts DEF Types
  <1>2. ASSUME NEW m \in DOMAIN chunk[e]
        PROVE  LET c == chunk[e][m]
                   k == chunk'[e][m]
               IN  /\ k.born = c.born /\ k.sent = c.sent /\ k.syn = IF c.syn = 0 THEN 0 ELSE 1
    <2>1. chunk'[e][m] = IF chunk[e][m].syn = 0 THEN chunk[e][m] ELSE [chunk[e][m] EXCEPT !.syn = 1]
      BY EpochFacts DEF Types
    <2>2. chunk[e][m] \in Chunk
      BY DEF Types, StoreTypes, Store
    <2> QED
      BY <2>1, <2>2 DEF Chunk
  <1>3. ASSUME NEW m \in DOMAIN chunk[e] PROVE FleetMayKnow(chunk[e][m]) => FleetMayKnow(chunk'[e][m])
    BY <1>2 DEF FleetMayKnow
  <1>4. ASSUME NEW m \in DOMAIN chunk[e] PROVE chunk[e][m].sent => chunk'[e][m].sent
    BY <1>2, Zenon
  <1> QED
    BY <1>1, <1>2, <1>3, <1>4

LEMMA KeepTurn ==
    ASSUME Types, NEW e \in Device, KeepOf(e), Turn(e)
    PROVE  KeepOf(e)'
  <1>1. /\ chunk' = chunk /\ outbox' = outbox /\ wiped' = wiped /\ SameFeed
        /\ lane'[e].cursor = lane[e].cursor /\ lane'[e].rcursor = lane[e].rcursor
        /\ lane'[e].reset = lane[e].reset /\ lane'[e].before = lane[e].before
        /\ removing'[e] \subseteq removing[e] /\ TurnTo(e)
    BY DEF Turn
  <1>2. /\ fleet'.erasedAt = fleet.erasedAt /\ fleet'.era = fleet.era
        /\ \A m \in Memory : (Known(m)' <=> Known(m)) /\ fleet'.rec[m] = fleet.rec[m]
    BY <1>1, SameKnown
  <1>3. \/ work'[e] = work[e]
        \/ work'[e].pc \in {"idle", "put", "put_ok", "enabled", "erase"}
        \/ work'[e].pc = "send" /\ DOMAIN work'[e].items = {} /\ work'[e].then = "put"
        \/ work[e].pc = "push" /\ work'[e].pc = "mark"
    <2>1. ASSUME work'[e] = [pc |-> "mark", forgets |-> outbox[e],
                             ids |-> {m \in Rows(e) : PushCandidate(chunk[e][m])}]
          PROVE  work'[e].pc = "mark"
      BY <2>1
    <2> QED
      BY <1>1, <2>1, TurnWork DEF TurnTo, At
  <1>4. Cur(e)' = Cur(e) /\ (Resetting(e)' <=> Resetting(e))
    BY <1>1 DEF Cur, Resetting
  <1>5. DOMAIN chunk[e] \subseteq Memory /\ (At(e, "apply") => DOMAIN work[e].recs \subseteq Memory)
        /\ (Pushing(work[e]) => DOMAIN work[e].items \subseteq Memory)
        /\ (work[e].pc \in {"results", "outcomes"} => DOMAIN work[e].res \subseteq Memory)
    BY DEF Types, StoreTypes, Store, WorkTypes, WorkOK, At, Pushing
  <1>6. ASSUME NEW m \in DOMAIN chunk[e] PROVE RowOf(e, m)'
    <2>1. m \in Memory /\ RowOf(e, m)
      BY <1>5 DEF KeepOf, Rows
    <2>2. Dropping(e, m)' => Dropping(e, m)
      BY <1>1 DEF Dropping
    <2> QED
      BY <1>1, <1>2, <1>3, <1>4, <2>1, <2>2 DEF RowOf, Paging, At, Old, Record
  <1>7. ASSUME NEW m \in DOMAIN chunk[e], Open(e, m)' PROVE OpenOf(e, m)'
    <2>1. m \in Memory /\ OpenOf(e, m)
      BY <1>1, <1>2, <1>5, <1>7 DEF KeepOf, Open, Rows
    <2>2. (Replay(e, m)' <=> Replay(e, m)) /\ (Meets(m, Cur(e))' <=> Meets(m, Cur(e)))
      BY <1>1, <1>2, <1>4, <2>1 DEF Replay, Meets, Old, Record
    <2>3. work[e].pc # "push"
      BY <2>1 DEF OpenOf, OwnPush
    <2>4. CASE work'[e] = work[e]
      <3>1. Meets(m, work[e].cu)' <=> Meets(m, work[e].cu)
        BY <1>2, <2>1, <2>4 DEF Meets, Old, Record
      <3> QED
        BY <1>1, <1>2, <1>4, <2>1, <2>2, <2>4, <3>1 DEF OpenOf, Paging, OwnPush, At, Old, Record
    <2>5. CASE \/ work'[e].pc \in {"idle", "put", "put_ok", "enabled", "erase"}
               \/ work'[e].pc = "send" /\ DOMAIN work'[e].items = {} /\ work'[e].then = "put"
      BY <1>1, <1>2, <1>4, <2>1, <2>2, <2>5 DEF OpenOf, Paging, Pushing, OwnPush, At, Old, Record
    <2> QED
      BY <1>3, <2>3, <2>4, <2>5
  <1>8. FlightOf(e)'
    <2>1. FlightOf(e)
      BY DEF KeepOf
    <2>2. CASE work'[e] = work[e]
      BY <1>1, <1>2, <1>4, <1>5, <2>1, <2>2 DEF FlightOf, At, Record, Rows, Old, Pushing
    <2>3. CASE work'[e] # work[e]
      BY <1>3, <2>3 DEF FlightOf, At
    <2> QED
      BY <2>2, <2>3
  <1> QED
    BY <1>1, <1>6, <1>7, <1>8 DEF KeepOf, Rows

LEMMA KeepUser ==
    ASSUME Types, Types', HolderInv, AllSynced, AllSynced', NEW e \in Device, KeepOf(e), User(e)
    PROVE  KeepOf(e)'
  <1>1. UNCHANGED <<lane, work, fleet, wiped>>
    BY UserFacts
  <1>2. PICK k \in Memory : Adds(e, k) \/ Edits(e, k) \/ Removes(e, k) \/ Records(e, k)
    BY UserFacts
  <1>3. /\ \A m \in Memory : (Known(m)' <=> Known(m)) /\ fleet'.rec[m] = fleet.rec[m]
        /\ Cur(e)' = Cur(e) /\ (Resetting(e)' <=> Resetting(e))
    BY <1>1 DEF Known, Record, Cur, Resetting
  <1>4. DOMAIN chunk[e] \subseteq Memory /\ DOMAIN chunk'[e] \subseteq Memory
        /\ (At(e, "apply") => DOMAIN work[e].recs \subseteq Memory)
        /\ (Pushing(work[e]) => DOMAIN work[e].items \subseteq Memory)
        /\ (work[e].pc \in {"results", "outcomes"} => DOMAIN work[e].res \subseteq Memory)
    BY DEF Types, StoreTypes, Store, WorkTypes, WorkOK, At, Pushing
  <1>5. ASSUME NEW m \in DOMAIN chunk'[e]
        PROVE  \/ /\ m \in DOMAIN chunk[e] /\ chunk'[e][m].syn = chunk[e][m].syn
                  /\ chunk'[e][m].born = chunk[e][m].born /\ (chunk'[e][m].sent <=> chunk[e][m].sent)
                  /\ Dropping(e, m)' => Dropping(e, m)
               \/ ~Known(m) /\ ~Uploads(e, m) /\ chunk'[e][m].syn = 0 /\ ~Dropping(e, m)'
    <2>1. CASE Adds(e, k)
      <3>1. /\ UNCHANGED <<outbox, removing>> /\ asked[k] = "no" /\ \E b \in Stamps(k) : chunk'[e][k] = Added(e, b)
            /\ DOMAIN chunk'[e] = DOMAIN chunk[e] \cup {k}
            /\ \A j \in DOMAIN chunk[e] \ {k} : chunk'[e][j] = chunk[e][j]
        BY <2>1 DEF Adds
      <3>2. Dropping(e, m)' <=> Dropping(e, m)
        BY <3>1 DEF Dropping
      <3>3. CASE m = k
        <4>1. ~Known(m) /\ ~Holds(e, m)
          BY <3>1, <3>3 DEF HolderInv
        <4>2. chunk'[e][k].syn = 0
          BY <3>1, AddedFields
        <4> QED
          BY <3>1, <3>2, <3>3, <4>1, <4>2 DEF Holds
      <3>4. CASE m # k
        BY <3>1, <3>2, <3>4
      <3> QED
        BY <3>3, <3>4
    <2>2. CASE Edits(e, k)
      <3>1. /\ UNCHANGED <<outbox, removing>> /\ DOMAIN chunk'[e] = DOMAIN chunk[e]
            /\ \A j \in DOMAIN chunk[e] \ {k} : chunk'[e][j] = chunk[e][j]
        BY <2>2 DEF Edits
      <3>2. Dropping(e, m)' <=> Dropping(e, m)
        BY <3>1 DEF Dropping
      <3>3. CASE m = k
        <4>1. chunk[e][k] \in Chunk /\ chunk'[e][k] = Repinned(chunk[e][k], Tick(e))
          BY <2>2, EditsPin
        <4>2. PICK n : n = Tick(e)
          OBVIOUS
        <4>3. LET u == Repinned(chunk[e][k], n) IN
              u.syn = chunk[e][k].syn /\ u.born = chunk[e][k].born /\ u.sent = chunk[e][k].sent
          BY <4>1 DEF Repinned, Touch, Chunk
        <4>4. /\ chunk'[e][k].syn = chunk[e][k].syn /\ chunk'[e][k].born = chunk[e][k].born
              /\ chunk'[e][k].sent = chunk[e][k].sent
          BY <4>1, <4>2, <4>3
        <4> QED
          BY <3>1, <3>2, <3>3, <4>4
      <3>4. CASE m # k
        BY <3>1, <3>2, <3>4
      <3> QED
        BY <3>3, <3>4
    <2>3. CASE Removes(e, k)
      <3>1. /\ UNCHANGED outbox /\ removing'[e] = removing[e] \cup {<<k, FleetMayKnow(chunk[e][k])>>}
            /\ DOMAIN chunk'[e] = DOMAIN chunk[e] \ {k}
            /\ \A j \in DOMAIN chunk[e] \ {k} : chunk'[e][j] = chunk[e][j]
        BY <2>3 DEF Removes
      <3>2. Dropping(e, m)' => Dropping(e, m)
        BY <3>1 DEF Dropping
      <3> QED
        BY <3>1, <3>2
    <2>4. CASE Records(e, k)
      <3>1. chunk' = chunk
        BY <2>4 DEF Records
      <3>2. Dropping(e, m)' => Dropping(e, m)
        BY <2>4 DEF Records, Dropping
      <3> QED
        BY <3>1, <3>2
    <2> QED
      BY <1>2, <2>1, <2>2, <2>3, <2>4
  <1>6. ASSUME NEW m \in DOMAIN chunk'[e] PROVE RowOf(e, m)'
    <2>1. m \in Memory
      BY <1>4
    <2>2. CASE /\ m \in DOMAIN chunk[e] /\ chunk'[e][m].syn = chunk[e][m].syn
               /\ chunk'[e][m].born = chunk[e][m].born /\ (chunk'[e][m].sent <=> chunk[e][m].sent)
               /\ Dropping(e, m)' => Dropping(e, m)
      <3>1. RowOf(e, m)
        BY <2>2 DEF KeepOf, Rows
      <3>2. FleetMayKnow(chunk[e][m]) => FleetMayKnow(chunk'[e][m])
        BY <2>2 DEF FleetMayKnow
      <3> QED
        BY <1>1, <1>3, <2>1, <2>2, <3>1, <3>2 DEF RowOf, Paging, At, Old, Record
    <2>3. CASE ~Known(m) /\ chunk'[e][m].syn = 0 /\ ~Dropping(e, m)'
      BY <1>1, <1>3, <2>1, <2>3 DEF RowOf
    <2> QED
      BY <1>5, <2>2, <2>3
  <1>7. ASSUME NEW m \in DOMAIN chunk'[e], Open(e, m)' PROVE OpenOf(e, m)'
    <2>1. m \in Memory /\ Known(m) /\ chunk'[e][m].syn = 0
      BY <1>3, <1>4, <1>7 DEF Open
    <2>2. m \in DOMAIN chunk[e] /\ chunk[e][m].syn = 0 /\ chunk'[e][m].born = chunk[e][m].born
      BY <1>5, <2>1
    <2>3. OpenOf(e, m)
      BY <2>1, <2>2 DEF KeepOf, Open, Rows
    <2>4. /\ Replay(e, m)' <=> Replay(e, m)
          /\ Meets(m, Cur(e))' <=> Meets(m, Cur(e))
          /\ Meets(m, work[e].cu)' <=> Meets(m, work[e].cu)
      BY <1>1, <1>3, <2>2 DEF Replay, Meets, Old, Record
    <2> QED
      BY <1>1, <1>3, <2>2, <2>3, <2>4 DEF OpenOf, Paging, OwnPush, At, Old, Record
  <1>8. FlightOf(e)'
    <2>1. FlightOf(e)
      BY DEF KeepOf
    <2>2. ASSUME At(e, "send"), NEW m \in DOMAIN work[e].items, m \in DOMAIN chunk'[e] PROVE chunk'[e][m].sent
      <3>1. Uploads(e, m)
        BY <2>2 DEF Uploads
      <3>2. m \in DOMAIN chunk[e] /\ (chunk'[e][m].sent <=> chunk[e][m].sent)
        BY <1>5, <2>2, <3>1
      <3> QED
        BY <2>1, <2>2, <3>2 DEF FlightOf, Rows
    <2> QED
      BY <1>1, <1>3, <1>4, <2>1, <2>2 DEF FlightOf, At, Record, Rows, Old, Pushing
  <1> QED
    BY <1>6, <1>7, <1>8 DEF KeepOf, Rows

LEMMA KeepRefused ==
    ASSUME Types, Types', FeedInv, NEW e \in Device, fleet.floor = fleet.erasedAt, LaneOf(e), KeepOf(e), Refused(e)
    PROVE  KeepOf(e)'
  <1>1. /\ Stale(Cur(e)) # "" /\ lane'[e] = BeginReset(lane[e], Stale(Cur(e))) /\ lane[e] \in LaneState
        /\ work'[e].pc \in {"idle", "pull"} /\ chunk' = NewEpoch(e)
        /\ UNCHANGED <<outbox, removing, fleet, wiped>>
    BY RefusedFacts
  <1>2. Cur(e) \in Cursor /\ Paged(Cur(e))
    BY FeedNumbers DEF LaneOf, Cur
  <1>3. Stale(Cur(e)) = "erased" /\ Old(Cur(e))
    BY <1>1, <1>2, StaleErased
  <1>4. lane'[e].rcursor = Start /\ lane'[e].reset = "erased" /\ lane'[e].before = fleet.era
    BY <1>1, <1>3, BeginFields
  <1>5. Cur(e)' = Start /\ Resetting(e)' /\ ~Behind(Start, fleet.erasedAt)
    BY <1>4 DEF Cur, Resetting, Start, Behind
  <1>6. DOMAIN chunk[e] \subseteq Memory
    BY DEF Types, StoreTypes, Store
  <1>7. /\ DOMAIN chunk'[e] = DOMAIN chunk[e]
        /\ \A m \in DOMAIN chunk[e] :
             /\ chunk'[e][m].born = chunk[e][m].born
             /\ chunk'[e][m].syn = IF chunk[e][m].syn = 0 THEN 0 ELSE 1
             /\ FleetMayKnow(chunk[e][m]) => FleetMayKnow(chunk'[e][m])
    BY <1>1, EpochRow
  <1>8. \A m \in Memory : (Known(m)' <=> Known(m)) /\ fleet'.rec[m] = fleet.rec[m]
    BY <1>1 DEF Known, Record
  <1>9. ASSUME NEW m \in DOMAIN chunk[e] PROVE RowOf(e, m)'
    <2>1. RowOf(e, m) /\ m \in Memory /\ (Dropping(e, m)' <=> Dropping(e, m))
      BY <1>1, <1>6 DEF KeepOf, Rows, Dropping
    <2>2. fleet'.era = fleet.era /\ ~At(e, "swept")' /\ ~Paging(work'[e])
      BY <1>1 DEF At, Paging
    <2>3. chunk'[e][m].syn = 0 <=> chunk[e][m].syn = 0
      BY <1>7
    <2>4. Resetting(e)' /\ (chunk'[e][m].syn # 0 => chunk'[e][m].syn = 1)
      BY <1>5, <1>7
    <2>5. Known(m)' => FleetMayKnow(chunk'[e][m])
      BY <1>7, <1>8, <2>1 DEF RowOf
    <2>6. chunk'[e][m].syn = 0 => ~Dropping(e, m)'
      BY <1>7, <2>1, <2>2, <2>3 DEF RowOf
    <2>7. chunk'[e][m].syn # 0 => Known(m)'
      BY <1>8, <2>1, <2>3 DEF RowOf
    <2> QED
      BY <2>2, <2>4, <2>5, <2>6, <2>7 DEF RowOf
  <1>10. ASSUME NEW m \in DOMAIN chunk[e], Open(e, m)' PROVE OpenOf(e, m)'
    <2>1. m \in Memory /\ Open(e, m) /\ OpenOf(e, m)
      BY <1>6, <1>7, <1>8, <1>10 DEF KeepOf, Open, Rows
    <2>2. chunk[e][m].born < fleet.era
      BY <1>3, <2>1 DEF OpenOf
    <2>3. Replay(e, m)'
      BY <1>4, <1>7, <2>2 DEF Replay
    <2> QED
      BY <1>1, <1>4, <1>7, <2>2, <2>3 DEF OpenOf, OwnPush, At, Pushing
  <1>11. FlightOf(e)'
    BY <1>1 DEF FlightOf, At
  <1> QED
    BY <1>7, <1>9, <1>10, <1>11 DEF KeepOf, Rows

LEMMA KeepFetched ==
    ASSUME Types, Types', FeedInv, NEW e \in Device, fleet.floor = fleet.erasedAt, LaneOf(e), KeepOf(e), Fetched(e)
    PROVE  KeepOf(e)'
  <1> DEFINE x == Cur(e)
             n == NextCursor(x)
  <1>1. /\ Stale(x) = "" /\ work'[e].pc = "apply" /\ work'[e].cu = n
        /\ work'[e].more <=> Page(x) # After(x)
        /\ DOMAIN work'[e].recs \subseteq Page(x)
        /\ \A m \in Page(x) : m \in DOMAIN work'[e].recs <=> (fleet.rec[m].st = "live" => m \notin outbox[e])
        /\ UNCHANGED <<chunk, lane, outbox, removing, fleet, wiped>>
    BY FetchedFacts
  <1>2. x \in Cursor /\ Paged(x) /\ Placed(x) /\ FeedFleet
    BY FeedNumbers DEF LaneOf, Cur, FeedInv, FeedOf
  <1>3. ~Old(x)
    BY <1>1, <1>2, StaleErased
  <1>4. ~Old(n) /\ n \in Cursor
    BY <1>2, <1>3, FetchNew
  <1>5. /\ Page(x) \subseteq After(x) /\ \A m \in After(x) \ Page(x) : fleet.rec[m].seq > n.seq
    BY <1>2, PageFacts
  <1>6. \A m \in Page(x) : m \in Memory /\ fleet.rec[m].st # "none"
    BY <1>2, FetchPlaced DEF Record
  <1>7. DOMAIN chunk[e] \subseteq Memory
    BY DEF Types, StoreTypes, Store
  <1>8. /\ \A m \in Memory : (Known(m)' <=> Known(m)) /\ fleet'.rec[m] = fleet.rec[m]
        /\ Cur(e)' = x /\ (Resetting(e)' <=> Resetting(e))
    BY <1>1 DEF Known, Record, Cur, Resetting
  <1>9. ~Behind(x, fleet'.erasedAt) /\ ~Behind(work'[e].cu, fleet'.erasedAt)
    BY <1>1, <1>3, <1>4 DEF Old
  <1> HIDE DEF n, x
  <1>10. ASSUME NEW m \in DOMAIN chunk[e] PROVE RowOf(e, m)'
    <2>1. RowOf(e, m) /\ m \in Memory /\ (Dropping(e, m)' <=> Dropping(e, m))
      BY <1>1, <1>7 DEF KeepOf, Rows, Dropping
    <2> QED
      BY <1>1, <1>3, <1>8, <2>1 DEF RowOf, At, Record, x
  <1>11. ASSUME NEW m \in DOMAIN chunk[e], Open(e, m)' PROVE OpenOf(e, m)'
    <2>1. m \in Memory /\ Open(e, m) /\ OpenOf(e, m) /\ RowOf(e, m)
      BY <1>1, <1>7, <1>8, <1>11 DEF KeepOf, Open, Rows
    <2>2. m \notin outbox[e]
      BY <2>1 DEF RowOf, Open, Dropping
    <2>3. Replay(e, m) \/ m \in After(x)
      BY <1>3, <2>1 DEF OpenOf, Meets, After, Record, x
    <2>4. Replay(e, m)' <=> Replay(e, m)
      BY <1>1 DEF Replay
    <2>5. m \in After(x) => \/ m \in DOMAIN work'[e].recs
                            \/ work'[e].more /\ fleet.rec[m].seq > n.seq
      BY <1>1, <1>5, <2>2
    <2>6. Replay(e, m) \/ (fleet.rec[m].st # "none" /\ fleet.rec[m].seq > x.seq)
      BY <1>3, <2>1 DEF OpenOf, Meets, Record, x
    <2>7. Replay(e, m)' \/ Meets(m, Cur(e))'
      BY <1>8, <2>1, <2>4, <2>6 DEF Meets, Record
    <2>8. Replay(e, m)' \/ m \in DOMAIN work'[e].recs \/ (work'[e].more /\ Meets(m, work[e].cu)')
      BY <1>1, <1>8, <2>1, <2>3, <2>4, <2>5, <2>6 DEF Meets, Record
    <2>9. fleet.rec[m].st = "none" => chunk[e][m].born < fleet.era
      BY <2>1 DEF OpenOf, Record
    <2>10. /\ lane'[e].reset # "cursor_expired"
           /\ \/ fleet'.rec[m].st = "none" \/ Behind(Cur(e)', fleet'.erasedAt) \/ (Paging(work'[e]) /\ Behind(work'[e].cu, fleet'.erasedAt))
              => chunk'[e][m].born < fleet'.era
      BY <1>1, <1>8, <1>9, <2>1, <2>9 DEF OpenOf
    <2> QED
      BY <1>1, <2>7, <2>8, <2>10 DEF OpenOf, OwnPush, At, Pushing, Record, Old
  <1>12. FlightOf(e)'
    <2>1. \A m \in DOMAIN work'[e].recs : fleet'.rec[m].st # "none"
      BY <1>1, <1>6
    <2> QED
      BY <1>1, <2>1 DEF FlightOf, At, Record
  <1> QED
    BY <1>1, <1>10, <1>11, <1>12 DEF KeepOf, Rows


LEMMA PulledSyn ==
    ASSUME NEW c \in Chunk, NEW r \in Rec, NEW n
    PROVE  Pulled(c, r, n).syn = n
  BY DEF Pulled, Chunk

LEMMA AcceptedSyn ==
    ASSUME NEW c \in Chunk, NEW it \in Item, ~it.demote
    PROVE  Outcome(c, it, "accepted").syn = 1
  <1> DEFINE s == [c EXCEPT !.syn = 1]
             t == [s EXCEPT !.dirty = FALSE]
  <1>1. Outcome(c, it, "accepted") = IF c.gen = it.gen THEN t ELSE s
    BY DEF Outcome
  <1>2. s.syn = 1 /\ t.syn = 1
    BY DEF Chunk
  <1> HIDE DEF s, t
  <1> QED
    BY <1>1, <1>2

\* A pulled page: what it touches is Fleet's, and an open row it does not is met later.
LEMMA KeepApply ==
    ASSUME Types, FeedInv, HolderInv, NEW e \in Device, SyncOf(e), KeepOf(e), ApplyPage(e)
    PROVE  KeepOf(e)'
  <1> DEFINE recs == work[e].recs
             syn == IF lane[e].reset # "" THEN 2 ELSE 1
  <1>1. /\ At(e, "apply") /\ work'[e].pc = "cursor" /\ work'[e].cu = work[e].cu /\ work'[e].more = work[e].more
        /\ UNCHANGED <<outbox, lane, removing, fleet, wiped>>
    BY ApplyWork DEF At
  <1>2. /\ \A m \in DOMAIN chunk'[e] : m \in DOMAIN chunk[e] \/ m \in DOMAIN recs
        /\ \A m \in DOMAIN recs :
             /\ recs[m].st = "live" => chunk'[e][m] = IF m \in DOMAIN chunk[e] THEN Pulled(chunk[e][m], recs[m], syn)
                                                      ELSE Inserted(recs[m], syn)
             /\ recs[m].st # "live" /\ m \in DOMAIN chunk'[e] => recs[m].st = "left"
        /\ \A m \in DOMAIN chunk[e] \ DOMAIN recs : chunk'[e][m] = chunk[e][m]
    BY ApplyFacts, Zenon
  <1>3. /\ \A m \in DOMAIN recs : m \in Memory /\ recs[m] \in Rec /\ recs[m].st # "left"
        /\ \A m \in DOMAIN chunk[e] : m \in Memory /\ chunk[e][m] \in Chunk
    BY <1>1 DEF Types, StoreTypes, Store, WorkTypes, WorkOK, At, SyncOf
  <1>4. /\ \A m \in Memory : (Known(m)' <=> Known(m)) /\ fleet'.rec[m] = fleet.rec[m]
        /\ Cur(e)' = Cur(e) /\ (Resetting(e)' <=> Resetting(e))
    BY <1>1 DEF Known, Record, Cur, Resetting
  <1>5. syn # 0
    OBVIOUS
  <1> HIDE DEF recs, syn
  <1>6. ASSUME NEW m \in DOMAIN chunk'[e]
        PROVE  \/ m \in DOMAIN chunk[e] \ DOMAIN recs /\ chunk'[e][m] = chunk[e][m]
               \/ m \in DOMAIN recs /\ chunk'[e][m].syn # 0
    <2>1. CASE m \notin DOMAIN recs
      BY <1>2, <2>1
    <2>2. CASE m \in DOMAIN recs /\ m \in DOMAIN chunk[e]
      <3>1. chunk'[e][m] = Pulled(chunk[e][m], recs[m], syn)
        BY <1>2, <1>3, <2>2
      <3> QED
        BY <1>3, <1>5, <2>2, <3>1, PulledSyn
    <2>3. CASE m \in DOMAIN recs /\ m \notin DOMAIN chunk[e]
      <3>1. chunk'[e][m] = Inserted(recs[m], syn)
        BY <1>2, <1>3, <2>3
      <3>2. Inserted(recs[m], syn).syn = syn
        BY DEF Inserted
      <3> QED
        BY <1>5, <2>3, <3>1, <3>2
    <2> QED
      BY <2>1, <2>2, <2>3
  <1>7. ASSUME NEW m \in DOMAIN chunk'[e] PROVE RowOf(e, m)'
    <2>1. CASE m \in DOMAIN chunk[e] /\ chunk'[e][m] = chunk[e][m]
      <3>1. RowOf(e, m) /\ m \in Memory /\ (Dropping(e, m)' <=> Dropping(e, m))
        BY <1>1, <1>3, <2>1 DEF KeepOf, Rows, Dropping
      <3> QED
        BY <1>1, <1>4, <2>1, <3>1 DEF RowOf, Paging, At, Old, Record
    <2>2. CASE m \in DOMAIN recs /\ chunk'[e][m].syn # 0
      <3>1. m \in Memory /\ Known(m)
        BY <1>1, <1>3, <2>2 DEF HolderInv, recs
      <3>2. FleetMayKnow(chunk'[e][m])
        BY <2>2 DEF FleetMayKnow
      <3>3. fleet.rec[m].st = "none" => Old(Cur(e)) /\ Old(work[e].cu)
        BY <1>1, <2>2 DEF KeepOf, FlightOf, Record, recs
      <3>4. fleet'.rec[m].st = "none" => Behind(Cur(e)', fleet'.erasedAt) /\ Behind(work'[e].cu, fleet'.erasedAt)
        BY <1>1, <1>4, <3>1, <3>3 DEF Old
      <3> QED
        BY <1>1, <1>4, <2>2, <3>1, <3>2, <3>4 DEF RowOf, At, Old, Record
    <2> QED
      BY <1>6, <2>1, <2>2
  <1>8. ASSUME NEW m \in DOMAIN chunk'[e], Open(e, m)' PROVE OpenOf(e, m)'
    <2>1. m \in DOMAIN chunk[e] /\ m \notin DOMAIN recs /\ chunk'[e][m] = chunk[e][m] /\ m \in Memory
      BY <1>3, <1>6, <1>8 DEF Open
    <2>2. OpenOf(e, m)
      BY <1>4, <1>8, <2>1 DEF KeepOf, Open, Rows
    <2>3. /\ Replay(e, m)' <=> Replay(e, m)
          /\ Meets(m, Cur(e))' <=> Meets(m, Cur(e))
          /\ Meets(m, work[e].cu)' <=> Meets(m, work[e].cu)
      BY <1>1, <1>4, <2>1 DEF Replay, Meets, Old, Record
    <2>4. Replay(e, m) \/ (work[e].more /\ Meets(m, work[e].cu))
      BY <1>1, <2>1, <2>2 DEF OpenOf, recs
    <2>5. \/ fleet'.rec[m].st = "none" \/ Behind(Cur(e)', fleet'.erasedAt) \/ Behind(work'[e].cu, fleet'.erasedAt)
          => chunk'[e][m].born < fleet'.era
      BY <1>1, <1>4, <2>1, <2>2 DEF OpenOf, Record, Old, Paging, At
    <2>6. (Replay(e, m) \/ Meets(m, Cur(e))) /\ lane[e].reset # "cursor_expired"
      BY <2>2 DEF OpenOf
    <2> QED
      BY <1>1, <2>3, <2>4, <2>5, <2>6 DEF OpenOf, OwnPush, Pushing, At, Old, Record
  <1>9. FlightOf(e)'
    BY <1>1 DEF FlightOf, At
  <1> QED
    BY <1>7, <1>8, <1>9 DEF KeepOf, Rows

\* A saved cursor: only a row the replay removes is left open at the end of the feed.
LEMMA KeepSave ==
    ASSUME Types, NEW e \in Device, KeepOf(e), SaveCursor(e)
    PROVE  KeepOf(e)'
  <1>1. /\ At(e, "cursor") /\ outbox'[e] \subseteq outbox[e] /\ lane'[e].reset = lane[e].reset
        /\ lane'[e].before = lane[e].before
        /\ IF lane[e].reset # "" THEN lane'[e].rcursor = work[e].cu ELSE lane'[e].cursor = work[e].cu
        /\ work'[e].pc \in {"pull", "idle", "sweep", "push"}
        /\ work'[e].pc \in {"sweep", "push"} => ~work[e].more
        /\ work'[e].pc = "push" => lane[e].reset = ""
        /\ UNCHANGED <<chunk, removing, fleet, wiped>>
    BY SaveWork DEF At
  <1>2. Cur(e)' = work[e].cu /\ (Resetting(e)' <=> Resetting(e))
    BY <1>1 DEF Cur, Resetting
  <1>3. \A m \in Memory : (Known(m)' <=> Known(m)) /\ fleet'.rec[m] = fleet.rec[m]
    BY <1>1 DEF Known, Record
  <1>4. DOMAIN chunk[e] \subseteq Memory
    BY DEF Types, StoreTypes, Store
  <1>5. ASSUME NEW m \in DOMAIN chunk[e] PROVE RowOf(e, m)'
    <2>1. RowOf(e, m) /\ m \in Memory /\ (Dropping(e, m)' => Dropping(e, m))
      BY <1>1, <1>4 DEF KeepOf, Rows, Dropping
    <2> QED
      BY <1>1, <1>2, <1>3, <2>1 DEF RowOf, Paging, At, Old, Record
  <1>6. ASSUME NEW m \in DOMAIN chunk[e], Open(e, m)' PROVE OpenOf(e, m)'
    <2>1. m \in Memory /\ OpenOf(e, m)
      BY <1>1, <1>3, <1>4, <1>6 DEF KeepOf, Open, Rows
    <2>2. Replay(e, m)' <=> Replay(e, m)
      BY <1>1 DEF Replay
    <2>3. Replay(e, m) \/ (work[e].more /\ Meets(m, work[e].cu))
      BY <1>1, <2>1 DEF OpenOf
    <2>4. Meets(m, work[e].cu) => Meets(m, Cur(e))'
      BY <1>1, <1>2, <1>3, <2>1 DEF Meets, Old, Record
    <2>5. \/ fleet'.rec[m].st = "none" \/ Behind(Cur(e)', fleet'.erasedAt)
          => chunk'[e][m].born < fleet'.era
      BY <1>1, <1>2, <1>3, <2>1 DEF OpenOf, Record, Old, Paging, At
    <2>6. work'[e].pc # "push"
      BY <1>1, <2>3 DEF Replay
    <2>7. work'[e].pc = "sweep" => Replay(e, m)
      BY <1>1, <2>3
    <2>8. lane'[e].reset # "cursor_expired"
      BY <1>1, <2>1 DEF OpenOf
    <2> QED
      BY <1>1, <2>2, <2>3, <2>4, <2>5, <2>6, <2>7, <2>8 DEF OpenOf, OwnPush, Paging, Pushing, At, Old, Record
  <1>7. FlightOf(e)'
    BY <1>1 DEF FlightOf, At
  <1> QED
    BY <1>1, <1>5, <1>6, <1>7 DEF KeepOf, Rows

\* The sweeps of a snapshot take the rows that were not met and the open ones.
LEMMA KeepSweep ==
    ASSUME Types, AllSynced, NEW e \in Device, KeepOf(e), SweepRows(e)
    PROVE  KeepOf(e)'
  <1>1. At(e, "sweep") /\ work'[e].pc = "swept" /\ UNCHANGED <<outbox, lane, removing, fleet, wiped>>
    BY SweepWork DEF At
  <1>2. /\ DOMAIN chunk'[e] = DOMAIN chunk[e] \ (SyncedBefore(e) \cup CreatedBefore(e))
        /\ \A m \in DOMAIN chunk'[e] : chunk'[e][m] = chunk[e][m]
    BY SweepFacts
  <1>3. /\ \A m \in Memory : (Known(m)' <=> Known(m)) /\ fleet'.rec[m] = fleet.rec[m]
        /\ Cur(e)' = Cur(e) /\ (Resetting(e)' <=> Resetting(e))
    BY <1>1 DEF Known, Record, Cur, Resetting
  <1>4. DOMAIN chunk[e] \subseteq Memory
    BY DEF Types, StoreTypes, Store
  <1>5. ASSUME NEW m \in DOMAIN chunk'[e] PROVE RowOf(e, m)'
    <2>1. m \in DOMAIN chunk[e] /\ chunk'[e][m] = chunk[e][m] /\ chunk[e][m].syn # 1 /\ m \in Memory
      BY <1>2, <1>4 DEF SyncedBefore, Rows
    <2>2. RowOf(e, m) /\ (Dropping(e, m)' <=> Dropping(e, m))
      BY <1>1, <2>1 DEF KeepOf, Rows, Dropping
    <2> QED
      BY <1>1, <1>3, <2>1, <2>2 DEF RowOf, Paging, At, Old, Record
  <1>6. ASSUME NEW m \in DOMAIN chunk'[e], Open(e, m)' PROVE FALSE
    <2>1. m \in DOMAIN chunk[e] /\ chunk'[e][m] = chunk[e][m] /\ m \in Memory /\ m \notin CreatedBefore(e)
      BY <1>2, <1>4
    <2>2. Open(e, m) /\ OpenOf(e, m)
      BY <1>3, <1>6, <2>1 DEF KeepOf, Open, Rows
    <2>3. Replay(e, m) /\ chunk[e][m].syn = 0 /\ chunk[e][m].scope = "sync"
      BY <1>1, <2>1, <2>2 DEF OpenOf, Open, AllSynced, Rows
    <2> QED
      BY <2>1, <2>3 DEF Replay, CreatedBefore, Rows
  <1>7. FlightOf(e)'
    BY <1>1 DEF FlightOf, At
  <1> QED
    BY <1>5, <1>6, <1>7 DEF KeepOf, Rows

LEMMA KeepFinish ==
    ASSUME Types, NEW e \in Device, LaneOf(e), KeepOf(e), FinishReset(e)
    PROVE  KeepOf(e)'
  <1>1. /\ At(e, "swept") /\ work'[e].pc = "push" /\ chunk' = NewEpoch(e)
        /\ lane'[e].cursor = lane[e].rcursor /\ lane'[e].reset = ""
        /\ UNCHANGED <<outbox, removing, fleet, wiped>>
    BY FinishWork DEF At
  <1>2. lane[e].reset # ""
    BY <1>1 DEF LaneOf, At, Sweeps
  <1>3. Cur(e)' = Cur(e) /\ ~Resetting(e)'
    BY <1>1, <1>2 DEF Cur, Resetting
  <1>4. \A m \in Memory : (Known(m)' <=> Known(m)) /\ fleet'.rec[m] = fleet.rec[m]
    BY <1>1 DEF Known, Record
  <1>5. DOMAIN chunk[e] \subseteq Memory
    BY DEF Types, StoreTypes, Store
  <1>6. /\ DOMAIN chunk'[e] = DOMAIN chunk[e]
        /\ \A m \in DOMAIN chunk[e] :
             /\ chunk'[e][m].born = chunk[e][m].born
             /\ chunk'[e][m].syn = IF chunk[e][m].syn = 0 THEN 0 ELSE 1
             /\ FleetMayKnow(chunk[e][m]) => FleetMayKnow(chunk'[e][m])
    BY <1>1, EpochRow
  <1>7. ASSUME NEW m \in DOMAIN chunk[e] PROVE RowOf(e, m)'
    <2>1. RowOf(e, m) /\ m \in Memory /\ (Dropping(e, m)' <=> Dropping(e, m))
      BY <1>1, <1>5 DEF KeepOf, Rows, Dropping
    <2>2. fleet'.era = fleet.era /\ ~At(e, "swept")' /\ ~Paging(work'[e])
      BY <1>1 DEF At, Paging
    <2>3. chunk'[e][m].syn = 0 <=> chunk[e][m].syn = 0
      BY <1>6
    <2>4. chunk'[e][m].syn # 0 /\ fleet'.rec[m].st = "none" => Behind(Cur(e)', fleet'.erasedAt)
      BY <1>1, <1>3, <1>4, <2>1, <2>3 DEF RowOf, Record, Old
    <2>5. Known(m)' => FleetMayKnow(chunk'[e][m])
      BY <1>4, <1>6, <2>1 DEF RowOf
    <2>6. chunk'[e][m].syn = 0 => ~Dropping(e, m)'
      BY <1>6, <2>1, <2>2, <2>3 DEF RowOf
    <2>7. chunk'[e][m].syn # 0 => Known(m)'
      BY <1>4, <2>1, <2>3 DEF RowOf
    <2> QED
      BY <2>2, <2>4, <2>5, <2>6, <2>7 DEF RowOf, Old, Record
  <1>8. ASSUME NEW m \in DOMAIN chunk[e], Open(e, m)' PROVE FALSE
    <2>1. Open(e, m) /\ OpenOf(e, m)
      BY <1>4, <1>5, <1>6, <1>8 DEF KeepOf, Open, Rows
    <2> QED
      BY <1>1, <2>1 DEF OpenOf
  <1>9. FlightOf(e)'
    BY <1>1 DEF FlightOf, At
  <1> QED
    BY <1>6, <1>7, <1>8, <1>9 DEF KeepOf, Rows

\* A push is made of what no erase took: an open row is never among its content.
LEMMA KeepMark ==
    ASSUME Types, FeedInv, AllSynced, NEW e \in Device, LaneOf(e), KeepOf(e), MarkSyncSent(e)
    PROVE  KeepOf(e)'
  <1> DEFINE ids == work[e].ids \cap DOMAIN chunk[e]
  <1>1. /\ At(e, "mark")
        /\ \/ work'[e].pc = "idle"
           \/ /\ work'[e].pc = "send" /\ work'[e].forgets = work[e].forgets
              /\ DOMAIN work'[e].items = ids
              /\ \A m \in ids : work'[e].items[m] = BuildItem(chunk[e][m])
        /\ DOMAIN chunk'[e] = DOMAIN chunk[e]
        /\ \A m \in DOMAIN chunk[e] : IF m \in ids THEN \E h : chunk'[e][m] = Marked(chunk[e][m], h)
                                           ELSE chunk'[e][m] = chunk[e][m]
        /\ UNCHANGED <<outbox, lane, removing, fleet, wiped>>
    BY MarkWork DEF At
  <1>2. lane[e].reset = "" /\ work[e].forgets \subseteq outbox[e]
    BY <1>1 DEF LaneOf, OwnPush, At, FeedInv, FeedOf
  <1>3. /\ \A m \in Memory : (Known(m)' <=> Known(m)) /\ fleet'.rec[m] = fleet.rec[m]
        /\ Cur(e) = lane[e].cursor /\ Cur(e)' = Cur(e) /\ ~Resetting(e) /\ ~Resetting(e)'
    BY <1>1, <1>2 DEF Known, Record, Cur, Resetting
  <1>4. \A m \in DOMAIN chunk[e] : m \in Memory /\ chunk[e][m] \in Chunk
    BY DEF Types, StoreTypes, Store
  <1>5. ASSUME NEW m \in DOMAIN chunk[e] PROVE ~Open(e, m)
    BY <1>1 DEF KeepOf, OpenOf, OwnPush, At, Rows
  <1> HIDE DEF ids
  <1>6. ASSUME NEW m \in DOMAIN chunk[e]
        PROVE  /\ chunk'[e][m].syn = chunk[e][m].syn
               /\ FleetMayKnow(chunk[e][m]) => FleetMayKnow(chunk'[e][m])
               /\ m \in ids => chunk'[e][m].sent
    <2>1. CASE m \notin ids
      BY <1>1, <2>1
    <2>2. CASE m \in ids
      <3>1. chunk[e][m] \in Chunk /\ \E h : chunk'[e][m] = Marked(chunk[e][m], h)
        BY <1>1, <1>4, <2>2
      <3>2. chunk'[e][m].syn = chunk[e][m].syn /\ chunk'[e][m].sent
        BY <3>1, MarkedFields
      <3> QED
        BY <3>2 DEF FleetMayKnow
    <2> QED
      BY <2>1, <2>2
  <1>7. ASSUME NEW m \in DOMAIN chunk[e] PROVE RowOf(e, m)'
    <2>1. RowOf(e, m) /\ m \in Memory /\ (Dropping(e, m)' <=> Dropping(e, m))
      BY <1>1, <1>4 DEF KeepOf, Rows, Dropping
    <2> QED
      BY <1>1, <1>3, <1>6, <2>1 DEF RowOf, Paging, At, Old, Record
  <1>8. ASSUME NEW m \in DOMAIN chunk[e] PROVE ~Open(e, m)'
    BY <1>3, <1>4, <1>5, <1>6 DEF Open, Rows
  <1>9. ASSUME NEW m \in ids, work'[e].pc = "send"
        PROVE  LET it == work'[e].items[m] IN
               /\ it.content => ~Known(m)' /\ m \notin work'[e].forgets
               /\ ~it.content /\ fleet'.rec[m].st = "none" => Behind(lane'[e].cursor, fleet'.erasedAt)
    <2>1. m \in DOMAIN chunk[e] /\ m \in Memory /\ RowOf(e, m) /\ chunk[e][m].scope = "sync"
      BY <1>4 DEF ids, KeepOf, AllSynced, Rows
    <2>2. work'[e].items[m].content = (chunk[e][m].scope = "sync" /\ chunk[e][m].syn = 0)
      <3>1. work'[e].items[m] = BuildItem(chunk[e][m])
        BY <1>1, <1>9
      <3>2. BuildItem(chunk[e][m]).content = (chunk[e][m].scope = "sync" /\ chunk[e][m].syn = 0)
        BY DEF BuildItem
      <3> QED
        BY <3>1, <3>2, Zenon
    <2>3. work'[e].items[m].content <=> chunk[e][m].syn = 0
      BY <2>1, <2>2, Zenon
    <2>4. chunk[e][m].syn = 0 => ~Known(m) /\ m \notin outbox[e]
      BY <1>5, <2>1 DEF RowOf, Dropping, Open, Rows
    <2>5. chunk[e][m].syn # 0 /\ fleet.rec[m].st = "none" => Old(lane[e].cursor)
      BY <1>3, <2>1 DEF RowOf, Record
    <2> QED
      BY <1>1, <1>2, <1>3, <1>9, <2>1, <2>3, <2>4, <2>5 DEF Old
  <1>10. FlightOf(e)'
    <2>1. CASE work'[e].pc = "idle"
      BY <2>1 DEF FlightOf, At
    <2>2. CASE work'[e].pc = "send" /\ DOMAIN work'[e].items = ids
      BY <1>6, <1>9, <2>2 DEF FlightOf, At, Record, Old, Rows, ids
    <2> QED
      BY <1>1, <2>1, <2>2
  <1> QED
    BY <1>1, <1>7, <1>8, <1>10 DEF KeepOf, Rows

\* Fleet's answer to what such a device sends.
LEMMA SendAnswers ==
    ASSUME Types, SyncFleet, fleet.floor = fleet.erasedAt, NEW e \in Device, LaneOf(e), SyncOf(e), FlightOf(e),
           Send(e), NEW m \in DOMAIN work[e].items
    PROVE  /\ m \in Memory /\ work'[e].res[m] # "content"
           /\ work'[e].res[m] = "accepted" => Known(m)'
           /\ ~Known(m) /\ Known(m)' => /\ work'[e].res[m] = "accepted" /\ ~Old(lane[e].cursor)
                                        /\ fleet'.rec[m].st = "live" /\ fleet'.rec[m].seq > fleet.seq
  <1> DEFINE it == work[e].items[m]
             r == fleet.rec[m]
             u == Upserted(r, it)
  <1>1. /\ m \in Memory /\ it \in Item /\ At(e, "send")
        /\ work'[e].res[m] = IF m \in work[e].forgets THEN "forgotten"
                             ELSE IF Blanket(e) # "" THEN Blanket(e) ELSE Answer(r, it)
    BY SendWork DEF At
  <1>2. /\ r \in Rec /\ r.st # "left" /\ it.scope = "sync" /\ ~it.demote
        /\ r.st \in {"none", "live", "forgotten"}
    <2>1. r \in Rec /\ r.st # "left" /\ it.scope = "sync" /\ ~it.demote
      BY <1>1, FeedNumbers DEF SyncFleet, SyncOf, Record, At, Pushing
    <2>2. r.st \in {"none", "live", "left", "forgotten"}
      BY <2>1 DEF Rec
    <2> QED
      BY <2>1, <2>2
  <1>3. /\ it.content => ~Known(m) /\ m \notin work[e].forgets
        /\ ~it.content /\ r.st = "none" => Old(lane[e].cursor)
    BY <1>1 DEF FlightOf, Record
  <1>4. Blanket(e) \in {"", "sync_disabled", "resync_required"} /\ (Blanket(e) = "" => ~Old(lane[e].cursor))
    <2>1. lane[e].cursor \in Cursor /\ Paged(lane[e].cursor)
      BY FeedNumbers DEF LaneOf
    <2>2. Stale(lane[e].cursor) = IF Old(lane[e].cursor) THEN "erased" ELSE ""
      BY <2>1, StaleErased
    <2> QED
      BY <2>2 DEF Blanket
  <1>5. Answer(r, it) = IF r.st = "forgotten" THEN "forgotten"
                        ELSE IF r.st = "live" \/ it.content THEN "accepted" ELSE "content"
    BY <1>2 DEF Answer
  <1>6. r.st = "none" => IF m \notin work[e].forgets /\ Blanket(e) = "" /\ it.content
                         THEN fleet'.rec[m].st = "live" /\ fleet'.rec[m].seq > fleet.seq
                         ELSE m \in work[e].forgets \/ fleet'.rec[m] = r
    <2>1. SUFFICES ASSUME r.st = "none"
                   PROVE  IF m \notin work[e].forgets /\ Blanket(e) = "" /\ it.content
                          THEN fleet'.rec[m].st = "live" /\ fleet'.rec[m].seq > fleet.seq
                          ELSE m \in work[e].forgets \/ fleet'.rec[m] = r
      OBVIOUS
    <2>2. /\ Blanket(e) = "" => IF u = r THEN fleet'.rec[m] = r ELSE Issued(fleet'.rec[m], u, fleet.seq, fleet'.seq)
          /\ Blanket(e) # "" => fleet'.rec[m] = r
      BY <1>1, <2>1, SendRecord
    <2>3. u = IF it.content THEN Create(it) ELSE r
      BY <2>1 DEF Upserted
    <2>4. Create(it).st = "live"
      BY DEF Create
    <2>5. fleet.seq \in Nat /\ fleet'.seq \in Nat
      <3>1. fleet' \in Service
        BY SendRecord
      <3> QED
        BY <3>1, FeedNumbers DEF Service
    <2> HIDE DEF u, r, it
    <2> QED
      BY <2>1, <2>2, <2>3, <2>4, <2>5 DEF Issued
  <1>7. wiped[m] = {} => wiped'[m] = {}
    BY <1>1, SendKnown
  <1>8. Known(m) => Known(m)'
    BY <1>1, SendKnown
  <1>9. work'[e].res[m] # "content"
    BY <1>1, <1>2, <1>3, <1>4, <1>5
  <1>10. work'[e].res[m] = "accepted" => Known(m)'
    <2>1. SUFFICES ASSUME work'[e].res[m] = "accepted" PROVE Known(m)'
      OBVIOUS
    <2>2. m \notin work[e].forgets /\ Blanket(e) = "" /\ (r.st = "live" \/ (r.st = "none" /\ it.content))
      BY <1>1, <1>2, <1>4, <1>5, <2>1
    <2>3. r.st = "live" => Known(m)'
      BY <1>8 DEF Known, Record
    <2>4. r.st = "none" => fleet'.rec[m].st = "live"
      BY <1>6, <2>2
    <2> QED
      BY <2>2, <2>3, <2>4 DEF Known, Record
  <1>11. ASSUME ~Known(m), Known(m)'
         PROVE  /\ work'[e].res[m] = "accepted" /\ ~Old(lane[e].cursor)
                /\ fleet'.rec[m].st = "live" /\ fleet'.rec[m].seq > fleet.seq
    <2>1. r.st = "none" /\ wiped[m] = {} /\ fleet'.rec[m].st # "none"
      BY <1>7, <1>11 DEF Known, Record
    <2>2. it.content /\ m \notin work[e].forgets
      <3>1. \/ fleet'.rec[m] = fleet.rec[m]
            \/ fleet.rec[m].st = "none" => m \in DOMAIN work[e].items /\ work[e].items[m].content
        BY <1>1, SendKnown DEF Grows
      <3> QED
        BY <1>3, <2>1, <3>1
    <2>3. Blanket(e) = ""
      BY <1>6, <2>1, <2>2
    <2> QED
      BY <1>1, <1>4, <1>5, <1>6, <2>1, <2>2, <2>3
  <1> QED
    BY <1>1, <1>9, <1>10, <1>11

\* A push that Fleet takes opens the rows it uploaded, until their answers are applied.
LEMMA KeepSend ==
    ASSUME Types, Types', FeedInv, SyncFleet, fleet.floor = fleet.erasedAt, NEW e \in Device,
           LaneOf(e), SyncOf(e), KeepOf(e), Send(e)
    PROVE  KeepOf(e)'
  <1>1. /\ At(e, "send") /\ work'[e].pc = "results" /\ work'[e].then = work[e].then
        /\ work'[e].items = work[e].items /\ DOMAIN work'[e].res = DOMAIN work[e].items
        /\ UNCHANGED <<chunk, outbox, lane, removing>>
    BY SendWork DEF At
  <1>2. FlightOf(e)
    BY DEF KeepOf
  <1>3. Spread(e)
    <2>1. ~ForgetAll(e) /\ Move(e)
      BY <1>1 DEF ForgetAll, At, Move
    <2> QED
      BY <2>1, SpreadMoves
  <1>4. fleet'.erasedAt = fleet.erasedAt /\ fleet'.era = fleet.era
        /\ \A m \in Memory : /\ fleet'.rec[m].st = "none" => fleet.rec[m].st = "none"
                             /\ Known(m) => Known(m)'
                             /\ Known(m)' => Known(m) \/ Uploads(e, m)
    BY <1>3 DEF Spread
  <1>5. Cur(e)' = Cur(e) /\ (Resetting(e)' <=> Resetting(e)) /\ Cur(e) \in Cursor /\ Placed(Cur(e))
    BY <1>1, FeedNumbers DEF Cur, Resetting, FeedInv, FeedOf
  <1>6. DOMAIN chunk[e] \subseteq Memory
    BY DEF Types, StoreTypes, Store
  <1>7. ASSUME NEW m \in DOMAIN chunk[e] PROVE RowOf(e, m)'
    <2>1. RowOf(e, m) /\ m \in Memory /\ (Dropping(e, m)' <=> Dropping(e, m))
      BY <1>1, <1>6 DEF KeepOf, Rows, Dropping
    <2>2. Known(m)' => FleetMayKnow(chunk'[e][m])
      <3>1. Uploads(e, m) => chunk[e][m].sent
        BY <1>2 DEF FlightOf, Uploads, Rows
      <3> QED
        BY <1>1, <1>4, <2>1, <3>1 DEF RowOf, FleetMayKnow
    <2>3. /\ chunk'[e][m].syn # 0 => Known(m)'
          /\ chunk'[e][m].syn = 0 => ~Dropping(e, m)'
      BY <1>1, <1>4, <2>1 DEF RowOf
    <2>4. chunk'[e][m].syn # 0 /\ fleet'.rec[m].st = "none" /\ ~(Resetting(e)' /\ chunk'[e][m].syn = 1) =>
              Behind(Cur(e)', fleet'.erasedAt)
      BY <1>1, <1>4, <1>5, <2>1 DEF RowOf, Record, Old
    <2>5. ~Paging(work'[e]) /\ ~At(e, "swept")'
      BY <1>1 DEF Paging, At
    <2> QED
      BY <2>2, <2>3, <2>4, <2>5 DEF RowOf, Old, Record
  <1>8. ASSUME NEW m \in DOMAIN chunk[e], Open(e, m)' PROVE OpenOf(e, m)'
    <2>1. m \in Memory /\ chunk[e][m].syn = 0 /\ Known(m)'
      BY <1>1, <1>6, <1>8 DEF Open
    <2>2. Replay(e, m)' <=> Replay(e, m)
      BY <1>1 DEF Replay
    <2>3. CASE Known(m)
      <3>1. OpenOf(e, m)
        BY <1>8, <2>1, <2>3 DEF KeepOf, Open, Rows
      <3>2. ~OwnPush(e)
        BY <1>1, <3>1 DEF OpenOf, At
      <3>3. ~OwnPush(e)'
        BY <1>1, <3>2 DEF OwnPush, Pushing, At
      <3>4. Meets(m, Cur(e)) => Meets(m, Cur(e))'
        BY <1>3, <1>5, <2>1, MeetsStill DEF Meets, Old, Record
      <3>5. fleet'.rec[m].st = "none" \/ Behind(Cur(e)', fleet'.erasedAt) => chunk'[e][m].born < fleet'.era
        BY <1>1, <1>4, <1>5, <2>1, <3>1 DEF OpenOf, Old, Record
      <3>6. (Replay(e, m) \/ Meets(m, Cur(e))) /\ lane'[e].reset # "cursor_expired"
        BY <1>1, <3>1 DEF OpenOf
      <3> QED
        BY <1>1, <2>2, <3>3, <3>4, <3>5, <3>6 DEF OpenOf, Paging, At, Old, Record
    <2>4. CASE ~Known(m)
      <3>1. m \in DOMAIN work[e].items
        BY <1>4, <2>1, <2>4 DEF Uploads
      <3>2. /\ work'[e].res[m] = "accepted" /\ ~Old(lane[e].cursor)
            /\ fleet'.rec[m].st = "live" /\ fleet'.rec[m].seq > fleet.seq
        BY <1>2, <2>1, <2>4, <3>1, SendAnswers
      <3>3. lane[e].reset = "" /\ Cur(e) = lane[e].cursor
        <4>1. work[e].then = "idle"
          BY <1>1, <3>1 DEF LaneOf, Types, WorkTypes, WorkOK, Pushing, At
        <4>2. lane[e].reset = ""
          BY <1>1, <4>1 DEF LaneOf, OwnPush, Pushing, At
        <4> QED
          BY <4>2 DEF Cur, Resetting
      <3>4. fleet'.rec[m].seq > Cur(e).seq
        <4>1. fleet' \in Service
          BY DEF Types
        <4>2. fleet'.rec[m].seq \in Nat /\ fleet.seq \in Nat /\ Cur(e).seq \in Nat /\ Cur(e).seq <= fleet.seq
          BY <1>5, <2>1, <4>1, FeedNumbers DEF Service, Rec, Placed
        <4> QED
          BY <3>2, <4>2
      <3>5. Meets(m, Cur(e))'
        BY <1>5, <3>2, <3>4 DEF Meets, Record
      <3>6. ~Behind(Cur(e)', fleet'.erasedAt) /\ lane'[e].reset = ""
        BY <1>1, <1>4, <1>5, <3>2, <3>3 DEF Old
      <3> QED
        BY <1>1, <3>1, <3>2, <3>5, <3>6 DEF OpenOf, Paging, At, Old, Record
    <2> QED
      BY <2>3, <2>4
  <1>9. FlightOf(e)'
    <2>1. ASSUME NEW m \in DOMAIN work[e].items
          PROVE  work'[e].res[m] # "content" /\ (work'[e].res[m] = "accepted" => Known(m)')
      BY <1>2, <2>1, SendAnswers
    <2> QED
      BY <1>1, <2>1 DEF FlightOf, At
  <1> QED
    BY <1>1, <1>7, <1>8, <1>9 DEF KeepOf, Rows

\* The answers of a push: with a refusal among them nothing was taken, so no row is open.
LEMMA KeepTold ==
    ASSUME Types, NEW e \in Device, LaneOf(e), KeepOf(e), Told(e)
    PROVE  KeepOf(e)'
  <1>1. /\ At(e, "results") /\ work'[e].pc = "outcomes" /\ work'[e].items = work[e].items
        /\ work'[e].then = work[e].then /\ work'[e].res = work[e].res
        /\ outbox'[e] \subseteq outbox[e] /\ UNCHANGED <<removing, fleet, wiped>>
    BY ToldWork DEF At
  <1>2. \A m \in Memory : (Known(m)' <=> Known(m)) /\ fleet'.rec[m] = fleet.rec[m]
    BY <1>1 DEF Known, Record
  <1>3. DOMAIN chunk[e] \subseteq Memory /\ DOMAIN work[e].res \subseteq Memory /\ DOMAIN work[e].res = DOMAIN work[e].items
    BY <1>1 DEF Types, StoreTypes, Store, WorkTypes, WorkOK, At, Pushing
  <1>4. FlightOf(e)'
    <2>1. FlightOf(e)
      BY DEF KeepOf
    <2> QED
      BY <1>1, <1>2, <1>3, <2>1 DEF FlightOf, At
  <1>5. CASE UNCHANGED <<chunk, lane>>
    <2>1. Cur(e)' = Cur(e) /\ (Resetting(e)' <=> Resetting(e))
      BY <1>5 DEF Cur, Resetting
    <2>2. ASSUME NEW m \in DOMAIN chunk[e] PROVE RowOf(e, m)'
      <3>1. RowOf(e, m) /\ m \in Memory /\ (Dropping(e, m)' => Dropping(e, m))
        BY <1>1, <1>3 DEF KeepOf, Rows, Dropping
      <3> QED
        BY <1>1, <1>2, <1>5, <2>1, <3>1 DEF RowOf, Paging, At, Old, Record
    <2>3. ASSUME NEW m \in DOMAIN chunk[e], Open(e, m)' PROVE OpenOf(e, m)'
      <3>1. m \in Memory /\ OpenOf(e, m)
        BY <1>2, <1>3, <1>5, <2>3 DEF KeepOf, Open, Rows
      <3>2. (Replay(e, m)' <=> Replay(e, m)) /\ (Meets(m, Cur(e))' <=> Meets(m, Cur(e)))
        BY <1>1, <1>2, <1>5, <2>1, <3>1 DEF Replay, Meets, Old, Record
      <3>3. fleet'.rec[m].st = "none" \/ Behind(Cur(e)', fleet'.erasedAt) => chunk'[e][m].born < fleet'.era
        BY <1>1, <1>5, <2>1, <3>1 DEF OpenOf, Old, Record
      <3>4. (Replay(e, m) \/ Meets(m, Cur(e))) /\ lane'[e].reset # "cursor_expired"
        BY <1>5, <3>1 DEF OpenOf
      <3>5. OwnPush(e)' => m \in DOMAIN work'[e].items /\ work'[e].res[m] = "accepted"
        BY <1>1, <3>1 DEF OpenOf, OwnPush, Pushing, At
      <3> QED
        BY <1>1, <3>2, <3>3, <3>4, <3>5 DEF OpenOf, Paging, At, Old, Record
    <2> QED
      BY <1>4, <1>5, <2>2, <2>3 DEF KeepOf, Rows
  <1>6. CASE /\ \E m \in DOMAIN work[e].res : work[e].res[m] = "resync_required"
             /\ chunk' = NewEpoch(e) /\ lane'[e].reset # ""
    <2>1. /\ DOMAIN chunk'[e] = DOMAIN chunk[e]
          /\ \A m \in DOMAIN chunk[e] :
               /\ chunk'[e][m].born = chunk[e][m].born
               /\ chunk'[e][m].syn = IF chunk[e][m].syn = 0 THEN 0 ELSE 1
               /\ FleetMayKnow(chunk[e][m]) => FleetMayKnow(chunk'[e][m])
      BY <1>6, EpochRow
    <2>2. OwnPush(e)
      <3>1. work[e].then = "idle"
        BY <1>1, <1>3, <1>6 DEF LaneOf, Types, WorkTypes, WorkOK, Pushing, At
      <3> QED
        BY <1>1, <3>1 DEF OwnPush, Pushing, At
    <2>3. ASSUME NEW m \in DOMAIN chunk[e] PROVE ~Open(e, m)
      <3>1. SUFFICES ASSUME Open(e, m) PROVE FALSE
        OBVIOUS
      <3>2. m \in DOMAIN work[e].res /\ work[e].res[m] = "accepted"
        BY <1>3, <2>2, <3>1 DEF KeepOf, OpenOf, Rows
      <3> QED
        BY <1>1, <1>6, <3>2 DEF LaneOf
    <2>4. ASSUME NEW m \in DOMAIN chunk[e] PROVE RowOf(e, m)'
      <3>1. RowOf(e, m) /\ m \in Memory /\ (Dropping(e, m)' => Dropping(e, m))
        BY <1>1, <1>3 DEF KeepOf, Rows, Dropping
      <3>2. fleet'.era = fleet.era /\ ~At(e, "swept")' /\ Resetting(e)'
        BY <1>1, <1>6 DEF At, Resetting
      <3>3. (chunk'[e][m].syn = 0 <=> chunk[e][m].syn = 0) /\ (chunk'[e][m].syn # 0 => chunk'[e][m].syn = 1)
        BY <2>1
      <3>4. Known(m)' => FleetMayKnow(chunk'[e][m])
        BY <1>2, <2>1, <3>1 DEF RowOf
      <3>5. chunk'[e][m].syn = 0 => ~Dropping(e, m)'
        BY <2>1, <3>1, <3>2, <3>3 DEF RowOf
      <3>6. chunk'[e][m].syn # 0 => Known(m)'
        BY <1>2, <3>1, <3>3 DEF RowOf
      <3> QED
        BY <3>2, <3>3, <3>4, <3>5, <3>6 DEF RowOf
    <2>5. ASSUME NEW m \in DOMAIN chunk[e] PROVE ~Open(e, m)'
      BY <1>2, <1>3, <2>1, <2>3 DEF Open, Rows
    <2> QED
      BY <1>4, <2>1, <2>4, <2>5 DEF KeepOf, Rows
  <1> QED
    BY <1>5, <1>6, ToldLane

\* The answers, applied: a row that was taken is known to be on Fleet.
LEMMA KeepOutcomes ==
    ASSUME Types, NEW e \in Device, LaneOf(e), SyncOf(e), KeepOf(e), Outcomes(e)
    PROVE  KeepOf(e)'
  <1>1. /\ At(e, "outcomes") /\ work'[e].pc \in {"idle", "put"}
        /\ UNCHANGED <<outbox, lane, removing, fleet, wiped>>
        /\ \A m : m \in DOMAIN chunk'[e] <=>
                  /\ m \in DOMAIN chunk[e]
                  /\ ~(m \in DOMAIN work[e].items /\ work[e].res[m] = "forgotten" /\ ~work[e].items[m].demote)
        /\ \A m \in DOMAIN chunk'[e] :
             chunk'[e][m] = IF m \in DOMAIN work[e].items THEN Outcome(chunk[e][m], work[e].items[m], work[e].res[m])
                            ELSE chunk[e][m]
        /\ \A m \in DOMAIN work[e].items : m \in Memory /\ work[e].items[m] \in Item
    BY OutcomeWork DEF At
  <1>2. /\ \A m \in Memory : (Known(m)' <=> Known(m)) /\ fleet'.rec[m] = fleet.rec[m]
        /\ Cur(e)' = Cur(e) /\ (Resetting(e)' <=> Resetting(e))
    BY <1>1 DEF Known, Record, Cur, Resetting
  <1>3. /\ \A m \in DOMAIN chunk[e] : m \in Memory /\ chunk[e][m] \in Chunk
        /\ DOMAIN work[e].res = DOMAIN work[e].items
        /\ \A m \in DOMAIN work[e].items : work[e].res[m] \in {"forgotten", "accepted", "content",
                                                               "sync_disabled", "resync_required"}
    BY <1>1 DEF Types, StoreTypes, Store, WorkTypes, WorkOK, At
  <1>4. ASSUME NEW m \in DOMAIN work[e].items
        PROVE  /\ work[e].res[m] \in {"forgotten", "accepted", "resync_required"} /\ ~work[e].items[m].demote
               /\ work[e].res[m] = "accepted" => Known(m)
    BY <1>1, <1>3 DEF KeepOf, FlightOf, LaneOf, SyncOf, At, Pushing
  <1>5. ASSUME NEW m \in DOMAIN chunk'[e]
        PROVE  \/ /\ m \in DOMAIN chunk[e] /\ chunk'[e][m] = chunk[e][m]
                  /\ ~(m \in DOMAIN work[e].items /\ work[e].res[m] = "accepted")
               \/ m \in DOMAIN chunk[e] /\ Known(m) /\ chunk'[e][m].syn = 1
    <2>1. m \in DOMAIN chunk[e] /\ m \in Memory /\ chunk[e][m] \in Chunk
      BY <1>1, <1>3
    <2>2. CASE m \notin DOMAIN work[e].items
      BY <1>1, <2>1, <2>2
    <2>3. CASE m \in DOMAIN work[e].items /\ work[e].res[m] = "resync_required"
      <3>1. chunk'[e][m] = Outcome(chunk[e][m], work[e].items[m], "resync_required")
        BY <1>1, <2>3
      <3>2. chunk'[e][m] = chunk[e][m]
        BY <3>1 DEF Outcome
      <3> QED
        BY <2>1, <2>3, <3>2
    <2>4. CASE m \in DOMAIN work[e].items /\ work[e].res[m] = "accepted"
      <3>1. chunk'[e][m] = Outcome(chunk[e][m], work[e].items[m], "accepted")
        BY <1>1, <2>4
      <3>2. work[e].items[m] \in Item /\ ~work[e].items[m].demote
        BY <1>1, <1>4, <2>4
      <3>3. chunk'[e][m].syn = 1
        BY <2>1, <3>1, <3>2, AcceptedSyn
      <3> QED
        BY <1>4, <2>1, <2>4, <3>3
    <2> QED
      BY <1>1, <1>4, <2>2, <2>3, <2>4
  <1>6. ASSUME NEW m \in DOMAIN chunk'[e] PROVE RowOf(e, m)'
    <2>1. m \in DOMAIN chunk[e] /\ m \in Memory /\ RowOf(e, m) /\ (Dropping(e, m)' <=> Dropping(e, m))
      BY <1>1, <1>3 DEF KeepOf, Rows, Dropping
    <2>2. CASE chunk'[e][m] = chunk[e][m]
      BY <1>1, <1>2, <2>1, <2>2 DEF RowOf, Paging, At, Old, Record
    <2>3. CASE Known(m) /\ chunk'[e][m].syn = 1
      <3>1. FleetMayKnow(chunk'[e][m])
        BY <2>3 DEF FleetMayKnow
      <3>2. fleet.rec[m].st = "none" /\ ~Resetting(e) => Old(Cur(e))
        <4>1. CASE chunk[e][m].syn # 0
          BY <2>1, <4>1 DEF RowOf, Record
        <4>2. CASE chunk[e][m].syn = 0
          <5>1. OpenOf(e, m)
            BY <2>1, <2>3, <4>2 DEF KeepOf, Open, Rows
          <5> QED
            BY <5>1 DEF OpenOf, Replay, Meets, Resetting, Record
        <4> QED
          BY <4>1, <4>2
      <3>3. fleet'.rec[m].st = "none" /\ ~Resetting(e)' => Behind(Cur(e)', fleet'.erasedAt)
        BY <1>1, <1>2, <2>1, <3>2 DEF Old
      <3>4. ~Paging(work'[e]) /\ ~At(e, "swept")' /\ Known(m)'
        BY <1>1, <1>2, <2>1, <2>3 DEF Paging, At
      <3> QED
        BY <2>3, <3>1, <3>3, <3>4 DEF RowOf, Old, Record
    <2> QED
      BY <1>5, <2>2, <2>3
  <1>7. ASSUME NEW m \in DOMAIN chunk'[e], Open(e, m)' PROVE OpenOf(e, m)'
    <2>1. /\ m \in DOMAIN chunk[e] /\ chunk'[e][m] = chunk[e][m] /\ m \in Memory
          /\ ~(m \in DOMAIN work[e].items /\ work[e].res[m] = "accepted")
      BY <1>3, <1>5, <1>7 DEF Open
    <2>2. OpenOf(e, m)
      BY <1>2, <1>7, <2>1 DEF KeepOf, Open, Rows
    <2>3. (Replay(e, m)' <=> Replay(e, m)) /\ (Meets(m, Cur(e))' <=> Meets(m, Cur(e)))
      BY <1>1, <1>2, <2>1 DEF Replay, Meets, Old, Record
    <2>4. fleet'.rec[m].st = "none" \/ Behind(Cur(e)', fleet'.erasedAt) => chunk'[e][m].born < fleet'.era
      BY <1>1, <1>2, <2>1, <2>2 DEF OpenOf, Old, Record
    <2>5. (Replay(e, m) \/ Meets(m, Cur(e))) /\ lane'[e].reset # "cursor_expired"
      BY <1>1, <2>2 DEF OpenOf
    <2> QED
      BY <1>1, <2>3, <2>4, <2>5 DEF OpenOf, OwnPush, Paging, Pushing, At, Old, Record
  <1>8. FlightOf(e)'
    BY <1>1 DEF FlightOf, At
  <1> QED
    BY <1>6, <1>7, <1>8 DEF KeepOf, Rows

LEMMA KeepOwn ==
    ASSUME Types, Types', FeedInv, HolderInv, SyncFleet, AllSynced, AllSynced', fleet.floor = fleet.erasedAt,
           NEW d0 \in Device, SoleEraser(d0), NEW e \in Device \ {d0}, SyncOf(e), LaneOf(e), KeepOf(e), Move(e)
    PROVE  KeepOf(e)'
  <1>1. ~Erasing(e)
    <2>1. SUFFICES ASSUME Erasing(e) PROVE FALSE
      OBVIOUS
    <2>2. lane[e].erasePending
      BY <2>1, ErasingWork DEF LaneOf
    <2> QED
      BY <2>2 DEF SoleEraser
  <1>2. CASE Turn(e)
    BY <1>2, KeepTurn
  <1>3. CASE User(e)
    BY <1>3, KeepUser
  <1>4. CASE Refused(e)
    BY <1>4, KeepRefused
  <1>5. CASE Fetched(e)
    BY <1>5, KeepFetched
  <1>6. CASE ApplyPage(e)
    BY <1>6, KeepApply
  <1>7. CASE SaveCursor(e)
    BY <1>7, KeepSave
  <1>8. CASE SweepRows(e)
    BY <1>8, KeepSweep
  <1>9. CASE FinishReset(e)
    BY <1>9, KeepFinish
  <1>10. CASE MarkSyncSent(e)
    BY <1>10, KeepMark
  <1>11. CASE Send(e)
    BY <1>11, KeepSend
  <1>12. CASE Told(e)
    BY <1>12, KeepTold
  <1>13. CASE Outcomes(e)
    BY <1>13, KeepOutcomes
  <1> QED
    BY <1>1, <1>2, <1>3, <1>4, <1>5, <1>6, <1>7, <1>8, <1>9, <1>10, <1>11, <1>12, <1>13 DEF Move

EraseInv(d0) ==
    /\ SyncFleet /\ WipeInv(d0)
    /\ \A d \in Device : SyncOf(d) /\ LaneOf(d) /\ (d # d0 => KeepOf(d))

LEMMA EraseInit ==
    ASSUME Init, NEW d0 \in Device
    PROVE  EraseInv(d0)
  <1>1. SyncFleet /\ \A d \in Device : SyncOf(d)
    BY AgreeInit DEF AgreeOf
  <1>2. WipeInv(d0)
    BY DEF Init, WipeInv, Record
  <1>3. ASSUME NEW d \in Device PROVE LaneOf(d) /\ KeepOf(d)
    <2>1. work[d] = Idle /\ chunk[d] = [m \in {} |-> 0]
      BY DEF Init
    <2>2. lane[d].cursor = Start /\ lane[d].rcursor = Start
      BY DEF Init
    <2>3. work[d].pc = "idle" /\ DOMAIN chunk[d] = {}
      BY <2>1 DEF Idle
    <2>4. LaneOf(d)
      BY <2>2, <2>3 DEF LaneOf, OwnPush, At, Paging, Pushing, Sweeps, Paged, Start
    <2>5. KeepOf(d)
      BY <2>3 DEF KeepOf, FlightOf, At, Rows
    <2> QED
      BY <2>4, <2>5
  <1> QED
    BY <1>1, <1>2, <1>3 DEF EraseInv

\* A step that changes nothing is one of any device.
LEMMA StutterMove ==
    ASSUME NEW d \in Device, UNCHANGED vars
    PROVE  Alone(d) /\ Move(d)
  <1>1. UNCHANGED <<chunk, clock, outbox, lane, work, removing, fleet, asked, wiped>>
    BY DEF vars
  <1>2. Turn(d)
    BY <1>1 DEF Turn, TurnTo, SameFeed
  <1> QED
    BY <1>1, <1>2 DEF Alone, Move

LEMMA EraseStep ==
    ASSUME Reached, MaxSweeps = 0, Types, FeedInv, HolderInv, NEW d0 \in Device, EraseInv(d0),
           AllSynced, AllSynced', SoleEraser(d0), [Next]_vars
    PROVE  EraseInv(d0)' /\ HolderInv'
  <1>1. Types'
    BY TypesStep
  <1>2. PICK d \in Device : Alone(d) /\ Move(d)
    <2>1. ~FleetSweep
      <3>1. ~(spent["sweeps"] < MaxSweeps)
        BY DEF Types, Bounds
      <3> QED
        BY <3>1 DEF FleetSweep, Left, Bound
    <2> QED
      BY <2>1, StutterMove, Moves
  <1>3. /\ SyncFleet /\ WipeInv(d0) /\ SyncOf(d) /\ LaneOf(d) /\ (d # d0 => KeepOf(d) /\ FlightOf(d))
        /\ fleet.floor = fleet.erasedAt /\ \A e \in Device : SyncOf(e)
    BY <1>2 DEF EraseInv, WipeInv, KeepOf
  <1>4. SyncFleet' /\ \A e \in Device : SyncOf(e)'
    BY <1>2, <1>3, SyncStep
  <1>5. WipeInv(d0)'
    BY <1>2, <1>3, WipeStep
  <1>6. HolderInv'
    BY <1>2, <1>3, KnownStep, HolderStep
  <1>7. ASSUME NEW e \in Device PROVE LaneOf(e)'
    <2>1. CASE e = d
      BY <1>2, <1>3, <2>1, LaneOwn
    <2>2. CASE e # d
      <3>1. lane'[e] = lane[e] /\ work'[e] = work[e] /\ LaneOf(e)
        BY <1>2, <2>2 DEF Alone, EraseInv
      <3>2. Cur(e)' = Cur(e) /\ (OwnPush(e)' <=> OwnPush(e)) /\ (Sweeps(e)' <=> Sweeps(e))
        BY <3>1 DEF Cur, Resetting, OwnPush, Sweeps
      <3> QED
        BY <3>1, <3>2 DEF LaneOf, At
    <2> QED
      BY <2>1, <2>2
  <1>8. ASSUME NEW e \in Device, e # d0 PROVE KeepOf(e)'
    <2>1. KeepOf(e) /\ LaneOf(e) /\ SyncOf(e)
      BY <1>8 DEF EraseInv
    <2>2. CASE e = d
      BY <1>1, <1>2, <1>3, <1>8, <2>2, KeepOwn
    <2>3. CASE e # d /\ ForgetAll(d)
      BY <1>1, <1>2, <1>3, <2>1, <2>3, KeepErase
    <2>4. CASE e # d /\ ~ForgetAll(d)
      <3>1. Spread(d)
        BY <1>2, <1>3, <2>4, SpreadMoves
      <3> QED
        BY <1>1, <1>2, <2>1, <2>4, <3>1, KeepOther
    <2> QED
      BY <2>2, <2>3, <2>4
  <1> QED
    BY <1>4, <1>5, <1>6, <1>7, <1>8 DEF EraseInv

\* What an erase took off Fleet stays off it (EraseHolds) while only the device that
\* erases brings its memories back, with any number of devices, memories, erases,
\* edits of pins, forgets, switches, crashes, failed requests and lost answers: no
\* other device pushes the content of a memory Fleet has had. It is for devices that
\* demote nothing, one of which erases, on a Fleet that sweeps no tombstone, and for
\* behaviours in which whoever erases finds every device with a cursor to refuse and
\* with no row stamped by a clock ahead of Fleet's (Reached): the code ensures neither,
\* it compares a device's stamp with Fleet's time (store_sync.go:471).
THEOREM SyncErase ==
    MaxSweeps = 0 =>
        \A d0 \in Device : Spec /\ [](AllSynced /\ SoleEraser(d0) /\ Reached) => []EraseHolds
  <1> SUFFICES ASSUME MaxSweeps = 0, NEW d0 \in Device
               PROVE  Spec /\ [](AllSynced /\ SoleEraser(d0) /\ Reached) => []EraseHolds
    OBVIOUS
  <1> DEFINE Inv == Types /\ FeedInv /\ HolderInv /\ EraseInv(d0)
             Given == AllSynced /\ SoleEraser(d0) /\ Reached
  <1>1. Init => Inv
    BY TypesInit, FeedInit, HolderInit, EraseInit
  <1>2. Inv /\ Given /\ Given' /\ [Next]_vars => Inv'
    BY TypesStep, FeedStep, EraseStep
  <1>3. Inv => EraseHolds
    BY DEF EraseInv, WipeInv, EraseHolds, Live, Record
  <1> HIDE DEF Inv, Given
  <1>4. Spec /\ []Given => []EraseHolds
    BY <1>1, <1>2, <1>3, PTL DEF Spec
  <1> QED
    BY <1>4 DEF Given
=============================================================================
