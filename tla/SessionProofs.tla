----------------------------- MODULE SessionProofs -----------------------------
(***************************************************************************)
(* Proofs about sessions, for any number of requests, instances, ids and   *)
(* store faults, any capacity, and any time to live.                       *)
(***************************************************************************)
EXTENDS Session, InsertionOrderProofs

SidsUnique(st) == \A i, j \in DOMAIN st : st[i].sid = st[j].sid => i = j

StoreOK(st) == st \in Seq(StoreRecord) /\ Len(st) <= MaxEntries /\ SidsUnique(st)

TombsOK(ts) == ts \in Seq(Tombstone) /\ Len(ts) <= MaxTombstones

TypeInv == SessionTypeOK /\ tombs \in [Instances -> Seq(Tombstone)]

\* f says of its id what e says.
Same(e, f) == e.sid = f.sid /\ e.level = f.level

-----------------------------------------------------------------------------
(***************************************************************************)
(* The store.                                                              *)
(***************************************************************************)
LEMMA KeptStore ==
    ASSUME NEW st, StoreOK(st), NEW I \in SUBSET DOMAIN st
    PROVE  /\ StoreOK(Kept(st, I)) /\ Len(Kept(st, I)) <= Len(st)
           /\ Elements(Kept(st, I)) = {st[i] : i \in I}
<1> DEFINE t == Kept(st, I)
<1>1. st \in Seq(StoreRecord) /\ Len(st) <= MaxEntries /\ SidsUnique(st)
  BY DEF StoreOK
<1>2. /\ t \in Seq(StoreRecord) /\ Len(t) <= Len(st)
      /\ Elements(t) = {st[i] : i \in I} /\ Within(t, st)
  BY <1>1, KeptOK
<1> HIDE DEF t
<1>3. Len(t) \in Nat /\ Len(st) \in Nat /\ MaxEntries \in Nat
  BY <1>1, <1>2, SessionConstants
<1>4. SidsUnique(t)
  BY <1>1, <1>2, WithinOK DEF SidsUnique
<1> QED
  BY <1>1, <1>2, <1>3, <1>4 DEF StoreOK, t

LEMMA WithoutOK ==
    ASSUME NEW st, StoreOK(st), NEW sid
    PROVE  /\ StoreOK(Without(st, sid))
           /\ Elements(Without(st, sid)) = {e \in Elements(st) : e.sid # sid}
<1> DEFINE I == {i \in DOMAIN st : st[i].sid # sid}
<1>1. StoreOK(Kept(st, I)) /\ Elements(Kept(st, I)) = {st[i] : i \in I}
  BY KeptStore
<1> QED
  BY <1>1 DEF Without, Elements

LEMMA GetOK ==
    ASSUME NEW st, StoreOK(st), NEW sid
    PROVE  StoreOK(Get(st, sid)) /\ Elements(Get(st, sid)) \subseteq Elements(st)
<1> DEFINE I == {i \in DOMAIN st : st[i].sid # sid \/ Live(st[i])}
<1>1. StoreOK(Kept(st, I)) /\ Elements(Kept(st, I)) = {st[i] : i \in I}
  BY KeptStore
<1> QED
  BY <1>1 DEF Get, Elements

\* set or update in place
LEMMA ReplacedOK ==
    ASSUME NEW st, StoreOK(st), NEW rec \in StoreRecord
    PROVE  /\ StoreOK(Replaced(st, rec))
           /\ \A f \in Elements(Replaced(st, rec)) :
                 \/ f = rec /\ Has(st, rec.sid)
                 \/ f \in Elements(st) /\ f.sid # rec.sid
<1> DEFINE t == Replaced(st, rec)
<1>1. st \in Seq(StoreRecord) /\ Len(st) <= MaxEntries /\ SidsUnique(st) /\ Len(st) \in Nat
      /\ DOMAIN st = 1..Len(st)
  BY DEF StoreOK
<1>2. t = [i \in 1..Len(st) |-> IF st[i].sid = rec.sid THEN rec ELSE st[i]]
  BY <1>1 DEF Replaced
<1> HIDE DEF t
<1>3. \A i \in 1..Len(st) : t[i] \in StoreRecord /\ t[i].sid = st[i].sid
  BY <1>1, <1>2
<1>4. t \in Seq(StoreRecord) /\ Len(t) = Len(st) /\ DOMAIN t = 1..Len(st)
  BY <1>1, <1>2, <1>3, IsASeq
<1>5. SidsUnique(t)
  BY <1>1, <1>3, <1>4 DEF SidsUnique
<1>6. ASSUME NEW f \in Elements(t)
      PROVE  \/ f = rec /\ Has(st, rec.sid)
             \/ f \in Elements(st) /\ f.sid # rec.sid
  <2>1. PICK i \in 1..Len(st) : f = t[i]
    BY <1>4 DEF Elements
  <2>2. st[i] \in Elements(st)
    BY <1>1 DEF Elements
  <2>3. CASE st[i].sid = rec.sid
    BY <1>2, <2>1, <2>2, <2>3 DEF Has
  <2>4. CASE st[i].sid # rec.sid
    BY <1>2, <2>1, <2>2, <2>4
  <2> QED
    BY <2>3, <2>4
<1> QED
  BY <1>1, <1>4, <1>5, <1>6 DEF StoreOK, t

\* Eviction leaves room for one record.
LEMMA MakeRoomOK ==
    ASSUME NEW st, StoreOK(st)
    PROVE  /\ StoreOK(MakeRoom(st)) /\ Len(MakeRoom(st)) < MaxEntries
           /\ Elements(MakeRoom(st)) \subseteq Elements(st)
<1>1. MaxEntries \in Nat /\ MaxEntries - 1 \in Nat
  BY SessionConstants
<1>2. CASE Len(st) < MaxEntries
  BY <1>2 DEF MakeRoom
<1>3. CASE ~(Len(st) < MaxEntries)
  <2> DEFINE p == Prune(st)
             t == Newest(p, MaxEntries - 1)
  <2>1. StoreOK(p) /\ Elements(p) \subseteq Elements(st)
    <3> DEFINE I == {i \in DOMAIN st : Live(st[i])}
    <3>1. StoreOK(Kept(st, I)) /\ Elements(Kept(st, I)) = {st[i] : i \in I}
      BY KeptStore
    <3> QED
      BY <3>1 DEF Prune, Elements
  <2>2. MakeRoom(st) = t
    BY <1>3 DEF MakeRoom
  <2> HIDE DEF p
  <2>3. p \in Seq(StoreRecord) /\ SidsUnique(p)
    BY <2>1 DEF StoreOK
  <2>4. t \in Seq(StoreRecord) /\ Len(t) <= MaxEntries - 1 /\ Within(t, p)
    BY <1>1, <2>3, NewestOK
  <2> HIDE DEF t
  <2>5. Elements(t) \subseteq Elements(p) /\ SidsUnique(t)
    BY <2>3, <2>4, WithinOK DEF SidsUnique
  <2>6. Len(t) \in Nat
    BY <2>4
  <2> QED
    BY <1>1, <2>1, <2>2, <2>4, <2>5, <2>6 DEF StoreOK
<1> QED
  BY <1>2, <1>3

LEMMA SetOK ==
    ASSUME NEW st, StoreOK(st), NEW rec \in StoreRecord
    PROVE  /\ StoreOK(Set(st, rec))
           /\ \A f \in Elements(Set(st, rec)) : f = rec \/ f \in Elements(st)
<1>1. CASE Has(st, rec.sid)
  BY <1>1, ReplacedOK DEF Set
<1>2. CASE ~Has(st, rec.sid)
  <2> DEFINE m == MakeRoom(st)
             t == Append(m, rec)
  <2>1. StoreOK(m) /\ Len(m) < MaxEntries /\ Elements(m) \subseteq Elements(st)
    BY MakeRoomOK
  <2>2. Set(st, rec) = t
    BY <1>2 DEF Set
  <2> HIDE DEF m
  <2>3. m \in Seq(StoreRecord) /\ SidsUnique(m) /\ Len(m) \in Nat /\ DOMAIN m = 1..Len(m)
    BY <2>1 DEF StoreOK
  <2>4. /\ t \in Seq(StoreRecord) /\ Len(t) = Len(m) + 1
        /\ \A i \in 1..Len(m) : t[i] = m[i]
        /\ t[Len(m) + 1] = rec
    BY <2>3, AppendProperties
  <2> HIDE DEF t
  <2>5. DOMAIN t = 1..Len(m) + 1
    BY <2>3, <2>4
  <2>6. \A i \in 1..Len(m) : t[i] \in Elements(st) /\ t[i].sid # rec.sid
    <3> TAKE i \in 1..Len(m)
    <3>1. t[i] \in Elements(m)
      BY <2>3, <2>4 DEF Elements
    <3> QED
      BY <1>2, <2>1, <3>1 DEF Has
  <2>7. \A i \in 1..Len(m) + 1 : i \in 1..Len(m) \/ i = Len(m) + 1
    BY <2>3
  <2>8. SidsUnique(t)
    <3> SUFFICES ASSUME NEW i \in 1..Len(m) + 1, NEW j \in 1..Len(m) + 1, t[i].sid = t[j].sid PROVE i = j
      BY <2>5 DEF SidsUnique
    <3>1. CASE i \in 1..Len(m) /\ j \in 1..Len(m)
      BY <2>3, <2>4, <3>1 DEF SidsUnique
    <3>2. CASE i = Len(m) + 1 \/ j = Len(m) + 1
      BY <2>4, <2>6, <2>7, <3>2
    <3> QED
      BY <2>7, <3>1, <3>2
  <2>9. \A f \in Elements(t) : f = rec \/ f \in Elements(st)
    <3> TAKE f \in Elements(t)
    <3>1. PICK i \in 1..Len(m) + 1 : f = t[i]
      BY <2>5 DEF Elements
    <3> QED
      BY <2>4, <2>6, <2>7, <3>1
  <2>10. Len(t) <= MaxEntries
    BY <2>1, <2>3, <2>4, SessionConstants
  <2> QED
    BY <2>2, <2>4, <2>8, <2>9, <2>10 DEF StoreOK
<1> QED
  BY <1>1, <1>2

LEMMA UpdateOK ==
    ASSUME NEW st, StoreOK(st), NEW rec \in StoreRecord
    PROVE  /\ StoreOK(Update(st, rec))
           /\ \A f \in Elements(Update(st, rec)) : (f = rec /\ Has(st, rec.sid)) \/ f \in Elements(st)
<1>1. CASE Has(Get(st, rec.sid), rec.sid)
  BY <1>1, ReplacedOK DEF Update
<1>2. CASE ~Has(Get(st, rec.sid), rec.sid)
  BY <1>2, GetOK DEF Update
<1> QED
  BY <1>1, <1>2

LEMMA TouchOK ==
    ASSUME NEW st, StoreOK(st), NEW sid, NEW x \in Nat
    PROVE  /\ StoreOK(Touch(st, sid, x))
           /\ \A f \in Elements(Touch(st, sid, x)) : \E e \in Elements(st) : Same(e, f)
<1> DEFINE g == Get(st, sid)
           t == Touch(st, sid, x)
<1>1. StoreOK(g) /\ Elements(g) \subseteq Elements(st)
  BY GetOK
<1>2. t = [i \in DOMAIN g |-> IF g[i].sid = sid THEN [g[i] EXCEPT !.expiresAt = x] ELSE g[i]]
  BY DEF Touch
<1> HIDE DEF g, t
<1>3. g \in Seq(StoreRecord) /\ Len(g) <= MaxEntries /\ SidsUnique(g) /\ Len(g) \in Nat
      /\ DOMAIN g = 1..Len(g)
  BY <1>1 DEF StoreOK
<1>4. \A i \in 1..Len(g) : t[i] \in StoreRecord /\ t[i].sid = g[i].sid /\ t[i].level = g[i].level
  <2> TAKE i \in 1..Len(g)
  <2>1. g[i] \in StoreRecord
    BY <1>3
  <2> QED
    BY <1>2, <1>3, <2>1 DEF StoreRecord
<1>5. DOMAIN t = 1..Len(g) /\ t = [i \in 1..Len(g) |-> t[i]]
  BY <1>2, <1>3
<1>6. t \in Seq(StoreRecord) /\ Len(t) = Len(g)
  BY <1>3, <1>4, <1>5, IsASeq
<1>7. SidsUnique(t)
  BY <1>3, <1>4, <1>5 DEF SidsUnique
<1>8. \A f \in Elements(t) : \E e \in Elements(st) : Same(e, f)
  <2> TAKE f \in Elements(t)
  <2>1. PICK i \in 1..Len(g) : f = t[i]
    BY <1>5 DEF Elements
  <2>2. g[i] \in Elements(st)
    BY <1>1, <1>3 DEF Elements
  <2> QED
    BY <1>4, <2>1, <2>2 DEF Same
<1> QED
  BY <1>3, <1>6, <1>7, <1>8 DEF StoreOK, t

-----------------------------------------------------------------------------
(***************************************************************************)
(* Tombstones.                                                             *)
(***************************************************************************)
LEMMA BuriedOK ==
    ASSUME NEW ts, TombsOK(ts), NEW sid \in Sids, now \in Nat
    PROVE  TombsOK(Buried(ts, sid))
<1> DEFINE w   == Without(ts, sid)
           m   == Newest(w, MaxTombstones - 1)
           ts1 == [sid |-> sid, expiresAt |-> now + Ttl]
           all == Append(m, ts1)
<1>1. MaxTombstones \in Nat /\ MaxTombstones - 1 \in Nat /\ Ttl \in Nat /\ Ttl # 0
  BY SessionConstants
<1>2. w \in Seq(Tombstone)
  <2> DEFINE I == {i \in DOMAIN ts : ts[i].sid # sid}
  <2>1. ts \in Seq(Tombstone) /\ I \in SUBSET DOMAIN ts
    BY DEF TombsOK
  <2>2. Kept(ts, I) \in Seq(Tombstone)
    BY <2>1, KeptOK
  <2> QED
    BY <2>2 DEF Without
<1> HIDE DEF w
<1>3. m \in Seq(Tombstone) /\ Len(m) <= MaxTombstones - 1 /\ Len(m) \in Nat
  BY <1>1, <1>2, NewestOK
<1> HIDE DEF m
<1>4. ts1 \in Tombstone /\ Live(ts1)
  BY <1>1 DEF Tombstone, Live
<1> HIDE DEF ts1
<1>5. all \in Seq(Tombstone) /\ Len(all) = Len(m) + 1 /\ all[Len(m) + 1] = ts1
  BY <1>3, <1>4, AppendProperties
<1> DEFINE n == CHOOSE i \in 0..Len(all) - 1 : (\A j \in 1..i : ~Live(all[j])) /\ Live(all[i + 1])
<1>6. Buried(ts, sid) = SubSeq(all, n + 1, Len(all))
  BY DEF Buried, all, ts1, m, w
<1> HIDE DEF all
<1>7. n \in 0..Len(all) - 1
  <2> DEFINE S == {i \in 0..Len(all) - 1 : Live(all[i + 1])}
  <2>1. Len(m) \in S /\ S \in SUBSET Nat
    BY <1>3, <1>4, <1>5
  <2>2. PICK i \in S : \A j \in S : i <= j
    BY <2>1, LeastNat
  <2>3. i \in 0..Len(all) - 1 /\ Live(all[i + 1])
    BY <2>2
  <2>4. ASSUME NEW j \in 1..i PROVE ~Live(all[j])
    <3>1. j - 1 \in 0..Len(all) - 1 /\ ~(i <= j - 1) /\ (j - 1) + 1 = j
      BY <1>3, <1>5, <2>3
    <3>2. j - 1 \notin S
      BY <2>2, <3>1
    <3> QED
      BY <3>1, <3>2
  <2> QED
    BY <2>3, <2>4
<1> HIDE DEF n
<1> DEFINE b == SubSeq(all, n + 1, Len(all))
<1>8. Len(all) \in Nat /\ n + 1 \in 1..Len(all) /\ n + 1 \in Nat
  BY <1>3, <1>5, <1>7
<1>9. \A i \in n + 1..Len(all) : all[i] \in Tombstone
  BY <1>5, <1>8
<1>10. b \in Seq(Tombstone) /\ Len(b) = IF n + 1 <= Len(all) THEN Len(all) - (n + 1) + 1 ELSE 0
  BY <1>8, <1>9, SubSeqProperties
<1> HIDE DEF b
<1>11. Len(b) <= MaxTombstones
  BY <1>1, <1>3, <1>5, <1>7, <1>8, <1>10
<1> QED
  BY <1>6, <1>10, <1>11 DEF TombsOK, b

LEMMA TombsGetOK ==
    ASSUME NEW ts, TombsOK(ts), NEW sid PROVE TombsOK(Get(ts, sid))
<1> DEFINE I == {i \in DOMAIN ts : ts[i].sid # sid \/ Live(ts[i])}
           t == Kept(ts, I)
<1>1. ts \in Seq(Tombstone) /\ Len(ts) <= MaxTombstones /\ I \in SUBSET DOMAIN ts
  BY DEF TombsOK
<1>2. t \in Seq(Tombstone) /\ Len(t) <= Len(ts)
  BY <1>1, KeptOK
<1>3. Get(ts, sid) = t
  BY DEF Get
<1> HIDE DEF t
<1>4. Len(t) \in Nat /\ Len(ts) \in Nat /\ MaxTombstones \in Nat
  BY <1>1, <1>2, SessionConstants
<1> QED
  BY <1>1, <1>2, <1>3, <1>4 DEF TombsOK

-----------------------------------------------------------------------------
(***************************************************************************)
(* Type correctness.                                                       *)
(***************************************************************************)
\* r becomes rec.
Steps(r, rec) == rec \in RequestRecord /\ reqs' = [reqs EXCEPT ![r] = rec]

\* What no step but the clock's and a fault's touches
LEMMA TypeStep ==
    ASSUME TypeInv, NEW r \in Requests, NEW rec, Steps(r, rec),
           UNCHANGED <<now, kind>>, faults' \in 0..MaxFaults,
           next' \in {next, next + 1}, next' # next => next \in Sids,
           StoreOK(store'),
           \/ UNCHANGED tombs
           \/ \E ts : TombsOK(ts) /\ tombs' = [tombs EXCEPT ![InstanceOf[r]] = ts],
           issued' \subseteq Sids, dead' \subseteq Sids
    PROVE  TypeInv'
<1>1. InstanceOf[r] \in Instances
  BY SessionConstants
<1>2. next' \in 1..MaxSid + 1
  BY SessionConstants DEF TypeInv, SessionTypeOK, Sids
<1>3. /\ tombs' \in [Instances -> Seq(Tombstone)]
      /\ \A i \in Instances : tombs'[i] \in Seq(Tombstone) /\ Len(tombs'[i]) <= MaxTombstones
  <2>1. CASE UNCHANGED tombs
    BY <2>1 DEF TypeInv, SessionTypeOK
  <2>2. ASSUME NEW ts, TombsOK(ts), tombs' = [tombs EXCEPT ![InstanceOf[r]] = ts]
        PROVE  /\ tombs' \in [Instances -> Seq(Tombstone)]
               /\ \A i \in Instances : Len(tombs'[i]) <= MaxTombstones
    <3>1. tombs' \in [Instances -> Seq(Tombstone)]
      BY <1>1, <2>2 DEF TypeInv, TombsOK
    <3>2. \A i \in Instances : tombs'[i] = IF i = InstanceOf[r] THEN ts ELSE tombs[i]
      BY <2>2 DEF TypeInv
    <3> QED
      BY <2>2, <3>1, <3>2 DEF TypeInv, SessionTypeOK, TombsOK
  <2> QED
    BY <2>1, <2>2
<1>4. reqs' \in [Requests -> RequestRecord]
  BY DEF TypeInv, SessionTypeOK, Steps
<1>5. /\ store' \in Seq(StoreRecord) /\ Len(store') <= MaxEntries
      /\ \A i, j \in DOMAIN store' : store'[i].sid = store'[j].sid => i = j
  BY DEF StoreOK, SidsUnique
<1>6. now' \in 0..MaxNow /\ kind' \in StoreKinds
  BY DEF TypeInv, SessionTypeOK
<1> QED
  BY <1>2, <1>3, <1>4, <1>5, <1>6 DEF TypeInv, SessionTypeOK

\* What the type invariant says, to cite
LEMMA TypeFacts ==
    ASSUME TypeInv
    PROVE  /\ now \in Nat /\ StoreOK(store) /\ next \in Nat /\ next \in 1..MaxSid + 1
           /\ \A i \in Instances : TombsOK(tombs[i])
           /\ reqs \in [Requests -> RequestRecord]
           /\ issued \subseteq Sids /\ dead \subseteq Sids /\ faults \in 0..MaxFaults
           /\ now + Ttl \in Nat /\ kind \in {"update", "legacy"}
           /\ \A r \in Requests : RecordOf(reqs[r]).sid = reqs[r].id
           /\ \A r \in Requests : reqs[r].id # NoSid => RecordOf(reqs[r]) \in StoreRecord
BY SessionConstants DEF TypeInv, SessionTypeOK, StoreOK, SidsUnique, TombsOK, RecordOf,
     RequestRecord, StoreRecord, Sids, NoSid

-----------------------------------------------------------------------------
(***************************************************************************)
(* Who owns an id.  A request owns the id that it made until it sends it   *)
(* in a cookie; nobody can load, destroy or write that id before.          *)
(***************************************************************************)
\* Behind the handler.
Ending == {"send", "destroy", "write", "set", "touch", "done"}

\* A request by itself; the ids below nx are in use, those of sent in cookies.
Local(rec, nx, sent) ==
    /\ rec.orig \in {NoSid, rec.id} /\ rec.orig \in sent \cup {NoSid}
    /\ rec.pc = "start" => rec.orig = NoSid /\ ~rec.regenerated
    /\ rec.pc # "start" => rec.id \in 1..nx - 1
    /\ rec.pc \in {"regenerate", "rotate", "destroy"} => rec.orig # NoSid
    /\ rec.pc = "set" /\ kind = "update" => rec.orig = NoSid
    /\ rec.orig = NoSid /\ rec.pc \notin {"start", "done"} => rec.id \notin sent
    /\ rec.regenerated => rec.orig = NoSid
    /\ rec.failed => rec.pc \in Ending
    /\ rec.orig # NoSid /\ rec.pc \in Ending /\ rec.level # rec.snapshot => rec.failed

\* The id of rec is one that it made.
Fresh(rec) == rec.pc # "start" /\ rec.orig = NoSid

\* A request changed the watched value of sid and could not rotate it.
Excused(sid) == \E q \in Requests : Bypassed(reqs[q]) /\ reqs[q].orig = sid

Owned ==
    /\ \A r \in Requests : Local(reqs[r], next, issued)
    /\ \A r, s \in Requests : r # s /\ Fresh(reqs[r]) /\ Fresh(reqs[s]) => reqs[r].id # reqs[s].id
    /\ issued \subseteq 1..next - 1 /\ dead \subseteq issued
    /\ \A e \in Elements(store) : e.sid < next

(* What requests remember of an id agrees with the store, and with each other. *)
Agreed ==
    /\ \A r \in Requests, e \in Elements(store) :
          reqs[r].orig = e.sid => e.level = reqs[r].snapshot \/ Excused(e.sid)
    /\ \A r, s \in Requests :
          reqs[r].orig = reqs[s].orig /\ reqs[r].orig # NoSid =>
              reqs[r].snapshot = reqs[s].snapshot \/ Excused(reqs[r].orig)
    /\ \A r \in Requests, e \in Elements(store) :
          Fresh(reqs[r]) /\ reqs[r].pc # "done" /\ reqs[r].id = e.sid =>
              reqs[r].pc # "handler" /\ e.level = reqs[r].level

SessionInv == TypeInv /\ Owned /\ NoResurrection /\ Agreed

-----------------------------------------------------------------------------
(***************************************************************************)
(* What a step of a request is to the others: it keeps its id, makes a new *)
(* one or takes over one from the store; it may send its id; it may        *)
(* destroy an id that was sent; and it may write its own record.           *)
(***************************************************************************)
Keeps(q, rec) ==
    /\ q.pc \notin {"start", "done"} /\ rec.pc # "start"
    /\ rec.id = q.id /\ rec.orig = q.orig /\ rec.snapshot = q.snapshot
    /\ rec.level = q.level \/ q.pc = "handler"
    /\ rec.pc = "handler" => q.pc = "handler"
    /\ Bypassed(q) => Bypassed(rec)

Makes(q, rec) ==
    /\ q.pc \in {"start", "handler", "regenerate", "rotate"} /\ ~q.failed
    /\ rec.id = next /\ rec.orig = NoSid /\ next' = next + 1

TakesOver(q, rec) ==
    /\ q.pc = "start" /\ ~q.failed
    /\ rec.orig = rec.id /\ rec.id # NoSid
    /\ \E e \in Elements(store) : e.sid = rec.id /\ e.level = rec.snapshot

Sends(q, rec) ==
    \/ issued' = issued
    \/ Keeps(q, rec) /\ rec.pc = "done" /\ issued' = issued \cup {q.id}

Destroys ==
    \/ dead' = dead
    \/ \E sid \in issued : dead' = dead \cup {sid} /\ ~Has(store', sid)

\* f is what q writes, and it ends or fails with that.
Written(q, rec, f) ==
    /\ Keeps(q, rec) /\ q.pc \in {"write", "set"} /\ rec.pc \in {"done", "send"}
    /\ f.sid = q.id /\ f.level = q.level
    /\ kind = "update" => Has(store, f.sid) \/ q.orig = NoSid

Moves(r, rec) ==
    /\ Steps(r, rec) /\ Local(rec, next', issued')
    /\ UNCHANGED <<now, kind>> /\ faults' \in 0..MaxFaults
    /\ next' \in {next, next + 1} /\ (next' # next => next \in Sids)
    /\ StoreOK(store')
    /\ \/ UNCHANGED tombs
       \/ \E ts : TombsOK(ts) /\ tombs' = [tombs EXCEPT ![InstanceOf[r]] = ts]
    /\ Keeps(reqs[r], rec) \/ Makes(reqs[r], rec) \/ TakesOver(reqs[r], rec)
    /\ Sends(reqs[r], rec) /\ Destroys
    /\ \A f \in Elements(store') :
          (\E e \in Elements(store) : Same(e, f)) \/ Written(reqs[r], rec, f)

\* The requests after the step
LEMMA AfterStep ==
    ASSUME TypeInv, NEW r \in Requests, NEW rec, Steps(r, rec)
    PROVE  \A s \in Requests : reqs'[s] = IF s = r THEN rec ELSE reqs[s]
BY TypeFacts DEF Steps

\* What holds of the parameters of a step, to cite
LEMMA MovesFacts ==
    ASSUME SessionInv, NEW r \in Requests, NEW rec, Moves(r, rec)
    PROVE  /\ \A s \in Requests : Local(reqs[s], next, issued)
           /\ \A s \in Requests : reqs[s] \in RequestRecord
           /\ \A s \in Requests : reqs'[s] = IF s = r THEN rec ELSE reqs[s]
           /\ issued \subseteq issued' /\ issued' \subseteq issued \cup {reqs[r].id}
           /\ issued \subseteq 1..next - 1 /\ dead \subseteq issued
           /\ NoSid \notin issued /\ next \in Nat
           /\ rec \in RequestRecord
<1>1. TypeInv /\ Owned
  BY DEF SessionInv
<1> QED
  BY <1>1, AfterStep, TypeFacts DEF Moves, Owned, Sends, Steps, NoSid

\* Somebody who changed a watched value and could not rotate it stays guilty.
LEMMA ExcusedStays ==
    ASSUME SessionInv, NEW r \in Requests, NEW rec, Moves(r, rec), NEW sid, Excused(sid)
    PROVE  Excused(sid)'
<1>1. PICK q \in Requests : Bypassed(reqs[q]) /\ reqs[q].orig = sid
  BY DEF Excused
<1>2. CASE q = r
  <2>1. reqs[r].failed
    BY <1>1, <1>2 DEF Bypassed
  <2>2. Keeps(reqs[r], rec)
    BY <2>1 DEF Moves, Makes, TakesOver
  <2> QED
    BY <1>1, <1>2, <2>2, MovesFacts DEF Keeps, Excused, Bypassed
<1>3. CASE q # r
  BY <1>1, <1>3, MovesFacts DEF Excused, Bypassed
<1> QED
  BY <1>2, <1>3

LEMMA MoreIds ==
    ASSUME NEW a \in Nat, NEW b \in Nat, a <= b PROVE 1..a - 1 \subseteq 1..b - 1
OBVIOUS

LEMMA MovesOwned ==
    ASSUME SessionInv, NEW r \in Requests, NEW rec, Moves(r, rec)
    PROVE  Owned'
<1> DEFINE q == reqs[r]
<1>0. TypeInv /\ Owned
  BY DEF SessionInv
<1>1. /\ \A s \in Requests : Local(reqs[s], next, issued)
      /\ \A s \in Requests : reqs[s] \in RequestRecord
      /\ \A s \in Requests : reqs'[s] = IF s = r THEN rec ELSE reqs[s]
      /\ issued \subseteq issued' /\ issued \subseteq 1..next - 1 /\ dead \subseteq issued
      /\ NoSid \notin issued /\ next \in Nat
  BY MovesFacts
<1>2. next' \in Nat /\ next <= next' /\ 1..next - 1 \subseteq 1..next' - 1
  <2>1. next' \in {next, next + 1}
    BY DEF Moves
  <2>2. next \in Nat
    BY <1>1
  <2>3. next' \in Nat /\ next <= next'
    BY <2>1, <2>2
  <2> QED
    BY <2>2, <2>3, MoreIds
<1>3. Keeps(q, rec) => q.id \in 1..next - 1
  BY <1>1 DEF Keeps, Local
<1>4. issued' \subseteq 1..next' - 1
  BY <1>1, <1>2, <1>3 DEF Moves, Sends
<1>5. dead' \subseteq issued'
  <2>1. Destroys
    BY DEF Moves
  <2> QED
    BY <1>1, <2>1 DEF Destroys
<1>6. ASSUME NEW f \in Elements(store') PROVE f.sid < next'
  <2>1. CASE \E e \in Elements(store) : Same(e, f)
    <3>1. PICK e \in Elements(store) : e.sid = f.sid
      BY <2>1 DEF Same
    <3>2. e \in StoreRecord
      BY <1>0, TypeFacts DEF StoreOK, Elements
    <3>3. e.sid < next /\ e.sid \in Nat
      BY <1>0, <3>1, <3>2 DEF Owned, StoreRecord, Sids
    <3> QED
      BY <1>1, <1>2, <3>1, <3>3
  <2>2. CASE Written(q, rec, f)
    BY <1>1, <1>2, <1>3, <2>2 DEF Written
  <2> QED
    BY <2>1, <2>2 DEF Moves
<1>7. ASSUME NEW s \in Requests PROVE Local(reqs[s], next, issued)'
  <2>1. kind' = kind
    BY DEF Moves
  <2>2. CASE s = r
    BY <1>1, <2>1, <2>2 DEF Moves, Local
  <2>3. CASE s # r
    <3>1. reqs'[s] = reqs[s]
      BY <1>1, <2>3
    <3>2. Fresh(reqs[s]) /\ reqs[s].pc # "done" => reqs[s].id \notin issued'
      <4>1. CASE issued' = issued
        BY <1>1, <4>1 DEF Local, Fresh
      <4>2. CASE Keeps(q, rec) /\ issued' = issued \cup {q.id}
        <5>1. Fresh(reqs[s]) => Fresh(q) \/ q.id \in issued
          BY <1>1, <4>2 DEF Keeps, Local, Fresh
        <5>2. Fresh(q) /\ Fresh(reqs[s]) => q.id # reqs[s].id
          BY <1>0, <2>3 DEF Owned
        <5> QED
          BY <1>1, <4>2, <5>1, <5>2 DEF Local, Fresh
      <4> QED
        BY <4>1, <4>2 DEF Moves, Sends
    <3>3. Local(reqs[s], next, issued)
      BY <1>1
    <3> QED
      BY <1>1, <1>2, <2>1, <3>1, <3>2, <3>3 DEF Local, Fresh
  <2> QED
    BY <2>2, <2>3
<1>8. ASSUME NEW s \in Requests, s # r, Fresh(rec), Fresh(reqs[s])
      PROVE  rec.id # reqs[s].id
  <2>1. CASE Keeps(q, rec)
    BY <1>0, <1>8, <2>1 DEF Owned, Keeps, Fresh
  <2>2. CASE Makes(q, rec)
    <3>1. reqs[s].id \in 1..next - 1
      BY <1>1, <1>8 DEF Local, Fresh
    <3> QED
      BY <1>1, <2>2, <3>1 DEF Makes
  <2>3. CASE TakesOver(q, rec)
    BY <1>8, <2>3 DEF TakesOver, Fresh
  <2> QED
    BY <2>1, <2>2, <2>3 DEF Moves
<1>9. ASSUME NEW s \in Requests, NEW t \in Requests, s # t, Fresh(reqs'[s]), Fresh(reqs'[t])
      PROVE  reqs'[s].id # reqs'[t].id
  BY <1>0, <1>1, <1>8, <1>9 DEF Owned
<1> QED
  BY <1>4, <1>5, <1>6, <1>7, <1>9 DEF Owned, Fresh, Local, Elements

\* The id of a request is its own, or it was sent and is the one it was given.
LEMMA OwnId ==
    ASSUME SessionInv, NEW r \in Requests, reqs[r].pc # "start"
    PROVE  \/ Fresh(reqs[r]) /\ (reqs[r].pc # "done" => reqs[r].id \notin issued)
           \/ /\ reqs[r].orig = reqs[r].id /\ reqs[r].id \in issued /\ reqs[r].orig # NoSid
              /\ ~reqs[r].regenerated
              /\ (reqs[r].pc \in Ending /\ reqs[r].level # reqs[r].snapshot => Bypassed(reqs[r]))
<1>1. Local(reqs[r], next, issued)
  BY DEF SessionInv, Owned
<1>2. CASE reqs[r].orig = NoSid
  BY <1>1, <1>2 DEF Local, Fresh
<1>3. CASE reqs[r].orig # NoSid
  BY <1>1, <1>3 DEF Local, Bypassed
<1> QED
  BY <1>2, <1>3

LEMMA MovesNoResurrection ==
    ASSUME SessionInv, NEW r \in Requests, NEW rec, Moves(r, rec)
    PROVE  NoResurrection'
<1>1. SUFFICES ASSUME kind = "update", NEW sid \in dead', NEW f \in Elements(store'), f.sid = sid
               PROVE  FALSE
  BY DEF NoResurrection, Has, Moves, Elements
<1>2. sid \in dead
  <2>1. Destroys
    BY DEF Moves
  <2> QED
    BY <1>1, <2>1 DEF Destroys, Has
<1>3. sid \in issued /\ ~Has(store, sid)
  BY <1>1, <1>2 DEF SessionInv, Owned, NoResurrection
<1>4. Written(reqs[r], rec, f)
  BY <1>1, <1>3 DEF Moves, Same, Has
<1>5. reqs[r].id = sid /\ reqs[r].orig = NoSid /\ reqs[r].pc \in {"write", "set"}
  BY <1>1, <1>3, <1>4 DEF Written
<1>6. reqs[r].id \notin issued
  BY <1>5, OwnId
<1> QED
  BY <1>3, <1>5, <1>6

\* Two records of the store with one id are one.
LEMMA OneRecord ==
    ASSUME TypeInv, NEW e \in Elements(store), NEW f \in Elements(store), e.sid = f.sid
    PROVE  e = f
BY TypeFacts DEF StoreOK, SidsUnique, Elements

\* Ids in the store are ids.
LEMMA StoredSid ==
    ASSUME NEW st, StoreOK(st), NEW e \in Elements(st) PROVE e.sid \in Sids /\ e.sid # NoSid
<1>1. e \in StoreRecord
  BY DEF StoreOK, Elements
<1>2. NoSid \notin Sids
  BY SessionConstants DEF Sids, NoSid
<1> QED
  BY <1>1, <1>2 DEF StoreRecord

\* What the writer of f writes is what others remember of that id, or it is guilty.
LEMMA WriterAgrees ==
    ASSUME SessionInv, NEW r \in Requests, NEW rec, NEW f, Written(reqs[r], rec, f),
           reqs[r].orig # NoSid
    PROVE  /\ reqs[r].orig = f.sid /\ f.level = reqs[r].level
           /\ f.level = reqs[r].snapshot \/ Excused(f.sid)
<1>1. reqs[r].pc \in {"write", "set"} /\ f.sid = reqs[r].id /\ f.level = reqs[r].level
  BY DEF Written
<1>2. /\ reqs[r].orig = reqs[r].id
      /\ reqs[r].level # reqs[r].snapshot => Bypassed(reqs[r])
  BY <1>1, OwnId DEF Fresh, Ending
<1> QED
  BY <1>1, <1>2 DEF Excused

LEMMA MovesAgreed ==
    ASSUME SessionInv, NEW r \in Requests, NEW rec, Moves(r, rec)
    PROVE  Agreed'
<1> DEFINE q == reqs[r]
           Guilty(sid) == \E u \in Requests : Bypassed(reqs'[u]) /\ reqs'[u].orig = sid
<1>0. TypeInv /\ Owned /\ Agreed
  BY DEF SessionInv
<1>1. /\ \A s \in Requests : Local(reqs[s], next, issued)
      /\ \A s \in Requests : reqs'[s] = IF s = r THEN rec ELSE reqs[s]
      /\ NoSid \notin issued /\ next \in Nat
  BY MovesFacts
<1>2. /\ \A f \in Elements(store') :
            (\E e \in Elements(store) : Same(e, f)) \/ Written(q, rec, f)
      /\ Keeps(q, rec) \/ Makes(q, rec) \/ TakesOver(q, rec)
      /\ StoreOK(store')
  BY DEF Moves
<1>3. ASSUME NEW sid, Excused(sid) PROVE Guilty(sid)
  <2>1. Excused(sid)'
    BY <1>3, ExcusedStays
  <2> QED
    BY <2>1 DEF Excused, Bypassed
<1> HIDE DEF Guilty
<1>4. ASSUME NEW s \in Requests, NEW f \in Elements(store'), reqs[s].orig = f.sid,
             s # r \/ Keeps(q, rec)
      PROVE  f.level = reqs[s].snapshot \/ Excused(f.sid)
  <2>1. CASE \E e \in Elements(store) : Same(e, f)
    BY <1>0, <1>4, <2>1 DEF Same, Agreed
  <2>2. CASE Written(q, rec, f)
    <3>1. q.orig # NoSid
      <4>1. reqs[s].orig \in issued
        BY <1>1, <1>2, <1>4, StoredSid DEF Local
      <4>2. q.id \in issued /\ q.pc # "start" /\ q.pc # "done"
        BY <1>4, <2>2, <4>1 DEF Written
      <4> QED
        BY <1>1, <4>2 DEF Local
    <3>2. q.orig = f.sid /\ (f.level = q.snapshot \/ Excused(f.sid))
      BY <2>2, <3>1, WriterAgrees
    <3>3. q.snapshot = reqs[s].snapshot \/ Excused(f.sid)
      BY <1>0, <1>4, <3>1, <3>2 DEF Agreed
    <3> QED
      BY <3>2, <3>3
  <2> QED
    BY <1>2, <2>1, <2>2
<1>5. ASSUME NEW s \in Requests, NEW f \in Elements(store'), reqs'[s].orig = f.sid
      PROVE  f.level = reqs'[s].snapshot \/ Guilty(f.sid)
  <2>1. f.sid # NoSid
    BY <1>2, StoredSid
  <2>2. CASE s # r \/ Keeps(q, rec)
    <3>1. reqs'[s].orig = reqs[s].orig /\ reqs'[s].snapshot = reqs[s].snapshot
      BY <1>1, <2>2 DEF Keeps
    <3> QED
      BY <1>3, <1>4, <1>5, <2>2, <3>1
  <2>3. CASE s = r /\ Makes(q, rec)
    BY <1>1, <1>5, <2>1, <2>3 DEF Makes
  <2>4. CASE s = r /\ TakesOver(q, rec)
    <3>1. PICK e \in Elements(store) : e.sid = rec.id /\ e.level = rec.snapshot
      BY <2>4 DEF TakesOver
    <3>2. PICK d \in Elements(store) : Same(d, f)
      BY <1>2, <2>4 DEF TakesOver, Written
    <3>3. d.sid = e.sid
      BY <1>1, <1>5, <2>4, <3>1, <3>2 DEF TakesOver, Same
    <3>4. d = e
      BY <1>0, <3>3, OneRecord
    <3> QED
      BY <1>1, <2>4, <3>1, <3>2, <3>4 DEF Same
  <2> QED
    BY <1>2, <2>2, <2>3, <2>4
<1>6. ASSUME NEW s \in Requests, s # r, rec.orig = reqs[s].orig, rec.orig # NoSid
      PROVE  rec.snapshot = reqs[s].snapshot \/ Excused(rec.orig)
  <2>1. CASE Keeps(q, rec)
    BY <1>0, <1>6, <2>1 DEF Keeps, Agreed
  <2>2. CASE Makes(q, rec)
    BY <1>6, <2>2 DEF Makes
  <2>3. CASE TakesOver(q, rec)
    BY <1>0, <1>6, <2>3 DEF TakesOver, Agreed
  <2> QED
    BY <1>2, <2>1, <2>2, <2>3
<1>7. ASSUME NEW s \in Requests, NEW t \in Requests,
             reqs'[s].orig = reqs'[t].orig, reqs'[s].orig # NoSid
      PROVE  reqs'[s].snapshot = reqs'[t].snapshot \/ Guilty(reqs'[s].orig)
  <2>1. CASE s = r /\ t = r
    BY <2>1
  <2>2. CASE s = r /\ t # r
    BY <1>1, <1>3, <1>6, <1>7, <2>2
  <2>3. CASE s # r /\ t = r
    BY <1>1, <1>3, <1>6, <1>7, <2>3
  <2>4. CASE s # r /\ t # r
    BY <1>0, <1>1, <1>3, <1>7, <2>4 DEF Agreed
  <2> QED
    BY <2>1, <2>2, <2>3, <2>4
<1>8. ASSUME NEW s \in Requests, NEW f \in Elements(store'),
             Fresh(reqs'[s]), reqs'[s].pc # "done", reqs'[s].id = f.sid
      PROVE  reqs'[s].pc # "handler" /\ f.level = reqs'[s].level
  <2>1. CASE s # r
    <3>1. reqs'[s] = reqs[s] /\ reqs[s].id \notin issued
      BY <1>1, <1>8, <2>1 DEF Local, Fresh
    <3>2. CASE \E e \in Elements(store) : Same(e, f)
      BY <1>0, <1>8, <3>1, <3>2 DEF Same, Agreed
    <3>3. CASE Written(q, rec, f)
      <4>1. q.pc \in {"write", "set"} /\ q.id = reqs[s].id
        BY <1>8, <3>1, <3>3 DEF Written
      <4>2. Fresh(q)
        BY <3>1, <4>1, OwnId
      <4> QED
        BY <1>0, <1>8, <2>1, <3>1, <4>1, <4>2 DEF Owned
    <3> QED
      BY <1>2, <3>2, <3>3
  <2>2. CASE s = r /\ Keeps(q, rec)
    <3>1. reqs'[s] = rec
      BY <1>1, <2>2
    <3>2. CASE Written(q, rec, f)
      BY <3>1, <3>2 DEF Written, Keeps
    <3>3. CASE \E e \in Elements(store) : Same(e, f)
      <4>1. PICK e \in Elements(store) : Same(e, f)
        BY <3>3
      <4>2. Fresh(q) /\ q.pc # "done" /\ q.id = e.sid
        BY <1>8, <2>2, <3>1, <4>1 DEF Keeps, Fresh, Same
      <4>3. q.pc # "handler" /\ e.level = q.level
        BY <1>0, <4>2 DEF Agreed
      <4> QED
        BY <2>2, <3>1, <4>1, <4>3 DEF Keeps, Same
    <3> QED
      BY <1>2, <3>2, <3>3
  <2>3. CASE s = r /\ Makes(q, rec)
    <3>1. reqs'[s].id = next
      BY <1>1, <2>3 DEF Makes
    <3>2. PICK e \in Elements(store) : Same(e, f)
      BY <1>2, <2>3 DEF Makes, Written
    <3>3. e.sid < next
      BY <1>0, <3>2 DEF Owned
    <3>4. e.sid = next
      BY <1>8, <3>1, <3>2 DEF Same
    <3>5. next \in Nat
      BY <1>1
    <3> QED
      BY <3>3, <3>4, <3>5
  <2>4. CASE s = r /\ TakesOver(q, rec)
    BY <1>1, <1>8, <2>4 DEF TakesOver, Fresh
  <2> QED
    BY <1>2, <2>1, <2>2, <2>3, <2>4
<1> QED
  BY <1>5, <1>7, <1>8 DEF Agreed, Fresh, Excused, Guilty, Bypassed, Elements

(* A watched value is not changed in place. *)
LEMMA MovesRotate ==
    ASSUME SessionInv, NEW r \in Requests, NEW rec, Moves(r, rec),
           NEW e \in Elements(store), NEW f \in Elements(store'), e.sid = f.sid, e.level # f.level
    PROVE  Excused(e.sid)
<1>0. TypeInv /\ Agreed
  BY DEF SessionInv
<1>1. Written(reqs[r], rec, f)
  <2>1. SUFFICES ASSUME NEW d \in Elements(store), Same(d, f) PROVE FALSE
    BY DEF Moves
  <2>2. d = e
    BY <1>0, <2>1, OneRecord DEF Same
  <2> QED
    BY <2>1, <2>2 DEF Same
<1>2. reqs[r].pc \in {"write", "set"} /\ f.sid = reqs[r].id /\ f.level = reqs[r].level
  BY <1>1 DEF Written
<1>3. reqs[r].orig # NoSid
  BY <1>0, <1>2 DEF Agreed, Fresh
<1>4. reqs[r].orig = f.sid /\ (f.level = reqs[r].snapshot \/ Excused(f.sid))
  BY <1>1, <1>3, WriterAgrees
<1> QED
  BY <1>0, <1>4 DEF Agreed

-----------------------------------------------------------------------------
(***************************************************************************)
(* Every action of a request is such a step.                               *)
(***************************************************************************)
\* A request behind its handler, or on the way there, keeps what it knows.
LEMMA Ends ==
    ASSUME SessionInv, NEW r \in Requests, NEW rec, rec \in RequestRecord,
           reqs[r].pc \notin {"start", "done"}, rec.pc \in Ending,
           rec.id = reqs[r].id, rec.orig = reqs[r].orig, rec.snapshot = reqs[r].snapshot,
           rec.level = reqs[r].level, rec.regenerated = reqs[r].regenerated,
           reqs[r].failed => rec.failed,
           \/ reqs[r].pc \in Ending \/ rec.failed
           \/ reqs[r].level = reqs[r].snapshot \/ reqs[r].orig = NoSid,
           rec.pc = "destroy" => rec.orig # NoSid,
           rec.pc = "set" /\ kind = "update" => rec.orig = NoSid,
           next' = next,
           issued' = issued \/ (rec.pc = "done" /\ issued' = issued \cup {reqs[r].id})
    PROVE  Local(rec, next', issued') /\ Keeps(reqs[r], rec) /\ Sends(reqs[r], rec)
<1>1. Local(reqs[r], next, issued)
  BY DEF SessionInv, Owned
<1>2. Keeps(reqs[r], rec)
  BY DEF Keeps, Ending, Bypassed
<1>3. Sends(reqs[r], rec)
  BY <1>2 DEF Sends
<1>4. issued \subseteq issued' /\ (rec.pc # "done" => issued' = issued)
  OBVIOUS
<1>5. Local(rec, next', issued')
  BY <1>1, <1>4 DEF Local, Ending
<1> QED
  BY <1>2, <1>3, <1>5

\* A step that leaves the store alone.
LEMMA QuietMoves ==
    ASSUME SessionInv, NEW r \in Requests, NEW rec, Steps(r, rec),
           Local(rec, next', issued'), Keeps(reqs[r], rec),
           UNCHANGED <<now, kind, store, issued, next, dead>>, faults' \in 0..MaxFaults,
           \/ UNCHANGED tombs
           \/ \E ts : TombsOK(ts) /\ tombs' = [tombs EXCEPT ![InstanceOf[r]] = ts]
    PROVE  Moves(r, rec)
<1>1. StoreOK(store)
  BY TypeFacts DEF SessionInv
<1>2. StoreOK(store') /\ next' \in {next, next + 1} /\ (next' # next => next \in Sids)
  BY <1>1
<1>3. Sends(reqs[r], rec) /\ Destroys
  BY DEF Sends, Destroys
<1>4. \A f \in Elements(store') : \E e \in Elements(store) : Same(e, f)
  BY DEF Same, Elements
<1> QED
  BY <1>2, <1>3, <1>4 DEF Moves

\* Becomes and the type of the record
LEMMA BecomesFacts ==
    ASSUME SessionInv, NEW r \in Requests, NEW rec \in RequestRecord, Becomes(r, rec)
    PROVE  Steps(r, rec) /\ UNCHANGED <<now, kind, faults>> /\ faults' \in 0..MaxFaults
BY TypeFacts DEF SessionInv, Becomes, Steps

LEMMA ChangeMoves ==
    ASSUME SessionInv, NEW r \in Requests, Change(r) \/ Destroy(r) PROVE \E rec : Moves(r, rec)
<1> DEFINE q == reqs[r]
<1>1. q \in RequestRecord /\ Local(q, next, issued) /\ Cleared \in Levels
  BY TypeFacts, SessionConstants DEF SessionInv, Owned
<1>2. PICK rec : /\ rec \in RequestRecord /\ Becomes(r, rec) /\ rec.pc = "handler" /\ q.pc = "handler"
                 /\ rec.id = q.id /\ rec.orig = q.orig /\ rec.snapshot = q.snapshot
                 /\ rec.failed = q.failed /\ rec.regenerated = q.regenerated
  <2>1. CASE Change(r)
    <3>1. PICK v \in Levels : Becomes(r, [q EXCEPT !.level = v, !.dirty = TRUE])
      BY <2>1 DEF Change
    <3> DEFINE new == [q EXCEPT !.level = v, !.dirty = TRUE]
    <3>2. q.pc = "handler"
      BY <2>1 DEF Change
    <3>3. /\ new \in RequestRecord /\ new.pc = q.pc /\ new.id = q.id /\ new.orig = q.orig
          /\ new.snapshot = q.snapshot /\ new.failed = q.failed /\ new.regenerated = q.regenerated
      BY <1>1 DEF RequestRecord
    <3> QED
      BY <3>1, <3>2, <3>3
  <2>2. CASE Destroy(r)
    <3> DEFINE new == [q EXCEPT !.level = Cleared, !.destroyed = TRUE, !.dirty = TRUE]
    <3>1. q.pc = "handler" /\ Becomes(r, new)
      BY <2>2 DEF Destroy
    <3>2. /\ new \in RequestRecord /\ new.pc = q.pc /\ new.id = q.id /\ new.orig = q.orig
          /\ new.snapshot = q.snapshot /\ new.failed = q.failed /\ new.regenerated = q.regenerated
      BY <1>1 DEF RequestRecord
    <3> QED
      BY <3>1, <3>2
  <2> QED
    BY <2>1, <2>2
<1>3. UNCHANGED <<store, tombs, issued, next, dead>>
  BY DEF Change, Destroy
<1>4. Steps(r, rec) /\ UNCHANGED <<now, kind>> /\ faults' \in 0..MaxFaults
  BY <1>2, BecomesFacts
<1>5. Local(rec, next', issued') /\ Keeps(q, rec)
  BY <1>1, <1>2, <1>3 DEF Local, Keeps, Ending, Bypassed
<1>6. Moves(r, rec)
  BY <1>3, <1>4, <1>5, QuietMoves
<1> QED
  BY <1>6

\* The tombstones of the instance of r with one more
LEMMA AddTombstoneOK ==
    ASSUME SessionInv, NEW r \in Requests, NEW sid \in Sids, AddTombstone(r, sid)
    PROVE  \E ts : TombsOK(ts) /\ tombs' = [tombs EXCEPT ![InstanceOf[r]] = ts]
<1>1. InstanceOf[r] \in Instances /\ now \in Nat /\ TombsOK(tombs[InstanceOf[r]])
  BY SessionConstants, TypeFacts DEF SessionInv
<1>2. TombsOK(Buried(tombs[InstanceOf[r]], sid))
  BY <1>1, BuriedOK
<1> QED
  BY <1>2 DEF AddTombstone

\* The id that regenerate makes
LEMMA RenamedOK ==
    ASSUME SessionInv, NEW r \in Requests, next \in Sids, NEW keepData \in BOOLEAN,
           NEW pc \in {"handler", "send"}, reqs[r].pc \in {"handler", "regenerate", "rotate"},
           next' = next + 1, issued' = issued
    PROVE  /\ Renamed(reqs[r], keepData, pc) \in RequestRecord
           /\ Local(Renamed(reqs[r], keepData, pc), next', issued')
           /\ Makes(reqs[r], Renamed(reqs[r], keepData, pc))
<1> DEFINE q   == reqs[r]
           lv  == IF keepData THEN q.level ELSE Cleared
           new == [q EXCEPT !.pc = pc, !.id = next, !.orig = NoSid, !.regenerated = TRUE,
                            !.dirty = TRUE, !.destroyed = FALSE, !.created = FALSE, !.level = lv]
<1>1. q \in RequestRecord /\ Local(q, next, issued) /\ Cleared \in Levels
  BY TypeFacts, SessionConstants DEF SessionInv, Owned
<1>2. Renamed(q, keepData, pc) = new
  BY <1>1 DEF Renamed, RequestRecord
<1>3. lv \in Levels
  BY <1>1 DEF RequestRecord
<1> HIDE DEF lv
<1>4. /\ new \in RequestRecord /\ new.pc = pc /\ new.id = next /\ new.orig = NoSid
      /\ new.regenerated = TRUE /\ new.failed = q.failed
  BY <1>1, <1>3 DEF RequestRecord, NoSid
<1> HIDE DEF new
<1>5. q.failed = FALSE
  BY <1>1 DEF Local, Ending, RequestRecord
<1>6. next \in 1..next' - 1 /\ next \notin issued
  <2>1. next \in Nat /\ next # 0
    BY SessionConstants DEF Sids
  <2>2. issued \subseteq 1..next - 1
    BY DEF SessionInv, Owned
  <2> QED
    BY <2>1, <2>2
<1>7. Local(new, next', issued')
  BY <1>4, <1>5, <1>6 DEF Local, NoSid, Ending
<1>8. Makes(q, new)
  BY <1>4, <1>5 DEF Makes
<1> QED
  BY <1>2, <1>4, <1>7, <1>8

LEMMA RegenerateMoves ==
    ASSUME SessionInv, NEW r \in Requests, reqs[r].pc = "handler",
           NEW await \in {"regenerate", "rotate"}, NEW pc \in {"handler", "send"},
           Regenerate(r, reqs[r], await, pc)
    PROVE  \E rec : Moves(r, rec)
<1> DEFINE q == reqs[r]
<1>1. q \in RequestRecord /\ Local(q, next, issued) /\ StoreOK(store)
  BY TypeFacts DEF SessionInv, Owned
<1>2. next \in Sids /\ UNCHANGED <<store, issued, dead>>
  BY DEF Regenerate
<1>3. CASE q.orig = q.id
  <2> DEFINE new == [q EXCEPT !.pc = await]
  <2>1. AddTombstone(r, q.id) /\ Becomes(r, new) /\ UNCHANGED next
    BY <1>3 DEF Regenerate
  <2>2. /\ new \in RequestRecord /\ new.pc = await /\ new.id = q.id /\ new.orig = q.orig
        /\ new.snapshot = q.snapshot /\ new.level = q.level
        /\ new.failed = q.failed /\ new.regenerated = q.regenerated
    BY <1>1 DEF RequestRecord
  <2> HIDE DEF new
  <2>3. q.id \in Sids /\ q.id # NoSid
    <3>1. q.id \in 1..next - 1
      BY <1>1 DEF Local
    <3> QED
      BY <1>2, <3>1, SessionConstants DEF Sids, NoSid
  <2>4. \E ts : TombsOK(ts) /\ tombs' = [tombs EXCEPT ![InstanceOf[r]] = ts]
    BY <2>1, <2>3, AddTombstoneOK
  <2>5. Steps(r, new) /\ UNCHANGED <<now, kind>> /\ faults' \in 0..MaxFaults
    BY <2>1, <2>2, BecomesFacts
  <2>6. Local(new, next', issued') /\ Keeps(q, new)
    BY <1>1, <1>2, <1>3, <2>1, <2>2, <2>3 DEF Local, Keeps, Ending, Bypassed
  <2>7. Moves(r, new)
    BY <1>2, <2>1, <2>4, <2>5, <2>6, QuietMoves
  <2> QED
    BY <2>7
<1>4. CASE q.orig # q.id
  <2>1. PICK keepData \in BOOLEAN : Becomes(r, Renamed(q, keepData, pc))
    BY <1>4 DEF Regenerate
  <2>2. next' = next + 1 /\ UNCHANGED tombs
    BY <1>4 DEF Regenerate
  <2> DEFINE new == Renamed(q, keepData, pc)
  <2>3. new \in RequestRecord /\ Local(new, next', issued') /\ Makes(q, new)
    BY <1>2, <2>2, RenamedOK
  <2> HIDE DEF new
  <2>4. Steps(r, new) /\ UNCHANGED <<now, kind>> /\ faults' \in 0..MaxFaults
    BY <2>1, <2>3, BecomesFacts DEF new
  <2>5. \A f \in Elements(store') : \E e \in Elements(store) : Same(e, f)
    BY <1>2 DEF Same, Elements
  <2>6. Sends(q, new) /\ Destroys
    BY <1>2 DEF Sends, Destroys
  <2>7. Moves(r, new)
    BY <1>1, <1>2, <2>2, <2>3, <2>4, <2>5, <2>6 DEF Moves
  <2> QED
    BY <2>7
<1> QED
  BY <1>3, <1>4

LEMMA LoadMoves ==
    ASSUME SessionInv, NEW r \in Requests, Load(r) PROVE \E rec : Moves(r, rec)
<1> DEFINE q == reqs[r]
<1>1. /\ q \in RequestRecord /\ Local(q, next, issued) /\ StoreOK(store) /\ next \in Nat
      /\ \A e \in Elements(store) : e.sid < next
  BY TypeFacts DEF SessionInv, Owned
<1>2. q.pc = "start" /\ UNCHANGED <<tombs, issued, dead>>
  BY DEF Load
<1>3. q.failed = FALSE
  BY <1>1, <1>2 DEF Local, Ending, RequestRecord
<1>4. PICK sid \in issued \cup {NoSid} :
         /\ store' = Get(store, sid)
         /\ \/ \E e \in {e \in Elements(Get(store, sid)) : e.sid = sid} :
                  /\ Becomes(r, [q EXCEPT !.pc = "handler", !.id = sid, !.orig = sid,
                                          !.level = e.level, !.snapshot = e.level])
                  /\ UNCHANGED next
            \/ /\ next \in Sids
               /\ Becomes(r, [q EXCEPT !.pc = "handler", !.id = next, !.created = TRUE])
               /\ next' = next + 1
  BY DEF Load
<1>5. StoreOK(store') /\ Elements(store') \subseteq Elements(store)
  BY <1>1, <1>4, GetOK
<1>6. \A f \in Elements(store') : \E e \in Elements(store) : Same(e, f)
  BY <1>5 DEF Same
<1>7. \A rec : Sends(q, rec) /\ Destroys
  BY <1>2 DEF Sends, Destroys
<1>8. ASSUME NEW e \in Elements(store'), e.sid = sid, UNCHANGED next,
             Becomes(r, [q EXCEPT !.pc = "handler", !.id = sid, !.orig = sid,
                                  !.level = e.level, !.snapshot = e.level])
      PROVE  \E rec : Moves(r, rec)
  <2> DEFINE new == [q EXCEPT !.pc = "handler", !.id = sid, !.orig = sid,
                              !.level = e.level, !.snapshot = e.level]
  <2>1. e \in Elements(store) /\ e.level \in Levels /\ sid \in Sids /\ sid # NoSid /\ sid \in issued
    <3>1. e \in Elements(store) /\ e \in StoreRecord
      BY <1>5 DEF StoreOK, Elements
    <3>2. e.sid \in Sids /\ e.sid # NoSid
      BY <1>1, <3>1, StoredSid
    <3> QED
      BY <1>4, <1>8, <3>1, <3>2 DEF StoreRecord
  <2>2. /\ new \in RequestRecord /\ new.pc = "handler" /\ new.id = sid /\ new.orig = sid
        /\ new.level = e.level /\ new.snapshot = e.level
        /\ new.failed = q.failed /\ new.regenerated = q.regenerated
    BY <1>1, <2>1 DEF RequestRecord
  <2>3. Becomes(r, new)
    BY <1>8
  <2> HIDE DEF new
  <2>4. Steps(r, new) /\ UNCHANGED <<now, kind>> /\ faults' \in 0..MaxFaults
    BY <2>2, <2>3, BecomesFacts
  <2>5. sid \in 1..next - 1
    BY <2>1 DEF SessionInv, Owned
  <2>6. ~q.regenerated
    BY <1>1, <1>2 DEF Local
  <2>7. Local(new, next', issued')
    BY <1>2, <1>3, <1>8, <2>1, <2>2, <2>5, <2>6 DEF Local, Ending
  <2>8. TakesOver(q, new)
    BY <1>2, <1>3, <1>8, <2>1, <2>2 DEF TakesOver
  <2>9. Moves(r, new)
    BY <1>2, <1>5, <1>6, <1>7, <1>8, <2>4, <2>7, <2>8 DEF Moves
  <2> QED
    BY <2>9
<1>9. ASSUME next \in Sids, next' = next + 1,
             Becomes(r, [q EXCEPT !.pc = "handler", !.id = next, !.created = TRUE])
      PROVE  \E rec : Moves(r, rec)
  <2> DEFINE new == [q EXCEPT !.pc = "handler", !.id = next, !.created = TRUE]
  <2>1. /\ new \in RequestRecord /\ new.pc = "handler" /\ new.id = next /\ new.orig = q.orig
        /\ new.failed = q.failed /\ new.regenerated = q.regenerated
    BY <1>1, <1>9 DEF RequestRecord
  <2>2. Becomes(r, new)
    BY <1>9
  <2> HIDE DEF new
  <2>3. Steps(r, new) /\ UNCHANGED <<now, kind>> /\ faults' \in 0..MaxFaults
    BY <2>1, <2>2, BecomesFacts
  <2>4. q.orig = NoSid
    BY <1>1, <1>2 DEF Local
  <2>5. next \in 1..next' - 1 /\ next \notin issued
    <3>1. next \in Nat /\ next # 0
      BY <1>9, SessionConstants DEF Sids
    <3>2. issued \subseteq 1..next - 1
      BY DEF SessionInv, Owned
    <3> QED
      BY <1>9, <3>1, <3>2
  <2>6. Local(new, next', issued')
    BY <1>2, <1>3, <2>1, <2>4, <2>5 DEF Local, Ending, NoSid
  <2>7. Makes(q, new)
    BY <1>2, <1>3, <1>9, <2>1, <2>4 DEF Makes
  <2>8. Moves(r, new)
    BY <1>2, <1>5, <1>6, <1>7, <1>9, <2>3, <2>6, <2>7 DEF Moves
  <2> QED
    BY <2>8
<1> QED
  BY <1>4, <1>8, <1>9

LEMMA RegeneratedMoves ==
    ASSUME SessionInv, NEW r \in Requests, Regenerated(r) PROVE \E rec : Moves(r, rec)
<1> DEFINE q  == reqs[r]
           pc == IF q.pc = "rotate" THEN "send" ELSE "handler"
<1>1. q \in RequestRecord /\ Local(q, next, issued) /\ StoreOK(store)
  BY TypeFacts DEF SessionInv, Owned
<1>2. /\ q.pc \in {"regenerate", "rotate"} /\ next \in Sids /\ store' = Without(store, q.id)
      /\ dead' = dead \cup {q.id} /\ next' = next + 1 /\ UNCHANGED <<tombs, issued>>
  BY DEF Regenerated
<1>3. pc \in {"handler", "send"}
  OBVIOUS
<1>4. PICK keepData \in BOOLEAN : Becomes(r, Renamed(q, keepData, pc))
  BY DEF Regenerated
<1> HIDE DEF pc
<1> DEFINE new == Renamed(q, keepData, pc)
<1>5. new \in RequestRecord /\ Local(new, next', issued') /\ Makes(q, new)
  BY <1>2, <1>3, RenamedOK
<1> HIDE DEF new
<1>6. Steps(r, new) /\ UNCHANGED <<now, kind>> /\ faults' \in 0..MaxFaults
  BY <1>4, <1>5, BecomesFacts DEF new
<1>7. StoreOK(store') /\ Elements(store') = {e \in Elements(store) : e.sid # q.id}
  BY <1>1, <1>2, WithoutOK
<1>8. \A f \in Elements(store') : \E e \in Elements(store) : Same(e, f)
  BY <1>7 DEF Same
<1>9. Sends(q, new) /\ Destroys
  <2>1. q.id \in issued
    BY <1>1, <1>2 DEF Local
  <2>2. ~Has(store', q.id)
    BY <1>7 DEF Has
  <2> QED
    BY <1>2, <2>1, <2>2 DEF Sends, Destroys
<1>10. Moves(r, new)
  BY <1>2, <1>5, <1>6, <1>7, <1>8, <1>9 DEF Moves
<1> QED
  BY <1>10

LEMMA ReturnMoves ==
    ASSUME SessionInv, NEW r \in Requests, Return(r) \/ Throw(r) \/ HandlerRegenerates(r)
    PROVE  \E rec : Moves(r, rec)
<1> DEFINE q == reqs[r]
<1>1. q \in RequestRecord /\ Local(q, next, issued)
  BY TypeFacts DEF SessionInv, Owned
<1>2. q.pc = "handler"
  BY DEF Return, Throw, HandlerRegenerates
<1>3. CASE HandlerRegenerates(r)
  BY <1>2, <1>3, RegenerateMoves DEF HandlerRegenerates
<1>4. CASE Regenerate(r, q, "rotate", "send")
  BY <1>2, <1>4, RegenerateMoves
<1>5. CASE /\ ~ShouldRotate(q) /\ Becomes(r, [q EXCEPT !.pc = "send"])
           /\ UNCHANGED <<store, tombs, issued, next, dead>>
  <2> DEFINE new == [q EXCEPT !.pc = "send"]
  <2>1. /\ new \in RequestRecord /\ new.pc = "send" /\ new.id = q.id /\ new.orig = q.orig
        /\ new.snapshot = q.snapshot /\ new.level = q.level
        /\ new.failed = q.failed /\ new.regenerated = q.regenerated
    BY <1>1 DEF RequestRecord
  <2>2. Becomes(r, new)
    BY <1>5
  <2> HIDE DEF new
  <2>3. q.level = q.snapshot \/ q.orig = NoSid
    BY <1>1, <1>5 DEF ShouldRotate, Local
  <2>4. Local(new, next', issued') /\ Keeps(q, new)
    BY <1>2, <1>5, <2>1, <2>3, Ends DEF Ending
  <2>5. Steps(r, new) /\ UNCHANGED <<now, kind>> /\ faults' \in 0..MaxFaults
    BY <2>1, <2>2, BecomesFacts
  <2>6. Moves(r, new)
    BY <1>5, <2>4, <2>5, QuietMoves
  <2> QED
    BY <2>6
<1>6. CASE Throw(r)
  <2> DEFINE new == [q EXCEPT !.pc = "send", !.failed = TRUE]
  <2>1. /\ new \in RequestRecord /\ new.pc = "send" /\ new.id = q.id /\ new.orig = q.orig
        /\ new.snapshot = q.snapshot /\ new.level = q.level
        /\ new.failed = TRUE /\ new.regenerated = q.regenerated
    BY <1>1 DEF RequestRecord
  <2>2. Becomes(r, new) /\ UNCHANGED <<store, tombs, issued, next, dead>>
    BY <1>6 DEF Throw
  <2> HIDE DEF new
  <2>3. Local(new, next', issued') /\ Keeps(q, new)
    BY <1>2, <2>1, <2>2, Ends DEF Ending
  <2>4. Steps(r, new) /\ UNCHANGED <<now, kind>> /\ faults' \in 0..MaxFaults
    BY <2>1, <2>2, BecomesFacts
  <2>5. Moves(r, new)
    BY <2>2, <2>3, <2>4, QuietMoves
  <2> QED
    BY <2>5
<1> QED
  BY <1>3, <1>4, <1>5, <1>6 DEF Return

\* What onSend decides to do
LEMMA PlanOK ==
    ASSUME NEW r \in Requests, NEW rec \in RequestRecord, kind \in {"update", "legacy"}
    PROVE  /\ Plan(r, rec) \in {"done", "destroy", "write", "set", "touch"}
           /\ Plan(r, rec) = "destroy" => rec.orig # NoSid
           /\ Plan(r, rec) = "set" => ~Loaded(rec)
BY DEF Plan

LEMMA OnSendMoves ==
    ASSUME SessionInv, NEW r \in Requests, OnSend(r) PROVE \E rec : Moves(r, rec)
<1> DEFINE q   == reqs[r]
           p   == Plan(r, q)
           x   == now + Ttl
           new == [q EXCEPT !.pc = p, !.expiresAt = x]
<1>1. /\ q \in RequestRecord /\ Local(q, next, issued) /\ kind \in {"update", "legacy"}
      /\ x \in Nat /\ InstanceOf[r] \in Instances /\ TombsOK(tombs[InstanceOf[r]])
  BY TypeFacts, SessionConstants DEF SessionInv, Owned
<1>2. /\ p \in {"done", "destroy", "write", "set", "touch"}
      /\ p = "destroy" => q.orig # NoSid
      /\ p = "set" => ~Loaded(q)
  BY <1>1, PlanOK
<1>3. /\ q.pc = "send" /\ Becomes(r, new) /\ UNCHANGED <<store, issued, next, dead>>
      /\ \/ p = "destroy" /\ AddTombstone(r, q.orig)
         \/ tombs' = [tombs EXCEPT ![InstanceOf[r]] = Get(tombs[InstanceOf[r]], q.id)]
         \/ UNCHANGED tombs
  BY DEF OnSend
<1> HIDE DEF p, x
<1>4. /\ new \in RequestRecord /\ new.pc = p /\ new.id = q.id /\ new.orig = q.orig
      /\ new.snapshot = q.snapshot /\ new.level = q.level
      /\ new.failed = q.failed /\ new.regenerated = q.regenerated
  BY <1>1, <1>2 DEF RequestRecord
<1> HIDE DEF new
<1>5. new.pc = "set" => new.orig = NoSid
  BY <1>1, <1>2, <1>4 DEF Local, Loaded
<1>6. Local(new, next', issued') /\ Keeps(q, new)
  BY <1>2, <1>3, <1>4, <1>5, Ends DEF Ending
<1>7. Steps(r, new) /\ UNCHANGED <<now, kind>> /\ faults' \in 0..MaxFaults
  BY <1>3, <1>4, BecomesFacts
<1>8. \/ UNCHANGED tombs
      \/ \E ts : TombsOK(ts) /\ tombs' = [tombs EXCEPT ![InstanceOf[r]] = ts]
  <2>1. q.orig # NoSid => q.orig \in Sids
    BY <1>1 DEF RequestRecord
  <2>2. CASE p = "destroy" /\ AddTombstone(r, q.orig)
    BY <1>2, <2>1, <2>2, AddTombstoneOK
  <2>3. TombsOK(Get(tombs[InstanceOf[r]], q.id))
    BY <1>1, TombsGetOK
  <2> QED
    BY <1>3, <2>2, <2>3
<1>9. Moves(r, new)
  BY <1>3, <1>6, <1>7, <1>8, QuietMoves
<1> QED
  BY <1>9

\* The id of a request that writes is an id.
LEMMA WriterFacts ==
    ASSUME SessionInv, NEW r \in Requests, reqs[r].pc \notin {"start", "done"}
    PROVE  /\ reqs[r] \in RequestRecord /\ Local(reqs[r], next, issued) /\ StoreOK(store)
           /\ RecordOf(reqs[r]) \in StoreRecord
           /\ RecordOf(reqs[r]).sid = reqs[r].id /\ RecordOf(reqs[r]).level = reqs[r].level
           /\ reqs[r].expiresAt \in Nat
<1>1. reqs[r] \in RequestRecord /\ Local(reqs[r], next, issued) /\ StoreOK(store)
  BY TypeFacts DEF SessionInv, Owned
<1>2. reqs[r].id \in 1..next - 1
  BY <1>1 DEF Local
<1>3. reqs[r].id # NoSid
  BY <1>2 DEF NoSid
<1>4. RecordOf(reqs[r]) \in StoreRecord
  BY <1>3, TypeFacts DEF SessionInv
<1> QED
  BY <1>1, <1>4 DEF RecordOf, RequestRecord

\* What a call of the store that r waits for may do to it: r's own record is
\* written, or records go.
Effect(r, st) ==
    /\ StoreOK(st)
    /\ \A f \in Elements(st) :
          \/ \E e \in Elements(store) : Same(e, f)
          \/ /\ reqs[r].pc \in {"write", "set"} /\ f.sid = reqs[r].id /\ f.level = reqs[r].level
             /\ kind = "update" => Has(store, f.sid) \/ reqs[r].orig = NoSid

LEMMA Effects ==
    ASSUME SessionInv, NEW r \in Requests, reqs[r].pc \notin {"start", "done"}
    PROVE  /\ Effect(r, store)
           /\ \A sid : Effect(r, Without(store, sid)) /\ ~Has(Without(store, sid), sid)
           /\ \A sid : Effect(r, Get(store, sid))
           /\ \A sid : Effect(r, Touch(store, sid, reqs[r].expiresAt))
           /\ reqs[r].pc = "write" => Effect(r, Update(store, RecordOf(reqs[r])))
           /\ reqs[r].pc = "set" => Effect(r, Set(store, RecordOf(reqs[r])))
<1> DEFINE rec == RecordOf(reqs[r])
<1>1. /\ StoreOK(store) /\ Local(reqs[r], next, issued) /\ rec \in StoreRecord
      /\ rec.sid = reqs[r].id /\ rec.level = reqs[r].level /\ reqs[r].expiresAt \in Nat
  BY WriterFacts
<1> HIDE DEF rec
<1>2. Effect(r, store)
  BY <1>1 DEF Effect, Same
<1>3. ASSUME NEW sid PROVE Effect(r, Without(store, sid)) /\ ~Has(Without(store, sid), sid)
  <2>1. StoreOK(Without(store, sid)) /\ Elements(Without(store, sid)) = {e \in Elements(store) : e.sid # sid}
    BY <1>1, WithoutOK
  <2> QED
    BY <2>1 DEF Effect, Same, Has
<1>4. ASSUME NEW sid PROVE Effect(r, Get(store, sid))
  <2>1. StoreOK(Get(store, sid)) /\ Elements(Get(store, sid)) \subseteq Elements(store)
    BY <1>1, GetOK
  <2> QED
    BY <2>1 DEF Effect, Same
<1>5. ASSUME NEW sid PROVE Effect(r, Touch(store, sid, reqs[r].expiresAt))
  BY <1>1, TouchOK DEF Effect
<1>6. ASSUME reqs[r].pc = "write" PROVE Effect(r, Update(store, rec))
  <2>1. /\ StoreOK(Update(store, rec))
        /\ \A f \in Elements(Update(store, rec)) :
              (f = rec /\ Has(store, rec.sid)) \/ f \in Elements(store)
    BY <1>1, UpdateOK
  <2> QED
    BY <1>1, <1>6, <2>1 DEF Effect, Same
<1>7. ASSUME reqs[r].pc = "set" PROVE Effect(r, Set(store, rec))
  <2>1. /\ StoreOK(Set(store, rec))
        /\ \A f \in Elements(Set(store, rec)) : f = rec \/ f \in Elements(store)
    BY <1>1, SetOK
  <2>2. kind = "update" => reqs[r].orig = NoSid
    BY <1>1, <1>7 DEF Local
  <2> QED
    BY <1>1, <1>7, <2>1, <2>2 DEF Effect, Same
<1> QED
  BY <1>2, <1>3, <1>4, <1>5, <1>6, <1>7 DEF rec

\* The call is over, or it rejected.
LEMMA StoreMoves ==
    ASSUME SessionInv, NEW r \in Requests, NEW rec, Steps(r, rec),
           UNCHANGED <<now, kind, tombs, next>>, faults' \in 0..MaxFaults,
           Effect(r, store'), Destroys, rec.pc \in {"done", "send"},
           Local(rec, next', issued'), Keeps(reqs[r], rec), Sends(reqs[r], rec)
    PROVE  Moves(r, rec)
<1>1. \A f \in Elements(store') :
         (\E e \in Elements(store) : Same(e, f)) \/ Written(reqs[r], rec, f)
  BY DEF Effect, Written
<1> QED
  BY <1>1 DEF Moves, Effect

LEMMA DoneMoves ==
    ASSUME SessionInv, NEW r \in Requests, reqs[r].pc \in {"destroy", "write", "set", "touch"},
           NEW st, NEW cookie, Done(r, st, cookie), Effect(r, st), Destroys
    PROVE  \E rec : Moves(r, rec)
<1> DEFINE q   == reqs[r]
           new == [q EXCEPT !.pc = "done"]
<1>1. q \in RequestRecord
  BY WriterFacts
<1>2. /\ new \in RequestRecord /\ new.pc = "done" /\ new.id = q.id /\ new.orig = q.orig
      /\ new.snapshot = q.snapshot /\ new.level = q.level
      /\ new.failed = q.failed /\ new.regenerated = q.regenerated
  BY <1>1 DEF RequestRecord
<1>3. /\ store' = st /\ Becomes(r, new) /\ UNCHANGED <<tombs, next>>
      /\ issued' = issued \/ issued' = issued \cup {q.id}
  BY DEF Done
<1> HIDE DEF new
<1>4. Local(new, next', issued') /\ Keeps(q, new) /\ Sends(q, new)
  BY <1>2, <1>3, Ends DEF Ending
<1>5. Steps(r, new) /\ UNCHANGED <<now, kind>> /\ faults' \in 0..MaxFaults
  BY <1>2, <1>3, BecomesFacts
<1>6. Moves(r, new)
  BY <1>2, <1>3, <1>4, <1>5, StoreMoves
<1> QED
  BY <1>6

LEMMA StoredMoves ==
    ASSUME SessionInv, NEW r \in Requests,
           DestroyStored(r) \/ WriteExisting(r) \/ SetStored(r) \/ TouchStored(r)
    PROVE  \E rec : Moves(r, rec)
<1> DEFINE q == reqs[r]
<1>1. q.pc \in {"destroy", "write", "set", "touch"}
  BY DEF DestroyStored, WriteExisting, SetStored, TouchStored
<1>2. q \in RequestRecord /\ Local(q, next, issued)
  BY <1>1, WriterFacts
<1>3. CASE DestroyStored(r)
  <2>1. Done(r, Without(store, q.orig), FALSE) /\ dead' = dead \cup {q.orig} /\ q.pc = "destroy"
    BY <1>3 DEF DestroyStored
  <2>2. store' = Without(store, q.orig)
    BY <2>1 DEF Done
  <2>3. Effect(r, Without(store, q.orig)) /\ ~Has(store', q.orig)
    BY <1>1, <2>2, Effects
  <2>4. q.orig \in issued
    BY <1>2, <2>1 DEF Local
  <2>5. Destroys
    BY <2>1, <2>3, <2>4 DEF Destroys
  <2> QED
    BY <1>1, <2>1, <2>3, <2>5, DoneMoves
<1>4. CASE dead' = dead /\ \E st, cookie : Done(r, st, cookie) /\ Effect(r, st)
  BY <1>1, <1>4, DoneMoves DEF Destroys
<1>5. CASE SetStored(r)
  BY <1>1, <1>4, <1>5, Effects DEF SetStored
<1>6. CASE TouchStored(r)
  BY <1>1, <1>4, <1>6, Effects DEF TouchStored
<1>7. CASE WriteExisting(r)
  <2>1. q.pc = "write" /\ dead' = dead
    BY <1>7 DEF WriteExisting
  <2>2. Effect(r, Update(store, RecordOf(q))) /\ Effect(r, Get(store, q.id))
    BY <2>1, Effects
  <2>3. CASE \E st, cookie : Done(r, st, cookie) /\ Effect(r, st)
    BY <1>4, <2>1, <2>3
  <2>4. CASE /\ kind = "legacy" /\ Becomes(r, [q EXCEPT !.pc = "set"])
             /\ UNCHANGED <<store, tombs, issued, next>>
    <3> DEFINE new == [q EXCEPT !.pc = "set"]
    <3>1. /\ new \in RequestRecord /\ new.pc = "set" /\ new.id = q.id /\ new.orig = q.orig
          /\ new.snapshot = q.snapshot /\ new.level = q.level
          /\ new.failed = q.failed /\ new.regenerated = q.regenerated
      BY <1>2 DEF RequestRecord
    <3>2. Becomes(r, new)
      BY <2>4
    <3> HIDE DEF new
    <3>3. Local(new, next', issued') /\ Keeps(q, new)
      BY <2>1, <2>4, <3>1, Ends DEF Ending
    <3>4. Steps(r, new) /\ UNCHANGED <<now, kind>> /\ faults' \in 0..MaxFaults
      BY <3>1, <3>2, BecomesFacts
    <3>5. Moves(r, new)
      BY <2>1, <2>4, <3>3, <3>4, QuietMoves
    <3> QED
      BY <3>5
  <2> QED
    BY <1>7, <2>2, <2>3, <2>4 DEF WriteExisting
<1> QED
  BY <1>3, <1>5, <1>6, <1>7

LEMMA FailMoves ==
    ASSUME SessionInv, NEW r \in Requests, Fail(r) PROVE \E rec : Moves(r, rec)
<1> DEFINE q    == reqs[r]
           ends == q.failed /\ q.pc \notin {"regenerate", "rotate"}
           pc   == IF ends THEN "done" ELSE "send"
           new  == [q EXCEPT !.pc = pc, !.failed = TRUE]
           sid  == IF q.pc = "destroy" THEN q.orig ELSE q.id
<1>1. /\ q.pc \in {"regenerate", "rotate", "destroy", "write", "set", "touch"}
      /\ faults < MaxFaults /\ faults' = faults + 1
      /\ UNCHANGED <<now, kind, tombs, issued, next>>
  BY DEF Fail
<1>2. /\ q \in RequestRecord /\ Local(q, next, issued) /\ reqs \in [Requests -> RequestRecord]
      /\ faults \in 0..MaxFaults
  BY <1>1, WriterFacts, TypeFacts DEF SessionInv
<1>3. reqs' = [reqs EXCEPT ![r] = new]
  <2>1. reqs' = [reqs EXCEPT ![r].pc = pc, ![r].failed = TRUE]
    BY DEF Fail
  <2> QED
    BY <1>2, <2>1
<1>4. /\ dead' = dead \/ (dead' = dead \cup {sid} /\ store' = Without(store, sid)
                            /\ q.pc \in {"regenerate", "rotate", "destroy"})
      /\ Effect(r, store')
  <2>1. \/ UNCHANGED <<store, dead>>
        \/ /\ q.pc \in {"regenerate", "rotate", "destroy"}
           /\ store' = Without(store, sid) /\ dead' = dead \cup {sid}
        \/ /\ q.pc = "write" /\ store' = Update(store, RecordOf(q)) /\ UNCHANGED dead
        \/ q.pc = "set" /\ store' = Set(store, RecordOf(q)) /\ UNCHANGED dead
        \/ /\ q.pc = "touch" /\ store' = Touch(store, sid, RecordOf(q).expiresAt)
           /\ UNCHANGED dead
    BY DEF Fail
  <2>2. RecordOf(q).expiresAt = q.expiresAt
    BY DEF RecordOf
  <2> HIDE DEF sid, q
  <2> QED
    BY <1>1, <2>1, <2>2, Effects DEF q
<1>5. Destroys
  <2>1. q.pc \in {"regenerate", "rotate", "destroy"} => sid \in issued
    BY <1>2 DEF Local
  <2>2. ~Has(Without(store, sid), sid)
    BY <1>1, Effects
  <2> QED
    BY <1>4, <2>1, <2>2 DEF Destroys
<1>6. pc \in {"done", "send"}
  OBVIOUS
<1> HIDE DEF pc, sid
<1>7. /\ new \in RequestRecord /\ new.pc = pc /\ new.id = q.id /\ new.orig = q.orig
      /\ new.snapshot = q.snapshot /\ new.level = q.level
      /\ new.failed = TRUE /\ new.regenerated = q.regenerated
  BY <1>2, <1>6 DEF RequestRecord
<1> HIDE DEF new
<1>8. Local(new, next', issued') /\ Keeps(q, new) /\ Sends(q, new)
  BY <1>1, <1>6, <1>7, Ends DEF Ending
<1>9. Steps(r, new)
  BY <1>3, <1>7 DEF Steps
<1>10. faults' \in 0..MaxFaults
  BY <1>1, <1>2, SessionConstants
<1>11. Moves(r, new)
  BY <1>1, <1>4, <1>5, <1>6, <1>7, <1>8, <1>9, <1>10, StoreMoves
<1> QED
  BY <1>11

-----------------------------------------------------------------------------
LEMMA RequestMoves ==
    ASSUME SessionInv, NEW r \in Requests,
           \/ Load(r) \/ Change(r) \/ Destroy(r) \/ HandlerRegenerates(r) \/ Regenerated(r)
           \/ Return(r) \/ Throw(r) \/ Fail(r)
           \/ OnSend(r) \/ DestroyStored(r) \/ WriteExisting(r) \/ SetStored(r) \/ TouchStored(r)
    PROVE  \E rec : Moves(r, rec)
BY LoadMoves, ChangeMoves, RegeneratedMoves, ReturnMoves, FailMoves, OnSendMoves, StoredMoves

\* Neither the clock nor a stuttering step touches what is promised.
LEMMA Still ==
    ASSUME SessionInv, now' \in 0..MaxNow,
           UNCHANGED <<kind, store, tombs, reqs, issued, next, dead, faults>>
    PROVE  SessionInv'
<1>1. TypeInv'
  BY DEF SessionInv, TypeInv, SessionTypeOK
<1>2. Owned'
  BY DEF SessionInv, Owned, Local, Fresh, Elements
<1>3. NoResurrection'
  BY DEF SessionInv, NoResurrection, Has, Elements
<1>4. Agreed'
  BY DEF SessionInv, Agreed, Excused, Fresh, Bypassed, Elements
<1> QED
  BY <1>1, <1>2, <1>3, <1>4 DEF SessionInv

LEMMA MovesInv ==
    ASSUME SessionInv, NEW r \in Requests, NEW rec, Moves(r, rec)
    PROVE  SessionInv'
<1>1. Owned' /\ NoResurrection' /\ Agreed'
  BY MovesOwned, MovesNoResurrection, MovesAgreed
<1>2. issued' \subseteq Sids /\ dead' \subseteq Sids
  <2>1. issued \subseteq Sids /\ dead \subseteq Sids /\ reqs[r] \in RequestRecord
    BY TypeFacts DEF SessionInv
  <2>2. Keeps(reqs[r], rec) => reqs[r].id \in Sids
    <3>1. Local(reqs[r], next, issued)
      BY DEF SessionInv, Owned
    <3>2. Keeps(reqs[r], rec) => reqs[r].id # NoSid
      BY <3>1 DEF Keeps, Local, NoSid
    <3> QED
      BY <2>1, <3>2 DEF RequestRecord
  <2>3. Sends(reqs[r], rec) /\ Destroys
    BY DEF Moves
  <2> QED
    BY <2>1, <2>2, <2>3 DEF Sends, Destroys
<1>3. TypeInv'
  BY <1>2, TypeStep DEF Moves, SessionInv
<1> QED
  BY <1>1, <1>3 DEF SessionInv

LEMMA SessionInit ==
    ASSUME Init PROVE SessionInv
<1>1. PICK v \in Levels : store = <<[sid |-> 1, level |-> v, expiresAt |-> Ttl]>>
  BY DEF Init
<1> DEFINE e0 == [sid |-> 1, level |-> v, expiresAt |-> Ttl]
           q0 == [pc |-> "start", id |-> NoSid, orig |-> NoSid, created |-> FALSE,
                  dirty |-> FALSE, destroyed |-> FALSE, regenerated |-> FALSE,
                  level |-> Cleared, snapshot |-> Cleared, failed |-> FALSE, expiresAt |-> 0]
<1>2. /\ 1 \in Sids /\ 2 \in 1..MaxSid + 1 /\ MaxEntries \in Nat /\ 1 <= MaxEntries
      /\ 0 <= MaxTombstones /\ 0 \in 0..MaxNow /\ 0 \in 0..MaxFaults
  BY SessionConstants DEF Sids
<1>3. e0 \in StoreRecord /\ e0.sid = 1
  BY <1>2, SessionConstants DEF StoreRecord
<1>4. /\ q0 \in RequestRecord /\ q0.pc = "start" /\ q0.orig = NoSid /\ q0.regenerated = FALSE
      /\ q0.failed = FALSE
  BY SessionConstants DEF RequestRecord
<1>5. store = <<e0>> /\ \A r \in Requests : reqs[r] = q0
  BY <1>1 DEF Init
<1>6. reqs \in [Requests -> RequestRecord]
  BY <1>4 DEF Init
<1> HIDE DEF e0, q0
<1>7. StoreOK(store) /\ \A e \in Elements(store) : e.sid = 1
  BY <1>2, <1>3, <1>5 DEF StoreOK, SidsUnique, Elements
<1>8. TypeInv
  <2>1. /\ tombs \in [Instances -> Seq(Tombstone)]
        /\ \A i \in Instances : tombs[i] \in Seq(Tombstone) /\ Len(tombs[i]) <= MaxTombstones
    BY <1>2 DEF Init
  <2> QED
    BY <1>2, <1>6, <1>7, <2>1 DEF Init, TypeInv, SessionTypeOK, StoreOK, SidsUnique
<1>9. Owned
  BY <1>4, <1>5, <1>7 DEF Init, Owned, Local, Fresh, Ending, NoSid
<1>10. NoResurrection
  BY DEF Init, NoResurrection
<1>11. Agreed
  BY <1>4, <1>5, <1>7 DEF Agreed, Fresh, NoSid
<1> QED
  BY <1>8, <1>9, <1>10, <1>11 DEF SessionInv

LEMMA SessionStep ==
    ASSUME SessionInv, [Next]_vars PROVE SessionInv'
<1>1. CASE Tick
  <2>1. now' \in 0..MaxNow
    BY <1>1, SessionConstants DEF Tick, SessionInv, TypeInv, SessionTypeOK
  <2> QED
    BY <1>1, <2>1, Still DEF Tick
<1>2. CASE UNCHANGED vars
  BY <1>2, Still DEF vars, SessionInv, TypeInv, SessionTypeOK
<1>3. CASE \E r \in Requests : \E rec : Moves(r, rec)
  BY <1>3, MovesInv
<1> QED
  BY <1>1, <1>2, <1>3, RequestMoves DEF Next

LEMMA SessionInvariant == Spec => []SessionInv
<1>1. Init => SessionInv
  BY SessionInit
<1>2. SessionInv /\ [Next]_vars => SessionInv'
  BY SessionStep
<1> QED
  BY <1>1, <1>2, PTL DEF Spec

(* The state of the session middleware keeps its shape: the store holds one
   record to an id and stays within its capacity, and so do the tombstones. *)
THEOREM SessionTypeCorrect == Spec => []SessionTypeOK
<1>1. SessionInv => SessionTypeOK
  BY DEF SessionInv, TypeInv
<1> QED
  BY <1>1, SessionInvariant, PTL

(* With a store that has update(), an id that a logout or a rotation destroyed
   does not come back, whichever requests were in flight, on any instance. *)
THEOREM NoResurrectionCorrect == Spec => []NoResurrection
<1>1. SessionInv => NoResurrection
  BY DEF SessionInv
<1> QED
  BY <1>1, SessionInvariant, PTL

(* The watched value of an id is not changed in place, unless a request of that
   id changed it and its handler threw or it could not rotate. *)
THEOREM RotationCorrect == Spec => PrivilegesRotate
<1> DEFINE Kept1 == \A e \in Elements(store), f \in Elements(store') :
                       e.sid = f.sid /\ e.level # f.level =>
                           \E r \in Requests : Bypassed(reqs[r]) /\ reqs[r].orig = e.sid
<1>1. SessionInv /\ [Next]_vars => [Kept1]_vars
  <2> SUFFICES ASSUME SessionInv, Next PROVE Kept1
    OBVIOUS
  <2>1. CASE Tick
    <3>1. store' = store
      BY <2>1 DEF Tick
    <3> QED
      BY <3>1, OneRecord DEF SessionInv
  <2>2. CASE \E r \in Requests : \E rec : Moves(r, rec)
    BY <2>2, MovesRotate DEF Excused
  <2> QED
    BY <2>1, <2>2, RequestMoves DEF Next
<1> QED
  BY <1>1, SessionInvariant, PTL DEF Spec, PrivilegesRotate
=============================================================================
