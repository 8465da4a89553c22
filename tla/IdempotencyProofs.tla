--------------------------- MODULE IdempotencyProofs ---------------------------
(***************************************************************************)
(* Proofs about Idempotency-Key replay, for any number of requests, keys   *)
(* and fingerprints, any capacity, any time to live, and any choice of the *)
(* requests with deadlines and of the steps that outlive the grace window. *)
(***************************************************************************)
EXTENDS Idempotency, InsertionOrderProofs

KeysUnique(st) == \A i, j \in DOMAIN st : st[i].key = st[j].key => i = j

StoreOK(st) == st \in Seq(StoreRecord) /\ Len(st) <= MaxEntries /\ KeysUnique(st)

-----------------------------------------------------------------------------
(***************************************************************************)
(* The inductive invariant.                                                *)
(***************************************************************************)
Reading == {"capture", "errorCapture"}

\* The finally block has begun.
Leaving == {"errorSend", "errorCapture", "over"}

\* The raced step that follows the reservation runs, and still counts.
Runs(rec) == (Doing(rec, "rest") \/ Doing(rec, "handler")) /\ rec.deferred # "done"

(* A request by itself.  The reservation is made behind "print", and the
   finalizer is there as long as it is pending; behind the catch block the
   finalizers have run, or wait for the abandoned step. *)
Local(rec) ==
    /\ rec.pc \in InTry => ~rec.abandoned
    /\ ~rec.abandoned => rec.step = "none" /\ rec.deferred = "no"
    /\ rec.deferred = "waiting" => rec.step # "none"
    /\ rec.pc \notin Leaving => rec.deferred = "no"
    /\ rec.pending => rec.fin
    /\ Doing(rec, "print") => ~rec.fin /\ rec.pc \notin Reading
    /\ rec.pc \in Reading => ~rec.pending
    /\ rec.pc \in Leaving /\ rec.deferred = "no" => ~rec.fin /\ rec.step # "print"

(* What the record e of r says of r, which is at rec. *)
Accounts(r, rec, e) ==
    /\ ~Doing(rec, "print")
    /\ e.status = "completed" => ~rec.pending /\ rec.pc \notin Reading
    /\ e.status = "in-flight" => rec.pending \/ rec.pc \in Reading \/ r \in Torn

Stored ==
    \A e \in Elements(store) :
        e.key = KeyOf(e.owner) /\ Accounts(e.owner, reqs[e.owner], e)

Guarded == \A r \in Requests : Runs(reqs[r]) => r \in lost \/ r \in Owners(store)

IdemInv ==
    /\ IdempotencyTypeOK /\ Stored /\ Guarded
    /\ \A r \in Requests : Local(reqs[r])

-----------------------------------------------------------------------------
(***************************************************************************)
(* The store.                                                              *)
(***************************************************************************)
LEMMA KeptStore ==
    ASSUME NEW st, StoreOK(st), NEW I \in SUBSET DOMAIN st
    PROVE  /\ StoreOK(Kept(st, I)) /\ Len(Kept(st, I)) <= Len(st)
           /\ Elements(Kept(st, I)) = {st[i] : i \in I}
           /\ Len(Kept(st, I)) = Len(st) => Kept(st, I) = st
<1> DEFINE t == Kept(st, I)
<1>1. st \in Seq(StoreRecord) /\ Len(st) <= MaxEntries /\ KeysUnique(st)
  BY DEF StoreOK
<1>2. /\ t \in Seq(StoreRecord) /\ Len(t) <= Len(st)
      /\ Elements(t) = {st[i] : i \in I} /\ Within(t, st)
  BY <1>1, KeptOK
<1>3. Len(t) = Len(st) => t = st
  BY <1>1, KeptAll
<1> HIDE DEF t
<1>4. Len(t) \in Nat /\ Len(st) \in Nat /\ MaxEntries \in Nat
  BY <1>1, <1>2, IdempotencyConstants
<1>5. KeysUnique(t)
  BY <1>1, <1>2, WithinOK DEF KeysUnique
<1> QED
  BY <1>1, <1>2, <1>3, <1>4, <1>5 DEF StoreOK, t

\* A sweep, of everything or of one key.
LEMMA SweptOK ==
    ASSUME NEW st, StoreOK(st), NEW t, (\E k : t = Read(st, k)) \/ t = Prune(st)
    PROVE  /\ StoreOK(t) /\ Elements(t) \subseteq Elements(st)
           /\ \A e \in Elements(st) : e \in Elements(t) \/ Expired(e)
           /\ Len(t) <= Len(st) /\ (Len(t) = Len(st) => t = st)
<1>1. PICK I \in SUBSET DOMAIN st :
         t = Kept(st, I) /\ \A i \in DOMAIN st : i \in I \/ Expired(st[i])
  <2>1. ASSUME NEW k, t = Read(st, k)
        PROVE  \E I \in SUBSET DOMAIN st :
                  t = Kept(st, I) /\ \A i \in DOMAIN st : i \in I \/ Expired(st[i])
    <3> WITNESS {i \in DOMAIN st : st[i].key # k \/ ~Expired(st[i])} \in SUBSET DOMAIN st
    <3> QED
      BY <2>1 DEF Read
  <2>2. CASE t = Prune(st)
    <3> WITNESS {i \in DOMAIN st : ~Expired(st[i])} \in SUBSET DOMAIN st
    <3> QED
      BY <2>2 DEF Prune
  <2> QED
    BY <2>1, <2>2
<1>2. /\ StoreOK(t) /\ Len(t) <= Len(st) /\ Elements(t) = {st[i] : i \in I}
      /\ Len(t) = Len(st) => t = st
  BY <1>1, KeptStore
<1> QED
  BY <1>1, <1>2 DEF Elements

\* Eviction leaves room for one record, and takes the first of a full store.
LEMMA MakeRoomOK ==
    ASSUME NEW st, StoreOK(st)
    PROVE  /\ StoreOK(MakeRoom(st)) /\ Len(MakeRoom(st)) < MaxEntries
           /\ Elements(MakeRoom(st)) \subseteq Elements(st)
           /\ \A e \in Elements(st) :
                 \/ e \in Elements(MakeRoom(st)) \/ Expired(e)
                 \/ e = st[1] /\ Len(st) = MaxEntries
<1>1. MaxEntries \in Nat /\ MaxEntries - 1 \in Nat /\ (MaxEntries - 1) + 1 = MaxEntries
  BY IdempotencyConstants
<1>2. CASE Len(st) < MaxEntries
  BY <1>2 DEF MakeRoom
<1>3. CASE ~(Len(st) < MaxEntries)
  <2> DEFINE p == Prune(st)
             t == Newest(p, MaxEntries - 1)
  <2>1. /\ StoreOK(p) /\ Elements(p) \subseteq Elements(st)
        /\ \A e \in Elements(st) : e \in Elements(p) \/ Expired(e)
        /\ Len(p) <= Len(st) /\ (Len(p) = Len(st) => p = st)
    BY SweptOK
  <2>2. MakeRoom(st) = t
    BY <1>3 DEF MakeRoom
  <2> HIDE DEF p
  <2>3. p \in Seq(StoreRecord) /\ KeysUnique(p) /\ Len(p) <= MaxEntries /\ Len(p) \in Nat
    BY <2>1 DEF StoreOK
  <2>4. t \in Seq(StoreRecord) /\ Len(t) <= MaxEntries - 1 /\ Within(t, p)
    BY <1>1, <2>3, NewestOK
  <2>5. \A e \in Elements(p) : e \in Elements(t) \/ (e = p[1] /\ Len(p) = MaxEntries)
    <3>1. Len(p) <= (MaxEntries - 1) + 1
      BY <1>1, <2>3
    <3> QED
      BY <1>1, <2>3, <3>1, NewestDrops
  <2> HIDE DEF t
  <2>6. Elements(t) \subseteq Elements(p) /\ KeysUnique(t)
    BY <2>3, <2>4, WithinOK DEF KeysUnique
  <2>7. Len(p) = MaxEntries => p = st /\ Len(st) = MaxEntries
    <3>1. Len(st) \in Nat /\ Len(st) <= MaxEntries
      BY DEF StoreOK
    <3>2. Len(st) = MaxEntries
      BY <1>1, <1>3, <3>1
    <3> QED
      BY <2>1, <3>2
  <2>8. Len(t) \in Nat
    BY <2>4
  <2>9. StoreOK(t) /\ Len(t) < MaxEntries
    BY <1>1, <2>4, <2>6, <2>8 DEF StoreOK
  <2> QED
    BY <2>1, <2>2, <2>5, <2>6, <2>7, <2>9
<1> QED
  BY <1>2, <1>3

\* reserve, where it finds nothing
LEMMA ReserveOK ==
    ASSUME NEW st, StoreOK(st), NEW rec \in StoreRecord, At(Read(st, rec.key), rec.key) = {}
    PROVE  /\ StoreOK(Reserve(st, rec)) /\ rec \in Elements(Reserve(st, rec))
           /\ \A f \in Elements(Reserve(st, rec)) : f = rec \/ (f \in Elements(st) /\ f.key # rec.key)
           /\ \A e \in Elements(st) :
                 \/ e \in Elements(Reserve(st, rec)) \/ Expired(e)
                 \/ e = st[1] /\ Len(st) = MaxEntries /\ At(st, rec.key) = {}
<1> DEFINE live == Read(st, rec.key)
           m    == MakeRoom(live)
           t    == Append(m, rec)
<1>1. Reserve(st, rec) = t
  BY DEF Reserve
<1>2. /\ StoreOK(live) /\ Elements(live) \subseteq Elements(st)
      /\ \A e \in Elements(st) : e \in Elements(live) \/ Expired(e)
      /\ Len(live) <= Len(st) /\ (Len(live) = Len(st) => live = st)
  BY SweptOK
<1>3. At(live, rec.key) = {}
  OBVIOUS
<1> HIDE DEF live
<1>4. /\ StoreOK(m) /\ Len(m) < MaxEntries /\ Elements(m) \subseteq Elements(live)
      /\ \A e \in Elements(live) :
            \/ e \in Elements(m) \/ Expired(e)
            \/ e = live[1] /\ Len(live) = MaxEntries
  BY <1>2, MakeRoomOK
<1> HIDE DEF m
<1>5. m \in Seq(StoreRecord) /\ KeysUnique(m) /\ Len(m) \in Nat /\ DOMAIN m = 1..Len(m)
  BY <1>4 DEF StoreOK
<1>6. /\ t \in Seq(StoreRecord) /\ Len(t) = Len(m) + 1
      /\ \A i \in 1..Len(m) : t[i] = m[i]
      /\ t[Len(m) + 1] = rec
  BY <1>5, AppendProperties
<1> HIDE DEF t
<1>7. DOMAIN t = 1..Len(m) + 1
  BY <1>5, <1>6
<1>8. \A i \in 1..Len(m) : t[i] \in Elements(st) /\ t[i].key # rec.key
  <2> TAKE i \in 1..Len(m)
  <2>1. t[i] \in Elements(live)
    BY <1>4, <1>5, <1>6 DEF Elements
  <2> QED
    BY <1>2, <1>3, <2>1 DEF At
<1>9. \A i \in 1..Len(m) + 1 : i \in 1..Len(m) \/ i = Len(m) + 1
  BY <1>5
<1>10. KeysUnique(t)
  <2> SUFFICES ASSUME NEW i \in 1..Len(m) + 1, NEW j \in 1..Len(m) + 1, t[i].key = t[j].key
               PROVE  i = j
    BY <1>7 DEF KeysUnique
  <2>1. CASE i \in 1..Len(m) /\ j \in 1..Len(m)
    BY <1>5, <1>6, <2>1 DEF KeysUnique
  <2>2. CASE i = Len(m) + 1 \/ j = Len(m) + 1
    BY <1>6, <1>8, <1>9, <2>2
  <2> QED
    BY <1>9, <2>1, <2>2
<1>11. \A f \in Elements(t) : f = rec \/ (f \in Elements(st) /\ f.key # rec.key)
  <2> TAKE f \in Elements(t)
  <2>1. PICK i \in 1..Len(m) + 1 : f = t[i]
    BY <1>7 DEF Elements
  <2> QED
    BY <1>6, <1>8, <1>9, <2>1
<1>12. Len(t) <= MaxEntries
  BY <1>4, <1>5, <1>6, IdempotencyConstants
<1>13. rec \in Elements(t) /\ Elements(m) \subseteq Elements(t)
  <2>1. Len(m) + 1 \in 1..Len(m) + 1 /\ 1..Len(m) \subseteq 1..Len(m) + 1
    BY <1>5
  <2> QED
    BY <1>5, <1>6, <1>7, <2>1 DEF Elements
<1>14. Len(live) = MaxEntries => live = st
  <2>1. Len(st) \in Nat /\ Len(st) <= MaxEntries /\ MaxEntries \in Nat
    BY IdempotencyConstants DEF StoreOK
  <2>2. Len(live) = MaxEntries => Len(live) = Len(st)
    BY <1>2, <2>1
  <2> QED
    BY <1>2, <2>2
<1>15. ASSUME NEW e \in Elements(st)
       PROVE  \/ e \in Elements(t) \/ Expired(e)
              \/ e = st[1] /\ Len(st) = MaxEntries /\ At(st, rec.key) = {}
  BY <1>2, <1>3, <1>4, <1>13, <1>14
<1> QED
  BY <1>1, <1>6, <1>10, <1>11, <1>12, <1>13, <1>15 DEF StoreOK

\* complete, by the owner of the record or under a free key
LEMMA CompleteOK ==
    ASSUME NEW st, StoreOK(st), NEW rec \in StoreRecord
    PROVE  /\ StoreOK(Complete(st, rec))
           /\ \A f \in Elements(Complete(st, rec)) :
                 f = rec \/ (f \in Elements(st) /\ (f.key # rec.key \/ f.owner # rec.owner))
           /\ \A e \in Elements(st) :
                 \/ e \in Elements(Complete(st, rec)) \/ Expired(e)
                 \/ /\ e = st[1] /\ Len(st) = MaxEntries
                    /\ At(st, rec.key) = {} /\ rec \in Elements(Complete(st, rec))
                 \/ e.owner = rec.owner /\ e.key = rec.key /\ rec \in Elements(Complete(st, rec))
<1>1. CASE At(st, rec.key) = {}
  <2>1. At(Read(st, rec.key), rec.key) = {}
    <3>1. Elements(Read(st, rec.key)) \subseteq Elements(st)
      BY SweptOK
    <3> QED
      BY <1>1, <3>1 DEF At
  <2>2. Complete(st, rec) = Reserve(st, rec)
    BY <1>1 DEF Complete
  <2> QED
    BY <1>1, <2>1, <2>2, ReserveOK
<1>2. CASE At(st, rec.key) # {}
  <2> DEFINE t == [i \in DOMAIN st |-> IF st[i].key = rec.key /\ st[i].owner = rec.owner
                                       THEN rec ELSE st[i]]
  <2>1. Complete(st, rec) = t
    BY <1>2 DEF Complete
  <2>2. st \in Seq(StoreRecord) /\ Len(st) <= MaxEntries /\ KeysUnique(st) /\ Len(st) \in Nat
        /\ DOMAIN st = 1..Len(st)
    BY DEF StoreOK
  <2>3. \A i \in 1..Len(st) : t[i] \in StoreRecord /\ t[i].key = st[i].key
    BY <2>2
  <2>4. t \in Seq(StoreRecord) /\ Len(t) = Len(st) /\ DOMAIN t = 1..Len(st)
    BY <2>2, <2>3, IsASeq
  <2>5. \A i \in 1..Len(st) : t[i] = IF st[i].key = rec.key /\ st[i].owner = rec.owner
                                     THEN rec ELSE st[i]
    BY <2>2
  <2> HIDE DEF t
  <2>6. KeysUnique(t)
    BY <2>2, <2>3, <2>4 DEF KeysUnique
  <2>7. \A f \in Elements(t) :
           f = rec \/ (f \in Elements(st) /\ (f.key # rec.key \/ f.owner # rec.owner))
    <3> TAKE f \in Elements(t)
    <3>1. PICK i \in 1..Len(st) : f = t[i]
      BY <2>4 DEF Elements
    <3>2. st[i] \in Elements(st)
      BY <2>2 DEF Elements
    <3> QED
      BY <2>5, <3>1, <3>2
  <2>8. \A e \in Elements(st) :
           \/ e \in Elements(t)
           \/ e.owner = rec.owner /\ e.key = rec.key /\ rec \in Elements(t)
    <3> TAKE e \in Elements(st)
    <3>1. PICK i \in 1..Len(st) : e = st[i]
      BY <2>2 DEF Elements
    <3>2. t[i] \in Elements(t)
      BY <2>4 DEF Elements
    <3> QED
      BY <2>5, <3>1, <3>2
  <2> QED
    BY <2>1, <2>2, <2>4, <2>6, <2>7, <2>8 DEF StoreOK
<1> QED
  BY <1>1, <1>2

LEMMA ReleaseOK ==
    ASSUME NEW st, StoreOK(st), NEW k, NEW r
    PROVE  /\ StoreOK(ReleaseIfToken(st, k, r))
           /\ Elements(ReleaseIfToken(st, k, r)) = {e \in Elements(st) : e.key # k \/ e.owner # r}
<1> DEFINE I == {i \in DOMAIN st : st[i].key # k \/ st[i].owner # r}
<1>1. StoreOK(Kept(st, I)) /\ Elements(Kept(st, I)) = {st[i] : i \in I}
  BY KeptStore
<1> QED
  BY <1>1 DEF ReleaseIfToken, Elements

-----------------------------------------------------------------------------
(***************************************************************************)
(* What a step of r is to the others.                                      *)
(***************************************************************************)
\* The record e goes for a reason that RecordStands allows.
MayGo(e, r, rec) ==
    \/ Expired(e)
    \/ e = store[1] /\ Len(store) = MaxEntries /\ Admitted
    \/ e.status = "in-flight" /\ e.owner = r /\ rec # reqs[r]

\* Between the two states of r, a reservation is given up in one of the two ways
\* that ReservationAttended knows.
Forsakes(q, rec) == (q.pc = "capture" /\ rec.pc = "catch") \/ TooLate(q)

Moves(r, rec) ==
    /\ rec \in RequestRecord /\ rec.input = reqs[r].input /\ Local(rec)
    /\ reqs' = [reqs EXCEPT ![r] = rec] /\ UNCHANGED now
    /\ StoreOK(store') /\ lost \subseteq lost' /\ lost' \subseteq Requests
    /\ \A f \in Elements(store') : f \in Elements(store) \/ (f.owner = r /\ f.key = KeyOf(r))
    /\ \A f \in Elements(store') : f.owner = r => Accounts(r, rec, f)
    /\ \A e \in Elements(store) : e.owner # r => e.owner \in lost' \/ e.owner \in Owners(store')
    /\ Runs(rec) => r \in lost' \/ r \in Owners(store')
    /\ \A e \in Elements(store) : e \in Elements(store') \/ MayGo(e, r, rec)
    /\ \A f \in Elements(store') :
          f.owner = r /\ f.status = "in-flight" =>
              \/ Attended(rec) \/ Forsakes(reqs[r], rec)
              \/ f \in Elements(store) /\ ~Attended(reqs[r])

\* What the invariant says, to cite
LEMMA Facts ==
    ASSUME IdemInv
    PROVE  /\ now \in Nat /\ now + Ttl \in Nat /\ StoreOK(store) /\ lost \subseteq Requests
           /\ reqs \in [Requests -> RequestRecord]
           /\ \A r \in Requests : Local(reqs[r]) /\ reqs[r] \in RequestRecord /\ KeyOf(r) \in Keys
           /\ \A e \in Elements(store) :
                 /\ e \in StoreRecord /\ e.owner \in Requests /\ e.key = KeyOf(e.owner)
                 /\ Accounts(e.owner, reqs[e.owner], e)
<1>1. /\ now \in 0..MaxNow /\ lost \subseteq Requests /\ store \in Seq(StoreRecord)
      /\ reqs \in [Requests -> RequestRecord] /\ StoreOK(store)
  BY DEF IdemInv, IdempotencyTypeOK, StoreOK, KeysUnique
<1>2. now \in Nat /\ now + Ttl \in Nat
  BY <1>1, IdempotencyConstants
<1>3. \A r \in Requests : Local(reqs[r]) /\ reqs[r] \in RequestRecord
  BY <1>1 DEF IdemInv
<1>4. \A r \in Requests : KeyOf(r) \in Keys
  BY <1>3 DEF KeyOf, RequestRecord
<1>5. \A e \in Elements(store) : e \in StoreRecord
  BY <1>1 DEF Elements
<1>6. \A e \in Elements(store) : e.owner \in Requests
  BY <1>5 DEF StoreRecord
<1> QED
  BY <1>1, <1>2, <1>3, <1>4, <1>5, <1>6 DEF IdemInv, Stored

LEMMA MovesInv ==
    ASSUME IdemInv, NEW r \in Requests, NEW rec, Moves(r, rec)
    PROVE  IdemInv'
<1>1. /\ StoreOK(store) /\ reqs \in [Requests -> RequestRecord]
      /\ \A s \in Requests : Local(reqs[s])
      /\ \A e \in Elements(store) :
            e.owner \in Requests /\ e.key = KeyOf(e.owner) /\ Accounts(e.owner, reqs[e.owner], e)
  BY Facts
<1>2. /\ rec \in RequestRecord /\ rec.input = reqs[r].input /\ Local(rec)
      /\ reqs' = [reqs EXCEPT ![r] = rec] /\ StoreOK(store')
  BY DEF Moves
<1>3. \A s \in Requests : reqs'[s] = IF s = r THEN rec ELSE reqs[s]
  BY <1>1, <1>2
<1>4. \A s \in Requests : KeyOf(s)' = KeyOf(s)
  BY <1>2, <1>3 DEF KeyOf
<1>5. IdempotencyTypeOK'
  <2>1. reqs' \in [Requests -> RequestRecord]
    BY <1>1, <1>2
  <2>2. now' \in 0..MaxNow /\ lost' \subseteq Requests
    BY DEF Moves, IdemInv, IdempotencyTypeOK
  <2> QED
    BY <1>2, <2>1, <2>2 DEF IdempotencyTypeOK, StoreOK, KeysUnique
<1>6. ASSUME NEW f \in Elements(store')
      PROVE  f.key = KeyOf(f.owner)' /\ Accounts(f.owner, reqs'[f.owner], f)
  <2>1. f \in Elements(store) \/ (f.owner = r /\ f.key = KeyOf(r))
    BY DEF Moves
  <2>2. f.owner \in Requests /\ f.key = KeyOf(f.owner)
    BY <1>1, <2>1
  <2>3. CASE f.owner = r
    <3>1. Accounts(r, rec, f)
      BY <2>3 DEF Moves
    <3> QED
      BY <1>3, <1>4, <2>2, <2>3, <3>1
  <2>4. CASE f.owner # r
    BY <1>1, <1>3, <1>4, <2>1, <2>2, <2>4
  <2> QED
    BY <2>3, <2>4
<1>7. Stored'
  BY <1>6 DEF Stored, Accounts, Doing, Elements
<1>8. ASSUME NEW s \in Requests, Runs(reqs'[s])
      PROVE  s \in lost' \/ s \in Owners(store')
  <2>1. CASE s = r
    BY <1>3, <1>8, <2>1 DEF Moves
  <2>2. CASE s # r
    <3>1. s \in lost \/ s \in Owners(store)
      BY <1>3, <1>8, <2>2 DEF IdemInv, Guarded
    <3>2. s \in Owners(store) => \E e \in Elements(store) : e.owner = s
      BY DEF Owners
    <3> QED
      BY <2>2, <3>1, <3>2 DEF Moves
  <2> QED
    BY <2>1, <2>2
<1>9. Guarded'
  BY <1>8 DEF Guarded, Runs, Doing, Owners, Elements
<1>10. \A s \in Requests : Local(reqs'[s])
  BY <1>1, <1>2, <1>3
<1> QED
  BY <1>5, <1>7, <1>9, <1>10 DEF IdemInv, Local, Doing

LEMMA MovesStands ==
    ASSUME IdemInv, NEW r \in Requests, NEW rec, Moves(r, rec), NEW e \in Elements(store)
    PROVE  \/ e \in Elements(store')
           \/ Expired(e)
           \/ e = store[1] /\ Len(store) = MaxEntries /\ Admitted
           \/ e.status = "in-flight" /\ reqs'[e.owner] # reqs[e.owner]
<1>1. reqs'[r] = rec
  BY Facts DEF Moves
<1> QED
  BY <1>1 DEF Moves, MayGo

LEMMA MovesAttend ==
    ASSUME IdemInv, NEW s \in Requests, NEW rec, Moves(s, rec), NEW r \in Requests,
           Blocks(r)', ~Attended(reqs'[r])
    PROVE  BodyFails(r) \/ TooLate(reqs[r]) \/ (Blocks(r) /\ ~Attended(reqs[r]))
<1>1. reqs' = [reqs EXCEPT ![s] = rec] /\ reqs \in [Requests -> RequestRecord]
  BY Facts DEF Moves
<1>2. PICK f \in Elements(store') : f.owner = r /\ f.status = "in-flight"
  BY DEF Blocks, Elements
<1>3. f \in Elements(store) => Blocks(r)
  BY <1>2 DEF Blocks
<1>4. CASE r = s
  <2>1. reqs'[r] = rec
    BY <1>1, <1>4
  <2>2. \/ Attended(rec) \/ Forsakes(reqs[r], rec)
        \/ f \in Elements(store) /\ ~Attended(reqs[r])
    BY <1>2, <1>4 DEF Moves
  <2> QED
    BY <1>3, <2>1, <2>2 DEF Forsakes, BodyFails
<1>5. CASE r # s
  <2>1. reqs'[r] = reqs[r]
    BY <1>1, <1>5
  <2>2. f \in Elements(store)
    BY <1>2, <1>5 DEF Moves
  <2> QED
    BY <1>3, <2>1, <2>2
<1> QED
  BY <1>4, <1>5

-----------------------------------------------------------------------------
(***************************************************************************)
(* The three ways to take such a step.                                     *)
(***************************************************************************)
\* The store is left alone.
LEMMA OnlyMoves ==
    ASSUME IdemInv, NEW r \in Requests, NEW rec \in RequestRecord, Only(r, rec),
           rec.input = reqs[r].input, Local(rec), Runs(rec) => Runs(reqs[r]),
           Attended(reqs[r]) => Attended(rec) \/ Forsakes(reqs[r], rec),
           \A e \in Elements(store) : e.owner = r => Accounts(r, rec, e)
    PROVE  Moves(r, rec)
<1>1. StoreOK(store) /\ lost \subseteq Requests
  BY Facts
<1>2. reqs' = [reqs EXCEPT ![r] = rec] /\ UNCHANGED <<now, store, lost>>
  BY DEF Only, Becomes
<1>3. \A f \in Elements(store') : f \in Elements(store)
  BY <1>2
<1>4. Runs(rec) => r \in lost' \/ r \in Owners(store')
  BY <1>2 DEF IdemInv, Guarded
<1>5. \A e \in Elements(store) : e \in Elements(store') /\ e.owner \in Owners(store')
  BY <1>2 DEF Owners
<1> QED
  BY <1>1, <1>2, <1>3, <1>4, <1>5 DEF Moves

\* The records of r say of rec what they said of r.
LEMMA StillAccounts ==
    ASSUME IdemInv, NEW r \in Requests, NEW rec,
           Doing(rec, "print") => Doing(reqs[r], "print"), rec.pending = reqs[r].pending,
           \/ rec.pc \in Reading <=> reqs[r].pc \in Reading
           \/ rec.pc \notin Reading /\ r \in Torn
    PROVE  \A e \in Elements(store) : e.owner = r => Accounts(r, rec, e)
<1>1. \A e \in Elements(store) : e.owner = r => Accounts(r, reqs[r], e)
  BY Facts
<1> QED
  BY <1>1 DEF Accounts

\* The records of a request that has consumed its reservation.
LEMMA OwnInFlight ==
    ASSUME IdemInv, NEW r \in Requests, reqs[r].pending \/ reqs[r].pc \in Reading
    PROVE  \A e \in Elements(store) : e.owner = r => e.status = "in-flight"
<1>1. \A e \in Elements(store) : e.owner = r => Accounts(r, reqs[r], e) /\ e \in StoreRecord
  BY Facts
<1> QED
  BY <1>1 DEF Accounts, StoreRecord

\* The reservation is released.
LEMMA ReleasesMoves ==
    ASSUME IdemInv, NEW r \in Requests, NEW rec \in RequestRecord, Releases(r, rec),
           rec.input = reqs[r].input, Local(rec), ~Runs(rec), rec # reqs[r],
           reqs[r].pending \/ reqs[r].pc \in Reading
    PROVE  Moves(r, rec)
<1>1. /\ StoreOK(store) /\ lost \subseteq Requests
      /\ \A e \in Elements(store) :
            /\ e \in StoreRecord /\ e.key = KeyOf(e.owner)
            /\ Accounts(e.owner, reqs[e.owner], e)
  BY Facts
<1>2. /\ reqs' = [reqs EXCEPT ![r] = rec] /\ UNCHANGED <<now, lost>>
      /\ store' = ReleaseIfToken(store, KeyOf(r), r)
  BY DEF Releases, Becomes
<1>3. /\ StoreOK(store')
      /\ Elements(store') = {e \in Elements(store) : e.key # KeyOf(r) \/ e.owner # r}
  BY <1>1, <1>2, ReleaseOK
<1>4. \A e \in Elements(store) : e \in Elements(store') <=> e.owner # r
  BY <1>1, <1>3
<1>5. \A f \in Elements(store') : f \in Elements(store) /\ f.owner # r
  BY <1>3, <1>4
<1>6. \A e \in Elements(store) : e.owner # r => e.owner \in Owners(store')
  BY <1>4 DEF Owners
<1>7. \A e \in Elements(store) : e.owner = r => e.status = "in-flight"
  BY <1>1 DEF Accounts, StoreRecord
<1>8. \A e \in Elements(store) : e \in Elements(store') \/ MayGo(e, r, rec)
  BY <1>4, <1>7 DEF MayGo
<1> QED
  BY <1>1, <1>2, <1>3, <1>5, <1>6, <1>8 DEF Moves

\* What r writes
LEMMA RecordOfOK ==
    ASSUME IdemInv, NEW r \in Requests, NEW status \in {"in-flight", "completed"}
    PROVE  /\ RecordOf(r, status) \in StoreRecord /\ RecordOf(r, status).key = KeyOf(r)
           /\ RecordOf(r, status).owner = r /\ RecordOf(r, status).status = status
<1>1. now + Ttl \in Nat /\ reqs[r].input[2] \in Prints /\ KeyOf(r) \in Keys
  BY Facts DEF RequestRecord
<1> QED
  BY <1>1 DEF RecordOf, StoreRecord

\* The key is reserved.
LEMMA ReserveMoves ==
    ASSUME IdemInv, NEW r \in Requests, NEW rec \in RequestRecord,
           At(Read(store, KeyOf(r)), KeyOf(r)) = {},
           Puts(r, rec, Reserve(store, RecordOf(r, "in-flight"))),
           rec.input = reqs[r].input, Local(rec), rec.pending, ~Doing(rec, "print"),
           Attended(rec) \/ TooLate(reqs[r])
    PROVE  Moves(r, rec)
<1> DEFINE mine == RecordOf(r, "in-flight")
<1>1. /\ StoreOK(store) /\ lost \subseteq Requests
      /\ \A e \in Elements(store) : e.owner \in Requests /\ e.key = KeyOf(e.owner)
  BY Facts
<1>2. /\ mine \in StoreRecord /\ mine.key = KeyOf(r) /\ mine.owner = r
      /\ mine.status = "in-flight"
  BY RecordOfOK
<1>3. /\ reqs' = [reqs EXCEPT ![r] = rec] /\ UNCHANGED now /\ store' = Reserve(store, mine)
      /\ lost' = lost \cup (Owners(store) \ Owners(store'))
  BY DEF Puts, Becomes
<1> HIDE DEF mine
<1>4. /\ StoreOK(store') /\ mine \in Elements(store')
      /\ \A f \in Elements(store') : f = mine \/ (f \in Elements(store) /\ f.key # KeyOf(r))
      /\ \A e \in Elements(store) :
            \/ e \in Elements(store') \/ Expired(e)
            \/ e = store[1] /\ Len(store) = MaxEntries /\ At(store, KeyOf(r)) = {}
  BY <1>1, <1>2, <1>3, ReserveOK
<1>5. \A f \in Elements(store') : f.owner = r => f = mine
  BY <1>1, <1>4
<1>6. \A f \in Elements(store') : f.owner = r => Accounts(r, rec, f)
  BY <1>2, <1>5 DEF Accounts
<1>7. \A e \in Elements(store) : e.owner \in lost' \/ e.owner \in Owners(store')
  BY <1>3 DEF Owners
<1>8. r \in Owners(store')
  BY <1>2, <1>4 DEF Owners
<1>9. \A e \in Elements(store) : e \in Elements(store') \/ MayGo(e, r, rec)
  BY <1>2, <1>4 DEF MayGo, Admitted
<1>10. lost \subseteq lost' /\ lost' \subseteq Requests
  BY <1>1, <1>3 DEF Owners
<1>11. \A f \in Elements(store') : f \in Elements(store) \/ (f.owner = r /\ f.key = KeyOf(r))
  BY <1>2, <1>4
<1> QED
  BY <1>3, <1>4, <1>6, <1>7, <1>8, <1>9, <1>10, <1>11 DEF Moves, Forsakes

\* The response is stored.
LEMMA CompleteMoves ==
    ASSUME IdemInv, NEW r \in Requests, NEW rec \in RequestRecord, reqs[r].pc \in Reading,
           Puts(r, rec, Complete(store, RecordOf(r, "completed"))),
           rec.input = reqs[r].input, Local(rec), ~rec.pending, rec.pc \notin Reading,
           ~Doing(rec, "print"), Runs(rec) => Runs(reqs[r])
    PROVE  Moves(r, rec)
<1> DEFINE mine == RecordOf(r, "completed")
<1>1. /\ StoreOK(store) /\ lost \subseteq Requests
      /\ \A e \in Elements(store) :
            /\ e \in StoreRecord /\ e.owner \in Requests /\ e.key = KeyOf(e.owner)
            /\ Accounts(e.owner, reqs[e.owner], e)
  BY Facts
<1>2. /\ mine \in StoreRecord /\ mine.key = KeyOf(r) /\ mine.owner = r
      /\ mine.status = "completed"
  BY RecordOfOK
<1>3. /\ reqs' = [reqs EXCEPT ![r] = rec] /\ UNCHANGED now /\ store' = Complete(store, mine)
      /\ lost' = lost \cup (Owners(store) \ Owners(store'))
  BY DEF Puts, Becomes
<1> HIDE DEF mine
<1>4. /\ StoreOK(store')
      /\ \A f \in Elements(store') :
            f = mine \/ (f \in Elements(store) /\ (f.key # KeyOf(r) \/ f.owner # r))
      /\ \A e \in Elements(store) :
            \/ e \in Elements(store') \/ Expired(e)
            \/ /\ e = store[1] /\ Len(store) = MaxEntries
               /\ At(store, KeyOf(r)) = {} /\ mine \in Elements(store')
            \/ e.owner = r /\ e.key = KeyOf(r)
  <2>1. StoreOK(store)
    BY <1>1
  <2> QED
    BY <1>2, <1>3, <2>1, CompleteOK
<1>5. \A f \in Elements(store') : f.owner = r => f = mine
  BY <1>1, <1>4
<1>6. \A f \in Elements(store') : f.owner = r => Accounts(r, rec, f)
  BY <1>2, <1>5 DEF Accounts
<1>7. \A e \in Elements(store) : e.owner \in lost' \/ e.owner \in Owners(store')
  BY <1>3 DEF Owners
<1>8. Runs(rec) => r \in lost' \/ r \in Owners(store')
  <2>1. Runs(rec) => r \in lost \/ r \in Owners(store)
    BY DEF IdemInv, Guarded
  <2> QED
    BY <1>3, <2>1
<1>9. \A e \in Elements(store) : e.owner = r => e.status = "in-flight"
  BY <1>1 DEF Accounts, StoreRecord
<1>10. rec # reqs[r]
  OBVIOUS
<1>11. \A e \in Elements(store) : e \in Elements(store') \/ MayGo(e, r, rec)
  BY <1>2, <1>4, <1>9, <1>10 DEF MayGo, Admitted
<1>12. lost \subseteq lost' /\ lost' \subseteq Requests
  BY <1>1, <1>3 DEF Owners
<1>13. \A f \in Elements(store') : f \in Elements(store) \/ (f.owner = r /\ f.key = KeyOf(r))
  BY <1>2, <1>4
<1>14. \A f \in Elements(store') : f.owner = r => f.status # "in-flight"
  BY <1>2, <1>5
<1> QED
  BY <1>3, <1>4, <1>6, <1>7, <1>8, <1>11, <1>12, <1>13, <1>14 DEF Moves

-----------------------------------------------------------------------------
(***************************************************************************)
(* Steps that several actions share.                                       *)
(***************************************************************************)
LEMMA GoesMoves ==
    ASSUME IdemInv, NEW r \in Requests, NEW pc, Goes(r, pc),
           \/ pc = "handler" /\ reqs[r].pc = "rest"
           \/ pc = "send" /\ reqs[r].pc \in Raced
           \/ pc = "catch" /\ reqs[r].pc \in InTry
           \/ pc = "over" /\ reqs[r].pc = "errorSend",
           reqs[r].pc \in Reading => r \in Torn
    PROVE  \E rec : Moves(r, rec)
<1> DEFINE q   == reqs[r]
           new == [q EXCEPT !.pc = pc]
<1>1. q \in RequestRecord /\ Local(q)
  BY Facts
<1>2. /\ new \in RequestRecord /\ new.pc = pc /\ new.input = q.input /\ new.pending = q.pending
      /\ new.fin = q.fin /\ new.step = q.step /\ new.abandoned = q.abandoned
      /\ new.deferred = q.deferred
  BY <1>1 DEF RequestRecord, InTry, Raced
<1>3. Only(r, new)
  BY DEF Goes
<1> HIDE DEF new
<1>4. Local(new)
  BY <1>1, <1>2 DEF Local, Doing, Leaving, Reading, InTry, Raced
<1>5. (Runs(new) => Runs(q)) /\ (Doing(new, "print") => Doing(q, "print"))
  BY <1>1, <1>2 DEF Runs, Doing
<1>6. \A e \in Elements(store) : e.owner = r => Accounts(r, new, e)
  BY <1>2, <1>5, StillAccounts DEF Reading, InTry, Raced
<1>7. Attended(q) => Attended(new) \/ Forsakes(q, new)
  BY <1>2 DEF Attended, Forsakes, InTry, Raced
<1>8. Moves(r, new)
  BY <1>2, <1>3, <1>4, <1>5, <1>6, <1>7, OnlyMoves
<1> QED
  BY <1>8

\* runRequestFinalizers; rec is on the way out of dispatch.
LEMMA FinalizeMoves ==
    ASSUME IdemInv, NEW r \in Requests, NEW rec \in RequestRecord, Finalize(r, rec),
           rec.input = reqs[r].input, rec.fin = reqs[r].fin, rec.pending => reqs[r].pending,
           rec.pc \in Leaving, ~rec.abandoned => rec.step = "none" /\ rec.deferred = "no",
           Attended(reqs[r]) => rec.pending \/ rec.pc \in Reading,
           rec.pc \in Reading => rec.step # "print" /\ ~rec.pending,
           \A e \in Elements(store) : e.owner = r => Accounts(r, rec, e)
    PROVE  \E new : Moves(r, new)
<1> DEFINE p   == rec.pending /\ ~rec.fin
           d   == IF rec.abandoned THEN "done" ELSE rec.deferred
           new == [rec EXCEPT !.fin = FALSE, !.pending = p, !.deferred = d]
<1>1. Local(reqs[r])
  BY Facts
<1>2. Finalized(rec) = new
  BY DEF Finalized, RequestRecord
<1>3. d \in {"no", "waiting", "done"} /\ (rec.abandoned => d = "done") /\ (~rec.abandoned => d = "no")
  BY DEF RequestRecord
<1>4. p = FALSE
  BY <1>1 DEF Local
<1> HIDE DEF p, d
<1>5. /\ new \in RequestRecord /\ new.pc = rec.pc /\ new.input = rec.input
      /\ new.pending = FALSE /\ new.fin = FALSE /\ new.step = rec.step
      /\ new.abandoned = rec.abandoned /\ new.deferred = d
  BY <1>3, <1>4 DEF RequestRecord
<1> HIDE DEF new
<1>6. Local(new)
  BY <1>3, <1>5 DEF Local, Doing, Leaving, Reading, InTry, Raced
<1>7. ~Runs(new)
  BY <1>3, <1>5 DEF Runs, Doing, Leaving
<1>8. CASE Orphaned(rec)
  <2>1. Releases(r, new) /\ rec.fin /\ rec.pending
    BY <1>2, <1>8 DEF Finalize, Orphaned
  <2>2. new # reqs[r] /\ reqs[r].pending
    BY <1>5, <2>1
  <2>3. Moves(r, new)
    BY <1>5, <1>6, <1>7, <2>1, <2>2, ReleasesMoves
  <2> QED
    BY <2>3
<1>9. CASE ~Orphaned(rec)
  <2>1. Only(r, new)
    BY <1>2, <1>9 DEF Finalize
  <2>2. ~rec.pending
    BY <1>1, <1>9 DEF Orphaned, Local
  <2>3. \A e \in Elements(store) : e.owner = r => Accounts(r, new, e)
    BY <1>5, <2>2 DEF Accounts, Doing
  <2>4. Attended(reqs[r]) => Attended(new)
    BY <1>5, <2>2 DEF Attended, Reading
  <2>5. Moves(r, new)
    BY <1>5, <1>6, <1>7, <2>1, <2>3, <2>4, OnlyMoves
  <2> QED
    BY <2>5
<1> QED
  BY <1>8, <1>9

\* The finally block; rec is behind the try or the catch block.
LEMMA FinallyMoves ==
    ASSUME IdemInv, NEW r \in Requests, NEW rec \in RequestRecord, Finally(r, rec),
           reqs[r].pc \in {"flush", "catch"}, rec.pc \in Leaving,
           rec.input = reqs[r].input, rec.fin = reqs[r].fin, rec.pending => reqs[r].pending,
           rec.abandoned = reqs[r].abandoned, rec.step = reqs[r].step,
           rec.deferred = reqs[r].deferred,
           Attended(reqs[r]) => rec.pending \/ rec.pc \in Reading,
           rec.pc \in Reading => rec.step # "print" /\ ~rec.pending,
           \A e \in Elements(store) : e.owner = r => Accounts(r, rec, e)
    PROVE  \E new : Moves(r, new)
<1> DEFINE q == reqs[r]
<1>1. Local(q) /\ q.deferred = "no"
  BY Facts DEF Local, Leaving
<1>2. CASE rec.step # "none"
  <2> DEFINE new == [rec EXCEPT !.deferred = "waiting"]
  <2>1. /\ new \in RequestRecord /\ new.pc = rec.pc /\ new.input = rec.input
        /\ new.pending = rec.pending /\ new.fin = rec.fin /\ new.step = rec.step
        /\ new.abandoned = rec.abandoned /\ new.deferred = "waiting"
    BY DEF RequestRecord
  <2>2. Only(r, new)
    BY <1>2 DEF Finally
  <2> HIDE DEF new
  <2>3. Local(new)
    BY <1>1, <1>2, <2>1 DEF Local, Doing, Leaving, Reading, InTry, Raced
  <2>4. Runs(new) => Runs(q)
    BY <1>1, <2>1 DEF Runs, Doing, Leaving
  <2>5. \A e \in Elements(store) : e.owner = r => Accounts(r, new, e)
    BY <2>1 DEF Accounts, Doing
  <2>6. Attended(q) => Attended(new)
    BY <1>1, <2>1 DEF Attended, Reading, Local
  <2>7. Moves(r, new)
    BY <2>1, <2>2, <2>3, <2>4, <2>5, <2>6, OnlyMoves
  <2> QED
    BY <2>7
<1>3. CASE rec.step = "none"
  <2>1. Finalize(r, rec)
    BY <1>3 DEF Finally
  <2> QED
    BY <1>1, <1>3, <2>1, FinalizeMoves
<1> QED
  BY <1>2, <1>3

LEMMA StepOverMoves ==
    ASSUME IdemInv, NEW r \in Requests, reqs[r].abandoned, StepOver(r)
    PROVE  \E new : Moves(r, new)
<1> DEFINE q   == reqs[r]
           rec == [q EXCEPT !.step = "none"]
<1>1. q \in RequestRecord /\ Local(q)
  BY Facts
<1>2. /\ rec \in RequestRecord /\ rec.pc = q.pc /\ rec.input = q.input /\ rec.pending = q.pending
      /\ rec.fin = q.fin /\ rec.step = "none" /\ rec.abandoned = q.abandoned
      /\ rec.deferred = q.deferred
  BY <1>1 DEF RequestRecord
<1>3. IF rec.deferred = "waiting" THEN Finalize(r, rec) ELSE Only(r, rec)
  BY DEF StepOver
<1> HIDE DEF rec
<1>4. (Doing(rec, "print") => Doing(q, "print")) /\ (Runs(rec) => Runs(q))
  BY <1>2 DEF Doing, Runs
<1>5. \A e \in Elements(store) : e.owner = r => Accounts(r, rec, e)
  BY <1>2, <1>4, StillAccounts
<1>6. CASE rec.deferred = "waiting"
  <2>1. /\ rec.pc \in Leaving /\ (rec.pc \in Reading => ~rec.pending)
        /\ Attended(q) => rec.pending \/ rec.pc \in Reading
    BY <1>1, <1>2, <1>6 DEF Local, Attended, Reading
  <2> QED
    BY <1>2, <1>3, <1>5, <1>6, <2>1, FinalizeMoves
<1>7. CASE rec.deferred # "waiting"
  <2>1. Local(rec)
    BY <1>1, <1>2, <1>7 DEF Local, Doing, Leaving, Reading, InTry, Raced
  <2>2. Attended(q) => Attended(rec)
    BY <1>2 DEF Attended
  <2>3. Moves(r, rec)
    BY <1>2, <1>3, <1>4, <1>5, <1>7, <2>1, <2>2, OnlyMoves
  <2> QED
    BY <2>3
<1> QED
  BY <1>6, <1>7

\* A request that was not abandoned is where its raced step is.
LEMMA DoingFacts ==
    ASSUME IdemInv, NEW r \in Requests, NEW loc \in Raced, Doing(reqs[r], loc)
    PROVE  IF reqs[r].abandoned THEN reqs[r].step = loc /\ reqs[r].pc \notin InTry
           ELSE reqs[r].pc = loc
<1>1. Local(reqs[r])
  BY Facts
<1> QED
  BY <1>1 DEF Local, Doing, InTry, Raced

-----------------------------------------------------------------------------
(***************************************************************************)
(* The raced steps, the deadline and the grace window.                     *)
(***************************************************************************)
LEMMA SettlesMoves ==
    ASSUME IdemInv, NEW r \in Requests, NEW pc \in {"send", "catch"}, Doing(reqs[r], "print"),
           Settles(r, pc)
    PROVE  \E new : Moves(r, new)
<1>1. CASE reqs[r].abandoned
  BY <1>1, StepOverMoves DEF Settles
<1>2. CASE ~reqs[r].abandoned
  <2>1. reqs[r].pc = "print"
    BY <1>2, DoingFacts DEF Raced
  <2> QED
    BY <1>2, <2>1, GoesMoves DEF Settles, Raced, InTry, Reading
<1> QED
  BY <1>1, <1>2

LEMMA BeforeHandleMoves ==
    ASSUME IdemInv, NEW r \in Requests, BeforeHandle(r)
    PROVE  \E new : Moves(r, new)
<1> DEFINE q     == reqs[r]
           taken == [q EXCEPT !.pending = TRUE, !.fin = TRUE]
           new   == Continues(taken, "rest")
<1>1. q \in RequestRecord /\ Local(q) /\ Doing(q, "print")
  BY Facts DEF BeforeHandle
<1>2. CASE \E pc \in {"send", "catch"} : Settles(r, pc)
  BY <1>1, <1>2, SettlesMoves
<1>3. CASE /\ At(Read(store, KeyOf(r)), KeyOf(r)) = {}
           /\ Puts(r, new, Reserve(store, RecordOf(r, "in-flight")))
  <2>1. /\ taken \in RequestRecord /\ taken.pc = q.pc /\ taken.input = q.input
        /\ taken.pending = TRUE /\ taken.fin = TRUE /\ taken.step = q.step
        /\ taken.abandoned = q.abandoned /\ taken.deferred = q.deferred
    BY <1>1 DEF RequestRecord
  <2> HIDE DEF taken
  <2>2. /\ new \in RequestRecord /\ new.input = q.input /\ new.pending = TRUE /\ new.fin = TRUE
        /\ new.abandoned = q.abandoned /\ new.deferred = q.deferred
        /\ new.pc = (IF q.abandoned THEN q.pc ELSE "rest")
        /\ new.step = (IF q.abandoned THEN "rest" ELSE q.step)
    <3>1. CASE q.abandoned
      <4>1. new = [taken EXCEPT !.step = "rest"]
        BY <2>1, <3>1 DEF Continues
      <4> QED
        BY <2>1, <3>1, <4>1 DEF RequestRecord, Raced
    <3>2. CASE ~q.abandoned
      <4>1. new = [taken EXCEPT !.pc = "rest"]
        BY <2>1, <3>2 DEF Continues
      <4> QED
        BY <2>1, <3>2, <4>1 DEF RequestRecord, InTry, Raced
    <3> QED
      BY <3>1, <3>2
  <2> HIDE DEF new
  <2>3. IF q.abandoned THEN q.step = "print" /\ q.pc \notin InTry ELSE q.pc = "print"
    BY <1>1, DoingFacts DEF Raced
  <2>4. ~Doing(new, "print")
    BY <1>1, <2>2, <2>3 DEF Doing, Local, InTry, Raced
  <2>5. Local(new)
    BY <1>1, <2>2, <2>3, <2>4 DEF Local, Doing, Leaving, Reading, InTry, Raced
  <2>6. Attended(new) \/ TooLate(q)
    BY <1>1, <2>2, <2>3 DEF Attended, TooLate, Local
  <2>7. Moves(r, new)
    BY <1>3, <2>2, <2>4, <2>5, <2>6, ReserveMoves
  <2> QED
    BY <2>7
<1>4. RecordOf(r, "in-flight").key = KeyOf(r)
  BY DEF RecordOf
<1> QED
  BY <1>2, <1>3, <1>4 DEF BeforeHandle

LEMMA RacedMoves ==
    ASSUME IdemInv, NEW r \in Requests, RacedStep(r)
    PROVE  \E new : Moves(r, new)
<1>1. CASE Refuse(r)
  BY <1>1, SettlesMoves DEF Refuse
<1>2. CASE BeforeHandle(r)
  BY <1>2, BeforeHandleMoves
<1>3. CASE Rest(r)
  <2>1. CASE ~reqs[r].abandoned
    <3>1. reqs[r].pc = "rest"
      BY <1>3, <2>1, DoingFacts DEF Rest, Raced
    <3> QED
      BY <1>3, <2>1, <3>1, GoesMoves DEF Rest, Raced, InTry, Reading
  <2>2. CASE reqs[r].abandoned
    BY <1>3, <2>2, StepOverMoves DEF Rest
  <2> QED
    BY <2>1, <2>2
<1>4. CASE Handler(r)
  <2>1. CASE ~reqs[r].abandoned
    <3>1. reqs[r].pc = "handler"
      BY <1>4, <2>1, DoingFacts DEF Handler, Raced
    <3> QED
      BY <1>4, <2>1, <3>1, GoesMoves DEF Handler, Raced, InTry, Reading
  <2>2. CASE reqs[r].abandoned
    BY <1>4, <2>2, StepOverMoves DEF Handler
  <2> QED
    BY <2>1, <2>2
<1> QED
  BY <1>1, <1>2, <1>3, <1>4 DEF RacedStep

LEMMA DeadlineMoves ==
    ASSUME IdemInv, NEW r \in Requests, Deadline(r)
    PROVE  \E new : Moves(r, new)
<1> DEFINE q   == reqs[r]
           loc == q.pc
           new == [q EXCEPT !.abandoned = TRUE, !.step = loc, !.pc = "catch"]
<1>1. q \in RequestRecord /\ Local(q) /\ loc \in Raced /\ loc = q.pc /\ Only(r, new)
  BY Facts DEF Deadline
<1> HIDE DEF loc
<1>2. /\ new \in RequestRecord /\ new.pc = "catch" /\ new.input = q.input
      /\ new.pending = q.pending /\ new.fin = q.fin /\ new.step = loc /\ new.abandoned = TRUE
      /\ new.deferred = q.deferred
  BY <1>1 DEF RequestRecord
<1> HIDE DEF new
<1>3. Local(new)
  BY <1>1, <1>2 DEF Local, Doing, Leaving, Reading, InTry, Raced
<1>4. (Runs(new) => Runs(q)) /\ (Doing(new, "print") => Doing(q, "print"))
  BY <1>1, <1>2 DEF Runs, Doing
<1>5. \A e \in Elements(store) : e.owner = r => Accounts(r, new, e)
  BY <1>1, <1>2, <1>4, StillAccounts DEF Reading, Raced
<1>6. Attended(q) => Attended(new)
  BY <1>1, <1>2 DEF Attended, Raced
<1>7. Moves(r, new)
  BY <1>1, <1>2, <1>3, <1>4, <1>5, <1>6, OnlyMoves
<1> QED
  BY <1>7

LEMMA GraceOverMoves ==
    ASSUME IdemInv, NEW r \in Requests, GraceOver(r)
    PROVE  \E new : Moves(r, new)
<1> DEFINE q == reqs[r]
<1>1. /\ q \in RequestRecord /\ Local(q) /\ q.deferred = "waiting" /\ q.step \in OutlivesGrace
      /\ Finalize(r, q)
  BY Facts DEF GraceOver, GraceArmed
<1>2. \A e \in Elements(store) : e.owner = r => Accounts(r, q, e)
  BY Facts
<1>3. /\ q.pc \in Leaving /\ (~q.abandoned => q.step = "none" /\ q.deferred = "no")
      /\ Attended(q) => q.pending \/ q.pc \in Reading
      /\ q.pc \in Reading => q.step # "print" /\ ~q.pending
  BY <1>1 DEF Local, Doing, Attended, Reading
<1> QED
  BY <1>1, <1>2, <1>3, FinalizeMoves

-----------------------------------------------------------------------------
(***************************************************************************)
(* onSend and the error path.                                              *)
(***************************************************************************)
\* What the hook makes of the request
LEMMA SentFacts ==
    ASSUME IdemInv, NEW r \in Requests, NEW res \in Responses,
           NEW capture \in Reading, NEW nx \in {"flush", "over"}
    PROVE  LET q   == reqs[r]
               new == Sent(q, res, capture, nx)
           IN  /\ new \in RequestRecord /\ new.input = q.input /\ new.fin = q.fin
               /\ new.step = q.step /\ new.abandoned = q.abandoned /\ new.deferred = q.deferred
               /\ \/ MustRelease(q, res) /\ ~Captures(q, res) /\ ~new.pending /\ new.pc = nx
                  \/ ~MustRelease(q, res) /\ Captures(q, res) /\ ~new.pending /\ new.pc = capture
                  \/ /\ ~MustRelease(q, res) /\ ~Captures(q, res)
                     /\ new.pending = q.pending /\ new.pc = nx
<1> DEFINE q   == reqs[r]
           p   == q.pending /\ ~MustRelease(q, res) /\ ~Captures(q, res)
           pc  == IF Captures(q, res) THEN capture ELSE nx
           new == [q EXCEPT !.pending = p, !.pc = pc]
<1>1. q \in RequestRecord /\ q.pending \in BOOLEAN
  BY Facts DEF RequestRecord
<1>2. Sent(q, res, capture, nx) = new
  BY <1>1 DEF Sent, RequestRecord
<1>3. ~(MustRelease(q, res) /\ Captures(q, res))
  BY DEF MustRelease, Captures
<1>4. pc \in {"capture", "errorCapture", "flush", "over"} /\ p \in BOOLEAN
  BY <1>1 DEF Reading
<1>5. /\ (MustRelease(q, res) => p = FALSE) /\ (Captures(q, res) => p = FALSE)
      /\ ~MustRelease(q, res) /\ ~Captures(q, res) => p = q.pending
  BY <1>1
<1>6. pc = IF Captures(q, res) THEN capture ELSE nx
  OBVIOUS
<1> HIDE DEF p, pc
<1>7. /\ new \in RequestRecord /\ new.input = q.input /\ new.fin = q.fin /\ new.pending = p
      /\ new.pc = pc /\ new.step = q.step /\ new.abandoned = q.abandoned
      /\ new.deferred = q.deferred
  BY <1>1, <1>4 DEF RequestRecord, InTry
<1> HIDE DEF new
<1> QED
  BY <1>2, <1>3, <1>5, <1>6, <1>7

\* The records of r after the hook, where it has not released anything
LEMMA SentAccounts ==
    ASSUME IdemInv, NEW r \in Requests, NEW rec, reqs[r].pc \notin Reading \cup Raced,
           rec.step = reqs[r].step, rec.pc \notin Raced,
           \/ reqs[r].pending /\ ~rec.pending /\ rec.pc \in Reading
           \/ rec.pending = reqs[r].pending /\ rec.pc \notin Reading
    PROVE  \A e \in Elements(store) : e.owner = r => Accounts(r, rec, e)
<1>1. Doing(rec, "print") => Doing(reqs[r], "print")
  BY DEF Doing, Raced
<1>2. CASE reqs[r].pending /\ ~rec.pending /\ rec.pc \in Reading
  <2>1. Local(reqs[r])
    BY Facts
  <2>2. ~Doing(rec, "print")
    BY <1>1, <1>2, <2>1 DEF Local
  <2>3. \A e \in Elements(store) : e.owner = r => e.status = "in-flight"
    BY <1>2, OwnInFlight
  <2> QED
    BY <1>2, <2>2, <2>3 DEF Accounts
<1>3. CASE rec.pending = reqs[r].pending /\ rec.pc \notin Reading
  BY <1>1, <1>3, StillAccounts
<1> QED
  BY <1>2, <1>3

LEMMA SendMoves ==
    ASSUME IdemInv, NEW r \in Requests, NEW capture, NEW nx, Send(r, capture, nx),
           \/ reqs[r].pc = "send" /\ capture = "capture" /\ nx = "flush"
           \/ reqs[r].pc = "errorSend" /\ capture = "errorCapture" /\ nx = "over"
    PROVE  \E new : Moves(r, new)
<1> DEFINE q == reqs[r]
<1>1. q \in RequestRecord /\ Local(q)
  BY Facts
<1>2. PICK res \in Responses :
         IF MustRelease(q, res) THEN Releases(r, Sent(q, res, capture, nx))
         ELSE Only(r, Sent(q, res, capture, nx))
  BY DEF Send
<1> DEFINE new == Sent(q, res, capture, nx)
<1>3. capture \in Reading /\ nx \in {"flush", "over"}
  BY DEF Reading
<1>4. /\ new \in RequestRecord /\ new.input = q.input /\ new.fin = q.fin
      /\ new.step = q.step /\ new.abandoned = q.abandoned /\ new.deferred = q.deferred
      /\ \/ MustRelease(q, res) /\ ~new.pending /\ new.pc = nx
         \/ ~MustRelease(q, res) /\ q.pending /\ ~new.pending /\ new.pc = capture
         \/ ~MustRelease(q, res) /\ new.pending = q.pending /\ new.pc = nx
  BY <1>3, SentFacts DEF Captures
<1>5. IF MustRelease(q, res) THEN Releases(r, new) ELSE Only(r, new)
  BY <1>2
<1> HIDE DEF new
<1>6. Local(new)
  BY <1>1, <1>4 DEF Local, Doing, Leaving, Reading, InTry, Raced
<1>7. Runs(new) => Runs(q)
  BY <1>4 DEF Runs, Doing
<1>8. CASE MustRelease(q, res)
  <2>1. q.pending /\ ~q.abandoned /\ ~new.pending
    BY <1>4, <1>8 DEF MustRelease
  <2>2. ~Runs(new)
    BY <1>1, <1>4, <2>1 DEF Runs, Doing, Local
  <2>3. Moves(r, new)
    BY <1>4, <1>5, <1>6, <1>8, <2>1, <2>2, ReleasesMoves
  <2> QED
    BY <2>3
<1>9. CASE ~MustRelease(q, res)
  <2>1. \A e \in Elements(store) : e.owner = r => Accounts(r, new, e)
    BY <1>4, <1>9, SentAccounts DEF Reading, Raced
  <2>2. Attended(q) => Attended(new)
    BY <1>4, <1>9 DEF Attended
  <2>3. Moves(r, new)
    BY <1>4, <1>5, <1>6, <1>7, <1>9, <2>1, <2>2, OnlyMoves
  <2> QED
    BY <2>3
<1> QED
  BY <1>8, <1>9

LEMMA ErrorSendFirstMoves ==
    ASSUME IdemInv, NEW r \in Requests, reqs[r].pc = "catch", ErrorSendFirst(r)
    PROVE  \E new : Moves(r, new)
<1> DEFINE q == reqs[r]
<1>1. q \in RequestRecord /\ Local(q)
  BY Facts
<1>2. PICK res \in Responses :
         LET rec == Sent(q, res, "errorCapture", "over")
         IN  IF MustRelease(q, res)
             THEN Releases(r, IF rec.step # "none" THEN [rec EXCEPT !.deferred = "waiting"]
                              ELSE Finalized(rec))
             ELSE Finally(r, rec)
  BY DEF ErrorSendFirst
<1> DEFINE rec == Sent(q, res, "errorCapture", "over")
<1>3. "errorCapture" \in Reading /\ "over" \in {"flush", "over"}
  BY DEF Reading
<1>4. /\ rec \in RequestRecord /\ rec.input = q.input /\ rec.fin = q.fin
      /\ rec.step = q.step /\ rec.abandoned = q.abandoned /\ rec.deferred = q.deferred
      /\ \/ MustRelease(q, res) /\ ~rec.pending /\ rec.pc = "over"
         \/ ~MustRelease(q, res) /\ q.pending /\ ~rec.pending /\ rec.pc = "errorCapture"
         \/ ~MustRelease(q, res) /\ rec.pending = q.pending /\ rec.pc = "over"
  BY <1>3, SentFacts DEF Captures
<1>5. IF MustRelease(q, res)
      THEN Releases(r, IF rec.step # "none" THEN [rec EXCEPT !.deferred = "waiting"]
                       ELSE Finalized(rec))
      ELSE Finally(r, rec)
  BY <1>2
<1> HIDE DEF rec
<1>6. CASE MustRelease(q, res)
  <2> DEFINE p   == rec.pending /\ ~rec.fin
             new == [rec EXCEPT !.fin = FALSE, !.pending = p, !.deferred = rec.deferred]
  <2>1. q.pending /\ ~q.abandoned /\ q.step = "none" /\ q.deferred = "no"
    BY <1>1, <1>6 DEF MustRelease, Local
  <2>2. Finalized(rec) = new
    BY <1>4, <2>1 DEF Finalized, RequestRecord
  <2>3. Releases(r, new)
    BY <1>4, <1>5, <1>6, <2>1, <2>2
  <2>4. p = FALSE
    BY <1>4, <1>6
  <2> HIDE DEF p
  <2>5. /\ new \in RequestRecord /\ new.pc = "over" /\ new.input = q.input
        /\ new.pending = FALSE /\ new.fin = FALSE /\ new.step = "none"
        /\ new.abandoned = q.abandoned /\ new.deferred = "no"
    BY <1>4, <1>6, <2>1, <2>4 DEF RequestRecord
  <2> HIDE DEF new
  <2>6. Local(new) /\ ~Runs(new)
    BY <2>1, <2>5 DEF Local, Runs, Doing, Leaving, Reading, InTry, Raced
  <2>7. Moves(r, new)
    BY <2>1, <2>3, <2>5, <2>6, ReleasesMoves
  <2> QED
    BY <2>7
<1>7. CASE ~MustRelease(q, res)
  <2>1. \A e \in Elements(store) : e.owner = r => Accounts(r, rec, e)
    BY <1>4, <1>7, SentAccounts DEF Reading, Raced
  <2>2. rec.pc \in Leaving /\ (rec.pending => q.pending)
    BY <1>4, <1>7 DEF Leaving
  <2>3. rec.pc \in Reading => rec.step # "print" /\ ~rec.pending
    BY <1>1, <1>4, <1>7 DEF Local, Doing, Reading
  <2>4. Attended(q) => rec.pending \/ rec.pc \in Reading
    BY <1>4, <1>7 DEF Attended, Reading
  <2> QED
    BY <1>4, <1>5, <1>7, <2>1, <2>2, <2>3, <2>4, FinallyMoves
<1> QED
  BY <1>6, <1>7

\* Out of the try or the catch block without another word
LEMMA LeaveMoves ==
    ASSUME IdemInv, NEW r \in Requests, reqs[r].pc \in {"flush", "catch"},
           NEW pc \in {"over", "errorSend"}, Finally(r, [reqs[r] EXCEPT !.pc = pc])
    PROVE  \E new : Moves(r, new)
<1> DEFINE q   == reqs[r]
           rec == [q EXCEPT !.pc = pc]
<1>1. q \in RequestRecord
  BY Facts
<1>2. /\ rec \in RequestRecord /\ rec.pc = pc /\ rec.input = q.input /\ rec.pending = q.pending
      /\ rec.fin = q.fin /\ rec.step = q.step /\ rec.abandoned = q.abandoned
      /\ rec.deferred = q.deferred
  BY <1>1 DEF RequestRecord
<1>3. Finally(r, rec)
  OBVIOUS
<1> HIDE DEF rec
<1>4. Doing(rec, "print") => Doing(q, "print")
  BY <1>2 DEF Doing
<1>5. \A e \in Elements(store) : e.owner = r => Accounts(r, rec, e)
  BY <1>2, <1>4, StillAccounts DEF Reading
<1>6. /\ rec.pc \in Leaving /\ rec.pc \notin Reading
      /\ Attended(q) => rec.pending \/ rec.pc \in Reading
  BY <1>2 DEF Leaving, Reading, Attended
<1> QED
  BY <1>2, <1>3, <1>5, <1>6, FinallyMoves

\* The response was read.
LEMMA CaptureMoves ==
    ASSUME IdemInv, NEW r \in Requests, Capture(r) \/ ErrorCapture(r)
    PROVE  \E new : Moves(r, new)
<1> DEFINE q   == reqs[r]
           pc  == IF q.pc = "capture" THEN "flush" ELSE "over"
           new == [q EXCEPT !.pc = pc]
<1>1. q \in RequestRecord /\ Local(q) /\ q.pc \in Reading
  BY Facts DEF Capture, ErrorCapture, Reading
<1>2. \/ Puts(r, new, Complete(store, RecordOf(r, "completed")))
      \/ q.pc = "capture" /\ Releases(r, new)
      \/ q.pc = "capture" /\ r \in Torn /\ Goes(r, "catch")
  BY DEF Capture, ErrorCapture
<1>3. pc \in {"flush", "over"} /\ (q.pc = "capture" => pc = "flush")
      /\ (q.pc = "errorCapture" => pc = "over")
  OBVIOUS
<1> HIDE DEF pc
<1>4. /\ new \in RequestRecord /\ new.pc = pc /\ new.input = q.input /\ new.pending = q.pending
      /\ new.fin = q.fin /\ new.step = q.step /\ new.abandoned = q.abandoned
      /\ new.deferred = q.deferred
  BY <1>1, <1>3 DEF RequestRecord, InTry
<1> HIDE DEF new
<1>5. Local(new)
  BY <1>1, <1>3, <1>4 DEF Local, Doing, Leaving, Reading, InTry, Raced
<1>6. /\ ~new.pending /\ new.pc \notin Reading /\ ~Doing(new, "print")
      /\ Runs(new) => Runs(q)
  BY <1>1, <1>3, <1>4 DEF Local, Doing, Runs, Reading
<1>7. CASE Puts(r, new, Complete(store, RecordOf(r, "completed")))
  BY <1>1, <1>4, <1>5, <1>6, <1>7, CompleteMoves
<1>8. CASE q.pc = "capture" /\ Releases(r, new)
  <2>1. ~Runs(new) /\ new # q
    BY <1>1, <1>3, <1>4, <1>8 DEF Local, Runs, Doing, InTry
  <2> QED
    BY <1>1, <1>4, <1>5, <1>8, <2>1, ReleasesMoves
<1>9. CASE q.pc = "capture" /\ r \in Torn /\ Goes(r, "catch")
  BY <1>9, GoesMoves DEF InTry
<1> QED
  BY <1>2, <1>7, <1>8, <1>9

LEMMA SendStepMoves ==
    ASSUME IdemInv, NEW r \in Requests, SendStep(r)
    PROVE  \E new : Moves(r, new)
<1>1. CASE OnSend(r)
  BY <1>1, SendMoves, GoesMoves DEF OnSend, InTry, Reading
<1>2. CASE Capture(r) \/ ErrorCapture(r)
  BY <1>2, CaptureMoves
<1>3. CASE OnResponse(r)
  BY <1>3, LeaveMoves, GoesMoves DEF OnResponse, InTry, Reading
<1>4. CASE OnError(r)
  BY <1>4, LeaveMoves, ErrorSendFirstMoves DEF OnError
<1>5. CASE ErrorSend(r)
  BY <1>5, SendMoves, GoesMoves DEF ErrorSend, Reading
<1> QED
  BY <1>1, <1>2, <1>3, <1>4, <1>5 DEF SendStep

-----------------------------------------------------------------------------
\* Neither the clock nor a stuttering step touches the requests or the store.
LEMMA Still ==
    ASSUME IdemInv, now' \in 0..MaxNow, UNCHANGED <<store, reqs, lost>> PROVE IdemInv'
<1>1. IdempotencyTypeOK'
  BY DEF IdemInv, IdempotencyTypeOK
<1>2. Stored'
  BY DEF IdemInv, Stored, Accounts, Doing, KeyOf, Elements
<1>3. Guarded'
  BY DEF IdemInv, Guarded, Runs, Doing, Owners, Elements
<1>4. \A r \in Requests : Local(reqs[r])'
  BY DEF IdemInv, Local, Doing
<1> QED
  BY <1>1, <1>2, <1>3, <1>4 DEF IdemInv

LEMMA IdemInit ==
    ASSUME Init PROVE IdemInv
<1>1. PICK input \in [Requests -> Keys \X Prints] :
         reqs = [r \in Requests |->
                    [pc |-> "print", input |-> input[r], pending |-> FALSE, fin |-> FALSE,
                     step |-> "none", abandoned |-> FALSE, deferred |-> "no"]]
  BY DEF Init
<1>2. ASSUME NEW r \in Requests
      PROVE  /\ reqs[r] \in RequestRecord /\ reqs[r].pc = "print" /\ ~reqs[r].pending
             /\ ~reqs[r].fin /\ reqs[r].step = "none" /\ ~reqs[r].abandoned
             /\ reqs[r].deferred = "no"
  <2>1. input[r] \in Keys \X Prints
    OBVIOUS
  <2> DEFINE i == input[r]
  <2>2. reqs[r] = [pc |-> "print", input |-> i, pending |-> FALSE, fin |-> FALSE,
                   step |-> "none", abandoned |-> FALSE, deferred |-> "no"]
    BY <1>1
  <2>3. i \in Keys \X Prints
    BY <2>1
  <2> HIDE DEF i
  <2> QED
    BY <2>2, <2>3 DEF RequestRecord, InTry, Raced
<1>3. \A r \in Requests : Local(reqs[r]) /\ ~Runs(reqs[r])
  BY <1>2 DEF Local, Runs, Doing, Leaving, Reading, InTry, Raced
<1>4. reqs \in [Requests -> RequestRecord]
  <2>1. DOMAIN reqs = Requests /\ reqs = [r \in Requests |-> reqs[r]]
    BY <1>1
  <2> QED
    BY <1>2, <2>1
<1>5. store = <<>> /\ now = 0 /\ lost = {} /\ Elements(store) = {}
  BY DEF Init, Elements
<1>6. 0 \in 0..MaxNow /\ 0 <= MaxEntries
  BY IdempotencyConstants
<1>7. IdempotencyTypeOK
  BY <1>4, <1>5, <1>6 DEF IdempotencyTypeOK
<1>8. Stored
  BY <1>5 DEF Stored
<1>9. Guarded
  BY <1>3 DEF Guarded
<1> QED
  BY <1>3, <1>7, <1>8, <1>9 DEF IdemInv

LEMMA IdemStep ==
    ASSUME IdemInv, [Next]_vars PROVE IdemInv'
<1>1. CASE Tick
  <2>1. now' \in 0..MaxNow
    BY <1>1, IdempotencyConstants DEF Tick, IdemInv, IdempotencyTypeOK
  <2> QED
    BY <1>1, <2>1, Still DEF Tick
<1>2. CASE UNCHANGED vars
  BY <1>2, Still DEF vars, IdemInv, IdempotencyTypeOK
<1>3. CASE \E r \in Requests : \E rec : Moves(r, rec)
  BY <1>3, MovesInv
<1> QED
  BY <1>1, <1>2, <1>3, RacedMoves, SendStepMoves, DeadlineMoves, GraceOverMoves DEF Next

LEMMA IdemInvariant == Spec => []IdemInv
<1>1. Init => IdemInv
  BY IdemInit
<1>2. IdemInv /\ [Next]_vars => IdemInv'
  BY IdemStep
<1> QED
  BY <1>1, <1>2, PTL DEF Spec

(* The state of the middleware keeps its shape, and the store has one record to
   a key and stays within its capacity. *)
THEOREM IdempotencyTypeCorrect == Spec => []IdempotencyTypeOK
<1>1. IdemInv => IdempotencyTypeOK
  BY DEF IdemInv
<1> QED
  BY <1>1, IdemInvariant, PTL

(* Two requests with one key do not run their handlers at the same time, unless
   a record of one of them expired or was evicted. *)
THEOREM ExecutionCorrect == Spec => []OneExecution
<1>1. IdemInv => OneExecution
  <2> SUFFICES ASSUME IdemInv, NEW r \in Requests, NEW s \in Requests, r # s, KeyOf(r) = KeyOf(s),
                      Executes(reqs[r]), Executes(reqs[s]), r \notin lost, s \notin lost
               PROVE  FALSE
    BY DEF OneExecution
  <2>1. r \in Owners(store) /\ s \in Owners(store)
    BY DEF Executes, Runs, IdemInv, Guarded
  <2>2. PICK e \in Elements(store) : e.owner = r
    BY <2>1 DEF Owners
  <2>3. PICK f \in Elements(store) : f.owner = s
    BY <2>1 DEF Owners
  <2>4. e.key = f.key
    BY <2>2, <2>3, Facts
  <2>5. e = f
    BY <2>4, Facts DEF StoreOK, KeysUnique, Elements
  <2> QED
    BY <2>2, <2>3, <2>5
<1> QED
  BY <1>1, IdemInvariant, PTL

(* A reservation that stands is not given up by the code that was to complete or
   release it: not by onSend, by finally, by the abandoned step, nor by the grace
   timer.  Only a body that fails under the capture, and a step that makes its
   reservation after the grace window, leave one behind.  No bound on what
   outlives the window, and none on the bodies that fail, is assumed. *)
THEOREM ReleaseCorrect == Spec => ReservationAttended
<1> DEFINE Attend == \A r \in Requests :
                        Blocks(r)' /\ ~Attended(reqs'[r]) =>
                            BodyFails(r) \/ TooLate(reqs[r]) \/ (Blocks(r) /\ ~Attended(reqs[r]))
<1>1. IdemInv /\ [Next]_vars => [Attend]_vars
  <2> SUFFICES ASSUME IdemInv, Next PROVE Attend
    OBVIOUS
  <2>1. CASE Tick
    BY <2>1 DEF Tick, Blocks, Attended
  <2>2. ASSUME NEW s \in Requests, NEW rec, Moves(s, rec) PROVE Attend
    BY <2>2, MovesAttend
  <2> QED
    BY <2>1, <2>2, RacedMoves, SendStepMoves, DeadlineMoves, GraceOverMoves DEF Next
<1> QED
  BY <1>1, IdemInvariant, PTL DEF Spec, ReservationAttended

(* A record that neither expired nor is evicted as the oldest of a full store
   goes only by a step of its own request, and only while it is in flight. *)
THEOREM StandsCorrect == Spec => RecordStands
<1> DEFINE Stand == \A e \in Elements(store) :
                       \/ e \in Elements(store')
                       \/ Expired(e)
                       \/ e = store[1] /\ Len(store) = MaxEntries /\ Admitted
                       \/ e.status = "in-flight" /\ reqs'[e.owner] # reqs[e.owner]
<1>1. IdemInv /\ [Next]_vars => [Stand]_vars
  <2> SUFFICES ASSUME IdemInv, Next PROVE Stand
    OBVIOUS
  <2>1. CASE Tick
    BY <2>1 DEF Tick
  <2>2. CASE \E r \in Requests : \E rec : Moves(r, rec)
    BY <2>2, MovesStands
  <2> QED
    BY <2>1, <2>2, RacedMoves, SendStepMoves, DeadlineMoves, GraceOverMoves DEF Next
<1> QED
  BY <1>1, IdemInvariant, PTL DEF Spec, RecordStands
=============================================================================
