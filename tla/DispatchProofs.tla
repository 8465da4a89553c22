---------------------------- MODULE DispatchProofs ----------------------------
(***************************************************************************)
(* Proofs about the life of a request, the concurrency limiter and the     *)
(* shutdown, for any number of requests, buckets, slots and queue places.  *)
(***************************************************************************)
EXTENDS Dispatch, FiniteSetTheorems, SequenceTheorems, WellFoundedInduction, TLAPS

Injective(q) == \A i, j \in DOMAIN q : q[i] = q[j] => i = j

Holders(k) == {r \in Requests : reqs[r].key = k /\ reqs[r].acquired}
Waiters(k) == {r \in Requests : reqs[r].key = k /\ Doing(reqs[r], "queued")}

(* The semaphore of a bucket and its queue, against the requests that hold its
   slots and those that wait for one. *)
BucketOK(b, holders, waiters) ==
    /\ b \in [active : 0..MaxConcurrent, queue : Seq(Requests)]
    /\ IsFiniteSet(holders) /\ b.active = Cardinality(holders)
    /\ Elements(b.queue) = waiters /\ Injective(b.queue) /\ Len(b.queue) <= MaxQueue
    /\ b.queue # <<>> => b.active = MaxConcurrent

(* Where a request can be, for what it holds: before the limiter nothing, a
   waiter no slot; a slot always with the finalizer that releases it; and what
   is abandoned is in the catch block or beyond. *)
Consistent(rec) ==
    /\ ~rec.abandoned => rec.step = "none" /\ rec.deferred = "no"
    /\ rec.abandoned => ~rec.armed /\ rec.pc \in {"catch", "errorSend", "answered", "failed"}
    /\ rec.acquired => "release" \in rec.fin /\ rec.key \in Keys
    /\ rec.acquired => rec.pc \in InTry \cup {"catch"} \/ rec.deferred # "no"
    /\ rec.pc \in {"new", "refused", "onRequest", "pre", "chain"} => ~rec.acquired
    /\ rec.step \in {"pre", "chain"} => ~rec.acquired
    /\ "waiter" \in rec.fin => rec.key \in Keys
    /\ Doing(rec, "queued") => ~rec.acquired /\ "waiter" \in rec.fin
    /\ rec.abandoned => (rec.deferred = "no" <=> rec.pc = "catch")
    /\ rec.deferred = "waiting" => rec.step # "none"
    /\ Works(rec) /\ rec.key \in Keys => rec.acquired
    /\ rec.pc \in InTry \cup {"catch"} => rec.counted
    /\ rec.step # "none" => rec.counted \/ rec.deferred = "done"

(* In front of the limiter there is nothing to finalize yet. *)
Untouched(rec) ==
    rec.pc \in {"new", "refused", "onRequest", "pre", "chain"} \/ rec.step \in {"pre", "chain"}
        => rec.fin = {}

(* Nobody waits in a queue whose finalizers have run: they reject the waiter. *)
NoLateWaiter(rec) == rec.step = "queued" => rec.deferred # "done"

AppOK ==
    /\ app \in [draining : BOOLEAN, listened : BOOLEAN, forced : BOOLEAN,
                calls : [Calls -> {"none", "listeners", "drain", "close", "done", "failed"}],
                closing : {"no", "running", "run"}]
    /\ (\E c \in Calls : app.calls[c] # "none") \/ app.closing # "no" => app.draining
    /\ (\E c \in Calls : app.calls[c] = "close") => app.closing # "no"
    /\ app.closing # "no" /\ ~app.forced => \A r \in Requests : ~reqs[r].counted

DispatchInv ==
    /\ reqs \in [Requests -> RequestRecord]
    /\ buckets = [k \in Keys |-> buckets[k]]
    /\ \A r \in Requests : Consistent(reqs[r]) /\ Untouched(reqs[r])
    /\ \A k \in Keys : BucketOK(buckets[k], Holders(k), Waiters(k))
    /\ AppOK
    /\ \A r \in Requests : NoLateWaiter(reqs[r])

-----------------------------------------------------------------------------
(***************************************************************************)
(* Queues.                                                                 *)
(***************************************************************************)
\* The least-number principle, for sets.
LEMMA LeastNat ==
    ASSUME NEW S \in SUBSET Nat, S # {}
    PROVE  \E n \in S : \A m \in S : n <= m
<1> DEFINE R == {ss \in Nat \X Nat : ss[1] < ss[2]}
<1>1. IsWellFoundedOn(R, Nat)
  BY NatLessThanWellFounded DEF OpToRel
<1> HIDE DEF R
<1>2. PICK n \in S : \A m \in S : <<m, n>> \notin R
  BY <1>1, WFMin, S \in SUBSET Nat, S # {}
<1>3. \A m \in S : ~(m < n)
  BY <1>2 DEF R
<1> QED
  BY <1>3

\* splice takes out the waiter, and nothing else.
LEMMA WithoutOK ==
    ASSUME NEW q \in Seq(Requests), Injective(q), NEW r
    PROVE  /\ Without(q, r) \in Seq(Requests)
           /\ Elements(Without(q, r)) = Elements(q) \ {r}
           /\ Injective(Without(q, r))
           /\ Len(Without(q, r)) <= Len(q)
<1>1. CASE r \notin Elements(q)
  BY <1>1 DEF Without
<1>2. CASE r \in Elements(q)
  <2> DEFINE i == CHOOSE i \in DOMAIN q : q[i] = r
             w == [j \in 1..Len(q) - 1 |-> IF j < i THEN q[j] ELSE q[j + 1]]
  <2>1. i \in 1..Len(q) /\ q[i] = r
    BY <1>2 DEF Elements
  <2>2. Len(q) \in Nat /\ Len(q) - 1 \in Nat
    BY <2>1
  <2>3. Without(q, r) = w
    BY <1>2 DEF Without
  <2> HIDE DEF i
  <2>4. \A j \in 1..Len(q) - 1 : w[j] \in Requests
    BY <2>1, <2>2
  <2>5. w \in Seq(Requests) /\ Len(w) = Len(q) - 1 /\ DOMAIN w = 1..Len(q) - 1
    BY <2>2, <2>4, IsASeq
  <2>6. \A j \in 1..Len(q) - 1 : w[j] = q[IF j < i THEN j ELSE j + 1] /\ (IF j < i THEN j ELSE j + 1) \in DOMAIN q \ {i}
    BY <2>1, <2>2
  <2>7. Injective(w)
    <3> SUFFICES ASSUME NEW a \in 1..Len(q) - 1, NEW b \in 1..Len(q) - 1, w[a] = w[b] PROVE a = b
      BY <2>5 DEF Injective
    <3>1. (IF a < i THEN a ELSE a + 1) = (IF b < i THEN b ELSE b + 1)
      BY <2>6 DEF Injective
    <3> QED
      BY <2>1, <2>2, <3>1
  <2>8. Elements(w) = Elements(q) \ {r}
    <3>1. ASSUME NEW x \in Elements(w) PROVE x \in Elements(q) /\ x # r
      <4>1. PICK j \in 1..Len(q) - 1 : x = w[j]
        BY <2>5 DEF Elements
      <4> QED
        BY <2>1, <2>6, <4>1 DEF Elements, Injective
    <3>2. ASSUME NEW x \in Elements(q), x # r PROVE x \in Elements(w)
      <4>1. PICK j \in 1..Len(q) : x = q[j]
        BY DEF Elements
      <4>2. j # i
        BY <2>1, <3>2, <4>1
      <4>3. CASE j < i
        <5>1. j \in 1..Len(q) - 1 /\ w[j] = x
          BY <2>1, <2>2, <4>1, <4>3
        <5> QED
          BY <2>5, <5>1 DEF Elements
      <4>4. CASE j > i
        <5>1. j - 1 \in 1..Len(q) - 1 /\ w[j - 1] = x
          BY <2>1, <2>2, <4>1, <4>4
        <5> QED
          BY <2>5, <5>1 DEF Elements
      <4> QED
        BY <2>1, <4>1, <4>2, <4>3, <4>4
    <3> QED
      BY <3>1, <3>2
  <2> QED
    BY <2>2, <2>3, <2>5, <2>7, <2>8
<1> QED
  BY <1>1, <1>2

\* What is left of a queue after its first n waiters.
LEMMA SuffixOK ==
    ASSUME NEW q \in Seq(Requests), Injective(q), NEW n \in Nat, n <= Len(q)
    PROVE  /\ SubSeq(q, n + 1, Len(q)) \in Seq(Requests)
           /\ Elements(SubSeq(q, n + 1, Len(q))) = {q[i] : i \in n + 1..Len(q)}
           /\ Injective(SubSeq(q, n + 1, Len(q)))
           /\ Len(SubSeq(q, n + 1, Len(q))) <= Len(q)
<1> DEFINE s == SubSeq(q, n + 1, Len(q))
<1>1. \A i \in n + 1..Len(q) : q[i] \in Requests
  OBVIOUS
<1>2. /\ s \in Seq(Requests) /\ Len(s) = IF n + 1 <= Len(q) THEN Len(q) - (n + 1) + 1 ELSE 0
      /\ \A i \in 1..Len(q) - (n + 1) + 1 : s[i] = q[n + 1 + i - 1]
  BY <1>1, SubSeqProperties
<1> HIDE DEF s
<1>3. Len(q) \in Nat /\ Len(s) = Len(q) - n /\ DOMAIN s = 1..Len(q) - n
  BY <1>2
<1>4. \A i \in 1..Len(q) - n : s[i] = q[n + i]
  BY <1>2, <1>3
<1>5. Injective(s)
  <2> SUFFICES ASSUME NEW a \in 1..Len(q) - n, NEW b \in 1..Len(q) - n, s[a] = s[b] PROVE a = b
    BY <1>3 DEF Injective
  <2>1. n + a \in DOMAIN q /\ n + b \in DOMAIN q /\ q[n + a] = q[n + b]
    BY <1>3, <1>4
  <2>2. n + a = n + b
    BY <2>1 DEF Injective
  <2> QED
    BY <2>2
<1>6. Elements(s) = {q[i] : i \in n + 1..Len(q)}
  <2>1. ASSUME NEW x \in Elements(s) PROVE x \in {q[i] : i \in n + 1..Len(q)}
    <3>1. PICK a \in 1..Len(q) - n : x = s[a]
      BY <1>3 DEF Elements
    <3>2. n + a \in n + 1..Len(q) /\ x = q[n + a]
      BY <1>3, <1>4, <3>1
    <3> QED
      BY <3>2
  <2>2. ASSUME NEW i \in n + 1..Len(q) PROVE q[i] \in Elements(s)
    <3>1. i - n \in 1..Len(q) - n /\ n + (i - n) = i
      BY <1>3
    <3>2. s[i - n] = q[i]
      BY <1>4, <3>1
    <3> QED
      BY <1>3, <3>1, <3>2 DEF Elements
  <2> QED
    BY <2>1, <2>2
<1> QED
  BY <1>2, <1>3, <1>5, <1>6 DEF s

LEMMA AppendOK ==
    ASSUME NEW q \in Seq(Requests), Injective(q), NEW r \in Requests, r \notin Elements(q)
    PROVE  /\ Append(q, r) \in Seq(Requests)
           /\ Elements(Append(q, r)) = Elements(q) \cup {r}
           /\ Injective(Append(q, r))
           /\ Len(Append(q, r)) = Len(q) + 1
<1> DEFINE s == Append(q, r)
<1>1. /\ s \in Seq(Requests) /\ Len(s) = Len(q) + 1
      /\ \A i \in 1..Len(q) : s[i] = q[i]
      /\ s[Len(q) + 1] = r
  BY AppendProperties
<1> HIDE DEF s
<1>2. Len(q) \in Nat /\ DOMAIN s = 1..Len(q) + 1 /\ DOMAIN q = 1..Len(q)
  BY <1>1
<1>3. \A i \in 1..Len(q) : s[i] # r
  BY <1>1, <1>2 DEF Elements
<1>4. Injective(s)
  <2> SUFFICES ASSUME NEW a \in 1..Len(q) + 1, NEW b \in 1..Len(q) + 1, s[a] = s[b] PROVE a = b
    BY <1>2 DEF Injective
  <2>1. CASE a \in 1..Len(q) /\ b \in 1..Len(q)
    BY <1>1, <1>2, <2>1 DEF Injective
  <2>2. CASE a = Len(q) + 1 \/ b = Len(q) + 1
    BY <1>1, <1>2, <1>3, <2>2
  <2> QED
    BY <1>2, <2>1, <2>2
<1>5. Elements(s) = Elements(q) \cup {r}
  <2>1. ASSUME NEW x \in Elements(s) PROVE x \in Elements(q) \cup {r}
    <3>1. PICK a \in 1..Len(q) + 1 : x = s[a]
      BY <1>2 DEF Elements
    <3> QED
      BY <1>1, <1>2, <3>1 DEF Elements
  <2>2. ASSUME NEW x \in Elements(q) PROVE x \in Elements(s)
    <3>1. PICK a \in 1..Len(q) : x = q[a]
      BY <1>2 DEF Elements
    <3>2. a \in 1..Len(q) + 1
      BY <1>2
    <3> QED
      BY <1>1, <1>2, <3>1, <3>2 DEF Elements
  <2>3. r \in Elements(s)
    BY <1>1, <1>2 DEF Elements
  <2> QED
    BY <2>1, <2>2, <2>3
<1> QED
  BY <1>1, <1>4, <1>5 DEF s

-----------------------------------------------------------------------------
(***************************************************************************)
(* What a step does to a bucket.                                           *)
(***************************************************************************)
\* Nobody is let in while the app drains.
LEMMA AppKept ==
    ASSUME AppOK, UNCHANGED app,
           \A s \in Requests : reqs'[s].counted => reqs[s].counted \/ ~app.draining
    PROVE  AppOK'
BY DEF AppOK

\* r becomes rec: an update that the invariant allows for r itself.
Fits(r, rec) ==
    /\ rec \in RequestRecord /\ Consistent(rec) /\ Untouched(rec)
    /\ NoLateWaiter(rec)
    /\ rec.counted => reqs[r].counted \/ ~app.draining

\* Only r changes.
LEMMA OneRequest ==
    ASSUME DispatchInv, NEW r \in Requests, NEW rec, Fits(r, rec),
           reqs' = [reqs EXCEPT ![r] = rec], UNCHANGED app, buckets' = [k \in Keys |-> buckets'[k]],
           \A k \in Keys : BucketOK(buckets[k], Holders(k), Waiters(k))'
    PROVE  DispatchInv'
<1>1. \A s \in Requests : reqs'[s] = IF s = r THEN rec ELSE reqs[s]
  BY DEF DispatchInv
<1>2. AppOK'
  BY <1>1, AppKept DEF DispatchInv, Fits
<1>3. reqs' \in [Requests -> RequestRecord]
  BY DEF DispatchInv, Fits
<1>4. \A s \in Requests : Consistent(reqs'[s]) /\ Untouched(reqs'[s])
  BY <1>1 DEF DispatchInv, Fits
<1>5. \A s \in Requests : NoLateWaiter(reqs'[s])
  BY <1>1 DEF DispatchInv, Fits
<1> QED
  BY <1>2, <1>3, <1>4, <1>5 DEF DispatchInv

\* r keeps its slot, or its place in the queue, or has neither.
LEMMA OnlyInv ==
    ASSUME DispatchInv, NEW r \in Requests, NEW rec, Fits(r, rec), Only(r, rec), UNCHANGED app,
           rec.acquired <=> reqs[r].acquired,
           Doing(rec, "queued") <=> Doing(reqs[r], "queued"),
           rec.acquired \/ Doing(rec, "queued") => rec.key = reqs[r].key
    PROVE  DispatchInv'
<1>1. \A s \in Requests : reqs'[s] = IF s = r THEN rec ELSE reqs[s]
  BY DEF DispatchInv, Only
<1>2. ASSUME NEW k \in Keys PROVE BucketOK(buckets[k], Holders(k), Waiters(k))'
  <2>1. Holders(k)' = Holders(k)
    BY <1>1 DEF Holders
  <2>2. Waiters(k)' = Waiters(k)
    BY <1>1 DEF Waiters
  <2>3. buckets'[k] = buckets[k] /\ BucketOK(buckets[k], Holders(k), Waiters(k))
    BY DEF Only, DispatchInv
  <2> QED
    BY <2>1, <2>2, <2>3 DEF BucketOK
<1> QED
  BY <1>2, OneRequest DEF Only, DispatchInv

\* r is given a free slot.
LEMMA TakeSlotInv ==
    ASSUME DispatchInv, NEW r \in Requests, NEW rec, Fits(r, rec), NEW k \in Keys,
           ~reqs[r].acquired, ~Doing(reqs[r], "queued"),
           rec.acquired, ~Doing(rec, "queued"), rec.key = k,
           HasSlot(buckets[k]),
           reqs' = [reqs EXCEPT ![r] = rec],
           buckets' = [buckets EXCEPT ![k].active = @ + 1], UNCHANGED app
    PROVE  DispatchInv'
<1>1. \A s \in Requests : reqs'[s] = IF s = r THEN rec ELSE reqs[s]
  BY DEF DispatchInv
<1>2. ASSUME NEW j \in Keys PROVE BucketOK(buckets[j], Holders(j), Waiters(j))'
  <2>1. BucketOK(buckets[j], Holders(j), Waiters(j)) /\ BucketOK(buckets[k], Holders(k), Waiters(k))
    BY DEF DispatchInv
  <2>2. Waiters(j)' = Waiters(j)
    BY <1>1 DEF Waiters
  <2>3. CASE j # k
    <3>1. Holders(j)' = Holders(j)
      BY <1>1, <2>3 DEF Holders
    <3>2. buckets'[j] = buckets[j]
      BY <2>3 DEF DispatchInv
    <3> QED
      BY <2>1, <2>2, <3>1, <3>2 DEF BucketOK
  <2>4. CASE j = k
    <3>1. Holders(k)' = Holders(k) \cup {r} /\ r \notin Holders(k)
      BY <1>1 DEF Holders
    <3>2. IsFiniteSet(Holders(k)) /\ buckets[k].active = Cardinality(Holders(k))
      BY <2>1 DEF BucketOK
    <3>3. IsFiniteSet(Holders(k)') /\ Cardinality(Holders(k)') = Cardinality(Holders(k)) + 1
      BY <3>1, <3>2, FS_AddElement
    <3>4. buckets[k] \in [active : 0..MaxConcurrent, queue : Seq(Requests)]
          /\ buckets[k].active < MaxConcurrent /\ MaxConcurrent \in Nat
      BY <2>1, DispatchConstants DEF BucketOK, HasSlot
    <3>5. buckets'[k] = [buckets[k] EXCEPT !.active = buckets[k].active + 1]
      BY DEF DispatchInv
    <3>6. /\ buckets'[k] \in [active : 0..MaxConcurrent, queue : Seq(Requests)]
          /\ buckets'[k].active = buckets[k].active + 1 /\ buckets'[k].queue = buckets[k].queue
      <4>1. buckets[k].active + 1 \in 0..MaxConcurrent
        BY <3>4
      <4> QED
        BY <3>4, <3>5, <4>1
    <3>7. buckets[k].queue = <<>>
      BY <2>1, <3>4 DEF BucketOK
    <3>8. /\ Elements(buckets[k].queue) = Waiters(k) /\ Injective(buckets[k].queue)
          /\ Len(buckets[k].queue) <= MaxQueue
      BY <2>1 DEF BucketOK
    <3> QED
      BY <2>2, <2>4, <3>2, <3>3, <3>6, <3>7, <3>8 DEF BucketOK
  <2> QED
    BY <2>3, <2>4
<1> QED
  BY <1>2, OneRequest DEF DispatchInv

\* r joins the queue of a bucket without a free slot.
LEMMA JoinQueueInv ==
    ASSUME DispatchInv, NEW r \in Requests, NEW rec, Fits(r, rec), NEW k \in Keys,
           ~reqs[r].acquired, ~Doing(reqs[r], "queued"),
           ~rec.acquired, Doing(rec, "queued"), rec.key = k,
           ~HasSlot(buckets[k]), Len(buckets[k].queue) < MaxQueue,
           reqs' = [reqs EXCEPT ![r] = rec],
           buckets' = [buckets EXCEPT ![k].queue = Append(@, r)], UNCHANGED app
    PROVE  DispatchInv'
<1>1. \A s \in Requests : reqs'[s] = IF s = r THEN rec ELSE reqs[s]
  BY DEF DispatchInv
<1>2. ASSUME NEW j \in Keys PROVE BucketOK(buckets[j], Holders(j), Waiters(j))'
  <2>1. BucketOK(buckets[j], Holders(j), Waiters(j)) /\ BucketOK(buckets[k], Holders(k), Waiters(k))
    BY DEF DispatchInv
  <2>2. Holders(j)' = Holders(j)
    BY <1>1 DEF Holders
  <2>3. CASE j # k
    <3>1. Waiters(j)' = Waiters(j)
      BY <1>1, <2>3 DEF Waiters
    <3>2. buckets'[j] = buckets[j]
      BY <2>3 DEF DispatchInv
    <3> QED
      BY <2>1, <2>2, <3>1, <3>2 DEF BucketOK
  <2>4. CASE j = k
    <3> DEFINE q == buckets[k].queue
    <3>1. Waiters(k)' = Waiters(k) \cup {r} /\ r \notin Waiters(k)
      BY <1>1 DEF Waiters
    <3>2. /\ buckets[k] \in [active : 0..MaxConcurrent, queue : Seq(Requests)]
          /\ Elements(q) = Waiters(k) /\ Injective(q)
          /\ IsFiniteSet(Holders(k)) /\ buckets[k].active = Cardinality(Holders(k))
      BY <2>1 DEF BucketOK
    <3>3. buckets[k].active = MaxConcurrent
      BY <3>2, DispatchConstants DEF HasSlot
    <3>4. q \in Seq(Requests) /\ Len(q) < MaxQueue /\ Len(q) \in Nat
      BY <3>2
    <3>5. buckets'[k] = [buckets[k] EXCEPT !.queue = Append(q, r)]
      BY DEF DispatchInv
    <3> HIDE DEF q
    <3>6. /\ Append(q, r) \in Seq(Requests) /\ Elements(Append(q, r)) = Waiters(k)'
          /\ Injective(Append(q, r)) /\ Len(Append(q, r)) = Len(q) + 1
      BY <3>1, <3>2, <3>4, AppendOK
    <3>7. /\ buckets'[k] \in [active : 0..MaxConcurrent, queue : Seq(Requests)]
          /\ buckets'[k].active = buckets[k].active /\ buckets'[k].queue = Append(q, r)
      BY <3>2, <3>5, <3>6
    <3>8. Len(q) + 1 <= MaxQueue
      BY <3>4, DispatchConstants
    <3> QED
      BY <2>2, <2>4, <3>2, <3>3, <3>6, <3>7, <3>8 DEF BucketOK
  <2> QED
    BY <2>3, <2>4
<1> QED
  BY <1>2, OneRequest DEF DispatchInv

\* r, which holds no slot, leaves the queue if it is in it.
LEMMA DequeueInv ==
    ASSUME DispatchInv, NEW r \in Requests, NEW rec, Fits(r, rec), rec.key \in Keys,
           ~reqs[r].acquired, ~rec.acquired, ~Doing(rec, "queued"),
           rec.key = reqs[r].key, Dequeue(r, rec), UNCHANGED app
    PROVE  DispatchInv'
<1> DEFINE k == rec.key
<1>1. /\ reqs' = [reqs EXCEPT ![r] = rec]
      /\ buckets' = [buckets EXCEPT ![k] = [buckets[k] EXCEPT !.queue = Without(buckets[k].queue, r)]]
  BY DEF Dequeue, DispatchInv
<1>2. \A s \in Requests : reqs'[s] = IF s = r THEN rec ELSE reqs[s]
  BY <1>1 DEF DispatchInv
<1>3. ASSUME NEW j \in Keys PROVE BucketOK(buckets[j], Holders(j), Waiters(j))'
  <2>1. BucketOK(buckets[j], Holders(j), Waiters(j)) /\ BucketOK(buckets[k], Holders(k), Waiters(k))
    BY DEF DispatchInv
  <2>2. Holders(j)' = Holders(j)
    BY <1>2 DEF Holders
  <2>3. CASE j # k
    <3>1. Waiters(j)' = Waiters(j)
      BY <1>2, <2>3 DEF Waiters
    <3>2. buckets'[j] = buckets[j]
      BY <1>1, <2>3 DEF DispatchInv
    <3> QED
      BY <2>1, <2>2, <3>1, <3>2 DEF BucketOK
  <2>4. CASE j = k
    <3> DEFINE q == buckets[k].queue
    <3>1. Waiters(k)' = Waiters(k) \ {r}
      BY <1>2 DEF Waiters
    <3>2. /\ buckets[k] \in [active : 0..MaxConcurrent, queue : Seq(Requests)]
          /\ q \in Seq(Requests) /\ Elements(q) = Waiters(k) /\ Injective(q)
          /\ IsFiniteSet(Holders(k)) /\ buckets[k].active = Cardinality(Holders(k))
          /\ Len(q) <= MaxQueue /\ (q # <<>> => buckets[k].active = MaxConcurrent)
      BY <2>1 DEF BucketOK
    <3>3. buckets'[k] = [buckets[k] EXCEPT !.queue = Without(q, r)]
      BY <1>1 DEF DispatchInv
    <3> HIDE DEF q
    <3>4. /\ Without(q, r) \in Seq(Requests) /\ Elements(Without(q, r)) = Waiters(k)'
          /\ Injective(Without(q, r)) /\ Len(Without(q, r)) <= Len(q)
      BY <3>1, <3>2, WithoutOK
    <3>5. /\ buckets'[k] \in [active : 0..MaxConcurrent, queue : Seq(Requests)]
          /\ buckets'[k].active = buckets[k].active /\ buckets'[k].queue = Without(q, r)
      BY <3>2, <3>3, <3>4
    <3>6. Len(Without(q, r)) <= MaxQueue
      <4>1. Len(Without(q, r)) \in Nat /\ Len(q) \in Nat
        BY <3>2, <3>4, LenProperties
      <4> QED
        BY <3>2, <3>4, <4>1, DispatchConstants
    <3>7. Without(q, r) # <<>> => q # <<>>
      BY DEF Without, Elements
    <3> QED
      BY <2>2, <2>4, <3>2, <3>4, <3>5, <3>6, <3>7 DEF BucketOK
  <2> QED
    BY <2>3, <2>4
<1>4. buckets' = [j \in Keys |-> buckets'[j]]
  BY <1>1 DEF DispatchInv
<1> QED
  BY <1>1, <1>3, <1>4, OneRequest

-----------------------------------------------------------------------------
(***************************************************************************)
(* Throwing, finalizing, acquiring.                                        *)
(***************************************************************************)
LEMMA FinalizedEffect ==
    ASSUME NEW rec \in RequestRecord
    PROVE  /\ Finalized(rec) \in RequestRecord
           /\ Finalized(rec).pc = rec.pc /\ Finalized(rec).armed = rec.armed
           /\ Finalized(rec).abandoned = rec.abandoned /\ Finalized(rec).key = rec.key
           /\ ~Finalized(rec).counted /\ Finalized(rec).fin = {}
           /\ Finalized(rec).acquired <=> rec.acquired /\ "release" \notin rec.fin
           /\ Finalized(rec).deferred = IF rec.abandoned THEN "done" ELSE rec.deferred
           /\ Finalized(rec).step = IF rec.step = "queued" /\ "waiter" \in rec.fin THEN "none" ELSE rec.step
<1> DEFINE a == rec.acquired /\ "release" \notin rec.fin
           d == IF rec.abandoned THEN "done" ELSE rec.deferred
           s == IF rec.step = "queued" /\ "waiter" \in rec.fin THEN "none" ELSE rec.step
<1>1. a \in BOOLEAN /\ d \in {"no", "waiting", "done"} /\ s \in {"none"} \cup Raced
  BY DEF RequestRecord
<1>2. Finalized(rec) = [rec EXCEPT !.counted = FALSE, !.fin = {}, !.acquired = a, !.deferred = d, !.step = s]
  BY DEF Finalized, RequestRecord
<1> HIDE DEF a, d, s
<1>3. /\ Finalized(rec) \in RequestRecord
      /\ Finalized(rec).pc = rec.pc /\ Finalized(rec).armed = rec.armed
      /\ Finalized(rec).abandoned = rec.abandoned /\ Finalized(rec).key = rec.key
      /\ ~Finalized(rec).counted /\ Finalized(rec).fin = {}
      /\ Finalized(rec).acquired = a /\ Finalized(rec).deferred = d /\ Finalized(rec).step = s
  BY <1>1, <1>2 DEF RequestRecord
<1> QED
  BY <1>3 DEF a, d, s

\* A request without a slot throws: it is in the catch block, or its abandoned
\* step is over.
LEMMA ThrownOK ==
    ASSUME NEW rec \in RequestRecord, Consistent(rec), ~rec.acquired,
           rec.abandoned \/ rec.pc \in InTry
    PROVE  /\ Thrown(rec) \in RequestRecord /\ Consistent(Thrown(rec)) /\ NoLateWaiter(Thrown(rec))
           /\ Untouched(Thrown(rec))
           /\ ~Thrown(rec).acquired /\ ~Doing(Thrown(rec), "queued")
           /\ Thrown(rec).key = rec.key /\ (Thrown(rec).counted => rec.counted)
<1> USE DEF Raced, InTry, Answered
<1>1. CASE ~rec.abandoned
  <2> DEFINE new == [rec EXCEPT !.pc = "catch"]
  <2>1. Thrown(rec) = new
    BY <1>1 DEF Thrown
  <2>2. /\ new \in RequestRecord /\ new.pc = "catch" /\ new.step = rec.step /\ new.key = rec.key
        /\ new.acquired = rec.acquired /\ new.counted = rec.counted /\ new.abandoned = rec.abandoned
        /\ new.deferred = rec.deferred /\ new.fin = rec.fin /\ new.armed = rec.armed
    BY DEF RequestRecord
  <2> HIDE DEF new
  <2>3. Consistent(new)
    BY <1>1, <2>2 DEF Consistent, Doing, Works
  <2> QED
    BY <1>1, <2>1, <2>2, <2>3 DEF Consistent, Doing, NoLateWaiter, Untouched
<1>2. CASE rec.abandoned
  <2> DEFINE over == [rec EXCEPT !.step = "none"]
  <2>1. /\ over \in RequestRecord /\ over.pc = rec.pc /\ over.step = "none" /\ over.key = rec.key
        /\ over.acquired = rec.acquired /\ over.counted = rec.counted /\ over.abandoned = rec.abandoned
        /\ over.deferred = rec.deferred /\ over.fin = rec.fin /\ over.armed = rec.armed
    BY DEF RequestRecord
  <2>2. Thrown(rec) = IF rec.deferred = "waiting" THEN Finalized(over) ELSE over
    BY <1>2 DEF Thrown, StepOver
  <2> HIDE DEF over
  <2>3. CASE rec.deferred # "waiting"
    <3>1. rec.deferred \in {"no", "done"}
      BY <2>3 DEF RequestRecord
    <3>2. Consistent(over)
      BY <1>2, <2>1, <3>1 DEF Consistent, Doing, Works
    <3> QED
      BY <1>2, <2>1, <2>2, <2>3, <3>2 DEF Consistent, Doing, NoLateWaiter, Untouched
  <2>4. CASE rec.deferred = "waiting"
    <3> DEFINE f == Finalized(over)
    <3>1. /\ f \in RequestRecord /\ f.pc = rec.pc /\ f.armed = rec.armed /\ f.abandoned
          /\ f.key = rec.key /\ ~f.counted /\ f.fin = {} /\ ~f.acquired /\ f.deferred = "done"
          /\ f.step = "none"
      BY <1>2, <2>1, FinalizedEffect
    <3> HIDE DEF f
    <3>2. rec.pc \in {"errorSend", "answered", "failed"}
      BY <1>2, <2>4 DEF Consistent
    <3>3. Consistent(f)
      BY <1>2, <3>1, <3>2 DEF Consistent, Doing, Works
    <3> QED
      BY <2>2, <2>4, <3>1, <3>2, <3>3 DEF f, Doing, NoLateWaiter, Untouched
  <2> QED
    BY <2>3, <2>4
<1> QED
  BY <1>1, <1>2

\* At(rec, loc), field by field
LEMMA AtEffect ==
    ASSUME NEW rec \in RequestRecord, NEW loc \in {"queued", "work"}
    PROVE  /\ At(rec, loc) \in RequestRecord
           /\ At(rec, loc).pc = IF rec.abandoned THEN rec.pc ELSE loc
           /\ At(rec, loc).step = IF rec.abandoned THEN loc ELSE rec.step
           /\ At(rec, loc).key = rec.key /\ At(rec, loc).acquired = rec.acquired
           /\ At(rec, loc).counted = rec.counted /\ At(rec, loc).abandoned = rec.abandoned
           /\ At(rec, loc).deferred = rec.deferred /\ At(rec, loc).fin = rec.fin
           /\ At(rec, loc).armed = rec.armed
<1>1. CASE rec.abandoned
  BY <1>1 DEF At, RequestRecord, Raced
<1>2. CASE ~rec.abandoned
  BY <1>2 DEF At, RequestRecord, InTry, Raced
<1> QED
  BY <1>1, <1>2

LEMMA AcquireOK ==
    ASSUME NEW rec \in RequestRecord, Consistent(rec), ~rec.acquired, rec.key \in Keys,
           \/ ~rec.abandoned /\ rec.pc \in {"chain", "queued"}
           \/ rec.abandoned /\ rec.step = "chain"
    PROVE  /\ Acquire(rec) \in RequestRecord /\ Consistent(Acquire(rec)) /\ Untouched(Acquire(rec))
           /\ NoLateWaiter(rec) => NoLateWaiter(Acquire(rec))
           /\ Acquire(rec).acquired /\ ~Doing(Acquire(rec), "queued")
           /\ Acquire(rec).key = rec.key /\ Acquire(rec).counted = rec.counted
<1> DEFINE w   == At(rec, "work")
           new == Acquire(rec)
<1>1. /\ w \in RequestRecord /\ w.pc = (IF rec.abandoned THEN rec.pc ELSE "work")
      /\ w.step = (IF rec.abandoned THEN "work" ELSE rec.step)
      /\ w.key = rec.key /\ w.acquired = rec.acquired
      /\ w.counted = rec.counted /\ w.abandoned = rec.abandoned
      /\ w.deferred = rec.deferred /\ w.fin = rec.fin /\ w.armed = rec.armed
  BY AtEffect
<1>2. new = [w EXCEPT !.acquired = TRUE, !.fin = w.fin \cup {"release"}]
  BY <1>1 DEF Acquire, RequestRecord
<1> HIDE DEF w, new
<1>3. w.fin \cup {"release"} \in SUBSET {"waiter", "release"}
  BY <1>1 DEF RequestRecord
<1>4. /\ new \in RequestRecord /\ new.pc = w.pc /\ new.step = w.step /\ new.key = w.key
      /\ new.acquired /\ new.counted = w.counted /\ new.abandoned = w.abandoned
      /\ new.deferred = w.deferred /\ new.fin = w.fin \cup {"release"} /\ new.armed = w.armed
  BY <1>1, <1>2, <1>3 DEF RequestRecord
<1>5. ~Doing(new, "queued")
  BY <1>1, <1>4 DEF Doing, Consistent
<1>6. CASE rec.abandoned
  <2>1. Consistent(new)
    BY <1>1, <1>4, <1>5, <1>6 DEF Consistent, Works, Doing, InTry, Raced
  <2>2. Untouched(new)
    BY <1>1, <1>4, <1>6 DEF Untouched, Consistent
  <2> QED
    BY <1>1, <1>4, <1>5, <1>6, <2>1, <2>2 DEF new, NoLateWaiter
<1>7. CASE ~rec.abandoned
  <2>1. rec.deferred = "no" /\ rec.step = "none" /\ rec.counted
    BY <1>7 DEF Consistent, InTry, Raced
  <2>2. Consistent(new)
    BY <1>1, <1>4, <1>5, <1>7, <2>1 DEF Consistent, Works, Doing, InTry, Raced
  <2>3. Untouched(new)
    BY <1>1, <1>4, <1>7, <2>1 DEF Untouched
  <2> QED
    BY <1>1, <1>4, <1>5, <1>7, <2>1, <2>2, <2>3 DEF new, NoLateWaiter
<1> QED
  BY <1>6, <1>7

-----------------------------------------------------------------------------
(***************************************************************************)
(* release: the slot goes to the first waiter that is still there.         *)
(***************************************************************************)
LEMMA PassedOverFound ==
    ASSUME NEW rs, NEW q \in Seq(Requests)
    PROVE  /\ PassedOver(rs, q) \in 0..Len(q)
           /\ \A i \in 1..PassedOver(rs, q) : Gone(rs[q[i]])
           /\ PassedOver(rs, q) < Len(q) => ~Gone(rs[q[PassedOver(rs, q) + 1]])
<1> DEFINE S == {n \in 0..Len(q) : n < Len(q) => ~Gone(rs[q[n + 1]])}
<1>1. Len(q) \in Nat
  OBVIOUS
<1>2. Len(q) \in S /\ S \in SUBSET Nat
  BY <1>1
<1>3. PICK n \in S : \A m \in S : n <= m
  BY <1>2, LeastNat
<1>4. n \in 0..Len(q) /\ (n < Len(q) => ~Gone(rs[q[n + 1]]))
  BY <1>3
<1>5. ASSUME NEW i \in 1..n PROVE Gone(rs[q[i]])
  <2>1. i - 1 \in 0..Len(q) /\ i - 1 < Len(q) /\ ~(n <= i - 1) /\ (i - 1) + 1 = i
    BY <1>1, <1>4
  <2>2. i - 1 \notin S
    BY <1>3, <2>1
  <2> QED
    BY <2>1, <2>2
<1> HIDE DEF S
<1> QED
  BY <1>4, <1>5 DEF PassedOver

LEMMA ReleaseInv ==
    ASSUME DispatchInv, NEW r \in Requests, NEW rec, Fits(r, rec),
           reqs[r].acquired, ~rec.acquired, ~Doing(rec, "queued"), rec.key = reqs[r].key,
           Release(r, rec), UNCHANGED app
    PROVE  DispatchInv'
<1> DEFINE k  == rec.key
           q  == buckets[k].queue
           rs == [reqs EXCEPT ![r] = rec]
           n  == PassedOver(rs, q)
<1>1. k \in Keys /\ reqs[r] \in RequestRecord /\ Consistent(reqs[r])
  BY DEF DispatchInv, Consistent
<1>2. /\ buckets[k] \in [active : 0..MaxConcurrent, queue : Seq(Requests)]
      /\ IsFiniteSet(Holders(k)) /\ buckets[k].active = Cardinality(Holders(k))
      /\ Elements(q) = Waiters(k) /\ Injective(q) /\ Len(q) <= MaxQueue
      /\ q # <<>> => buckets[k].active = MaxConcurrent
  BY <1>1 DEF DispatchInv, BucketOK
<1>3. q \in Seq(Requests) /\ Len(q) \in Nat
  BY <1>2
<1>4. /\ n \in 0..Len(q) /\ \A i \in 1..n : Gone(rs[q[i]])
      /\ n < Len(q) => ~Gone(rs[q[n + 1]])
  BY <1>3, PassedOverFound
<1>5. /\ buckets' = [buckets EXCEPT ![k] = Freed(buckets[k], n)]
      /\ reqs' = [s \in Requests |->
                       CASE \E i \in 1..n : q[i] = s -> Thrown(rs[s])
                         [] n < Len(q) /\ s = q[n + 1] -> Acquire(rs[s])
                         [] OTHER -> rs[s]]
  BY DEF Release
<1>6. \A s \in Requests : rs[s] = IF s = r THEN rec ELSE reqs[s]
  BY DEF DispatchInv
<1> HIDE DEF n, rs, q, k
<1>7. \A i \in 1..Len(q) : /\ q[i] \in Requests /\ q[i] # r /\ reqs[q[i]].key = k
                           /\ Doing(reqs[q[i]], "queued") /\ rs[q[i]] = reqs[q[i]]
  <2> TAKE i \in 1..Len(q)
  <2>1. q[i] \in Waiters(k)
    BY <1>2, <1>3 DEF Elements
  <2>2. r \notin Waiters(k)
    BY <1>1 DEF Waiters, Consistent
  <2> QED
    BY <1>6, <2>1, <2>2 DEF Waiters
<1> DEFINE P == {q[i] : i \in 1..n}
           A == IF n < Len(q) THEN {q[n + 1]} ELSE {}
<1>8. P \subseteq Requests \ {r} /\ A \subseteq Requests \ {r} /\ P \cap A = {}
      /\ P \cup A \subseteq Waiters(k)
  <2>1. \A i \in 1..n : i \in 1..Len(q) /\ i # n + 1
    BY <1>3, <1>4
  <2>2. n < Len(q) => n + 1 \in 1..Len(q)
    BY <1>3, <1>4
  <2>3. \A i \in 1..n : n < Len(q) => q[i] # q[n + 1]
    BY <1>3, <1>2, <2>1, <2>2 DEF Injective
  <2> QED
    BY <1>7, <2>1, <2>2, <2>3 DEF Waiters
<1>9. \A s \in P : reqs'[s] = Thrown(reqs[s])
  <2> TAKE s \in P
  <2>1. s \in Requests /\ rs[s] = reqs[s] /\ s \notin A
    BY <1>6, <1>8
  <2>2. (\E i \in 1..n : q[i] = s) /\ ~(n < Len(q) /\ s = q[n + 1])
    BY <2>1
  <2> QED
    BY <1>5, <2>1, <2>2
<1>10. \A s \in A : reqs'[s] = Acquire(reqs[s])
  <2> TAKE s \in A
  <2>1. s \in Requests /\ rs[s] = reqs[s] /\ s \notin P
    BY <1>6, <1>8
  <2>2. ~(\E i \in 1..n : q[i] = s) /\ n < Len(q) /\ s = q[n + 1]
    BY <2>1
  <2> QED
    BY <1>5, <2>1, <2>2
<1>11. \A s \in Requests \ (P \cup A) : reqs'[s] = IF s = r THEN rec ELSE reqs[s]
  <2> TAKE s \in Requests \ (P \cup A)
  <2>1. ~(\E i \in 1..n : q[i] = s) /\ ~(n < Len(q) /\ s = q[n + 1])
    OBVIOUS
  <2> QED
    BY <1>5, <1>6, <2>1
<1>12. \A s \in P : /\ Fits(s, reqs'[s]) /\ ~reqs'[s].acquired /\ ~Doing(reqs'[s], "queued")
                    /\ reqs'[s].key = k
  <2> TAKE s \in P
  <2>1. s \in Requests /\ s \in Waiters(k)
    BY <1>8
  <2>2. reqs[s] \in RequestRecord /\ Consistent(reqs[s]) /\ Doing(reqs[s], "queued") /\ reqs[s].key = k
    BY <2>1 DEF DispatchInv, Waiters
  <2>3. ~reqs[s].acquired /\ (reqs[s].abandoned \/ reqs[s].pc \in InTry)
    BY <2>2 DEF Consistent, Doing, InTry, Raced
  <2> QED
    BY <1>9, <2>2, <2>3, ThrownOK DEF Fits
<1>13. \A s \in A : /\ Fits(s, reqs'[s]) /\ reqs'[s].acquired /\ ~Doing(reqs'[s], "queued")
                    /\ reqs'[s].key = k
  <2> TAKE s \in A
  <2>1. s \in Requests /\ s \in Waiters(k) /\ s # r
    BY <1>8
  <2>2. reqs[s] \in RequestRecord /\ Consistent(reqs[s]) /\ Doing(reqs[s], "queued") /\ reqs[s].key = k
    BY <2>1 DEF DispatchInv, Waiters
  <2>3. n < Len(q) /\ s = q[n + 1]
    OBVIOUS
  <2>4. ~Gone(reqs[s])
    BY <1>4, <1>6, <2>1, <2>3
  <2>5. ~reqs[s].abandoned /\ ~reqs[s].acquired /\ reqs[s].pc = "queued"
    BY <2>2, <2>4 DEF Gone, Consistent, Doing
  <2>6. NoLateWaiter(reqs[s])
    BY <2>1 DEF DispatchInv
  <2> QED
    BY <1>1, <1>10, <2>2, <2>5, <2>6, AcquireOK DEF Fits
<1>14. \A s \in Requests \ (P \cup A) : Fits(s, reqs'[s])
  <2> TAKE s \in Requests \ (P \cup A)
  <2>1. s # r => Fits(s, reqs[s])
    BY DEF DispatchInv, Fits
  <2> QED
    BY <1>11, <2>1
<1> HIDE DEF P, A
<1>15. \A s \in Requests : Fits(s, reqs'[s])
  BY <1>12, <1>13, <1>14
<1>16. ASSUME NEW j \in Keys PROVE BucketOK(buckets[j], Holders(j), Waiters(j))'
  <2>1. CASE j # k
    <3>1. Holders(j)' = Holders(j)
      <4>1. ASSUME NEW s \in Requests PROVE s \in Holders(j)' <=> s \in Holders(j)
        <5>1. CASE s \in P \cup A
          <6>1. reqs[s].key = k /\ reqs'[s].key = k
            BY <1>8, <1>12, <1>13, <5>1 DEF Waiters
          <6> QED
            BY <2>1, <6>1 DEF Holders
        <5>2. CASE s \notin P \cup A
          <6>1. reqs'[s] = IF s = r THEN rec ELSE reqs[s]
            BY <1>11, <5>2
          <6> QED
            BY <2>1, <6>1 DEF Holders, k
        <5> QED
          BY <5>1, <5>2
      <4> QED
        BY <4>1 DEF Holders
    <3>2. Waiters(j)' = Waiters(j)
      <4>1. ASSUME NEW s \in Requests PROVE s \in Waiters(j)' <=> s \in Waiters(j)
        <5>1. CASE s \in P \cup A
          <6>1. reqs[s].key = k /\ reqs'[s].key = k
            BY <1>8, <1>12, <1>13, <5>1 DEF Waiters
          <6> QED
            BY <2>1, <6>1 DEF Waiters
        <5>2. CASE s \notin P \cup A
          <6>1. reqs'[s] = IF s = r THEN rec ELSE reqs[s]
            BY <1>11, <5>2
          <6> QED
            BY <2>1, <6>1 DEF Waiters, k
        <5> QED
          BY <5>1, <5>2
      <4> QED
        BY <4>1 DEF Waiters
    <3>3. buckets'[j] = buckets[j] /\ BucketOK(buckets[j], Holders(j), Waiters(j))
      BY <1>5, <2>1 DEF DispatchInv
    <3> QED
      BY <3>1, <3>2, <3>3 DEF BucketOK
  <2>2. CASE j = k
    <3>1. r \in Holders(k) /\ A \cap Holders(k) = {} /\ P \cap Holders(k) = {}
      <4>1. \A s \in Waiters(k) : s \notin Holders(k)
        BY DEF Waiters, Holders, DispatchInv, Consistent
      <4> QED
        BY <1>8, <4>1 DEF Holders, k
    <3>2. Holders(k)' = (Holders(k) \ {r}) \cup A
      <4>1. ASSUME NEW s \in Requests
            PROVE  s \in Holders(k)' <=> s \in (Holders(k) \ {r}) \cup A
        <5>1. CASE s \in P
          BY <1>8, <1>12, <3>1, <5>1 DEF Holders
        <5>2. CASE s \in A
          BY <1>13, <5>2 DEF Holders
        <5>3. CASE s \notin P \cup A
          <6>1. reqs'[s] = IF s = r THEN rec ELSE reqs[s]
            BY <1>11, <5>3
          <6> QED
            BY <5>3, <6>1 DEF Holders
        <5> QED
          BY <5>1, <5>2, <5>3
      <4> QED
        BY <1>8, <4>1 DEF Holders
    <3>3. Waiters(k)' = Waiters(k) \ (P \cup A)
      <4>1. ASSUME NEW s \in Requests
            PROVE  s \in Waiters(k)' <=> s \in Waiters(k) \ (P \cup A)
        <5>1. CASE s \in P \cup A
          BY <1>12, <1>13, <5>1 DEF Waiters
        <5>2. CASE s \notin P \cup A
          <6>1. reqs'[s] = IF s = r THEN rec ELSE reqs[s]
            BY <1>11, <5>2
          <6>2. ~Doing(reqs[r], "queued")
            BY <1>1 DEF Consistent
          <6> QED
            BY <5>2, <6>1, <6>2 DEF Waiters
        <5> QED
          BY <5>1, <5>2
      <4> QED
        BY <4>1 DEF Waiters
    <3>4. buckets'[k] = Freed(buckets[k], n)
      BY <1>1, <1>5 DEF DispatchInv
    <3>5. /\ IsFiniteSet(Holders(k) \ {r})
          /\ Cardinality(Holders(k) \ {r}) = Cardinality(Holders(k)) - 1
          /\ Cardinality(Holders(k)) \in Nat
      BY <1>2, <3>1, FS_RemoveElement, FS_CardinalityType
    <3>6. CASE n < Len(q)
      <4> DEFINE rest == SubSeq(q, n + 2, Len(q))
      <4>1. n + 1 \in Nat /\ n + 1 <= Len(q) /\ (n + 1) + 1 = n + 2
        BY <1>3, <1>4, <3>6
      <4>2. /\ rest \in Seq(Requests) /\ Elements(rest) = {q[i] : i \in n + 2..Len(q)}
            /\ Injective(rest) /\ Len(rest) <= Len(q)
        BY <1>2, <1>3, <4>1, SuffixOK
      <4>3. buckets'[k] = [buckets[k] EXCEPT !.queue = rest]
        BY <1>2, <3>4, <3>6 DEF Freed, q
      <4> HIDE DEF rest
      <4>4. /\ buckets'[k] \in [active : 0..MaxConcurrent, queue : Seq(Requests)]
            /\ buckets'[k].active = buckets[k].active /\ buckets'[k].queue = rest
        BY <1>2, <4>2, <4>3
      <4>5. A = {q[n + 1]} /\ q[n + 1] \notin Holders(k) \ {r}
        BY <3>1, <3>6 DEF A
      <4>6. IsFiniteSet(Holders(k)') /\ Cardinality(Holders(k)') = Cardinality(Holders(k))
        <5>1. /\ IsFiniteSet((Holders(k) \ {r}) \cup {q[n + 1]})
              /\ Cardinality((Holders(k) \ {r}) \cup {q[n + 1]}) = Cardinality(Holders(k) \ {r}) + 1
          BY <3>5, <4>5, FS_AddElement
        <5> QED
          BY <3>2, <3>5, <4>5, <5>1
      <4>7. Elements(rest) = Waiters(k)'
        <5>1. Waiters(k) = {q[i] : i \in 1..Len(q)}
          BY <1>2, <1>3 DEF Elements
        <5>2. \A i \in n + 2..Len(q) : i \in 1..Len(q) /\ q[i] \notin P \cup A
          <6> TAKE i \in n + 2..Len(q)
          <6>1. i \in 1..Len(q) /\ i > n + 1
            BY <1>3, <1>4
          <6>2. \A m \in 1..n + 1 : m \in 1..Len(q) /\ m # i
            BY <1>3, <1>4, <3>6, <6>1
          <6>3. \A m \in 1..n + 1 : q[m] # q[i]
            BY <1>2, <1>3, <6>1, <6>2 DEF Injective
          <6>4. \A m \in 1..n : m \in 1..n + 1
            BY <1>3, <1>4
          <6>5. n + 1 \in 1..n + 1
            BY <1>3, <1>4
          <6> QED
            BY <4>5, <6>1, <6>3, <6>4, <6>5 DEF P
        <5>3. \A i \in 1..Len(q) : q[i] \notin P \cup A => i \in n + 2..Len(q)
          <6> TAKE i \in 1..Len(q)
          <6>1. i \in 1..n \/ i = n + 1 \/ i \in n + 2..Len(q)
            BY <1>3, <1>4
          <6> QED
            BY <4>5, <6>1 DEF P
        <5> QED
          BY <3>3, <4>2, <5>1, <5>2, <5>3
      <4>8. buckets[k].active = MaxConcurrent
        <5>1. q # <<>>
          BY <1>3, <1>4, <3>6
        <5> QED
          BY <1>2, <5>1
      <4>9. Len(rest) <= MaxQueue
        <5>1. Len(rest) \in Nat
          BY <4>2, LenProperties
        <5> QED
          BY <1>2, <1>3, <4>2, <5>1, DispatchConstants
      <4> QED
        BY <1>2, <2>2, <4>2, <4>4, <4>6, <4>7, <4>8, <4>9 DEF BucketOK
    <3>7. CASE ~(n < Len(q))
      <4>1. n = Len(q) /\ A = {}
        BY <1>3, <1>4, <3>7 DEF A
      <4>2. Cardinality(Holders(k)) # 0
        BY <1>2, <3>1, FS_EmptySet
      <4>3. buckets[k].active \in 0..MaxConcurrent /\ MaxConcurrent \in Nat
        BY <1>2, DispatchConstants
      <4>4. buckets'[k] = [active |-> buckets[k].active - 1, queue |-> <<>>]
        BY <1>2, <3>4, <3>5, <3>7, <4>2, <4>3 DEF Freed, q
      <4>5. /\ buckets'[k].active = Cardinality(Holders(k)')
            /\ IsFiniteSet(Holders(k)') /\ buckets'[k].queue = <<>>
        BY <1>2, <3>2, <3>5, <4>1, <4>4
      <4>6. buckets'[k] \in [active : 0..MaxConcurrent, queue : Seq(Requests)]
        <5>1. buckets[k].active - 1 \in 0..MaxConcurrent
          BY <1>2, <4>2, <4>3
        <5>2. <<>> \in Seq(Requests)
          OBVIOUS
        <5> QED
          BY <4>4, <5>1, <5>2
      <4>7. Waiters(k)' = {}
        <5>1. Waiters(k) = {q[i] : i \in 1..Len(q)}
          BY <1>2, <1>3 DEF Elements
        <5> QED
          BY <3>3, <4>1, <5>1 DEF P
      <4>8. Elements(<<>>) = {} /\ Injective(<<>>) /\ Len(<<>>) <= MaxQueue
        BY DispatchConstants DEF Elements, Injective
      <4> QED
        BY <2>2, <4>5, <4>6, <4>7, <4>8 DEF BucketOK
    <3> QED
      BY <3>6, <3>7
  <2> QED
    BY <2>1, <2>2
<1>17. AppOK'
  BY <1>15, AppKept DEF DispatchInv, Fits
<1>18. reqs' \in [Requests -> RequestRecord]
  <2>1. DOMAIN reqs' = Requests /\ reqs' = [s \in Requests |-> reqs'[s]]
    BY <1>5
  <2> QED
    BY <1>15, <2>1 DEF Fits
<1>19. buckets' = [j \in Keys |-> buckets'[j]]
  BY <1>5 DEF DispatchInv
<1> QED
  BY <1>15, <1>16, <1>17, <1>18, <1>19 DEF DispatchInv, Fits

-----------------------------------------------------------------------------
(***************************************************************************)
(* The finally block, the limiter's hook, and the listener of a waiter.    *)
(***************************************************************************)
\* The response is on its way or has failed.
Ended == {"errorSend", "answered", "failed"}

LEMMA FinalizeInv ==
    ASSUME DispatchInv, NEW r \in Requests, NEW rec \in RequestRecord,
           rec.key = reqs[r].key, rec.acquired = reqs[r].acquired, rec.fin = reqs[r].fin,
           Doing(reqs[r], "queued") <=> rec.step = "queued",
           rec.pc \in Ended,
           ~rec.abandoned => rec.step = "none" /\ rec.deferred = "no",
           rec.abandoned => ~rec.armed,
           Finalize(r, rec), UNCHANGED app
    PROVE  DispatchInv'
<1> DEFINE f == Finalized(rec)
<1>1. reqs[r] \in RequestRecord /\ Consistent(reqs[r])
  BY DEF DispatchInv
<1>2. /\ f \in RequestRecord /\ f.pc = rec.pc /\ f.armed = rec.armed
      /\ f.abandoned = rec.abandoned /\ f.key = rec.key /\ ~f.counted /\ f.fin = {}
      /\ f.acquired <=> rec.acquired /\ "release" \notin rec.fin
      /\ f.deferred = IF rec.abandoned THEN "done" ELSE rec.deferred
      /\ f.step = IF rec.step = "queued" /\ "waiter" \in rec.fin THEN "none" ELSE rec.step
  BY FinalizedEffect
<1>3. \/ rec.acquired /\ "release" \in rec.fin /\ Release(r, f)
      \/ ~(rec.acquired /\ "release" \in rec.fin) /\ "waiter" \in rec.fin /\ Dequeue(r, f)
      \/ ~(rec.acquired /\ "release" \in rec.fin) /\ "waiter" \notin rec.fin /\ Only(r, f)
  BY DEF Finalize
<1> HIDE DEF f
<1>4. ~f.acquired /\ f.step # "queued"
  BY <1>1, <1>2 DEF Consistent
<1>5. ~Doing(f, "queued")
  BY <1>2, <1>4 DEF Doing, Ended
<1>6. Consistent(f)
  BY <1>2, <1>4, <1>5 DEF Consistent, Works, Doing, Ended, InTry, Raced
<1>7. Fits(r, f)
  BY <1>2, <1>4, <1>6 DEF Fits, NoLateWaiter, Untouched
<1>8. CASE rec.acquired /\ "release" \in rec.fin /\ Release(r, f)
  BY <1>2, <1>4, <1>5, <1>7, <1>8, ReleaseInv
<1>9. CASE ~(rec.acquired /\ "release" \in rec.fin) /\ "waiter" \in rec.fin /\ Dequeue(r, f)
  <2>1. ~reqs[r].acquired /\ f.key = reqs[r].key /\ f.key \in Keys
    BY <1>1, <1>2, <1>9 DEF Consistent
  <2> QED
    BY <1>4, <1>5, <1>7, <1>9, <2>1, DequeueInv
<1>10. CASE ~(rec.acquired /\ "release" \in rec.fin) /\ "waiter" \notin rec.fin /\ Only(r, f)
  <2>1. ~reqs[r].acquired /\ ~Doing(reqs[r], "queued")
    BY <1>1, <1>10 DEF Consistent
  <2> QED
    BY <1>4, <1>5, <1>7, <1>10, <2>1, OnlyInv
<1> QED
  BY <1>3, <1>8, <1>9, <1>10

LEMMA FinallyInv ==
    ASSUME DispatchInv, NEW r \in Requests, reqs[r].pc \in {"flush", "catch"},
           NEW pc \in Ended, Finally(r, [reqs[r] EXCEPT !.pc = pc]), UNCHANGED app
    PROVE  DispatchInv'
<1> DEFINE over == [reqs[r] EXCEPT !.pc = pc, !.armed = FALSE]
<1>1. reqs[r] \in RequestRecord /\ Consistent(reqs[r])
  BY DEF DispatchInv
<1>2. /\ over \in RequestRecord /\ over.pc = pc /\ over.step = reqs[r].step /\ over.key = reqs[r].key
      /\ over.acquired = reqs[r].acquired /\ over.counted = reqs[r].counted
      /\ over.abandoned = reqs[r].abandoned /\ over.deferred = reqs[r].deferred
      /\ over.fin = reqs[r].fin /\ over.armed = FALSE
  BY <1>1 DEF RequestRecord, Ended, Answered
<1>3. [[reqs[r] EXCEPT !.pc = pc] EXCEPT !.armed = FALSE] = over
  BY <1>1 DEF RequestRecord
<1>4. IF MustDefer(over) THEN Only(r, [over EXCEPT !.deferred = "waiting"]) ELSE Finalize(r, over)
  BY <1>3 DEF Finally
<1> HIDE DEF over
<1>5. CASE MustDefer(over)
  <2> DEFINE new == [over EXCEPT !.deferred = "waiting"]
  <2>1. /\ new \in RequestRecord /\ new.pc = pc /\ new.step = reqs[r].step /\ new.key = reqs[r].key
        /\ new.acquired = reqs[r].acquired /\ new.counted = reqs[r].counted
        /\ new.abandoned = reqs[r].abandoned /\ new.deferred = "waiting"
        /\ new.fin = reqs[r].fin /\ new.armed = FALSE
    BY <1>2 DEF RequestRecord
  <2>2. Only(r, new)
    BY <1>4, <1>5
  <2> HIDE DEF new
  <2>3. reqs[r].abandoned /\ reqs[r].step # "none" /\ reqs[r].pc = "catch" /\ reqs[r].deferred = "no"
    BY <1>1, <1>2, <1>5 DEF MustDefer, Consistent
  <2>4. Doing(new, "queued") <=> Doing(reqs[r], "queued")
    BY <2>1, <2>3 DEF Doing, Ended
  <2>5. Consistent(new)
    BY <1>1, <2>1, <2>3, <2>4 DEF Consistent, Works, Doing, Ended, InTry, Raced
  <2>6. Fits(r, new)
    BY <2>1, <2>3, <2>5 DEF Fits, NoLateWaiter, Untouched, DispatchInv, Ended
  <2> QED
    BY <2>1, <2>2, <2>4, <2>6, OnlyInv
<1>6. CASE ~MustDefer(over)
  <2>1. Finalize(r, over) /\ reqs[r].step = "none"
    BY <1>1, <1>2, <1>4, <1>6 DEF MustDefer, Consistent
  <2>2. ~Doing(reqs[r], "queued")
    BY <2>1 DEF Doing
  <2>3. ~over.abandoned => over.step = "none" /\ over.deferred = "no"
    BY <1>1, <1>2 DEF Consistent
  <2> QED
    BY <1>2, <2>1, <2>2, <2>3, FinalizeInv
<1> QED
  BY <1>5, <1>6

LEMMA LateSettleInv ==
    ASSUME DispatchInv, NEW r \in Requests, reqs[r].step \in Raced \ {"queued"},
           LateSettle(r), UNCHANGED app
    PROVE  DispatchInv'
<1> DEFINE new == [reqs[r] EXCEPT !.step = "none"]
<1>1. reqs[r] \in RequestRecord /\ Consistent(reqs[r])
  BY DEF DispatchInv
<1>2. /\ new \in RequestRecord /\ new.pc = reqs[r].pc /\ new.step = "none" /\ new.key = reqs[r].key
      /\ new.acquired = reqs[r].acquired /\ new.counted = reqs[r].counted
      /\ new.abandoned = reqs[r].abandoned /\ new.deferred = reqs[r].deferred
      /\ new.fin = reqs[r].fin /\ new.armed = reqs[r].armed
  BY <1>1 DEF RequestRecord
<1>3. IF reqs[r].deferred = "waiting" THEN Finalize(r, new) ELSE Only(r, new)
  BY DEF LateSettle
<1> HIDE DEF new
<1>4. reqs[r].abandoned /\ ~reqs[r].armed /\ reqs[r].pc \in {"catch", "errorSend", "answered", "failed"}
  BY <1>1 DEF Consistent, Raced
<1>5. ~Doing(reqs[r], "queued") /\ ~Doing(new, "queued")
  BY <1>2, <1>4 DEF Doing
<1>6. CASE reqs[r].deferred = "waiting"
  <2>1. new.pc \in Ended
    BY <1>1, <1>2, <1>4, <1>6 DEF Consistent, Ended
  <2> QED
    BY <1>2, <1>3, <1>4, <1>5, <1>6, <2>1, FinalizeInv
<1>7. CASE reqs[r].deferred # "waiting"
  <2>1. Consistent(new)
    BY <1>1, <1>2, <1>4, <1>5, <1>7 DEF Consistent, Works, Doing, InTry, Raced
  <2>2. NoLateWaiter(new)
    BY <1>2 DEF DispatchInv, NoLateWaiter
  <2>3. Fits(r, new)
    BY <1>2, <1>4, <2>1, <2>2 DEF Fits, Untouched
  <2> QED
    BY <1>2, <1>3, <1>5, <1>7, <2>3, OnlyInv
<1> QED
  BY <1>6, <1>7

\* The limiter's beforeHandle, of a request or of the step that it abandoned.
LEMMA LimitInv ==
    ASSUME DispatchInv, NEW r \in Requests, Doing(reqs[r], "chain"), Limit(r), UNCHANGED app
    PROVE  DispatchInv'
<1>1. reqs[r] \in RequestRecord /\ Consistent(reqs[r])
  BY DEF DispatchInv
<1>2. /\ ~reqs[r].acquired /\ ~Doing(reqs[r], "queued")
      /\ \/ ~reqs[r].abandoned /\ reqs[r].pc = "chain" /\ reqs[r].step = "none"
         \/ reqs[r].abandoned /\ reqs[r].step = "chain"
  BY <1>1 DEF Consistent, Doing
<1>3. PICK k \in KeysOf[r] :
        LET rec  == [reqs[r] EXCEPT !.key = k]
            full == ~HasSlot(buckets[k])
            room == Len(buckets[k].queue) < MaxQueue
            wait == [rec EXCEPT !.fin = @ \cup {"waiter"}]
        IN  \/ k = NoKey /\ Only(r, At(rec, "work"))
            \/ /\ k # NoKey /\ ~full
               /\ reqs' = [reqs EXCEPT ![r] = Acquire(rec)]
               /\ buckets' = [buckets EXCEPT ![k].active = @ + 1]
            \/ /\ k # NoKey /\ full /\ room /\ ~Gone(rec)
               /\ reqs' = [reqs EXCEPT ![r] = At(wait, "queued")]
               /\ buckets' = [buckets EXCEPT ![k].queue = Append(@, r)]
            \/ k # NoKey /\ full /\ room /\ Gone(rec) /\ Only(r, Thrown(wait))
            \/ k # NoKey /\ full /\ ~room /\ Only(r, Thrown(rec))
  BY DEF Limit
<1> DEFINE rec  == [reqs[r] EXCEPT !.key = k]
           wait == [rec EXCEPT !.fin = rec.fin \cup {"waiter"}]
<1>4. k \in Keys \cup {NoKey} /\ NoKey \notin Keys
  BY DispatchConstants
<1>5. /\ rec \in RequestRecord /\ rec.key = k /\ rec.pc = reqs[r].pc /\ rec.step = reqs[r].step
      /\ rec.acquired = reqs[r].acquired /\ rec.counted = reqs[r].counted
      /\ rec.abandoned = reqs[r].abandoned /\ rec.deferred = reqs[r].deferred
      /\ rec.fin = reqs[r].fin /\ rec.armed = reqs[r].armed
  BY <1>1, <1>4 DEF RequestRecord
<1>6. \/ k = NoKey /\ Only(r, At(rec, "work"))
      \/ /\ k # NoKey /\ HasSlot(buckets[k])
         /\ reqs' = [reqs EXCEPT ![r] = Acquire(rec)]
         /\ buckets' = [buckets EXCEPT ![k].active = @ + 1]
      \/ /\ k # NoKey /\ ~HasSlot(buckets[k]) /\ Len(buckets[k].queue) < MaxQueue /\ ~Gone(rec)
         /\ reqs' = [reqs EXCEPT ![r] = At(wait, "queued")]
         /\ buckets' = [buckets EXCEPT ![k].queue = Append(@, r)]
      \/ k # NoKey /\ Only(r, Thrown(wait))
      \/ k # NoKey /\ Only(r, Thrown(rec))
  BY <1>3
<1> HIDE DEF rec
<1>7. rec.fin \cup {"waiter"} \in SUBSET {"waiter", "release"}
  BY <1>5 DEF RequestRecord
<1>8. /\ wait \in RequestRecord /\ wait.key = k /\ wait.pc = reqs[r].pc /\ wait.step = reqs[r].step
      /\ wait.acquired = reqs[r].acquired /\ wait.counted = reqs[r].counted
      /\ wait.abandoned = reqs[r].abandoned /\ wait.deferred = reqs[r].deferred
      /\ wait.fin = reqs[r].fin \cup {"waiter"} /\ wait.armed = reqs[r].armed
  BY <1>5, <1>7 DEF RequestRecord
<1> HIDE DEF wait
<1>9. k \in Keys => Consistent(rec) /\ Consistent(wait)
  <2>1. ~Works(reqs[r]) /\ ~Works(rec) /\ ~Works(wait) /\ ~Doing(rec, "queued") /\ ~Doing(wait, "queued")
    BY <1>1, <1>2, <1>5, <1>8 DEF Works, Doing, Consistent
  <2> QED
    BY <1>1, <1>2, <1>5, <1>8, <2>1 DEF Consistent
<1>10. NoLateWaiter(reqs[r])
  BY DEF DispatchInv
<1>11. reqs[r].abandoned \/ reqs[r].pc \in InTry
  BY <1>2 DEF InTry, Raced
<1>12. CASE k = NoKey /\ Only(r, At(rec, "work"))
  <2> DEFINE new == At(rec, "work")
  <2>1. /\ new \in RequestRecord /\ new.pc = (IF rec.abandoned THEN rec.pc ELSE "work")
        /\ new.step = (IF rec.abandoned THEN "work" ELSE rec.step)
        /\ new.key = rec.key /\ new.acquired = rec.acquired /\ new.counted = rec.counted
        /\ new.abandoned = rec.abandoned /\ new.deferred = rec.deferred /\ new.fin = rec.fin
        /\ new.armed = rec.armed
    BY <1>5, AtEffect
  <2> HIDE DEF new
  <2>2. ~Doing(new, "queued")
    BY <1>2, <1>5, <2>1 DEF Doing
  <2>3. reqs[r].fin = {}
    BY <1>2 DEF DispatchInv, Untouched
  <2>4. Consistent(new)
    BY <1>1, <1>2, <1>4, <1>5, <1>12, <2>1, <2>2, <2>3 DEF Consistent, Works, Doing, InTry, Raced
  <2>5. Fits(r, new)
    BY <1>2, <1>5, <1>10, <2>1, <2>3, <2>4 DEF Fits, NoLateWaiter, Untouched
  <2> QED
    BY <1>2, <1>5, <1>12, <2>1, <2>2, <2>5, OnlyInv DEF new
<1>13. CASE /\ k # NoKey /\ HasSlot(buckets[k])
            /\ reqs' = [reqs EXCEPT ![r] = Acquire(rec)]
            /\ buckets' = [buckets EXCEPT ![k].active = @ + 1]
  <2>1. k \in Keys
    BY <1>4, <1>13
  <2>2. /\ Acquire(rec) \in RequestRecord /\ Consistent(Acquire(rec)) /\ Untouched(Acquire(rec))
        /\ NoLateWaiter(rec) => NoLateWaiter(Acquire(rec))
        /\ Acquire(rec).acquired /\ ~Doing(Acquire(rec), "queued")
        /\ Acquire(rec).key = k /\ Acquire(rec).counted = rec.counted
    BY <1>2, <1>5, <1>9, <2>1, AcquireOK
  <2>3. Fits(r, Acquire(rec))
    BY <1>5, <1>10, <2>2 DEF Fits, NoLateWaiter
  <2> QED
    BY <1>2, <1>13, <2>1, <2>2, <2>3, TakeSlotInv
<1>14. CASE /\ k # NoKey /\ ~HasSlot(buckets[k]) /\ Len(buckets[k].queue) < MaxQueue /\ ~Gone(rec)
            /\ reqs' = [reqs EXCEPT ![r] = At(wait, "queued")]
            /\ buckets' = [buckets EXCEPT ![k].queue = Append(@, r)]
  <2> DEFINE new == At(wait, "queued")
  <2>1. k \in Keys /\ ~reqs[r].abandoned /\ reqs[r].pc = "chain" /\ reqs[r].step = "none"
    BY <1>2, <1>4, <1>5, <1>14 DEF Gone
  <2>2. /\ new \in RequestRecord /\ new.pc = "queued" /\ new.step = "none" /\ new.key = k
        /\ new.acquired = wait.acquired /\ new.counted = wait.counted
        /\ new.abandoned = wait.abandoned /\ new.deferred = wait.deferred /\ new.fin = wait.fin
        /\ new.armed = wait.armed
    BY <1>8, <2>1, AtEffect
  <2> HIDE DEF new
  <2>3. Consistent(new)
    BY <1>1, <1>2, <1>8, <2>1, <2>2 DEF Consistent, Works, Doing, InTry, Raced
  <2>4. Fits(r, new) /\ Doing(new, "queued")
    BY <1>1, <1>8, <2>1, <2>2, <2>3 DEF Fits, NoLateWaiter, Doing, Consistent, Untouched
  <2> QED
    BY <1>2, <1>8, <1>14, <2>1, <2>2, <2>4, JoinQueueInv DEF new
<1>15. ASSUME NEW x \in {rec, wait}, k # NoKey, Only(r, Thrown(x)) PROVE DispatchInv'
  <2>1. /\ x \in RequestRecord /\ Consistent(x) /\ ~x.acquired /\ x.counted = reqs[r].counted
        /\ x.abandoned \/ x.pc \in InTry
    BY <1>2, <1>4, <1>5, <1>8, <1>9, <1>11, <1>15
  <2>2. /\ Thrown(x) \in RequestRecord /\ Consistent(Thrown(x)) /\ NoLateWaiter(Thrown(x)) /\ Untouched(Thrown(x))
        /\ ~Thrown(x).acquired /\ ~Doing(Thrown(x), "queued")
        /\ Thrown(x).counted => x.counted
    BY <2>1, ThrownOK
  <2>3. Fits(r, Thrown(x))
    BY <2>1, <2>2 DEF Fits
  <2> QED
    BY <1>2, <1>15, <2>2, <2>3, OnlyInv
<1> QED
  BY <1>6, <1>12, <1>13, <1>14, <1>15

\* The listener of a waiter: it leaves the queue, and its chain rejects.
LEMMA RejectedInv ==
    ASSUME DispatchInv, NEW r \in Requests, NEW rec, Fits(r, rec),
           rec.key = reqs[r].key, rec.acquired <=> reqs[r].acquired,
           Doing(rec, "queued") <=> Doing(reqs[r], "queued"),
           Rejected(r, rec), UNCHANGED app
    PROVE  DispatchInv'
<1>1. rec \in RequestRecord /\ Consistent(rec) /\ reqs[r] \in RequestRecord /\ Consistent(reqs[r])
  BY DEF DispatchInv, Fits
<1>2. CASE Doing(rec, "queued")
  <2>1. /\ ~rec.acquired /\ ~reqs[r].acquired /\ rec.key \in Keys
        /\ rec.abandoned \/ rec.pc \in InTry
    BY <1>1, <1>2 DEF Consistent, Doing, InTry, Raced
  <2>2. Dequeue(r, Thrown(rec))
    BY <1>2 DEF Rejected
  <2>3. /\ Thrown(rec) \in RequestRecord /\ Consistent(Thrown(rec)) /\ NoLateWaiter(Thrown(rec))
        /\ Untouched(Thrown(rec)) /\ ~Thrown(rec).acquired /\ ~Doing(Thrown(rec), "queued")
        /\ Thrown(rec).key = rec.key /\ (Thrown(rec).counted => rec.counted)
    BY <1>1, <2>1, ThrownOK
  <2>4. Fits(r, Thrown(rec))
    BY <2>3 DEF Fits
  <2> QED
    BY <2>1, <2>2, <2>3, <2>4, DequeueInv
<1>3. CASE ~Doing(rec, "queued")
  <2>1. Only(r, rec)
    BY <1>3 DEF Rejected
  <2> QED
    BY <2>1, OnlyInv
<1> QED
  BY <1>2, <1>3

\* onSend of the limiter: a slot that is held goes on to the next waiter.
LEMMA LimiterOnSendInv ==
    ASSUME DispatchInv, NEW r \in Requests, NEW rec \in RequestRecord, Fits(r, rec),
           rec.key = reqs[r].key, rec.acquired <=> reqs[r].acquired,
           rec.pc \in {"flush", "answered"},
           Doing(rec, "queued") <=> Doing(reqs[r], "queued"),
           LimiterOnSend(r, rec), UNCHANGED app
    PROVE  DispatchInv'
<1>1. CASE Holds(rec)
  <2> DEFINE new == [rec EXCEPT !.acquired = FALSE]
  <2>1. /\ new \in RequestRecord /\ new.pc = rec.pc /\ new.step = rec.step /\ new.key = rec.key
        /\ ~new.acquired /\ new.counted = rec.counted
        /\ new.abandoned = rec.abandoned /\ new.deferred = rec.deferred
        /\ new.fin = rec.fin /\ new.armed = rec.armed
    BY DEF RequestRecord
  <2>2. Release(r, new)
    BY <1>1 DEF LimiterOnSend
  <2> HIDE DEF new
  <2>3. Consistent(rec) /\ ~rec.abandoned /\ rec.acquired
    BY <1>1 DEF Holds, Fits
  <2>4. ~Doing(new, "queued")
    BY <2>1, <2>3 DEF Doing, Consistent
  <2>5. Consistent(new)
    BY <2>1, <2>3, <2>4 DEF Consistent, Works, Doing, InTry, Raced
  <2>6. Fits(r, new)
    BY <2>1, <2>5 DEF Fits, Untouched, NoLateWaiter
  <2> QED
    BY <2>1, <2>2, <2>3, <2>4, <2>6, ReleaseInv
<1>2. CASE ~Holds(rec)
  <2>1. Only(r, rec)
    BY <1>2 DEF LimiterOnSend
  <2> QED
    BY <2>1, OnlyInv
<1> QED
  BY <1>1, <1>2

-----------------------------------------------------------------------------
(***************************************************************************)
(* The actions.                                                            *)
(***************************************************************************)
\* The dispatch goes on, with what it holds.
LEMMA GoesInv ==
    ASSUME DispatchInv, NEW r \in Requests, NEW pc, Goes(r, pc), UNCHANGED app,
           \/ reqs[r].pc \in {"onRequest", "pre", "chain", "work", "send", "flush"} /\ pc = "catch"
           \/ reqs[r].pc = "pre" /\ pc \in {"chain", "send"}
           \/ reqs[r].pc \in {"chain", "work"} /\ pc = "send"
           \/ reqs[r].pc = "errorSend" /\ pc = "failed"
           \/ reqs[r].pc = "new" /\ pc = "refused"
    PROVE  DispatchInv'
<1> DEFINE new == [reqs[r] EXCEPT !.pc = pc]
<1>1. reqs[r] \in RequestRecord /\ Consistent(reqs[r]) /\ Untouched(reqs[r])
  BY DEF DispatchInv
<1>2. pc \in {"new", "catch", "errorSend"} \cup InTry \cup Answered
  BY DEF InTry, Answered, Raced
<1>3. /\ new \in RequestRecord /\ new.pc = pc /\ new.step = reqs[r].step /\ new.key = reqs[r].key
      /\ new.acquired = reqs[r].acquired /\ new.counted = reqs[r].counted
      /\ new.abandoned = reqs[r].abandoned /\ new.deferred = reqs[r].deferred
      /\ new.fin = reqs[r].fin /\ new.armed = reqs[r].armed
  BY <1>1, <1>2 DEF RequestRecord
<1>4. Only(r, new)
  BY DEF Goes
<1> HIDE DEF new
<1>5. Doing(new, "queued") <=> Doing(reqs[r], "queued")
  BY <1>3 DEF Doing
<1>6. Consistent(new)
  <2>1. CASE pc = "catch"
    BY <1>1, <1>3, <1>5, <2>1 DEF Consistent, Works, Doing, InTry, Raced
  <2>2. CASE pc # "catch" /\ reqs[r].pc \in InTry
    BY <1>1, <1>3, <1>5, <2>2 DEF Consistent, Works, Doing, InTry, Raced
  <2>3. CASE pc \in {"failed", "refused"}
    BY <1>1, <1>3, <1>5, <2>3 DEF Consistent, Works, Doing, InTry, Raced
  <2> QED
    BY <2>1, <2>2, <2>3 DEF InTry, Raced
<1>7. Untouched(new)
  BY <1>1, <1>3 DEF Untouched
<1>8. Fits(r, new)
  BY <1>3, <1>6, <1>7 DEF Fits, NoLateWaiter, DispatchInv
<1> QED
  BY <1>3, <1>4, <1>5, <1>8, OnlyInv

LEMMA ArriveInv ==
    ASSUME DispatchInv, NEW r \in Requests, Arrive(r) PROVE DispatchInv'
<1>1. CASE Admits
  <2> DEFINE new == [reqs[r] EXCEPT !.pc = "onRequest", !.counted = TRUE]
  <2>1. reqs[r] \in RequestRecord /\ Consistent(reqs[r]) /\ Untouched(reqs[r]) /\ reqs[r].pc = "new"
    BY DEF DispatchInv, Arrive
  <2>2. /\ new \in RequestRecord /\ new.pc = "onRequest" /\ new.step = reqs[r].step
        /\ new.key = reqs[r].key /\ new.acquired = reqs[r].acquired /\ new.counted
        /\ new.abandoned = reqs[r].abandoned /\ new.deferred = reqs[r].deferred
        /\ new.fin = reqs[r].fin /\ new.armed = reqs[r].armed
    BY <2>1 DEF RequestRecord, InTry
  <2>3. Only(r, new) /\ UNCHANGED app
    BY <1>1 DEF Arrive
  <2> HIDE DEF new
  <2>4. Doing(new, "queued") <=> Doing(reqs[r], "queued")
    BY <2>1, <2>2 DEF Doing
  <2>5. Consistent(new)
    BY <2>1, <2>2, <2>4 DEF Consistent, Works, Doing, InTry, Raced
  <2>6. Fits(r, new)
    BY <1>1, <2>1, <2>2, <2>5 DEF Fits, NoLateWaiter, DispatchInv, Untouched, Admits
  <2> QED
    BY <2>2, <2>3, <2>4, <2>6, OnlyInv
<1>2. CASE ~Admits
  BY <1>2, GoesInv DEF Arrive
<1> QED
  BY <1>1, <1>2

LEMMA OnRequestInv ==
    ASSUME DispatchInv, NEW r \in Requests, OnRequest(r) PROVE DispatchInv'
<1> DEFINE t   == r \in Timed
           new == [reqs[r] EXCEPT !.pc = "pre", !.armed = t]
<1>1. /\ reqs[r] \in RequestRecord /\ Consistent(reqs[r]) /\ Untouched(reqs[r])
      /\ reqs[r].pc = "onRequest" /\ UNCHANGED app /\ t \in BOOLEAN
  BY DEF DispatchInv, OnRequest
<1>2. Only(r, new) \/ Goes(r, "catch")
  BY DEF OnRequest
<1> HIDE DEF t
<1>3. CASE Goes(r, "catch")
  BY <1>1, <1>3, GoesInv
<1>4. CASE Only(r, new)
  <2>1. /\ new \in RequestRecord /\ new.pc = "pre" /\ new.step = reqs[r].step
        /\ new.key = reqs[r].key /\ new.acquired = reqs[r].acquired
        /\ new.counted = reqs[r].counted
        /\ new.abandoned = reqs[r].abandoned /\ new.deferred = reqs[r].deferred
        /\ new.fin = reqs[r].fin
    BY <1>1 DEF RequestRecord, InTry, Raced
  <2> HIDE DEF new
  <2>2. Doing(new, "queued") <=> Doing(reqs[r], "queued")
    BY <1>1, <2>1 DEF Doing
  <2>3. Consistent(new)
    BY <1>1, <2>1, <2>2 DEF Consistent, Works, Doing, InTry, Raced
  <2>4. Fits(r, new)
    BY <1>1, <2>1, <2>3 DEF Fits, NoLateWaiter, DispatchInv, Untouched
  <2> QED
    BY <1>1, <1>4, <2>1, <2>2, <2>4, OnlyInv
<1> QED
  BY <1>2, <1>3, <1>4

LEMMA TryInv ==
    ASSUME DispatchInv, NEW r \in Requests, PreBody(r) \/ BeforeHandle(r) \/ Work(r)
    PROVE  DispatchInv'
<1>1. CASE PreBody(r)
  BY <1>1, GoesInv DEF PreBody
<1>2. CASE BeforeHandle(r)
  BY <1>2, GoesInv, LimitInv DEF BeforeHandle, Doing
<1>3. CASE Work(r)
  BY <1>3, GoesInv DEF Work
<1> QED
  BY <1>1, <1>2, <1>3

LEMMA SendInv ==
    ASSUME DispatchInv, NEW r \in Requests, OnSend(r) \/ OnResponse(r) \/ OnError(r) \/ ErrorSend(r)
    PROVE  DispatchInv'
<1>1. reqs[r] \in RequestRecord /\ Consistent(reqs[r]) /\ Untouched(reqs[r])
  BY DEF DispatchInv
<1>2. ASSUME NEW pc \in {"flush", "answered"}, LimiterOnSend(r, [reqs[r] EXCEPT !.pc = pc]), UNCHANGED app,
             \/ reqs[r].pc = "send" /\ pc = "flush"
             \/ reqs[r].pc = "errorSend" /\ pc = "answered"
      PROVE  DispatchInv'
  <2> DEFINE new == [reqs[r] EXCEPT !.pc = pc]
  <2>1. /\ new \in RequestRecord /\ new.pc = pc /\ new.step = reqs[r].step
        /\ new.key = reqs[r].key /\ new.acquired = reqs[r].acquired
        /\ new.counted = reqs[r].counted
        /\ new.abandoned = reqs[r].abandoned /\ new.deferred = reqs[r].deferred
        /\ new.fin = reqs[r].fin /\ new.armed = reqs[r].armed
    BY <1>1 DEF RequestRecord, InTry, Answered
  <2>2. LimiterOnSend(r, new)
    BY <1>2
  <2> HIDE DEF new
  <2>3. Doing(new, "queued") <=> Doing(reqs[r], "queued")
    BY <1>2, <2>1 DEF Doing
  <2>4. Consistent(new)
    BY <1>1, <1>2, <2>1, <2>3 DEF Consistent, Works, Doing, InTry, Raced
  <2>5. Fits(r, new)
    BY <1>1, <2>1, <2>4 DEF Fits, NoLateWaiter, DispatchInv, Untouched
  <2> QED
    BY <1>2, <2>1, <2>2, <2>3, <2>5, LimiterOnSendInv
<1>3. CASE OnSend(r)
  BY <1>2, <1>3, GoesInv DEF OnSend
<1>4. CASE OnResponse(r)
  BY <1>4, GoesInv, FinallyInv DEF OnResponse, Ended
<1>5. CASE OnError(r)
  <2>1. PICK pc \in {"errorSend", "failed"} : Finally(r, [reqs[r] EXCEPT !.pc = pc])
    BY <1>5 DEF OnError
  <2>2. pc \in Ended /\ reqs[r].pc = "catch" /\ UNCHANGED app
    BY <1>5 DEF OnError, Ended
  <2> QED
    BY <2>1, <2>2, FinallyInv
<1>6. CASE ErrorSend(r)
  BY <1>2, <1>6, GoesInv DEF ErrorSend
<1> QED
  BY <1>3, <1>4, <1>5, <1>6

\* The deadline: the raced step is abandoned with what it holds.
LEMMA DeadlineInv ==
    ASSUME DispatchInv, NEW r \in Requests, Deadline(r) PROVE DispatchInv'
<1> DEFINE a     == reqs[r].aborted \/ r \in Abortable
           fired == [reqs[r] EXCEPT !.armed = FALSE, !.aborted = a]
           gone  == [fired EXCEPT !.abandoned = TRUE, !.step = fired.pc, !.pc = "catch"]
           rec   == IF IsRaced(fired.pc) THEN gone ELSE fired
<1>1. /\ reqs[r] \in RequestRecord /\ Consistent(reqs[r]) /\ Untouched(reqs[r])
      /\ reqs[r].armed /\ UNCHANGED app
  BY DEF DispatchInv, Deadline
<1>2. ~reqs[r].abandoned /\ reqs[r].step = "none" /\ reqs[r].deferred = "no"
  BY <1>1 DEF Consistent
<1>3. a \in BOOLEAN
  BY <1>1 DEF RequestRecord
<1>4. IF r \in Abortable THEN Rejected(r, rec) ELSE Only(r, rec)
  BY <1>1 DEF Deadline
<1> HIDE DEF a
<1>5. /\ fired \in RequestRecord /\ fired.pc = reqs[r].pc /\ fired.step = reqs[r].step
      /\ fired.key = reqs[r].key /\ fired.acquired = reqs[r].acquired
      /\ fired.counted = reqs[r].counted
      /\ fired.abandoned = reqs[r].abandoned /\ fired.deferred = reqs[r].deferred
      /\ fired.fin = reqs[r].fin /\ fired.armed = FALSE
  BY <1>1, <1>3 DEF RequestRecord
<1> HIDE DEF fired
<1>6. ASSUME IsRaced(fired.pc)
      PROVE  /\ gone \in RequestRecord /\ gone.pc = "catch" /\ gone.step = reqs[r].pc
             /\ gone.key = reqs[r].key /\ gone.acquired = reqs[r].acquired
             /\ gone.counted = reqs[r].counted
             /\ gone.abandoned = TRUE /\ gone.deferred = "no"
             /\ gone.fin = reqs[r].fin /\ gone.armed = FALSE
  BY <1>2, <1>5, <1>6 DEF RequestRecord, IsRaced
<1> HIDE DEF gone
<1>7. /\ rec.key = reqs[r].key /\ rec.acquired = reqs[r].acquired
      /\ Doing(rec, "queued") <=> Doing(reqs[r], "queued")
  BY <1>2, <1>5, <1>6 DEF Doing, IsRaced, Raced
<1>8. Fits(r, rec)
  <2>1. CASE IsRaced(fired.pc)
    <3>1. Consistent(gone)
      BY <1>1, <1>2, <1>5, <1>6, <2>1 DEF Consistent, Works, Doing, InTry, Raced, IsRaced
    <3>2. Untouched(gone)
      BY <1>1, <1>6, <2>1 DEF Untouched
    <3> QED
      BY <1>6, <2>1, <3>1, <3>2 DEF Fits, NoLateWaiter
  <2>2. CASE ~IsRaced(fired.pc)
    <3>1. Consistent(fired)
      BY <1>1, <1>2, <1>5 DEF Consistent, Works, Doing
    <3> QED
      BY <1>1, <1>2, <1>5, <2>2, <3>1 DEF Fits, NoLateWaiter, Untouched
  <2> QED
    BY <2>1, <2>2
<1> HIDE DEF rec
<1> QED
  BY <1>1, <1>4, <1>7, <1>8, OnlyInv, RejectedInv

\* The client goes away, or the queue's own timer fires.
LEMMA WaiterInv ==
    ASSUME DispatchInv, NEW r \in Requests, Disconnect(r) \/ QueueTimer(r)
    PROVE  DispatchInv'
<1>1. /\ reqs[r] \in RequestRecord /\ Consistent(reqs[r]) /\ Untouched(reqs[r])
      /\ NoLateWaiter(reqs[r])
  BY DEF DispatchInv
<1>2. CASE Disconnect(r)
  <2> DEFINE new == [reqs[r] EXCEPT !.aborted = TRUE]
  <2>1. /\ new \in RequestRecord /\ new.pc = reqs[r].pc /\ new.step = reqs[r].step
        /\ new.key = reqs[r].key /\ new.acquired = reqs[r].acquired
        /\ new.counted = reqs[r].counted
        /\ new.abandoned = reqs[r].abandoned /\ new.deferred = reqs[r].deferred
        /\ new.fin = reqs[r].fin /\ new.armed = reqs[r].armed
    BY <1>1 DEF RequestRecord
  <2>2. Rejected(r, new) /\ UNCHANGED app
    BY <1>2 DEF Disconnect
  <2> HIDE DEF new
  <2>3. Doing(new, "queued") <=> Doing(reqs[r], "queued")
    BY <2>1 DEF Doing
  <2>4. Consistent(new)
    BY <1>1, <2>1 DEF Consistent, Works, Doing
  <2>5. Fits(r, new)
    BY <1>1, <2>1, <2>4 DEF Fits, NoLateWaiter, Untouched
  <2> QED
    BY <2>1, <2>2, <2>3, <2>5, RejectedInv
<1>3. CASE QueueTimer(r)
  <2>1. Fits(r, reqs[r])
    BY <1>1 DEF Fits
  <2> QED
    BY <1>3, <2>1, RejectedInv DEF QueueTimer
<1> QED
  BY <1>2, <1>3

LEMMA LateStepInv ==
    ASSUME DispatchInv, NEW r \in Requests, LateStep(r) PROVE DispatchInv'
BY LateSettleInv, LimitInv DEF LateStep, Doing

\* The grace window is over: the slot goes although its work may go on.
LEMMA GraceOverInv ==
    ASSUME DispatchInv, NEW r \in Requests, GraceOver(r) PROVE DispatchInv'
<1>1. /\ reqs[r] \in RequestRecord /\ Consistent(reqs[r])
      /\ reqs[r].deferred = "waiting" /\ reqs[r].step \in OutlivesGrace
      /\ Finalize(r, reqs[r]) /\ UNCHANGED app
  BY DEF DispatchInv, GraceOver, GraceArmed
<1>2. reqs[r].abandoned /\ ~reqs[r].armed /\ reqs[r].pc \in Ended
  BY <1>1 DEF Consistent, Ended
<1>3. Doing(reqs[r], "queued") <=> reqs[r].step = "queued"
  BY <1>2 DEF Doing, Ended
<1> QED
  BY <1>1, <1>2, <1>3, FinalizeInv

-----------------------------------------------------------------------------
(***************************************************************************)
(* shutdown, and the theorems.                                             *)
(***************************************************************************)
LEMMA ShutdownInv ==
    ASSUME DispatchInv, NEW c \in Calls, ShutdownStep(c) PROVE DispatchInv'
<1> DEFINE States == {"none", "listeners", "drain", "close", "done", "failed"}
<1>1. AppOK
  BY DEF DispatchInv
<1>2. ASSUME NEW rec, NEW state \in States, Becomes(c, state, rec),
             rec \in [draining : BOOLEAN, listened : BOOLEAN, forced : BOOLEAN,
                      calls : [Calls -> States], closing : {"no", "running", "run"}],
             rec.draining, rec.calls = app.calls,
             state = "close" \/ app.closing # "no" => rec.closing # "no",
             rec.closing # "no" /\ ~rec.forced => \A r \in Requests : ~reqs[r].counted
      PROVE  DispatchInv'
  <2>1. /\ app' = [rec EXCEPT !.calls = [rec.calls EXCEPT ![c] = state]]
        /\ reqs' = reqs /\ buckets' = buckets
    BY <1>2 DEF Becomes
  <2> DEFINE calls == [rec.calls EXCEPT ![c] = state]
  <2>2. calls \in [Calls -> States]
    BY <1>2
  <2> HIDE DEF calls
  <2>3. /\ app' \in [draining : BOOLEAN, listened : BOOLEAN, forced : BOOLEAN,
                     calls : [Calls -> States], closing : {"no", "running", "run"}]
        /\ app'.draining = rec.draining /\ app'.closing = rec.closing /\ app'.forced = rec.forced
    BY <1>2, <2>1, <2>2 DEF calls
  <2>4. \A d \in Calls : app'.calls[d] = IF d = c THEN state ELSE app.calls[d]
    BY <1>1, <1>2, <2>1 DEF AppOK
  <2>5. AppOK'
    BY <1>1, <1>2, <2>1, <2>3, <2>4 DEF AppOK
  <2>6. \A k \in Keys : Holders(k)' = Holders(k) /\ Waiters(k)' = Waiters(k)
    BY <2>1 DEF Holders, Waiters
  <2> QED
    BY <2>1, <2>5, <2>6 DEF DispatchInv
<1>3. CASE Shutdown(c)
  <2> DEFINE rec   == [app EXCEPT !.draining = TRUE, !.listened = TRUE]
             state == IF app.listened THEN "drain" ELSE "listeners"
  <2>1. Becomes(c, state, rec) /\ state \in States /\ state # "close"
    BY <1>3 DEF Shutdown
  <2>2. /\ rec \in [draining : BOOLEAN, listened : BOOLEAN, forced : BOOLEAN,
                    calls : [Calls -> States], closing : {"no", "running", "run"}]
        /\ rec.draining /\ rec.closing = app.closing /\ rec.forced = app.forced
        /\ rec.calls = app.calls
    BY <1>1 DEF AppOK
  <2> HIDE DEF rec, state
  <2> QED
    BY <1>1, <1>2, <2>1, <2>2 DEF AppOK
<1>4. CASE ListenersDone(c)
  BY <1>1, <1>2, <1>4 DEF AppOK, ListenersDone
<1>5. CASE Drain(c)
  <2>1. app.draining
    BY <1>1, <1>5 DEF AppOK, Drain
  <2>2. CASE app.closing # "no"
    BY <1>1, <1>2, <1>5, <2>1, <2>2 DEF AppOK, Drain
  <2>3. CASE app.closing = "no"
    <3> DEFINE f   == Inflight # {}
               rec == [app EXCEPT !.closing = "running", !.forced = f]
    <3>1. Becomes(c, "close", rec) /\ f \in BOOLEAN
      BY <1>5, <2>3 DEF Drain
    <3>2. ~f => \A r \in Requests : ~reqs[r].counted
      BY DEF Inflight
    <3> HIDE DEF f
    <3>3. /\ rec \in [draining : BOOLEAN, listened : BOOLEAN, forced : BOOLEAN,
                      calls : [Calls -> States], closing : {"no", "running", "run"}]
          /\ rec.draining /\ rec.forced = f /\ rec.closing # "no" /\ rec.calls = app.calls
      BY <1>1, <2>1, <3>1 DEF AppOK
    <3> HIDE DEF rec
    <3> QED
      BY <1>2, <3>1, <3>2, <3>3
  <2> QED
    BY <2>2, <2>3
<1>6. CASE CloseDone(c)
  <2> DEFINE rec == [app EXCEPT !.closing = "run"]
  <2>1. PICK state \in {"done", "failed"} : Becomes(c, state, rec)
    BY <1>6 DEF CloseDone
  <2>2. app.draining /\ app.closing # "no"
    BY <1>1, <1>6 DEF AppOK, CloseDone
  <2>3. /\ rec \in [draining : BOOLEAN, listened : BOOLEAN, forced : BOOLEAN,
                    calls : [Calls -> States], closing : {"no", "running", "run"}]
        /\ rec.draining /\ rec.forced = app.forced /\ rec.closing # "no" /\ rec.calls = app.calls
    BY <1>1, <2>2 DEF AppOK
  <2> HIDE DEF rec
  <2> QED
    BY <1>1, <1>2, <2>1, <2>2, <2>3 DEF AppOK
<1> QED
  BY <1>3, <1>4, <1>5, <1>6 DEF ShutdownStep

LEMMA InvInitially == Init => DispatchInv
<1> SUFFICES ASSUME Init PROVE DispatchInv
  OBVIOUS
<1>1. reqs \in [Requests -> RequestRecord]
  BY DEF Init, RequestRecord
<1>2. ASSUME NEW r \in Requests
      PROVE  Consistent(reqs[r]) /\ Untouched(reqs[r]) /\ NoLateWaiter(reqs[r]) /\ ~reqs[r].counted
             /\ ~reqs[r].acquired /\ ~Doing(reqs[r], "queued")
  BY DEF Init, Consistent, Untouched, NoLateWaiter, Doing, Works, InTry, Raced
<1>3. ASSUME NEW k \in Keys PROVE BucketOK(buckets[k], Holders(k), Waiters(k))
  <2>1. Holders(k) = {} /\ Waiters(k) = {}
    BY <1>2 DEF Holders, Waiters
  <2>2. buckets[k] = [active |-> 0, queue |-> <<>>]
    BY DEF Init
  <2>3. IsFiniteSet({}) /\ Cardinality({}) = 0
    BY FS_EmptySet
  <2>4. Elements(<<>>) = {} /\ Injective(<<>>) /\ Len(<<>>) <= MaxQueue /\ <<>> \in Seq(Requests)
    BY DispatchConstants DEF Elements, Injective
  <2>5. 0 \in 0..MaxConcurrent
    BY DispatchConstants
  <2> QED
    BY <2>1, <2>2, <2>3, <2>4, <2>5 DEF BucketOK
<1>4. AppOK
  BY DEF Init, AppOK
<1>5. buckets = [k \in Keys |-> buckets[k]]
  BY DEF Init
<1> QED
  BY <1>1, <1>2, <1>3, <1>4, <1>5 DEF DispatchInv

LEMMA InvInductive == DispatchInv /\ [Next]_vars => DispatchInv'
<1> SUFFICES ASSUME DispatchInv, [Next]_vars PROVE DispatchInv'
  OBVIOUS
<1>1. ASSUME NEW r \in Requests, RequestStep(r) PROVE DispatchInv'
  BY <1>1, ArriveInv, OnRequestInv, TryInv, SendInv, DeadlineInv, WaiterInv, LateStepInv, GraceOverInv
     DEF RequestStep
<1>2. ASSUME NEW c \in Calls, ShutdownStep(c) PROVE DispatchInv'
  BY <1>2, ShutdownInv
<1>3. CASE UNCHANGED vars
  <2>1. reqs' = reqs /\ buckets' = buckets /\ app' = app
    BY <1>3 DEF vars
  <2>2. \A k \in Keys : Holders(k)' = Holders(k) /\ Waiters(k)' = Waiters(k)
    BY <2>1 DEF Holders, Waiters
  <2>3. AppOK'
    BY <2>1 DEF DispatchInv, AppOK
  <2> QED
    BY <2>1, <2>2, <2>3 DEF DispatchInv
<1> QED
  BY <1>1, <1>2, <1>3 DEF Next

\* The dispatcher's invariant holds of every behaviour.
LEMMA InvHolds == Spec => []DispatchInv
BY InvInitially, InvInductive, PTL DEF Spec

\* The length of a queue in which nobody is twice
LEMMA LenInjective ==
    ASSUME NEW q \in Seq(Requests), Injective(q)
    PROVE  Len(q) = Cardinality(Elements(q))
<1>1. Len(q) \in Nat /\ DOMAIN q = 1..Len(q)
  OBVIOUS
<1>2. q \in [1..Len(q) -> Elements(q)]
  BY <1>1 DEF Elements
<1>3. q \in Bijection(1..Len(q), Elements(q))
  <2>1. \A a, b \in 1..Len(q) : q[a] = q[b] => a = b
    BY <1>1 DEF Injective
  <2>2. \A x \in Elements(q) : \E a \in 1..Len(q) : q[a] = x
    BY <1>1 DEF Elements
  <2> QED
    BY <1>2, <2>1, <2>2 DEF Bijection, Injection, Surjection, IsInjective
<1>4. IsFiniteSet(1..Len(q)) /\ Cardinality(1..Len(q)) = Len(q)
  <2>1. Cardinality(1..Len(q)) = IF 1 > Len(q) THEN 0 ELSE Len(q) - 1 + 1
    BY <1>1, FS_Interval
  <2>2. IsFiniteSet(1..Len(q))
    BY <1>1, FS_Interval
  <2> QED
    BY <1>1, <2>1, <2>2
<1>5. ExistsBijection(1..Len(q), Elements(q))
  BY <1>3 DEF ExistsBijection
<1>6. IsFiniteSet(Elements(q)) /\ Cardinality(Elements(q)) = Cardinality(1..Len(q))
  BY <1>4, <1>5, FS_Bijection
<1> QED
  BY <1>4, <1>6

-----------------------------------------------------------------------------
(* The dispatcher's state keeps its shape: in particular, the semaphore stays
   between 0 and maxConcurrent. *)
THEOREM DispatchTypeCorrect == Spec => []DispatchTypeOK
<1>1. DispatchInv => DispatchTypeOK
  <2> SUFFICES ASSUME DispatchInv PROVE DispatchTypeOK
    OBVIOUS
  <2>1. buckets = [k \in Keys |-> buckets[k]] /\ \A k \in Keys : buckets[k] \in [active : 0..MaxConcurrent, queue : Seq(Requests)]
    BY DEF DispatchInv, BucketOK
  <2> QED
    BY <2>1 DEF DispatchInv, DispatchTypeOK, AppOK
<1> QED
  BY <1>1, InvHolds, PTL

(* Slots are neither leaked nor released twice: the semaphore of a bucket counts
   the requests that hold one of its slots, however a slot is released (onSend, a
   finalizer in finally, a deferred one, the grace timer) or handed on. *)
THEOREM SlotsCorrect == Spec => []SlotsAccounted
<1>1. DispatchInv => SlotsAccounted
  <2> SUFFICES ASSUME DispatchInv, NEW k \in Keys
               PROVE  buckets[k].active = Cardinality({r \in Requests : reqs[r].key = k /\ reqs[r].acquired})
    BY DEF SlotsAccounted, Of
  <2> QED
    BY DEF DispatchInv, BucketOK, Holders
<1> QED
  BY <1>1, InvHolds, PTL

(* Nobody waits for a slot that is free; a bucket's queue holds exactly the
   requests that wait, each once, and never more than maxQueue. *)
THEOREM QueueCorrect == Spec => []NoIdleSlot
<1>1. DispatchInv => NoIdleSlot
  <2> SUFFICES ASSUME DispatchInv, NEW k \in Keys
               PROVE  /\ buckets[k].queue # <<>> => buckets[k].active = MaxConcurrent
                      /\ Elements(buckets[k].queue)
                            = {r \in Requests : reqs[r].key = k /\ Doing(reqs[r], "queued")}
                      /\ Len(buckets[k].queue) = Cardinality(Elements(buckets[k].queue))
                      /\ Len(buckets[k].queue) <= MaxQueue
    BY DEF NoIdleSlot, Of
  <2>1. BucketOK(buckets[k], Holders(k), Waiters(k))
    BY DEF DispatchInv
  <2>2. buckets[k].queue \in Seq(Requests) /\ Injective(buckets[k].queue)
    BY <2>1 DEF BucketOK
  <2> QED
    BY <2>1, <2>2, LenInjective DEF BucketOK, Waiters
<1> QED
  BY <1>1, InvHolds, PTL

(* "maxConcurrent bounds running work", the work included that goes on behind a
   timeout response. *)
THEOREM WorkCorrect == Spec => []WorkWithinLimit
<1>1. DispatchInv => WorkWithinLimit
  <2> SUFFICES ASSUME DispatchInv, NEW k \in Keys
               PROVE  Cardinality({r \in Requests : reqs[r].key = k /\ Works(reqs[r])}) <= MaxConcurrent
    BY DEF WorkWithinLimit, Of
  <2> DEFINE W == {r \in Requests : reqs[r].key = k /\ Works(reqs[r])}
  <2>1. BucketOK(buckets[k], Holders(k), Waiters(k))
    BY DEF DispatchInv
  <2>2. W \subseteq Holders(k)
    BY DEF DispatchInv, Consistent, Holders
  <2> HIDE DEF W
  <2>3. IsFiniteSet(Holders(k)) /\ Cardinality(Holders(k)) \in 0..MaxConcurrent
    BY <2>1 DEF BucketOK
  <2>4. IsFiniteSet(W) /\ Cardinality(W) <= Cardinality(Holders(k))
    BY <2>2, <2>3, FS_Subset
  <2>5. Cardinality(W) \in Nat /\ MaxConcurrent \in Nat
    BY <2>4, FS_CardinalityType, DispatchConstants
  <2>6. Cardinality(W) <= MaxConcurrent
    BY <2>3, <2>4, <2>5
  <2> QED
    BY <2>6 DEF W
<1> QED
  BY <1>1, InvHolds, PTL

-----------------------------------------------------------------------------
(***************************************************************************)
(* Slots behind the finalizers.                                            *)
(***************************************************************************)
\* s may become rec: a slot that the finalizers will not see is taken too late,
\* or was there before.
Leaves(s, rec) ==
    rec.acquired /\ ~rec.counted => TooLate(reqs[s]) \/ (reqs[s].acquired /\ ~reqs[s].counted)

AllLeave == \A r \in Requests : Leaves(r, reqs'[r])

\* Only r changes, and takes no slot.
LEMMA OneLeaves ==
    ASSUME DispatchInv, NEW r \in Requests, NEW rec, reqs' = [reqs EXCEPT ![r] = rec],
           \/ ~rec.acquired
           \/ rec.acquired = reqs[r].acquired /\ rec.counted = reqs[r].counted
    PROVE  AllLeave
<1>1. \A s \in Requests : reqs'[s] = IF s = r THEN rec ELSE reqs[s]
  BY DEF DispatchInv
<1> QED
  BY <1>1 DEF AllLeave, Leaves

\* What throws takes no slot.
LEMMA ThrownTakesNone ==
    ASSUME NEW rec \in RequestRecord, ~rec.acquired
    PROVE  ~Thrown(rec).acquired
<1> DEFINE over == [rec EXCEPT !.step = "none"]
<1>1. over \in RequestRecord /\ ~over.acquired
  BY DEF RequestRecord
<1>2. [rec EXCEPT !.pc = "catch"].acquired = rec.acquired
  BY DEF RequestRecord
<1> HIDE DEF over
<1>3. ~Finalized(over).acquired
  BY <1>1, FinalizedEffect
<1> QED
  BY <1>1, <1>2, <1>3 DEF Thrown, StepOver, over

\* r gives its slot back, and a waiter that is still counted may get it.
LEMMA ReleaseLeaves ==
    ASSUME DispatchInv, NEW r \in Requests, NEW rec, reqs[r].acquired, ~rec.acquired,
           rec.key = reqs[r].key, Release(r, rec)
    PROVE  AllLeave
<1>1. reqs \in [Requests -> RequestRecord] /\ Consistent(reqs[r])
  BY DEF DispatchInv
<1>2. rec.key \in Keys
  BY <1>1 DEF Consistent
<1> DEFINE k == rec.key
           q == buckets[k].queue
           rs == [reqs EXCEPT ![r] = rec]
           n == PassedOver(rs, q)
<1>3. \A s \in Requests :
         reqs'[s] = CASE \E i \in 1..n : q[i] = s -> Thrown(rs[s])
                      [] n < Len(q) /\ s = q[n + 1] -> Acquire(rs[s])
                      [] OTHER -> rs[s]
  BY DEF Release
<1>4. q \in Seq(Requests) /\ Elements(q) = Waiters(k) /\ Injective(q)
  BY <1>2 DEF DispatchInv, BucketOK
<1>5. rs[r] = rec /\ \A s \in Requests : s # r => rs[s] = reqs[s]
  BY <1>1
<1>6. n \in 0..Len(q)
  <2>1. rs = [reqs EXCEPT ![r] = rec]
    OBVIOUS
  <2> QED
    BY <1>4, PassedOverFound
<1> HIDE DEF n, q, rs
<1>7. ASSUME NEW s \in Requests, s \in Waiters(k)
      PROVE  rs[s] = reqs[s] /\ reqs[s] \in RequestRecord /\ ~reqs[s].acquired /\ reqs[s].counted
  <2>1. Consistent(reqs[s]) /\ NoLateWaiter(reqs[s]) /\ Doing(reqs[s], "queued")
    BY <1>7 DEF DispatchInv, Waiters
  <2>2. ~reqs[s].acquired /\ s # r
    BY <2>1 DEF Consistent
  <2>3. reqs[s].counted
    BY <2>1 DEF Consistent, NoLateWaiter, Doing, InTry, Raced
  <2> QED
    BY <1>1, <1>5, <2>2, <2>3
<1>8. ASSUME NEW s \in Requests PROVE Leaves(s, reqs'[s])
  <2>0. (\E i \in 1..n : q[i] = s) => ~(n < Len(q) /\ s = q[n + 1])
    BY <1>4, <1>6 DEF Injective
  <2>1. CASE \E i \in 1..n : q[i] = s
    <3>1. s \in Waiters(k)
      BY <1>4, <1>6, <2>1 DEF Elements
    <3>2. reqs'[s] = Thrown(reqs[s]) /\ reqs[s] \in RequestRecord /\ ~reqs[s].acquired
      BY <1>3, <1>7, <2>0, <2>1, <3>1
    <3> QED
      BY <3>2, ThrownTakesNone DEF Leaves
  <2>2. CASE ~(\E i \in 1..n : q[i] = s) /\ n < Len(q) /\ s = q[n + 1]
    <3>1. s \in Waiters(k)
      BY <1>4, <1>6, <2>2 DEF Elements
    <3>2. reqs'[s] = Acquire(reqs[s]) /\ reqs[s] \in RequestRecord /\ reqs[s].counted
      BY <1>3, <1>7, <2>2, <3>1
    <3>3. Acquire(reqs[s]).counted
      BY <3>2 DEF Acquire, At, RequestRecord
    <3> QED
      BY <3>2, <3>3 DEF Leaves
  <2>3. CASE ~(\E i \in 1..n : q[i] = s) /\ ~(n < Len(q) /\ s = q[n + 1])
    <3>1. reqs'[s] = rs[s]
      BY <1>3, <2>3
    <3> QED
      BY <1>5, <3>1 DEF Leaves
  <2> QED
    BY <2>1, <2>2, <2>3
<1> QED
  BY <1>8 DEF AllLeave

\* The finalizers leave r without a slot.
LEMMA FinalizeLeaves ==
    ASSUME DispatchInv, NEW r \in Requests, NEW rec \in RequestRecord,
           rec.key = reqs[r].key, rec.acquired = reqs[r].acquired, rec.fin = reqs[r].fin,
           Finalize(r, rec)
    PROVE  AllLeave
<1> DEFINE f == Finalized(rec)
<1>1. Consistent(reqs[r])
  BY DEF DispatchInv
<1>2. f.key = rec.key /\ (f.acquired <=> rec.acquired /\ "release" \notin rec.fin)
  BY FinalizedEffect
<1>3. \/ rec.acquired /\ Release(r, f)
      \/ Dequeue(r, f)
      \/ Only(r, f)
  BY DEF Finalize
<1> HIDE DEF f
<1>4. ~f.acquired
  BY <1>1, <1>2 DEF Consistent
<1> QED
  BY <1>2, <1>3, <1>4, ReleaseLeaves, OneLeaves DEF Dequeue, Only

\* The finally block runs the finalizers, or puts them off.
LEMMA FinallyLeaves ==
    ASSUME DispatchInv, NEW r \in Requests, NEW pc, [reqs[r] EXCEPT !.pc = pc] \in RequestRecord,
           Finally(r, [reqs[r] EXCEPT !.pc = pc])
    PROVE  AllLeave
<1> DEFINE over == [reqs[r] EXCEPT !.pc = pc, !.armed = FALSE]
<1>1. reqs[r] \in RequestRecord
  BY DEF DispatchInv
<1>2. over = [[reqs[r] EXCEPT !.pc = pc] EXCEPT !.armed = FALSE]
  BY <1>1 DEF RequestRecord
<1>3. /\ over \in RequestRecord /\ over.key = reqs[r].key /\ over.fin = reqs[r].fin
      /\ over.acquired = reqs[r].acquired /\ over.counted = reqs[r].counted
  BY <1>1 DEF RequestRecord
<1>4. Finalize(r, over) \/ Only(r, [over EXCEPT !.deferred = "waiting"])
  BY <1>2 DEF Finally
<1> HIDE DEF over
<1>5. /\ [over EXCEPT !.deferred = "waiting"].acquired = over.acquired
      /\ [over EXCEPT !.deferred = "waiting"].counted = over.counted
  BY <1>3 DEF RequestRecord
<1> QED
  BY <1>3, <1>4, <1>5, FinalizeLeaves, OneLeaves DEF Only

\* The limiter gives a slot to a request that is counted, or too late.
LEMMA LimitLeaves ==
    ASSUME DispatchInv, NEW r \in Requests, Doing(reqs[r], "chain"), Limit(r)
    PROVE  AllLeave
<1>1. /\ reqs[r] \in RequestRecord /\ Consistent(reqs[r])
      /\ reqs \in [Requests -> RequestRecord]
  BY DEF DispatchInv
<1>2. ~reqs[r].acquired /\ (reqs[r].counted \/ TooLate(reqs[r]))
  BY <1>1 DEF Consistent, Doing, TooLate, InTry, Raced
<1>3. PICK k \in KeysOf[r] :
         LET rec  == [reqs[r] EXCEPT !.key = k]
             wait == [rec EXCEPT !.fin = @ \cup {"waiter"}]
         IN  \E new \in {At(rec, "work"), At(wait, "queued"), Thrown(wait), Thrown(rec), Acquire(rec)} :
                reqs' = [reqs EXCEPT ![r] = new]
  BY DEF Limit, Only
<1> DEFINE rec  == [reqs[r] EXCEPT !.key = k]
           wait == [rec EXCEPT !.fin = @ \cup {"waiter"}]
<1>4. k \in Keys \cup {NoKey}
  BY DispatchConstants
<1>5. rec \in RequestRecord /\ ~rec.acquired /\ rec.counted = reqs[r].counted
  BY <1>1, <1>2, <1>4 DEF RequestRecord
<1>6. PICK new \in {At(rec, "work"), At(wait, "queued"), Thrown(wait), Thrown(rec), Acquire(rec)} :
         reqs' = [reqs EXCEPT ![r] = new]
  BY <1>3
<1> HIDE DEF rec
<1>7. wait \in RequestRecord /\ ~wait.acquired
  BY <1>5 DEF RequestRecord
<1> HIDE DEF wait
<1>8. CASE new # Acquire(rec)
  <2>1. ~At(rec, "work").acquired /\ ~At(wait, "queued").acquired
    BY <1>5, <1>7 DEF At, RequestRecord
  <2>2. ~Thrown(wait).acquired /\ ~Thrown(rec).acquired
    BY <1>5, <1>7, ThrownTakesNone
  <2>3. ~new.acquired
    BY <1>6, <1>8, <2>1, <2>2
  <2> QED
    BY <1>6, <2>3, OneLeaves
<1>9. CASE new = Acquire(rec)
  <2>1. Acquire(rec).counted = reqs[r].counted
    BY <1>5 DEF Acquire, At, RequestRecord
  <2>2. \A s \in Requests : reqs'[s] = IF s = r THEN new ELSE reqs[s]
    BY <1>1, <1>6
  <2> QED
    BY <1>2, <1>9, <2>1, <2>2 DEF AllLeave, Leaves
<1> QED
  BY <1>8, <1>9

LEMMA SendLeaves ==
    ASSUME DispatchInv, NEW r \in Requests, NEW pc, LimiterOnSend(r, [reqs[r] EXCEPT !.pc = pc])
    PROVE  AllLeave
<1> DEFINE rec == [reqs[r] EXCEPT !.pc = pc]
<1>1. reqs[r] \in RequestRecord
  BY DEF DispatchInv
<1>2. rec.acquired = reqs[r].acquired /\ rec.counted = reqs[r].counted /\ rec.key = reqs[r].key
  BY <1>1 DEF RequestRecord
<1>3. ~[rec EXCEPT !.acquired = FALSE].acquired /\ [rec EXCEPT !.acquired = FALSE].key = rec.key
  BY <1>1 DEF RequestRecord
<1>4. (rec.acquired /\ Release(r, [rec EXCEPT !.acquired = FALSE])) \/ Only(r, rec)
  BY DEF LimiterOnSend, Holds
<1> HIDE DEF rec
<1> QED
  BY <1>2, <1>3, <1>4, ReleaseLeaves, OneLeaves DEF Only

\* The abandoned step is over.
LEMMA LateSettleLeaves ==
    ASSUME DispatchInv, NEW r \in Requests, LateSettle(r)
    PROVE  AllLeave
<1> DEFINE rec == [reqs[r] EXCEPT !.step = "none"]
<1>1. reqs[r] \in RequestRecord
  BY DEF DispatchInv
<1>2. /\ rec \in RequestRecord /\ rec.key = reqs[r].key /\ rec.fin = reqs[r].fin
      /\ rec.acquired = reqs[r].acquired /\ rec.counted = reqs[r].counted
  BY <1>1 DEF RequestRecord
<1>3. Finalize(r, rec) \/ Only(r, rec)
  BY DEF LateSettle
<1> HIDE DEF rec
<1> QED
  BY <1>2, <1>3, FinalizeLeaves, OneLeaves DEF Only

\* A timer or an abort sends a waiter away.
LEMMA RejectedLeaves ==
    ASSUME DispatchInv, NEW r \in Requests, NEW rec \in RequestRecord,
           rec.acquired = reqs[r].acquired, rec.counted = reqs[r].counted,
           Doing(rec, "queued") => Doing(reqs[r], "queued"),
           Rejected(r, rec) \/ Only(r, rec)
    PROVE  AllLeave
<1>1. Consistent(reqs[r])
  BY DEF DispatchInv
<1>2. Only(r, rec) \/ (Doing(rec, "queued") /\ Dequeue(r, Thrown(rec)))
  BY DEF Rejected
<1>3. CASE Doing(rec, "queued") /\ Dequeue(r, Thrown(rec))
  <2>1. ~rec.acquired
    BY <1>1, <1>3 DEF Consistent
  <2>2. ~Thrown(rec).acquired
    BY <2>1, ThrownTakesNone
  <2> QED
    BY <1>3, <2>2, OneLeaves DEF Dequeue
<1> QED
  BY <1>2, <1>3, OneLeaves DEF Only

LEMMA GoesLeaves ==
    ASSUME DispatchInv, NEW r \in Requests, NEW pc, Goes(r, pc)
    PROVE  AllLeave
<1>1. reqs[r] \in RequestRecord
  BY DEF DispatchInv
<1>2. /\ [reqs[r] EXCEPT !.pc = pc].acquired = reqs[r].acquired
      /\ [reqs[r] EXCEPT !.pc = pc].counted = reqs[r].counted
  BY <1>1 DEF RequestRecord
<1> QED
  BY <1>2, OneLeaves DEF Goes, Only

LEMMA StepLeaves ==
    ASSUME DispatchInv, NEW r \in Requests, RequestStep(r)
    PROVE  AllLeave
<1>1. reqs[r] \in RequestRecord /\ Consistent(reqs[r])
  BY DEF DispatchInv
<1>2. CASE Arrive(r)
  <2>1. ~reqs[r].acquired
    BY <1>1, <1>2 DEF Arrive, Consistent
  <2>2. ~[reqs[r] EXCEPT !.pc = "onRequest", !.counted = TRUE].acquired
    BY <1>1, <2>1 DEF RequestRecord
  <2> QED
    BY <1>2, <2>2, OneLeaves, GoesLeaves DEF Arrive, Only
<1>3. CASE OnRequest(r)
  <2> DEFINE rec == [reqs[r] EXCEPT !.pc = "pre", !.armed = r \in Timed]
  <2>1. rec.acquired = reqs[r].acquired /\ rec.counted = reqs[r].counted
    BY <1>1 DEF RequestRecord
  <2>2. Goes(r, "catch") \/ reqs' = [reqs EXCEPT ![r] = rec]
    BY <1>3 DEF OnRequest, Only
  <2> HIDE DEF rec
  <2> QED
    BY <2>1, <2>2, OneLeaves, GoesLeaves
<1>4. CASE PreBody(r) \/ Work(r)
  BY <1>4, GoesLeaves DEF PreBody, Work
<1>5. CASE BeforeHandle(r)
  BY <1>5, GoesLeaves, LimitLeaves DEF BeforeHandle, Doing
<1>6. CASE OnSend(r) \/ ErrorSend(r)
  BY <1>6, GoesLeaves, SendLeaves DEF OnSend, ErrorSend
<1>7. CASE OnResponse(r) \/ OnError(r)
  <2>1. \A pc \in {"answered", "errorSend", "failed"} : [reqs[r] EXCEPT !.pc = pc] \in RequestRecord
    BY <1>1 DEF RequestRecord, Answered
  <2> QED
    BY <1>7, <2>1, GoesLeaves, FinallyLeaves DEF OnResponse, OnError
<1>8. CASE Deadline(r)
  <2> DEFINE a == reqs[r].aborted \/ r \in Abortable
             fired == [reqs[r] EXCEPT !.armed = FALSE, !.aborted = a]
             rec == IF IsRaced(fired.pc)
                    THEN [fired EXCEPT !.abandoned = TRUE, !.step = fired.pc, !.pc = "catch"]
                    ELSE fired
  <2>1. a \in BOOLEAN
    BY <1>1 DEF RequestRecord
  <2>2. Rejected(r, rec) \/ Only(r, rec)
    BY <1>8 DEF Deadline
  <2> HIDE DEF a
  <2>3. /\ fired \in RequestRecord /\ fired.pc = reqs[r].pc /\ fired.step = reqs[r].step
        /\ fired.acquired = reqs[r].acquired /\ fired.counted = reqs[r].counted
    BY <1>1, <2>1 DEF RequestRecord
  <2> HIDE DEF fired
  <2>4. /\ rec \in RequestRecord /\ rec.acquired = reqs[r].acquired
        /\ rec.counted = reqs[r].counted
        /\ Doing(rec, "queued") => Doing(reqs[r], "queued")
    <3>1. CASE IsRaced(fired.pc)
      <4>1. rec = [fired EXCEPT !.abandoned = TRUE, !.step = fired.pc, !.pc = "catch"]
        BY <3>1
      <4>2. fired.pc \in Raced
        BY <3>1 DEF IsRaced
      <4>3. /\ rec \in RequestRecord /\ rec.acquired = fired.acquired /\ rec.counted = fired.counted
            /\ rec.pc = "catch" /\ rec.step = fired.pc
        BY <2>3, <4>1, <4>2 DEF RequestRecord
      <4> QED
        BY <2>3, <4>3 DEF Doing
    <3>2. CASE ~IsRaced(fired.pc)
      <4>1. rec = fired
        BY <3>2
      <4> HIDE DEF rec
      <4> QED
        BY <2>3, <4>1 DEF Doing
    <3> QED
      BY <3>1, <3>2
  <2> HIDE DEF rec
  <2> QED
    BY <2>2, <2>4, RejectedLeaves
<1>9. CASE Disconnect(r)
  <2> DEFINE rec == [reqs[r] EXCEPT !.aborted = TRUE]
  <2>1. /\ rec \in RequestRecord /\ rec.acquired = reqs[r].acquired
        /\ rec.counted = reqs[r].counted /\ rec.pc = reqs[r].pc /\ rec.step = reqs[r].step
    BY <1>1 DEF RequestRecord
  <2>2. Rejected(r, rec)
    BY <1>9 DEF Disconnect
  <2> HIDE DEF rec
  <2> QED
    BY <2>1, <2>2, RejectedLeaves DEF Doing
<1>10. CASE QueueTimer(r)
  BY <1>1, <1>10, RejectedLeaves DEF QueueTimer
<1>11. CASE LateStep(r)
  BY <1>11, LateSettleLeaves, LimitLeaves DEF LateStep, Doing
<1>12. CASE GraceOver(r)
  BY <1>1, <1>12, FinalizeLeaves DEF GraceOver
<1> QED
  BY <1>2, <1>3, <1>4, <1>5, <1>6, <1>7, <1>8, <1>9, <1>10, <1>11, <1>12 DEF RequestStep

(* "A lease can never leak", but for one case: however a request is settled, by
   onSend, finally, the abandoned step or the grace timer, it is left without a
   slot and is given none afterwards, unless its own beforeHandle chain outlived
   the grace window and takes one then.  No bound on what outlives the window is
   assumed. *)
THEOREM LeaseCorrect == Spec => LeaseEnds
<1> DEFINE Ends == \A r \in Requests :
                      reqs'[r].acquired /\ ~reqs'[r].counted =>
                          TooLate(reqs[r]) \/ (reqs[r].acquired /\ ~reqs[r].counted)
<1>1. DispatchInv /\ [Next]_vars => [Ends]_vars
  <2> SUFFICES ASSUME DispatchInv, Next PROVE Ends
    OBVIOUS
  <2>1. ASSUME NEW c \in Calls, ShutdownStep(c) PROVE reqs' = reqs
    BY <2>1 DEF ShutdownStep, Shutdown, ListenersDone, Drain, CloseDone, Becomes
  <2> QED
    BY <2>1, StepLeaves DEF Next, AllLeave, Leaves
<1> QED
  BY <1>1, InvHolds, PTL DEF Spec, LeaseEnds

(* The close hooks do not run under the feet of a handler, or of a hook that
   dispatch awaits, unless the drain or a grace window timed out. *)
THEOREM CloseCorrect == Spec => []CloseAfterHandlers
<1>1. DispatchInv => CloseAfterHandlers
  <2> SUFFICES ASSUME DispatchInv, app.closing # "no", ~app.forced, NEW r \in Requests
               PROVE  /\ reqs[r].pc \in {"new", "errorSend"} \cup Answered
                      /\ reqs[r].step # "none" => reqs[r].deferred = "done"
    BY DEF CloseAfterHandlers
  <2>1. ~reqs[r].counted /\ Consistent(reqs[r]) /\ reqs[r] \in RequestRecord
    BY DEF DispatchInv, AppOK
  <2> QED
    BY <2>1 DEF Consistent, RequestRecord
<1> QED
  BY <1>1, InvHolds, PTL
=============================================================================
