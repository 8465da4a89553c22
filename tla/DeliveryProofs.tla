---------------------------- MODULE DeliveryProofs ----------------------------
(***************************************************************************)
(* Proofs about the webhook sender, resilientFetch and the circuit breaker *)
(* that its callers share, for any number of callers, attempts, retries    *)
(* and probes.                                                             *)
(***************************************************************************)
EXTENDS Delivery, FiniteSetTheorems, SequenceTheorems, TLAPS

\* The requests that one call may put on the wire.
TriesOf(c) == IF c \in Retryable THEN Retries + 1 ELSE 1

StateOK ==
    /\ now \in 0..MaxNow /\ breaker \in BreakerRecord
    /\ calls \in [Callers -> CallRecord]
    /\ letters \in Seq(Deliveries) /\ Len(letters) <= SinkCapacity
    /\ wire \in [Callers -> Nat]

(* A call is a probe only while it lasts and while the breaker is half-open. *)
ProbesCurrent ==
    \A c \in Callers : calls[c].probe => calls[c].pc \in Calling /\ breaker.state = "half-open"

(* What a delivery or a fetch has put on the wire, by the place it is at. *)
DeliverySpent(c) ==
    LET rec == calls[c]
    IN  /\ rec.pc \in {"ready", "backoff"} => rec.attempt < MaxAttempts
        /\ rec.pc \notin Calling => wire[c] <= rec.attempt * TriesOf(c)
        /\ rec.pc \in Calling => /\ rec.attempt >= 1
                                 /\ wire[c] <= (rec.attempt - 1) * TriesOf(c) + rec.try

FetchSpent(c) ==
    LET rec == calls[c]
    IN  /\ rec.pc \notin {"backoff", "letter"}
        /\ rec.pc = "ready" => wire[c] = 0
        /\ rec.pc \in Calling => wire[c] <= rec.try
        /\ wire[c] <= TriesOf(c)

TriesBounded(c) ==
    /\ calls[c].pc \in Calling => calls[c].try <= TriesOf(c)
    /\ calls[c].pc = "pause" => c \in Retryable /\ calls[c].try <= Retries

WireBounded ==
    /\ \A c \in Callers : TriesBounded(c)
    /\ \A c \in Deliveries : DeliverySpent(c)
    /\ \A c \in Fetches : FetchSpent(c)

DeliveryInv ==
    StateOK /\ ProbesCurrent /\ WireBounded /\ IsFiniteSet(Probes) /\ ProbesAccounted

-----------------------------------------------------------------------------
(***************************************************************************)
(* The breaker's methods.                                                  *)
(***************************************************************************)
(* What an outcome does to the breaker: it is counted out of the probes in
   flight, or ends the half-open period; it never starts one. *)
CountsOut(b, b2) ==
    /\ b2 \in BreakerRecord
    /\ b2.state = "half-open" => /\ b.state = "half-open"
                                 /\ b2.inFlight = OneLess(b.inFlight)
                                 /\ b2.strayed = b.strayed

LEMMA OneLessType == ASSUME NEW n \in Nat PROVE OneLess(n) \in Nat
BY DEF OneLess

LEMMA ReleasedCounts == ASSUME NEW b \in BreakerRecord PROVE CountsOut(b, Released(b))
<1>1. OneLess(b.inFlight) \in Nat
  BY OneLessType DEF BreakerRecord
<1>2. CASE b.state = "half-open"
  BY <1>1, <1>2 DEF CountsOut, Released, BreakerRecord
<1>3. CASE b.state # "half-open"
  BY <1>3 DEF CountsOut, Released, BreakerRecord
<1> QED
  BY <1>2, <1>3

LEMMA OnSuccessCounts == ASSUME NEW b \in BreakerRecord PROVE CountsOut(b, OnSuccess(b))
<1>1. CASE b.state = "half-open"
  <2> DEFINE h == [b EXCEPT !.inFlight = OneLess(b.inFlight), !.successes = b.successes + 1]
  <2>1. h \in BreakerRecord /\ h.state = "half-open" /\ h.inFlight = OneLess(b.inFlight)
        /\ h.strayed = b.strayed
    <3>1. OneLess(b.inFlight) \in Nat /\ b.successes + 1 \in Nat
      BY OneLessType DEF BreakerRecord
    <3> QED
      BY <1>1, <3>1 DEF BreakerRecord
  <2>2. OnSuccess(b) = IF h.successes >= SuccessThreshold THEN Closed(h) ELSE h
    BY <1>1 DEF OnSuccess
  <2> HIDE DEF h
  <2>3. Closed(h) \in BreakerRecord /\ Closed(h).state = "closed"
    BY <2>1 DEF BreakerRecord, Closed
  <2> QED
    BY <1>1, <2>1, <2>2, <2>3 DEF CountsOut
<1>2. CASE b.state # "half-open"
  BY <1>2 DEF CountsOut, OnSuccess, BreakerRecord
<1> QED
  BY <1>1, <1>2

LEMMA OpenedType ==
    ASSUME NEW b \in BreakerRecord, NEW t \in Nat
    PROVE  Opened(b, t) \in BreakerRecord /\ Opened(b, t).state = "open"
BY DEF Opened, BreakerRecord

LEMMA OnFailureCounts ==
    ASSUME NEW b \in BreakerRecord, NEW t \in Nat PROVE CountsOut(b, OnFailure(b, t))
<1>1. CASE b.state = "half-open"
  <2> DEFINE h == [b EXCEPT !.inFlight = OneLess(b.inFlight)]
  <2>1. h \in BreakerRecord
    BY OneLessType DEF BreakerRecord
  <2>2. OnFailure(b, t) = Opened(h, t)
    BY <1>1 DEF OnFailure
  <2> HIDE DEF h
  <2> QED
    BY <2>1, <2>2, OpenedType DEF CountsOut
<1>2. CASE b.state # "half-open"
  <2> DEFINE f == [b EXCEPT !.failures = b.failures + 1]
  <2>1. f \in BreakerRecord /\ f.state = b.state
    BY DEF BreakerRecord
  <2>2. OnFailure(b, t) = IF f.failures >= FailureThreshold THEN Opened(f, t) ELSE f
    BY <1>2 DEF OnFailure
  <2> HIDE DEF f
  <2> QED
    BY <1>2, <2>1, <2>2, OpenedType DEF CountsOut
<1> QED
  BY <1>1, <1>2

LEMMA StraysType ==
    ASSUME NEW b \in BreakerRecord, NEW c \in Callers, calls \in [Callers -> CallRecord]
    PROVE  /\ Strays(c, b) \in BreakerRecord
           /\ Strays(c, b).state = b.state /\ Strays(c, b).inFlight = b.inFlight
           /\ Strays(c, b).strayed = (b.strayed \/ (b.state = "half-open" /\ ~calls[c].probe))
BY DEF Strays, BreakerRecord, CallRecord

LEMMA RecordedCounts ==
    ASSUME StateOK, NEW c \in Callers, NEW outcome \in Outcomes \cup {"aborted"}
    PROVE  CountsOut(Strays(c, breaker), Recorded(c, outcome))
<1>1. Strays(c, breaker) \in BreakerRecord /\ now \in Nat
  BY StraysType DEF StateOK
<1> QED
  BY <1>1, ReleasedCounts, OnSuccessCounts, OnFailureCounts DEF Recorded, Outcomes

-----------------------------------------------------------------------------
(***************************************************************************)
(* Arithmetic of attempts and tries.                                       *)
(***************************************************************************)
LEMMA Multiples ==
    ASSUME NEW a \in Nat, NEW n \in Nat
    PROVE  /\ a * n \in Nat
           /\ (a + 1) * n = a * n + n
           /\ \A m \in Nat : a <= m => a * n <= m * n
OBVIOUS

LEMMA TriesOfType == \A c : TriesOf(c) \in Nat \ {0}
BY DeliveryConstants DEF TriesOf

LEMMA CallFields ==
    ASSUME StateOK, NEW c \in Callers
    PROVE  /\ calls[c] \in CallRecord
           /\ calls[c].attempt \in 0..MaxAttempts /\ calls[c].try \in 0..Retries + 1
           /\ calls[c].probe \in BOOLEAN /\ wire[c] \in Nat
BY DEF StateOK, CallRecord

\* A step of caller c leaves what the others have spent alone.
LEMMA OthersSpent ==
    ASSUME WireBounded, NEW c \in Callers,
           \A x \in Callers \ {c} : /\ calls'[x].pc = calls[x].pc /\ calls'[x].try = calls[x].try
                                    /\ calls'[x].attempt = calls[x].attempt
                                    /\ wire'[x] = wire[x],
           TriesBounded(c)', c \in Deliveries => DeliverySpent(c)', c \in Fetches => FetchSpent(c)'
    PROVE  WireBounded'
<1>1. \A x \in Callers \ {c} : TriesBounded(x)'
  BY DEF WireBounded, TriesBounded
<1>2. \A x \in Deliveries \ {c} : DeliverySpent(x)'
  BY DEF WireBounded, DeliverySpent, Callers
<1>3. \A x \in Fetches \ {c} : FetchSpent(x)'
  BY DEF WireBounded, FetchSpent, Callers
<1> QED
  BY <1>1, <1>2, <1>3 DEF WireBounded

\* Outside the calls, the budget of an attempt is spent.
LEMMA SpentAtMost ==
    ASSUME StateOK, WireBounded
    PROVE  /\ \A c \in Deliveries : wire[c] <= calls[c].attempt * TriesOf(c)
           /\ \A c \in Fetches : wire[c] <= TriesOf(c)
<1>1. ASSUME NEW c \in Deliveries PROVE wire[c] <= calls[c].attempt * TriesOf(c)
  <2>1. c \in Callers /\ TriesBounded(c) /\ DeliverySpent(c)
    BY DEF WireBounded, Callers
  <2>2. calls[c].attempt \in Nat /\ wire[c] \in Nat /\ TriesOf(c) \in Nat /\ calls[c].try \in Nat
    BY <2>1, CallFields, TriesOfType, DeliveryConstants
  <2>3. CASE calls[c].pc \in Calling
    <3> DEFINE a == calls[c].attempt - 1
    <3>1. a \in Nat /\ wire[c] <= a * TriesOf(c) + calls[c].try /\ calls[c].try <= TriesOf(c)
      BY <2>1, <2>2, <2>3 DEF DeliverySpent, TriesBounded
    <3>2. (a + 1) * TriesOf(c) = a * TriesOf(c) + TriesOf(c) /\ a * TriesOf(c) \in Nat
      BY <2>2, <3>1, Multiples
    <3>3. a + 1 = calls[c].attempt
      BY <2>2
    <3> HIDE DEF a
    <3> QED
      BY <2>2, <3>1, <3>2, <3>3
  <2>4. CASE calls[c].pc \notin Calling
    BY <2>1, <2>4 DEF DeliverySpent
  <2> QED
    BY <2>3, <2>4
<1> QED
  BY <1>1 DEF WireBounded, FetchSpent

LEMMA InvGivesType == DeliveryInv => DeliveryTypeOK
<1> SUFFICES ASSUME DeliveryInv PROVE DeliveryTypeOK
  OBVIOUS
<1>1. ASSUME NEW c \in Deliveries PROVE wire[c] <= MaxAttempts * TriesOf(c)
  <2>1. c \in Callers
    BY DEF Callers
  <2>2. /\ wire[c] \in Nat /\ TriesOf(c) \in Nat
        /\ calls[c].attempt \in Nat /\ calls[c].attempt <= MaxAttempts
    BY <2>1, CallFields, TriesOfType, DeliveryConstants DEF DeliveryInv
  <2>3. calls[c].attempt * TriesOf(c) <= MaxAttempts * TriesOf(c)
    BY <2>2, Multiples, DeliveryConstants
  <2>4. wire[c] <= calls[c].attempt * TriesOf(c)
    BY SpentAtMost DEF DeliveryInv
  <2>5. calls[c].attempt * TriesOf(c) \in Nat /\ MaxAttempts * TriesOf(c) \in Nat
    BY <2>2, Multiples, DeliveryConstants
  <2> QED
    BY <2>2, <2>3, <2>4, <2>5
<1>2. \A c \in Fetches : wire[c] <= TriesOf(c)
  BY SpentAtMost DEF DeliveryInv
<1> QED
  BY <1>1, <1>2 DEF DeliveryInv, StateOK, DeliveryTypeOK, TriesOf

-----------------------------------------------------------------------------
(***************************************************************************)
(* The probes.                                                             *)
(***************************************************************************)
\* A step that neither starts nor ends a call.
LEMMA ProbesUntouched ==
    ASSUME DeliveryInv, NEW c \in Callers, NEW rec \in CallRecord,
           calls' = [calls EXCEPT ![c] = rec], UNCHANGED breaker,
           rec.probe = calls[c].probe, rec.pc \in Calling <=> calls[c].pc \in Calling
    PROVE  ProbesCurrent' /\ IsFiniteSet(Probes') /\ ProbesAccounted'
<1>1. \A x \in Callers : calls'[x] = IF x = c THEN rec ELSE calls[x]
  BY DEF DeliveryInv, StateOK
<1>2. Probes' = Probes
  BY <1>1 DEF Probes
<1>3. ProbesCurrent'
  BY <1>1 DEF DeliveryInv, ProbesCurrent
<1> QED
  BY <1>2, <1>3 DEF DeliveryInv, ProbesAccounted

\* c becomes rec, the breaker b.
LEMMA BreakerStepEffect ==
    ASSUME StateOK, NEW c \in Callers, NEW rec \in CallRecord, NEW b \in BreakerRecord,
           BreakerStep(c, rec, b)
    PROVE  /\ calls' \in [Callers -> CallRecord] /\ breaker' = b
           /\ calls'[c] = rec
           /\ \A x \in Callers \ {c} :
                 /\ calls'[x].pc = calls[x].pc /\ calls'[x].try = calls[x].try
                 /\ calls'[x].attempt = calls[x].attempt
                 /\ calls'[x].probe = (calls[x].probe /\ b.state = breaker.state)
<1>1. breaker' = b /\ \A x \in Callers :
          calls'[x] = IF x = c THEN rec
                      ELSE [calls[x] EXCEPT !.probe = calls[x].probe /\ b.state = breaker.state]
  BY DEF BreakerStep, StateOK, CallRecord
<1>2. ASSUME NEW x \in Callers \ {c}
      PROVE  /\ calls'[x] \in CallRecord
             /\ calls'[x].pc = calls[x].pc /\ calls'[x].try = calls[x].try
             /\ calls'[x].attempt = calls[x].attempt
             /\ calls'[x].probe = (calls[x].probe /\ b.state = breaker.state)
  <2> DEFINE p == calls[x].probe /\ b.state = breaker.state
  <2>1. p \in BOOLEAN /\ calls[x] \in CallRecord
    BY DEF StateOK, CallRecord
  <2>2. calls'[x] = [calls[x] EXCEPT !.probe = p]
    BY <1>1
  <2> HIDE DEF p
  <2>3. calls'[x] \in CallRecord /\ calls'[x].pc = calls[x].pc /\ calls'[x].try = calls[x].try
        /\ calls'[x].attempt = calls[x].attempt /\ calls'[x].probe = p
    BY <2>1, <2>2 DEF CallRecord
  <2> QED
    BY <2>3 DEF p
<1>3. calls' \in [Callers -> CallRecord]
  BY <1>1, <1>2 DEF BreakerStep
<1> QED
  BY <1>1, <1>2, <1>3

\* An outcome: c is no longer a probe, and the breaker counts it out.
LEMMA ProbeEnds ==
    ASSUME DeliveryInv, NEW c \in Callers, calls[c].pc \in Calling,
           NEW rec \in CallRecord, ~rec.probe,
           NEW b, CountsOut(Strays(c, breaker), b),
           BreakerStep(c, rec, b)
    PROVE  ProbesCurrent' /\ IsFiniteSet(Probes') /\ ProbesAccounted'
<1> DEFINE s == Strays(c, breaker)
<1>1. StateOK /\ ProbesCurrent /\ IsFiniteSet(Probes) /\ ProbesAccounted
      /\ breaker \in BreakerRecord /\ calls \in [Callers -> CallRecord]
  BY DEF DeliveryInv, StateOK
<1>2. /\ s.state = breaker.state /\ s.inFlight = breaker.inFlight
      /\ s.strayed = (breaker.strayed \/ (breaker.state = "half-open" /\ ~calls[c].probe))
  BY <1>1, StraysType
<1>3. b \in BreakerRecord
  BY DEF CountsOut
<1>4. /\ breaker' = b /\ calls'[c] = rec
      /\ \A x \in Callers \ {c} :
            /\ calls'[x].pc = calls[x].pc
            /\ calls'[x].probe = (calls[x].probe /\ b.state = breaker.state)
  BY <1>1, <1>3, BreakerStepEffect
<1>5. CASE b.state # "half-open"
  <2>1. \A x \in Callers : ~calls'[x].probe
    BY <1>1, <1>4, <1>5 DEF ProbesCurrent
  <2>2. Probes' = {}
    BY <2>1 DEF Probes
  <2> QED
    BY <1>4, <1>5, <2>1, <2>2, FS_EmptySet DEF ProbesCurrent, ProbesAccounted
<1>6. CASE b.state = "half-open"
  <2>1. /\ breaker.state = "half-open" /\ b.inFlight = OneLess(breaker.inFlight)
        /\ b.strayed = (breaker.strayed \/ ~calls[c].probe)
    BY <1>2, <1>6 DEF CountsOut
  <2>2. Probes' = Probes \ {c}
    BY <1>4, <1>6, <2>1 DEF Probes
  <2>3. ProbesCurrent'
    BY <1>1, <1>4, <1>6, <2>1 DEF ProbesCurrent
  <2>4. c \in Probes <=> calls[c].probe
    BY DEF Probes
  <2>5. IsFiniteSet(Probes') /\ Cardinality(Probes) \in Nat
        /\ Cardinality(Probes') = IF c \in Probes THEN Cardinality(Probes) - 1 ELSE Cardinality(Probes)
    BY <1>1, <2>2, FS_RemoveElement, FS_CardinalityType
  <2>6. c \in Probes => Cardinality(Probes) # 0
    BY <1>1, FS_EmptySet
  <2>7. breaker.inFlight \in Nat /\ HalfOpenMaxAttempts \in Nat
    BY <1>1, BreakerConstants DEF BreakerRecord
  <2>8. /\ breaker.inFlight <= Cardinality(Probes)
        /\ ~breaker.strayed => /\ breaker.inFlight = Cardinality(Probes)
                               /\ Cardinality(Probes) <= HalfOpenMaxAttempts
    BY <1>1, <2>1 DEF ProbesAccounted
  <2>9. ProbesAccounted'
    <3>1. b.inFlight <= Cardinality(Probes')
      BY <2>1, <2>5, <2>6, <2>7, <2>8 DEF OneLess
    <3>2. ASSUME ~b.strayed PROVE /\ b.inFlight = Cardinality(Probes')
                                  /\ Cardinality(Probes') <= HalfOpenMaxAttempts
      <4>1. ~breaker.strayed /\ c \in Probes
        BY <2>1, <2>4, <3>2
      <4> QED
        BY <2>1, <2>5, <2>6, <2>7, <2>8, <4>1 DEF OneLess
    <3> QED
      BY <1>4, <3>1, <3>2 DEF ProbesAccounted
  <2> QED
    BY <2>3, <2>5, <2>9
<1> QED
  BY <1>5, <1>6

-----------------------------------------------------------------------------
(***************************************************************************)
(* Each step keeps the invariant.                                          *)
(***************************************************************************)
LEMMA InvInitially == Init => DeliveryInv
<1> SUFFICES ASSUME Init PROVE DeliveryInv
  OBVIOUS
<1>1. StateOK
  BY DeliveryConstants DEF Init, StateOK, BreakerRecord, FreshBreaker, CallRecord
<1>2. Probes = {}
  BY DEF Init, Probes
<1>3. ProbesCurrent /\ ProbesAccounted
  BY DEF Init, ProbesCurrent, ProbesAccounted, FreshBreaker
<1>4. WireBounded
  <2>1. \A c \in Callers : TriesBounded(c)
    BY DEF Init, TriesBounded, Calling
  <2>2. \A c \in Deliveries : DeliverySpent(c)
    <3> TAKE c \in Deliveries
    <3>1. calls[c].pc = "ready" /\ calls[c].attempt = 0 /\ wire[c] = 0
      BY DEF Init, Callers
    <3>2. 0 * TriesOf(c) \in Nat
      BY TriesOfType, Multiples
    <3> QED
      BY <3>1, <3>2, DeliveryConstants DEF DeliverySpent, Calling
  <2>3. \A c \in Fetches : FetchSpent(c)
    <3> TAKE c \in Fetches
    <3>1. calls[c].pc = "ready" /\ wire[c] = 0
      BY DEF Init, Callers
    <3> QED
      BY <3>1, TriesOfType DEF FetchSpent, Calling
  <2> QED
    BY <2>1, <2>2, <2>3 DEF WireBounded
<1> QED
  BY <1>1, <1>2, <1>3, <1>4, FS_EmptySet DEF DeliveryInv

LEMMA AfterCallType ==
    ASSUME StateOK, NEW c \in Callers, NEW outcome
    PROVE  LET rec == AfterCall(c, outcome)
           IN  /\ rec \in CallRecord /\ ~rec.probe /\ rec.attempt = calls[c].attempt
               /\ rec.pc \in {"done", "backoff", "letter"}
               /\ c \in Fetches => rec.pc = "done"
               /\ rec.pc = "backoff" => calls[c].attempt < MaxAttempts
<1> DEFINE rec == [calls[c] EXCEPT !.try = 0, !.probe = FALSE]
<1>1. rec \in CallRecord /\ ~rec.probe /\ rec.attempt = calls[c].attempt
  <2>1. 0 \in 0..Retries + 1
    BY DeliveryConstants
  <2>2. calls[c] \in CallRecord
    BY DEF StateOK
  <2> QED
    BY <2>1, <2>2 DEF CallRecord
<1>2. \A pc \in {"done", "backoff", "letter"} :
         LET new == [rec EXCEPT !.pc = pc]
         IN  new \in CallRecord /\ ~new.probe /\ new.attempt = calls[c].attempt /\ new.pc = pc
  BY <1>1 DEF CallRecord, Settled
<1>3. \/ AfterCall(c, outcome) = [rec EXCEPT !.pc = "done"]
      \/ c \notin Fetches /\ AfterCall(c, outcome) = [rec EXCEPT !.pc = "letter"]
      \/ /\ c \notin Fetches /\ AttemptsLeft(rec)
         /\ AfterCall(c, outcome) = [rec EXCEPT !.pc = "backoff"]
  <2>1. CASE outcome = "ok" \/ c \in Fetches
    BY <2>1, DeliveryConstants DEF AfterCall
  <2>2. CASE outcome # "ok" /\ c \notin Fetches
    <3>1. c \in Deliveries
      BY <2>2 DEF Callers
    <3> QED
      BY <2>2, <3>1 DEF AfterCall
  <2> QED
    BY <2>1, <2>2
<1> HIDE DEF rec
<1> QED
  BY <1>1, <1>2, <1>3 DEF AttemptsLeft

LEMMA CallOverInv ==
    ASSUME DeliveryInv, NEW c \in Callers, calls[c].pc \in Calling,
           NEW outcome \in Outcomes \cup {"aborted"}, CallOver(c, outcome),
           UNCHANGED <<now, letters, wire>>
    PROVE  DeliveryInv'
<1> DEFINE rec == AfterCall(c, outcome)
           b   == Recorded(c, outcome)
<1>1. StateOK /\ WireBounded
  BY DEF DeliveryInv
<1>2. /\ rec \in CallRecord /\ ~rec.probe /\ rec.attempt = calls[c].attempt
      /\ rec.pc \in {"done", "backoff", "letter"}
      /\ c \in Fetches => rec.pc = "done"
      /\ rec.pc = "backoff" => calls[c].attempt < MaxAttempts
  BY <1>1, AfterCallType
<1>3. CountsOut(Strays(c, breaker), b) /\ b \in BreakerRecord
  BY <1>1, RecordedCounts DEF CountsOut
<1>4. BreakerStep(c, rec, b)
  BY DEF CallOver
<1> HIDE DEF rec, b
<1>5. ProbesCurrent' /\ IsFiniteSet(Probes') /\ ProbesAccounted'
  BY <1>2, <1>3, <1>4, ProbeEnds
<1>6. /\ calls' \in [Callers -> CallRecord] /\ breaker' = b /\ calls'[c] = rec
      /\ \A x \in Callers \ {c} : /\ calls'[x].pc = calls[x].pc /\ calls'[x].try = calls[x].try
                                  /\ calls'[x].attempt = calls[x].attempt
  BY <1>1, <1>2, <1>3, <1>4, BreakerStepEffect
<1>7. StateOK'
  BY <1>1, <1>3, <1>6 DEF StateOK
<1>8. WireBounded'
  <2>1. TriesBounded(c)'
    BY <1>2, <1>6 DEF TriesBounded, Calling
  <2>2. c \in Deliveries => DeliverySpent(c)'
    BY <1>1, <1>2, <1>6, SpentAtMost DEF DeliverySpent, Calling, TriesOf
  <2>3. c \in Fetches => FetchSpent(c)'
    BY <1>1, <1>2, <1>6, SpentAtMost DEF FetchSpent, Calling, TriesOf
  <2> QED
    BY <1>1, <1>6, <2>1, <2>2, <2>3, OthersSpent
<1> QED
  BY <1>5, <1>7, <1>8 DEF DeliveryInv

\* A step of c that leaves the breaker alone.
LEMMA OwnStepInv ==
    ASSUME DeliveryInv, NEW c \in Callers, NEW rec \in CallRecord,
           calls' = [calls EXCEPT ![c] = rec], UNCHANGED <<now, breaker>>,
           rec.probe = calls[c].probe, rec.pc \in Calling <=> calls[c].pc \in Calling,
           letters' \in Seq(Deliveries), Len(letters') <= SinkCapacity,
           wire' \in [Callers -> Nat], \A x \in Callers \ {c} : wire'[x] = wire[x],
           TriesBounded(c)', c \in Deliveries => DeliverySpent(c)', c \in Fetches => FetchSpent(c)'
    PROVE  DeliveryInv'
<1>1. \A x \in Callers : calls'[x] = IF x = c THEN rec ELSE calls[x]
  BY DEF DeliveryInv, StateOK
<1>2. StateOK'
  BY DEF DeliveryInv, StateOK
<1>3. WireBounded'
  BY <1>1, OthersSpent DEF DeliveryInv
<1>4. ProbesCurrent' /\ IsFiniteSet(Probes') /\ ProbesAccounted'
  BY ProbesUntouched
<1> QED
  BY <1>2, <1>3, <1>4 DEF DeliveryInv

LEMMA TryOverInv ==
    ASSUME DeliveryInv, NEW c \in Callers, TryOver(c)
    PROVE  DeliveryInv'
<1>1. PICK outcome \in Outcomes :
        \/ TriesLeft(c) /\ calls' = [calls EXCEPT ![c].pc = "pause"] /\ UNCHANGED breaker
        \/ CallOver(c, outcome)
  BY DEF TryOver
<1>2. calls[c].pc = "wire" /\ UNCHANGED <<now, letters, wire>>
  BY DEF TryOver
<1>3. CASE CallOver(c, outcome)
  BY <1>1, <1>2, <1>3, CallOverInv DEF Calling
<1>4. CASE TriesLeft(c) /\ calls' = [calls EXCEPT ![c].pc = "pause"] /\ UNCHANGED breaker
  <2> DEFINE rec == [calls[c] EXCEPT !.pc = "pause"]
  <2>1. StateOK /\ WireBounded /\ calls[c] \in CallRecord
    BY DEF DeliveryInv, StateOK
  <2>2. rec \in CallRecord /\ rec.pc = "pause" /\ rec.try = calls[c].try
        /\ rec.attempt = calls[c].attempt /\ rec.probe = calls[c].probe
    BY <2>1 DEF CallRecord, Calling
  <2>3. calls' = [calls EXCEPT ![c] = rec]
    BY <1>4
  <2> HIDE DEF rec
  <2>4. calls'[c] = rec
    BY <2>1, <2>3 DEF StateOK
  <2>5. TriesBounded(c)'
    BY <1>2, <1>4, <2>1, <2>2, <2>4 DEF WireBounded, TriesBounded, TriesLeft, Calling, TriesOf
  <2>6. c \in Deliveries => DeliverySpent(c)'
    BY <1>2, <2>1, <2>2, <2>4 DEF WireBounded, DeliverySpent, Calling, TriesOf
  <2>7. c \in Fetches => FetchSpent(c)'
    BY <1>2, <2>1, <2>2, <2>4 DEF WireBounded, FetchSpent, Calling, TriesOf
  <2>8. letters' \in Seq(Deliveries) /\ Len(letters') <= SinkCapacity /\ wire' \in [Callers -> Nat]
    BY <1>2, <2>1 DEF StateOK
  <2> QED
    BY <1>2, <1>4, <2>2, <2>3, <2>5, <2>6, <2>7, <2>8, OwnStepInv DEF Calling
<1> QED
  BY <1>1, <1>3, <1>4

LEMMA NextTryInv ==
    ASSUME DeliveryInv, NEW c \in Callers, NextTry(c)
    PROVE  DeliveryInv'
<1> DEFINE rec == [calls[c] EXCEPT !.pc = "wire", !.try = calls[c].try + 1]
<1>1. StateOK /\ WireBounded /\ calls[c] \in CallRecord /\ calls[c].pc = "pause" /\ wire[c] \in Nat
      /\ calls[c].try \in Nat /\ calls[c].attempt \in Nat
  BY CallFields, DeliveryConstants DEF DeliveryInv, NextTry
<1>2. c \in Retryable /\ calls[c].try <= Retries
  BY <1>1 DEF WireBounded, TriesBounded
<1>3. rec \in CallRecord /\ rec.pc = "wire" /\ rec.try = calls[c].try + 1
      /\ rec.attempt = calls[c].attempt /\ rec.probe = calls[c].probe
  <2>1. calls[c].try + 1 \in 0..Retries + 1
    BY <1>1, <1>2, DeliveryConstants
  <2> QED
    BY <1>1, <2>1 DEF CallRecord, Calling
<1>4. calls' = [calls EXCEPT ![c] = rec] /\ wire' = [wire EXCEPT ![c] = wire[c] + 1]
      /\ UNCHANGED <<now, breaker, letters>>
  BY <1>1 DEF NextTry, StateOK, CallRecord
<1> HIDE DEF rec
<1>5. calls'[c] = rec /\ wire'[c] = wire[c] + 1 /\ wire' \in [Callers -> Nat]
      /\ \A x \in Callers \ {c} : wire'[x] = wire[x]
  BY <1>1, <1>4 DEF StateOK
<1>6. TriesBounded(c)'
  BY <1>1, <1>2, <1>3, <1>5, DeliveryConstants DEF TriesBounded, Calling, TriesOf
<1>7. ASSUME c \in Deliveries PROVE DeliverySpent(c)'
  <2>1. calls[c].attempt >= 1 /\ wire[c] <= (calls[c].attempt - 1) * TriesOf(c) + calls[c].try
    BY <1>1, <1>7 DEF WireBounded, DeliverySpent, Calling
  <2>2. calls[c].attempt - 1 \in Nat
    BY <1>1, <2>1
  <2>3. (calls[c].attempt - 1) * TriesOf(c) \in Nat
    BY <2>2, Multiples, TriesOfType
  <2>4. wire'[c] <= (rec.attempt - 1) * TriesOf(c) + rec.try
    BY <1>1, <1>3, <1>5, <2>1, <2>3
  <2>5. TriesOf(c)' = TriesOf(c)
    BY DEF TriesOf
  <2> QED
    BY <1>3, <1>5, <2>1, <2>4, <2>5 DEF DeliverySpent, Calling
<1>8. c \in Fetches => FetchSpent(c)'
  BY <1>1, <1>2, <1>3, <1>5, DeliveryConstants DEF WireBounded, FetchSpent, Calling, TriesOf
<1>9. letters' \in Seq(Deliveries) /\ Len(letters') <= SinkCapacity
  BY <1>1, <1>4 DEF StateOK
<1> QED
  BY <1>1, <1>3, <1>4, <1>5, <1>6, <1>7, <1>8, <1>9, OwnStepInv DEF Calling

LEMMA AbortInv ==
    ASSUME DeliveryInv, NEW c \in Callers, Abort(c)
    PROVE  DeliveryInv'
BY CallOverInv DEF Abort

\* The refusal of the breaker.
LEMMA RefusedInv ==
    ASSUME DeliveryInv, NEW c \in Callers, calls[c].pc = "ready",
           NEW rec \in CallRecord, rec.attempt = Counted(c), rec.probe = calls[c].probe,
           rec.pc \in {"done", "backoff", "letter"}, c \in Fetches => rec.pc = "done",
           rec.pc = "backoff" => rec.attempt < MaxAttempts,
           calls' = [calls EXCEPT ![c] = rec], UNCHANGED <<now, breaker, letters, wire>>
    PROVE  DeliveryInv'
<1>1. StateOK /\ WireBounded /\ ~calls[c].probe /\ calls[c].attempt \in Nat /\ wire[c] \in Nat
      /\ calls[c].probe \in BOOLEAN /\ calls'[c] = rec /\ rec.probe \in BOOLEAN
  <2>1. StateOK /\ WireBounded
    BY DEF DeliveryInv
  <2>2. ~calls[c].probe
    BY DEF DeliveryInv, ProbesCurrent, Calling
  <2>3. calls[c].attempt \in Nat /\ wire[c] \in Nat /\ calls[c].probe \in BOOLEAN
    BY <2>1, CallFields, DeliveryConstants
  <2>4. calls'[c] = rec /\ rec.probe \in BOOLEAN
    BY <2>1 DEF StateOK, CallRecord
  <2> QED
    BY <2>1, <2>2, <2>3, <2>4
<1>2. TriesBounded(c)'
  BY <1>1 DEF TriesBounded, Calling
<1>3. ASSUME c \in Deliveries PROVE DeliverySpent(c)'
  <2> DEFINE a == calls[c].attempt
  <2>1. rec.attempt = a + 1 /\ wire[c] <= a * TriesOf(c)
    BY <1>1, <1>3 DEF Counted, WireBounded, DeliverySpent, Calling
  <2>2. /\ a * TriesOf(c) \in Nat /\ TriesOf(c) \in Nat
        /\ (a + 1) * TriesOf(c) = a * TriesOf(c) + TriesOf(c)
    BY <1>1, TriesOfType, Multiples
  <2>3. wire'[c] <= rec.attempt * TriesOf(c)
    BY <1>1, <2>1, <2>2
  <2>4. TriesOf(c)' = TriesOf(c)
    BY DEF TriesOf
  <2> QED
    BY <1>1, <2>3, <2>4 DEF DeliverySpent, Calling
<1>4. c \in Fetches => FetchSpent(c)'
  BY <1>1 DEF WireBounded, FetchSpent, Calling, TriesOf
<1>5. /\ letters' \in Seq(Deliveries) /\ Len(letters') <= SinkCapacity
      /\ wire' \in [Callers -> Nat] /\ \A x \in Callers \ {c} : wire'[x] = wire[x]
  BY <1>1 DEF StateOK
<1>6. rec.probe = calls[c].probe
  BY <1>1
<1> QED
  BY <1>2, <1>3, <1>4, <1>5, <1>6, OwnStepInv DEF Calling

LEMMA AdmittedType ==
    ASSUME NEW b \in BreakerRecord, b.state = "open" => ResetDue(b, now), Admits(b, now)
    PROVE  /\ Admitted(b) \in BreakerRecord
           /\ b.state = "closed" => Admitted(b).state = "closed"
           /\ b.state = "open" => /\ Admitted(b).state = "half-open" /\ Admitted(b).inFlight = 1
                                  /\ ~Admitted(b).strayed
           /\ b.state = "half-open" => /\ Admitted(b).state = "half-open"
                                       /\ Admitted(b).inFlight = b.inFlight + 1
                                       /\ Admitted(b).strayed = b.strayed
<1>1. CASE b.state = "closed"
  BY <1>1 DEF Admitted
<1>2. CASE b.state = "open"
  <2>1. HalfOpened(b) \in BreakerRecord /\ HalfOpened(b).state = "half-open"
        /\ HalfOpened(b).inFlight = 0 /\ HalfOpened(b).strayed = FALSE
    BY DEF HalfOpened, BreakerRecord
  <2>2. Admitted(b) = [HalfOpened(b) EXCEPT !.inFlight = HalfOpened(b).inFlight + 1]
    BY <1>2, <2>1 DEF Admitted, BreakerRecord
  <2> QED
    BY <1>2, <2>1, <2>2 DEF BreakerRecord
<1>3. CASE b.state = "half-open"
  <2>1. Admitted(b) = [b EXCEPT !.inFlight = b.inFlight + 1]
    BY <1>3 DEF Admitted, BreakerRecord
  <2> QED
    BY <1>3, <2>1 DEF BreakerRecord
<1> QED
  BY <1>1, <1>2, <1>3 DEF BreakerRecord

\* A call that is admitted is a probe of the half-open period it begins or finds.
LEMMA ProbeBegins ==
    ASSUME DeliveryInv, NEW c \in Callers, calls[c].pc = "ready", Admits(breaker, now),
           NEW rec \in CallRecord, rec.pc = "wire",
           rec.probe = (Admitted(breaker).state = "half-open"),
           BreakerStep(c, rec, Admitted(breaker))
    PROVE  ProbesCurrent' /\ IsFiniteSet(Probes') /\ ProbesAccounted'
<1> DEFINE b == Admitted(breaker)
<1>1. StateOK /\ ProbesCurrent /\ IsFiniteSet(Probes) /\ ProbesAccounted /\ breaker \in BreakerRecord
  BY DEF DeliveryInv, StateOK
<1>2. /\ b \in BreakerRecord
      /\ breaker.state = "closed" => b.state = "closed"
      /\ breaker.state = "open" => b.state = "half-open" /\ b.inFlight = 1 /\ ~b.strayed
      /\ breaker.state = "half-open" => /\ b.state = "half-open" /\ b.inFlight = breaker.inFlight + 1
                                        /\ b.strayed = breaker.strayed
  BY <1>1, AdmittedType DEF Admits
<1> HIDE DEF b
<1>3. /\ breaker' = b /\ calls'[c] = rec
      /\ \A x \in Callers \ {c} :
            /\ calls'[x].pc = calls[x].pc
            /\ calls'[x].probe = (calls[x].probe /\ b.state = breaker.state)
  BY <1>1, <1>2, BreakerStepEffect DEF b
<1>4. rec.probe = (b.state = "half-open") /\ c \notin Probes
  BY DEF b, Probes, Calling
<1>5. ProbesCurrent'
  BY <1>1, <1>3, <1>4 DEF ProbesCurrent, Calling
<1>6. breaker.state \in {"closed", "open", "half-open"}
  BY <1>1 DEF BreakerRecord
<1>7. CASE breaker.state = "closed"
  <2>1. \A x \in Callers : ~calls'[x].probe
    BY <1>1, <1>2, <1>3, <1>4, <1>7 DEF ProbesCurrent
  <2>2. Probes' = {}
    BY <2>1 DEF Probes
  <2> QED
    BY <1>2, <1>3, <1>5, <1>7, <2>2, FS_EmptySet DEF ProbesAccounted
<1>8. CASE breaker.state = "open"
  <2>1. Probes' = {c}
    BY <1>2, <1>3, <1>4, <1>8 DEF Probes, Calling
  <2>2. IsFiniteSet(Probes') /\ Cardinality(Probes') = 1
    BY <2>1, FS_Singleton
  <2>3. 1 <= HalfOpenMaxAttempts
    BY BreakerConstants
  <2> QED
    BY <1>2, <1>3, <1>5, <1>8, <2>2, <2>3 DEF ProbesAccounted
<1>9. CASE breaker.state = "half-open"
  <2>1. Probes' = Probes \cup {c}
    BY <1>2, <1>3, <1>4, <1>9 DEF Probes, Calling
  <2>2. IsFiniteSet(Probes') /\ Cardinality(Probes') = Cardinality(Probes) + 1
        /\ Cardinality(Probes) \in Nat
    BY <1>1, <1>4, <2>1, FS_AddElement, FS_CardinalityType
  <2>3. breaker.inFlight < HalfOpenMaxAttempts /\ breaker.inFlight \in Nat /\ HalfOpenMaxAttempts \in Nat
    BY <1>1, <1>9, BreakerConstants DEF Admits, ResetDue, BreakerRecord
  <2>4. /\ breaker.inFlight <= Cardinality(Probes)
        /\ ~breaker.strayed => breaker.inFlight = Cardinality(Probes)
    BY <1>1, <1>9 DEF ProbesAccounted
  <2>5. /\ b.inFlight <= Cardinality(Probes')
        /\ ~b.strayed => /\ b.inFlight = Cardinality(Probes')
                         /\ Cardinality(Probes') <= HalfOpenMaxAttempts
    BY <1>2, <1>9, <2>2, <2>3, <2>4
  <2> QED
    BY <1>3, <1>5, <2>2, <2>5 DEF ProbesAccounted
<1> QED
  BY <1>6, <1>7, <1>8, <1>9

LEMMA CallInv ==
    ASSUME DeliveryInv, NEW c \in Callers, Call(c)
    PROVE  DeliveryInv'
<1> DEFINE rec == [calls[c] EXCEPT !.attempt = Counted(c)]
           b   == Admitted(breaker)
<1>1. StateOK /\ WireBounded /\ calls[c] \in CallRecord /\ calls[c].pc = "ready"
      /\ calls[c].attempt \in Nat /\ wire[c] \in Nat
  BY CallFields, DeliveryConstants DEF DeliveryInv, Call
<1>2. Counted(c) \in 0..MaxAttempts
  <2>1. c \in Deliveries => calls[c].attempt < MaxAttempts
    BY <1>1 DEF WireBounded, DeliverySpent
  <2>2. calls[c].attempt <= MaxAttempts
    BY <1>1, CallFields
  <2> QED
    BY <1>1, <2>1, <2>2, DeliveryConstants DEF Counted
<1>3. rec \in CallRecord /\ rec.attempt = Counted(c) /\ rec.probe = calls[c].probe
  BY <1>1, <1>2 DEF CallRecord
<1>4. UNCHANGED <<now, letters>>
  BY DEF Call
<1>5. \/ /\ Admits(breaker, now)
         /\ BreakerStep(c, [rec EXCEPT !.pc = "wire", !.try = 1, !.probe = b.state = "half-open"], b)
         /\ wire' = [wire EXCEPT ![c] = @ + 1]
      \/ /\ calls' = [calls EXCEPT ![c] =
                IF c \in Fetches THEN [rec EXCEPT !.pc = "done"]
                ELSE [rec EXCEPT !.pc = IF AttemptsLeft(rec) THEN "backoff" ELSE "letter"]]
         /\ UNCHANGED <<breaker, wire>>
  BY DEF Call
<1> HIDE DEF rec, b
<1>6. ASSUME Admits(breaker, now),
             BreakerStep(c, [rec EXCEPT !.pc = "wire", !.try = 1, !.probe = b.state = "half-open"], b),
             wire' = [wire EXCEPT ![c] = @ + 1]
      PROVE  DeliveryInv'
  <2> DEFINE p   == b.state = "half-open"
             new == [rec EXCEPT !.pc = "wire", !.try = 1, !.probe = p]
  <2>1. p \in BOOLEAN /\ 1 \in 0..Retries + 1
    BY DeliveryConstants
  <2>2. BreakerStep(c, new, b)
    BY <1>6
  <2> HIDE DEF p
  <2>3. new \in CallRecord /\ new.pc = "wire" /\ new.try = 1 /\ new.attempt = Counted(c) /\ new.probe = p
    BY <1>3, <2>1 DEF CallRecord, Calling
  <2> HIDE DEF new
  <2>4. ProbesCurrent' /\ IsFiniteSet(Probes') /\ ProbesAccounted'
    BY <1>1, <1>6, <2>2, <2>3, ProbeBegins DEF p, b
  <2>5. b \in BreakerRecord
    <3>1. breaker \in BreakerRecord
      BY <1>1 DEF StateOK
    <3> QED
      BY <1>6, <3>1, AdmittedType DEF b, Admits
  <2>6. /\ calls' \in [Callers -> CallRecord] /\ breaker' = b /\ calls'[c] = new
        /\ \A x \in Callers \ {c} : /\ calls'[x].pc = calls[x].pc /\ calls'[x].try = calls[x].try
                                    /\ calls'[x].attempt = calls[x].attempt
    BY <1>1, <2>2, <2>3, <2>5, BreakerStepEffect
  <2>7. wire' \in [Callers -> Nat] /\ wire'[c] = wire[c] + 1 /\ \A x \in Callers \ {c} : wire'[x] = wire[x]
    BY <1>1, <1>6 DEF StateOK
  <2>8. StateOK'
    BY <1>1, <1>4, <2>5, <2>6, <2>7 DEF StateOK
  <2>9. WireBounded'
    <3>1. TriesBounded(c)'
      BY <2>3, <2>6, DeliveryConstants DEF TriesBounded, Calling, TriesOf
    <3>2. ASSUME c \in Deliveries PROVE DeliverySpent(c)'
      <4>1. Counted(c) = calls[c].attempt + 1 /\ wire[c] <= calls[c].attempt * TriesOf(c)
        BY <1>1, <3>2 DEF Counted, WireBounded, DeliverySpent, Calling
      <4>2. calls[c].attempt * TriesOf(c) \in Nat /\ (calls[c].attempt + 1) - 1 = calls[c].attempt
        BY <1>1, TriesOfType, Multiples
      <4>3. wire'[c] <= (new.attempt - 1) * TriesOf(c) + new.try
        BY <1>1, <2>3, <2>7, <4>1, <4>2
      <4>4. TriesOf(c)' = TriesOf(c)
        BY DEF TriesOf
      <4>5. new.attempt >= 1
        BY <1>1, <2>3, <4>1
      <4> QED
        BY <2>3, <2>6, <4>3, <4>4, <4>5 DEF DeliverySpent, Calling
    <3>3. c \in Fetches => FetchSpent(c)'
      BY <1>1, <2>3, <2>6, <2>7, DeliveryConstants DEF WireBounded, FetchSpent, Calling, TriesOf
    <3> QED
      BY <1>1, <2>6, <2>7, <3>1, <3>2, <3>3, OthersSpent
  <2> QED
    BY <2>4, <2>8, <2>9 DEF DeliveryInv
<1>7. ASSUME calls' = [calls EXCEPT ![c] =
                IF c \in Fetches THEN [rec EXCEPT !.pc = "done"]
                ELSE [rec EXCEPT !.pc = IF AttemptsLeft(rec) THEN "backoff" ELSE "letter"]],
             UNCHANGED <<breaker, wire>>
      PROVE  DeliveryInv'
  <2> DEFINE pc  == IF c \in Fetches THEN "done" ELSE IF AttemptsLeft(rec) THEN "backoff" ELSE "letter"
             new == [rec EXCEPT !.pc = pc]
  <2>1. calls' = [calls EXCEPT ![c] = new] /\ pc \in {"done", "backoff", "letter"}
    BY <1>7
  <2>2. (c \in Fetches => pc = "done") /\ (pc = "backoff" => rec.attempt < MaxAttempts)
    BY DEF AttemptsLeft
  <2> HIDE DEF pc
  <2>3. new \in CallRecord /\ new.pc = pc /\ new.attempt = rec.attempt /\ new.probe = rec.probe
    BY <1>3, <2>1 DEF CallRecord, Settled
  <2> HIDE DEF new
  <2>4. /\ new.pc \in {"done", "backoff", "letter"} /\ (c \in Fetches => new.pc = "done")
        /\ new.pc = "backoff" => new.attempt < MaxAttempts
        /\ new.attempt = Counted(c) /\ new.probe = calls[c].probe
    BY <1>3, <2>1, <2>2, <2>3
  <2>5. UNCHANGED <<now, breaker, letters, wire>>
    BY <1>4, <1>7
  <2> QED
    BY <1>1, <2>1, <2>3, <2>4, <2>5, RefusedInv
<1> QED
  BY <1>5, <1>6, <1>7

\* A step of c outside its calls that only moves it on.
LEMMA MovesOnInv ==
    ASSUME DeliveryInv, NEW c \in Callers, NEW pc \in {"ready", "dead", "rejected"},
           calls[c].pc \in {"backoff", "letter"}, pc = "ready" => calls[c].pc = "backoff",
           calls' = [calls EXCEPT ![c].pc = pc], UNCHANGED <<now, breaker, wire>>,
           letters' \in Seq(Deliveries), Len(letters') <= SinkCapacity
    PROVE  DeliveryInv'
<1> DEFINE rec == [calls[c] EXCEPT !.pc = pc]
<1>1. StateOK /\ WireBounded /\ calls[c] \in CallRecord
  BY DEF DeliveryInv, StateOK
<1>2. rec \in CallRecord /\ rec.pc = pc /\ rec.attempt = calls[c].attempt /\ rec.probe = calls[c].probe
  BY <1>1 DEF CallRecord, Settled
<1>3. calls' = [calls EXCEPT ![c] = rec]
  OBVIOUS
<1> HIDE DEF rec
<1>4. calls'[c] = rec
  BY <1>1, <1>3 DEF StateOK
<1>5. c \in Deliveries /\ c \notin Fetches
  BY <1>1 DEF WireBounded, FetchSpent, Callers
<1>6. TriesBounded(c)'
  BY <1>2, <1>4 DEF TriesBounded, Calling
<1>7. DeliverySpent(c)'
  BY <1>1, <1>2, <1>4, <1>5 DEF WireBounded, DeliverySpent, Calling, TriesOf
<1>8. wire' \in [Callers -> Nat] /\ \A x \in Callers \ {c} : wire'[x] = wire[x]
  BY <1>1 DEF StateOK
<1> QED
  BY <1>2, <1>3, <1>5, <1>6, <1>7, <1>8, OwnStepInv DEF Calling

\* The dead-letter sink keeps within its capacity.
LEMMA AddedType ==
    ASSUME NEW ls \in Seq(Deliveries), Len(ls) <= SinkCapacity, NEW c \in Deliveries
    PROVE  Added(ls, c) \in Seq(Deliveries) /\ Len(Added(ls, c)) <= SinkCapacity
<1>1. CASE Len(ls) < SinkCapacity
  BY <1>1, DeliveryConstants DEF Added
<1>2. CASE ~(Len(ls) < SinkCapacity)
  <2>1. Len(ls) \in Nat /\ Len(ls) >= 1
    BY <1>2, DeliveryConstants
  <2> DEFINE rest == SubSeq(ls, 2, Len(ls))
  <2>2. \A i \in 2..Len(ls) : ls[i] \in Deliveries
    BY <2>1
  <2>3. rest \in Seq(Deliveries) /\ Len(rest) = IF 2 <= Len(ls) THEN Len(ls) - 2 + 1 ELSE 0
    BY <2>1, <2>2, SubSeqProperties
  <2>4. Added(ls, c) = Append(rest, c)
    BY <1>2 DEF Added
  <2> HIDE DEF rest
  <2>5. Append(rest, c) \in Seq(Deliveries) /\ Len(Append(rest, c)) = Len(rest) + 1
    BY <2>3, AppendProperties
  <2> QED
    BY <2>1, <2>3, <2>4, <2>5
<1> QED
  BY <1>1, <1>2

LEMMA NextAttemptInv ==
    ASSUME DeliveryInv, NEW c \in Callers, NextAttempt(c)
    PROVE  DeliveryInv'
BY MovesOnInv DEF NextAttempt, DeliveryInv, StateOK

LEMMA LetterInv ==
    ASSUME DeliveryInv, NEW c \in Callers, Letter(c)
    PROVE  DeliveryInv'
<1>1. c \in Deliveries
  BY DEF DeliveryInv, WireBounded, FetchSpent, Callers, Letter
<1>2. letters \in Seq(Deliveries) /\ Len(letters) <= SinkCapacity
  BY DEF DeliveryInv, StateOK
<1>3. letters' \in Seq(Deliveries) /\ Len(letters') <= SinkCapacity
  BY <1>1, <1>2, AddedType DEF Letter
<1> QED
  BY <1>3, MovesOnInv DEF Letter

LEMMA InvInductive == DeliveryInv /\ [Next]_vars => DeliveryInv'
<1> SUFFICES ASSUME DeliveryInv, [Next]_vars PROVE DeliveryInv'
  OBVIOUS
<1>1. ASSUME UNCHANGED <<breaker, calls, wire>>, now' \in 0..MaxNow,
             letters' \in Seq(Deliveries), Len(letters') <= SinkCapacity
      PROVE  DeliveryInv'
  <2>1. StateOK' /\ ProbesCurrent'
    BY <1>1 DEF DeliveryInv, StateOK, ProbesCurrent
  <2>2. WireBounded'
    BY <1>1 DEF DeliveryInv, WireBounded, TriesBounded, DeliverySpent, FetchSpent, TriesOf
  <2>3. Probes' = Probes
    BY <1>1 DEF Probes
  <2> QED
    BY <1>1, <2>1, <2>2, <2>3 DEF DeliveryInv, ProbesAccounted
<1>2. StateOK
  BY DEF DeliveryInv
<1>3. CASE Drain
  BY <1>1, <1>2, <1>3, DeliveryConstants DEF Drain, StateOK
<1>4. CASE Tick
  BY <1>1, <1>2, <1>4, DeliveryConstants DEF Tick, StateOK
<1>5. CASE UNCHANGED vars
  BY <1>1, <1>2, <1>5 DEF vars, StateOK
<1> QED
  BY <1>3, <1>4, <1>5, CallInv, TryOverInv, NextTryInv, NextAttemptInv, LetterInv, AbortInv
  DEF Next, Step

LEMMA DeliveryCorrect == Spec => []DeliveryInv
BY InvInitially, InvInductive, PTL DEF Spec

-----------------------------------------------------------------------------
(* The state keeps its shape, the sink its capacity, and the requests that a
   delivery puts on the wire stay within its attempts times the tries of an
   attempt, whatever the breaker refuses and however often it is aborted. *)
THEOREM DeliveryTypeCorrect == Spec => []DeliveryTypeOK
BY DeliveryCorrect, InvGivesType, PTL

(* Every probe that the half-open breaker counts is a call in flight, so no
   abort, block, timeout or retry leaks a slot of the breaker; and until an
   outcome strays into the period, it counts them exactly. *)
THEOREM ProbesCorrect == Spec => []ProbesAccounted
<1>1. DeliveryInv => ProbesAccounted
  BY DEF DeliveryInv
<1> QED
  BY <1>1, DeliveryCorrect, PTL
=============================================================================
