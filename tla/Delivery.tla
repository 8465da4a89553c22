------------------------------- MODULE Delivery -------------------------------
(***************************************************************************)
(* createWebhookSender of src/webhook-delivery.ts with resilientFetch of   *)
(* src/fetch-resilience.ts as its transport, and other callers of the same *)
(* resilientFetch: all of them share one circuit breaker.                  *)
(*                                                                         *)
(* A delivery is one call of send: it makes attempts, each a call of       *)
(* resilientFetch that the sender's own timer may abort; a fetch is one    *)
(* such call that its caller may abort.  A call is admitted by the         *)
(* breaker, and then makes tries on the wire.                              *)
(***************************************************************************)
EXTENDS CircuitBreaker, Sequences, FiniteSets

CONSTANTS
    Deliveries, Fetches,
    MaxAttempts,        \* of a delivery
    Retries,            \* of a call whose method is retried
    Retryable,          \* the callers with such a method
    SinkCapacity,
    MaxNow              \* bound on the clock

Callers == Deliveries \cup Fetches

ASSUME DeliveryConstants ==
    /\ Deliveries \cap Fetches = {} /\ Retryable \subseteq Callers
    /\ MaxAttempts \in Nat \ {0} /\ Retries \in Nat /\ SinkCapacity \in Nat \ {0}
    /\ MaxNow \in Nat

VARIABLES
    now,
    breaker,
    calls,      \* caller -> where it is
    letters,    \* MemoryWebhookDeadLetterSink
    wire        \* history: caller -> how many requests it has put on the wire

vars == <<now, breaker, calls, letters, wire>>

\* "wire": fetch is pending; "pause", "backoff": asleep between tries, between
\* attempts; "letter": the sink's add is pending.
Calling == {"wire", "pause"}
Settled == {"done", "dead", "rejected"}

CallRecord ==
    [pc : {"ready", "backoff", "letter"} \cup Calling \cup Settled,
     attempt : 0..MaxAttempts, try : 0..Retries + 1,
     probe : BOOLEAN]   \* admitted in the half-open period that still lasts

Init ==
    /\ now = 0 /\ breaker = FreshBreaker /\ letters = <<>>
    /\ calls = [c \in Callers |-> [pc |-> "ready", attempt |-> 0, try |-> 0, probe |-> FALSE]]
    /\ wire = [c \in Callers |-> 0]

\* How a try ends: a good response, a status that is retried and a failure, one
\* that is only retried (408, 429), one that is final, no response, and an
\* address that fetchGuard refuses.
Outcomes == {"ok", "unavailable", "busy", "rejected", "error", "blocked"}

RetriedStatuses == {"unavailable", "busy"}

-----------------------------------------------------------------------------
(***************************************************************************)
(* resilientFetch.                                                         *)
(***************************************************************************)
\* The breaker becomes b and c becomes rec; when the half-open period is over
\* or begins, nobody else is a probe of it.
BreakerStep(c, rec, b) ==
    /\ breaker' = b
    /\ calls' = [x \in Callers |->
                    IF x = c THEN rec
                    ELSE [calls[x] EXCEPT !.probe = @ /\ b.state = breaker.state]]

\* An outcome of a call that is not a probe of this half-open period.
Strays(c, b) == [b EXCEPT !.strayed = @ \/ (b.state = "half-open" /\ ~calls[c].probe)]

AttemptsLeft(rec) == rec.attempt < MaxAttempts

\* What the caller makes of the call's outcome.  A delivery tries again after a
\* retried status, an error, its own timeout, or a refusal of the breaker.
AfterCall(c, outcome) ==
    LET rec == [calls[c] EXCEPT !.try = 0, !.probe = FALSE]
    IN  CASE outcome = "ok" \/ c \in Fetches -> [rec EXCEPT !.pc = "done"]
          [] outcome # "ok" /\ c \in Deliveries ->
                IF AttemptsLeft(rec) /\ outcome \notin {"rejected", "blocked"}
                THEN [rec EXCEPT !.pc = "backoff"] ELSE [rec EXCEPT !.pc = "letter"]

\* The breaker once the call of c is over: an aborted or blocked call says
\* nothing about the upstream.
Recorded(c, outcome) ==
    CASE outcome \in {"aborted", "blocked"} -> Released(Strays(c, breaker))
      [] outcome \in {"unavailable", "error"} -> OnFailure(Strays(c, breaker), now)
      [] outcome \in {"ok", "busy", "rejected"} -> OnSuccess(Strays(c, breaker))

CallOver(c, outcome) == BreakerStep(c, AfterCall(c, outcome), Recorded(c, outcome))

\* Mutant: an attempt that the breaker refuses is not counted.
CountedUnlessRefused(c) ==
    IF c \in Deliveries /\ Admits(breaker, now) THEN calls[c].attempt + 1 ELSE calls[c].attempt

\* A delivery counts its attempts, those that the breaker refuses too.
Counted(c) == IF c \in Deliveries THEN calls[c].attempt + 1 ELSE calls[c].attempt

\* The next attempt of a delivery, or the fetch: admit, and the first try.
Call(c) ==
    /\ calls[c].pc = "ready"
    /\ LET rec == [calls[c] EXCEPT !.attempt = Counted(c)]
           b   == Admitted(breaker)
       IN  \/ /\ Admits(breaker, now)
              /\ BreakerStep(c, [rec EXCEPT !.pc = "wire", !.try = 1,
                                            !.probe = b.state = "half-open"], b)
              /\ wire' = [wire EXCEPT ![c] = @ + 1]
           \/ /\ ~Admits(breaker, now)      \* CircuitOpenError
              /\ calls' = [calls EXCEPT ![c] =
                     IF c \in Fetches THEN [rec EXCEPT !.pc = "done"]
                     ELSE [rec EXCEPT !.pc = IF AttemptsLeft(rec) THEN "backoff" ELSE "letter"]]
              /\ UNCHANGED <<breaker, wire>>
    /\ UNCHANGED <<now, letters>>

\* Mutant: the retries are counted from zero.
TriesLeftOffByOne(c) == calls[c].try <= Retries + 1 /\ c \in Retryable

TriesLeft(c) == calls[c].try <= Retries /\ c \in Retryable

\* fetch answers, fails, or is timed out by resilientFetch ("error").
TryOver(c) ==
    /\ calls[c].pc = "wire"
    /\ \E outcome \in Outcomes :
          IF TriesLeft(c) /\ outcome \in RetriedStatuses \cup {"error"}
          THEN calls' = [calls EXCEPT ![c].pc = "pause"] /\ UNCHANGED breaker
          ELSE CallOver(c, outcome)
    /\ UNCHANGED <<now, letters, wire>>

NextTry(c) ==
    /\ calls[c].pc = "pause"
    /\ calls' = [calls EXCEPT ![c].pc = "wire", ![c].try = @ + 1]
    /\ wire' = [wire EXCEPT ![c] = @ + 1]
    /\ UNCHANGED <<now, breaker, letters>>

\* The timer of attemptOnce, or the caller of a fetch, aborts the call.
Abort(c) ==
    /\ calls[c].pc \in Calling
    /\ CallOver(c, "aborted")
    /\ UNCHANGED <<now, letters, wire>>

-----------------------------------------------------------------------------
(***************************************************************************)
(* send: the loop, and the dead letter.                                    *)
(***************************************************************************)
NextAttempt(c) ==
    /\ calls[c].pc = "backoff"
    /\ calls' = [calls EXCEPT ![c].pc = "ready"]
    /\ UNCHANGED <<now, breaker, letters, wire>>

\* add; the oldest letter goes when there are too many
Added(ls, c) ==
    IF Len(ls) < SinkCapacity THEN Append(ls, c) ELSE Append(SubSeq(ls, 2, Len(ls)), c)

\* A sink that throws makes send reject.
Letter(c) ==
    /\ calls[c].pc = "letter"
    /\ \/ /\ letters' = Added(letters, c)
          /\ calls' = [calls EXCEPT ![c].pc = "dead"]
       \/ /\ calls' = [calls EXCEPT ![c].pc = "rejected"]
          /\ UNCHANGED letters
    /\ UNCHANGED <<now, breaker, wire>>

\* drain, by the operator of the sink
Drain == letters # <<>> /\ letters' = <<>> /\ UNCHANGED <<now, breaker, calls, wire>>

Tick == now < MaxNow /\ now' = now + 1 /\ UNCHANGED <<breaker, calls, letters, wire>>

Step(c) == Call(c) \/ TryOver(c) \/ NextTry(c) \/ NextAttempt(c) \/ Letter(c)

Next == Drain \/ Tick \/ \E c \in Callers : Step(c) \/ Abort(c)

Spec == Init /\ [][Next]_vars

\* Timers fire; so a try ends, by its own timeout if by nothing else.
Fairness == \A c \in Callers : WF_vars(Step(c))

FairSpec == Spec /\ Fairness

-----------------------------------------------------------------------------
(* The shape of the state; retries within a call multiply with the attempts of
   the delivery, and what they put on the wire stays within the product. *)
DeliveryTypeOK ==
    /\ now \in 0..MaxNow /\ breaker \in BreakerRecord
    /\ calls \in [Callers -> CallRecord]
    /\ letters \in Seq(Deliveries) /\ Len(letters) <= SinkCapacity
    /\ \A c \in Deliveries : wire[c] <= MaxAttempts * (IF c \in Retryable THEN Retries + 1 ELSE 1)
    /\ \A c \in Fetches : wire[c] <= (IF c \in Retryable THEN Retries + 1 ELSE 1)

Probes == {c \in Callers : calls[c].probe /\ calls[c].pc \in Calling}

(* "Number of concurrent trial requests permitted while half-open": a probe slot
   is held by a call that is in flight, so that an abort, a block, a timeout or
   a retry never leaves the breaker rejecting for good; and the probes in
   flight are counted exactly and stay within the limit, up to the first outcome
   of a call that was admitted before the half-open period. *)
ProbesAccounted ==
    breaker.state = "half-open" =>
        /\ breaker.inFlight <= Cardinality(Probes)
        /\ ~breaker.strayed => /\ breaker.inFlight = Cardinality(Probes)
                               /\ Cardinality(Probes) <= HalfOpenMaxAttempts

(* Every delivery comes to an end: it is acknowledged, dead-lettered, or rejected
   by a sink that fails, although the upstream hangs, the breaker refuses its
   attempts, and other callers use up the probes. *)
DeliverySettles == \A c \in Deliveries : <>(calls[c].pc \in Settled)
=============================================================================
