---------------------------- MODULE CircuitBreaker ----------------------------
(***************************************************************************)
(* CircuitBreaker of src/fetch-resilience.ts, as functions of its private  *)
(* fields b at the time t.  What the fields do not tell, and the module    *)
(* that uses the breaker needs to know, is kept with them: whether an      *)
(* outcome has strayed into the half-open period that b is in.             *)
(***************************************************************************)
EXTENDS Integers

CONSTANTS FailureThreshold, ResetTimeout, HalfOpenMaxAttempts, SuccessThreshold

ASSUME BreakerConstants ==
    /\ FailureThreshold \in Nat \ {0} /\ ResetTimeout \in Nat
    /\ HalfOpenMaxAttempts \in Nat \ {0} /\ SuccessThreshold \in Nat \ {0}

BreakerRecord ==
    [state : {"closed", "open", "half-open"}, failures : Nat, successes : Nat,
     openedAt : Nat, inFlight : Nat, strayed : BOOLEAN]

FreshBreaker ==
    [state |-> "closed", failures |-> 0, successes |-> 0, openedAt |-> 0, inFlight |-> 0,
     strayed |-> FALSE]

\* transition(next); to the state it is in already, it changes nothing.
Opened(b, t) ==
    IF b.state = "open" THEN b ELSE [b EXCEPT !.state = "open", !.openedAt = t, !.strayed = FALSE]

Closed(b) ==
    [b EXCEPT !.state = "closed", !.failures = 0, !.successes = 0, !.inFlight = 0,
              !.strayed = FALSE]

HalfOpened(b) ==
    [b EXCEPT !.state = "half-open", !.successes = 0, !.inFlight = 0, !.strayed = FALSE]

ResetDue(b, t) == b.state = "open" /\ t - b.openedAt >= ResetTimeout

\* admit does not throw.
Admits(b, t) ==
    \/ b.state = "closed" \/ ResetDue(b, t)
    \/ b.state = "half-open" /\ b.inFlight < HalfOpenMaxAttempts

Admitted(b) ==
    IF b.state = "closed" THEN b
    ELSE LET h == IF b.state = "open" THEN HalfOpened(b) ELSE b
         IN  [h EXCEPT !.inFlight = @ + 1]

OneLess(n) == IF n > 0 THEN n - 1 ELSE 0

\* Mutant: a call that says nothing about the upstream leaves the count alone.
ReleasedNot(b) == b

Released(b) == IF b.state = "half-open" THEN [b EXCEPT !.inFlight = OneLess(@)] ELSE b

OnSuccess(b) ==
    IF b.state = "half-open"
    THEN LET h == [b EXCEPT !.inFlight = OneLess(@), !.successes = @ + 1]
         IN  IF h.successes >= SuccessThreshold THEN Closed(h) ELSE h
    ELSE [b EXCEPT !.failures = 0]

OnFailure(b, t) ==
    IF b.state = "half-open" THEN Opened([b EXCEPT !.inFlight = OneLess(@)], t)
    ELSE LET f == [b EXCEPT !.failures = @ + 1]
         IN  IF f.failures >= FailureThreshold THEN Opened(f, t) ELSE f
=============================================================================
