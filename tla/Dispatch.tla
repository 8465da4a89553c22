------------------------------- MODULE Dispatch -------------------------------
(***************************************************************************)
(* The life of a request in App.dispatch of src/app.ts, with the deadline  *)
(* (RequestDeadline), the request finalizers (src/request-finalizers.ts),  *)
(* a concurrencyLimit() among the beforeHandle hooks                       *)
(* (src/concurrency-limit.ts), and App.shutdown.                           *)
(*                                                                         *)
(* Requests interleave at awaits.  A step here is what one macrotask and   *)
(* the microtasks that it queues do: promises that one step settles are    *)
(* resumed before any timer fires.                                         *)
(*                                                                         *)
(* A dispatch goes through onRequest, then the steps that are raced        *)
(* against the deadline: "pre" (preBody, validation), "chain" (the         *)
(* beforeHandle hooks in front of the limiter), "queued" (in the limiter's *)
(* queue), "work" (what the slot guards: the later hooks, the handler,     *)
(* afterHandle).  Then "send" (serialisation and the onSend hooks in front *)
(* of the limiter's) and "flush" (the rest of onSend, onResponse).  What   *)
(* throws goes to "catch" (onError), and from there to "errorSend".        *)
(* The answer itself is not modelled.                                      *)
(***************************************************************************)
EXTENDS Integers, Sequences, FiniteSets

CONSTANTS
    Requests,
    Keys,           \* the limiter's buckets
    NoKey,          \* undefined: the request is not limited
    KeysOf,         \* request -> what resolveKey may answer
    MaxConcurrent, MaxQueue,
    QueueTimeout,   \* queueTimeoutMs > 0
    Timed,          \* the requests with a deadline: matched, requestTimeoutMs > 0
    Abortable,      \* the requests whose adapter lets the deadline abort their signal
    MayDisconnect,  \* the requests whose client may go away
    OutlivesGrace,  \* the steps that may go on beyond the grace window
    Calls           \* calls of shutdown

Raced == {"pre", "chain", "queued", "work"}

ASSUME DispatchConstants ==
    /\ KeysOf \in [Requests -> SUBSET (Keys \cup {NoKey})] /\ NoKey \notin Keys
    /\ MaxConcurrent \in Nat \ {0} /\ MaxQueue \in Nat
    /\ QueueTimeout \in BOOLEAN
    /\ Timed \subseteq Requests /\ Abortable \subseteq Requests /\ MayDisconnect \subseteq Requests
    /\ OutlivesGrace \subseteq Raced

InTry    == {"onRequest", "send", "flush"} \cup Raced
Answered == {"answered", "failed", "refused"}

RequestRecord ==
    [pc        : {"new", "catch", "errorSend"} \cup InTry \cup Answered,
     step      : {"none"} \cup Raced,       \* the abandoned step, while it runs
     armed     : BOOLEAN,                   \* the deadline's timer
     abandoned : BOOLEAN,                   \* in ABANDONED_REQUESTS
     aborted   : BOOLEAN,                   \* signal.aborted
     counted   : BOOLEAN,                   \* in inflight
     deferred  : {"no", "waiting", "done"}, \* afterAbandonedStep
     acquired  : BOOLEAN,                   \* ACQUIRED_KEY
     key       : Keys \cup {NoKey},          \* BUCKET_KEY
     fin       : SUBSET {"waiter", "release"}]  \* REQUEST_FINALIZERS

VARIABLES
    reqs,       \* request -> its dispatch
    buckets,    \* key -> semaphore and queue; one that is not in the map has neither
    app         \* draining, the shutdown calls, and the close hooks

vars == <<reqs, buckets, app>>

Init ==
    /\ reqs = [r \in Requests |->
                  [pc |-> "new", step |-> "none", armed |-> FALSE, abandoned |-> FALSE,
                   aborted |-> FALSE, counted |-> FALSE, deferred |-> "no",
                   acquired |-> FALSE, key |-> NoKey, fin |-> {}]]
    /\ buckets = [k \in Keys |-> [active |-> 0, queue |-> <<>>]]
    /\ app = [draining |-> FALSE, calls |-> [c \in Calls |-> "none"], listened |-> FALSE,
              closing |-> "no", forced |-> FALSE]

Elements(s) == {s[i] : i \in DOMAIN s}

\* Where the request's own code is: in dispatch, or in the step it abandoned.
Doing(rec, loc) == rec.pc = loc \/ rec.step = loc

\* The step in progress goes on at loc.
At(rec, loc) == IF rec.abandoned THEN [rec EXCEPT !.step = loc] ELSE [rec EXCEPT !.pc = loc]

-----------------------------------------------------------------------------
(***************************************************************************)
(* Finalizers and the end of a dispatch.                                   *)
(***************************************************************************)
\* inflight--, and the finalizers: a waiter is rejected, a slot released.
Finalized(rec) ==
    [rec EXCEPT !.counted  = FALSE,
                !.fin      = {},
                !.acquired = @ /\ "release" \notin rec.fin,
                !.deferred = IF rec.abandoned THEN "done" ELSE @,
                !.step     = IF @ = "queued" /\ "waiter" \in rec.fin THEN "none" ELSE @]

\* The abandoned step settles: what was deferred to this point runs.
StepOver(rec) ==
    IF rec.deferred = "waiting" THEN Finalized([rec EXCEPT !.step = "none"])
    ELSE [rec EXCEPT !.step = "none"]

\* A hook or the handler throws.
Thrown(rec) == IF rec.abandoned THEN StepOver(rec) ELSE [rec EXCEPT !.pc = "catch"]

\* finally: has the abandoned step still to settle?
MustDefer(rec) == rec.abandoned /\ rec.step # "none"

-----------------------------------------------------------------------------
(***************************************************************************)
(* The limiter's bucket.                                                   *)
(***************************************************************************)
Only(r, rec) == reqs' = [reqs EXCEPT ![r] = rec] /\ UNCHANGED buckets

\* isAbandoned
Gone(rec) == rec.aborted \/ rec.abandoned

\* How many waiters in front of the queue are passed over.
PassedOver(rs, q) ==
    CHOOSE n \in 0..Len(q) : /\ \A i \in 1..n : Gone(rs[q[i]])
                             /\ n < Len(q) => ~Gone(rs[q[n + 1]])

\* Mutant: the release is left to onSend alone.
AcquireUnregistered(rec) == [At(rec, "work") EXCEPT !.acquired = TRUE]

Acquire(rec) == [At(rec, "work") EXCEPT !.acquired = TRUE, !.fin = @ \cup {"release"}]

\* Mutant: a slot that is handed over is also given back.
FreedAlways(bucket, n) ==
    [active |-> bucket.active - 1, queue |-> SubSeq(bucket.queue, n + 2, Len(bucket.queue))]

\* The bucket after n waiters are passed over and the next one, if any, is
\* given the slot.
Freed(bucket, n) ==
    IF n < Len(bucket.queue)
    THEN [bucket EXCEPT !.queue = SubSeq(@, n + 2, Len(@))]
    ELSE [active |-> IF bucket.active > 0 THEN bucket.active - 1 ELSE 0, queue |-> <<>>]

\* release: r, from now on rec, gives its slot to the next waiter.
Release(r, rec) ==
    LET k  == rec.key
        q  == buckets[k].queue
        rs == [reqs EXCEPT ![r] = rec]
        n  == PassedOver(rs, q)
    IN  /\ buckets' = [buckets EXCEPT ![k] = Freed(@, n)]
        /\ reqs' = [s \in Requests |->
                       CASE \E i \in 1..n : q[i] = s -> Thrown(rs[s])
                         [] n < Len(q) /\ s = q[n + 1] -> Acquire(rs[s])
                         [] OTHER -> rs[s]]

\* indexOf and splice
Without(q, r) ==
    LET i == CHOOSE i \in DOMAIN q : q[i] = r
    IN  IF r \in Elements(q) THEN [j \in 1..Len(q) - 1 |-> IF j < i THEN q[j] ELSE q[j + 1]] ELSE q

\* The waiter of r, if it has one, leaves the queue.
Dequeue(r, rec) ==
    /\ reqs' = [reqs EXCEPT ![r] = rec]
    /\ buckets' = [buckets EXCEPT ![rec.key].queue = Without(@, r)]

\* inflight-- and runRequestFinalizers, as part of r becoming rec
Finalize(r, rec) ==
    IF rec.acquired /\ "release" \in rec.fin THEN Release(r, Finalized(rec))
    ELSE IF "waiter" \in rec.fin THEN Dequeue(r, Finalized(rec))
    ELSE Only(r, Finalized(rec))

\* The finally block, with r on its way to rec.
Finally(r, rec) ==
    LET over == [rec EXCEPT !.armed = FALSE]
    IN  IF MustDefer(over) THEN Only(r, [over EXCEPT !.deferred = "waiting"])
        ELSE Finalize(r, over)

\* A step of r that was abandoned settles.
LateSettle(r) ==
    IF reqs[r].deferred = "waiting" THEN Finalize(r, [reqs[r] EXCEPT !.step = "none"])
    ELSE Only(r, [reqs[r] EXCEPT !.step = "none"])

\* Mutant: one slot too many.
HasSlotTooMany(bucket) == bucket.active <= MaxConcurrent

\* Mutant: the last slot is never given out.
HasSlotTooFew(bucket) == bucket.active + 1 < MaxConcurrent

HasSlot(bucket) == bucket.active < MaxConcurrent

\* beforeHandle of the limiter.  A waiter that is abandoned before it is
\* queued is rejected at once.
Limit(r) ==
    \E k \in KeysOf[r] :
        LET rec  == [reqs[r] EXCEPT !.key = k]
            full == ~HasSlot(buckets[k])
            room == Len(buckets[k].queue) < MaxQueue
            wait == [rec EXCEPT !.fin = @ \cup {"waiter"}]
        IN  \/ /\ k = NoKey
               /\ Only(r, At(rec, "work"))
            \/ /\ k # NoKey /\ ~full
               /\ reqs' = [reqs EXCEPT ![r] = Acquire(rec)]
               /\ buckets' = [buckets EXCEPT ![k].active = @ + 1]
            \/ /\ k # NoKey /\ full /\ room /\ ~Gone(rec)
               /\ reqs' = [reqs EXCEPT ![r] = At(wait, "queued")]
               /\ buckets' = [buckets EXCEPT ![k].queue = Append(@, r)]
            \/ k # NoKey /\ full /\ room /\ Gone(rec) /\ Only(r, Thrown(wait))
            \/ k # NoKey /\ full /\ ~room /\ Only(r, Thrown(rec))

-----------------------------------------------------------------------------
(***************************************************************************)
(* dispatch: the try block.                                                *)
(***************************************************************************)
Goes(r, pc) == Only(r, [reqs[r] EXCEPT !.pc = pc])

\* Mutant: a request is let in while the app drains.
AdmitsDraining == TRUE

Admits == ~app.draining

Arrive(r) ==
    /\ reqs[r].pc = "new"
    /\ IF Admits THEN Only(r, [reqs[r] EXCEPT !.pc = "onRequest", !.counted = TRUE])
       ELSE Goes(r, "refused")
    /\ UNCHANGED app

\* The guards and onRequest; nothing is raced yet.  The deadline is armed
\* with the first step that is.
OnRequest(r) ==
    /\ reqs[r].pc = "onRequest"
    /\ \/ Only(r, [reqs[r] EXCEPT !.pc = "pre", !.armed = r \in Timed])
       \/ Goes(r, "catch")
    /\ UNCHANGED app

\* preBody and the validation go on, answer, or throw.
PreBody(r) ==
    /\ reqs[r].pc = "pre"
    /\ Goes(r, "chain") \/ Goes(r, "send") \/ Goes(r, "catch")
    /\ UNCHANGED app

\* The hooks in front of the limiter go on, answer, or throw.
BeforeHandle(r) ==
    /\ reqs[r].pc = "chain"
    /\ Limit(r) \/ Goes(r, "send") \/ Goes(r, "catch")
    /\ UNCHANGED app

\* The work has a result, or throws.
Work(r) ==
    /\ reqs[r].pc = "work"
    /\ Goes(r, "send") \/ Goes(r, "catch")
    /\ UNCHANGED app

\* Mutant: the timeout response releases the slot.
HoldsAbandoned(rec) == rec.acquired

\* onSend of the limiter leaves a request that is abandoned alone.
Holds(rec) == ~rec.abandoned /\ rec.acquired

LimiterOnSend(r, rec) ==
    IF Holds(rec) THEN Release(r, [rec EXCEPT !.acquired = FALSE]) ELSE Only(r, rec)

\* A throw before the limiter's turn skips it.
OnSend(r) ==
    /\ reqs[r].pc = "send"
    /\ LimiterOnSend(r, [reqs[r] EXCEPT !.pc = "flush"]) \/ Goes(r, "catch")
    /\ UNCHANGED app

OnResponse(r) ==
    /\ reqs[r].pc = "flush"
    /\ Finally(r, [reqs[r] EXCEPT !.pc = "answered"]) \/ Goes(r, "catch")
    /\ UNCHANGED app

-----------------------------------------------------------------------------
(***************************************************************************)
(* dispatch: the catch block, whose response is returned without await, so *)
(* that finally comes before its onSend and onResponse.                    *)
(***************************************************************************)
OnError(r) ==
    /\ reqs[r].pc = "catch"
    /\ \E pc \in {"errorSend", "failed"} : Finally(r, [reqs[r] EXCEPT !.pc = pc])
    /\ UNCHANGED app

ErrorSend(r) ==
    /\ reqs[r].pc = "errorSend"
    /\ LimiterOnSend(r, [reqs[r] EXCEPT !.pc = "answered"]) \/ Goes(r, "failed")
    /\ UNCHANGED app

-----------------------------------------------------------------------------
(***************************************************************************)
(* Timers and aborts.                                                      *)
(***************************************************************************)
\* The abort listener of a waiter in the queue: it leaves, and its chain
\* rejects.
Rejected(r, rec) == IF Doing(rec, "queued") THEN Dequeue(r, Thrown(rec)) ELSE Only(r, rec)

\* Mutant: the handler is awaited outside the race.
IsRacedButWork(pc) == pc \in Raced \ {"work"}

IsRaced(pc) == pc \in Raced

\* The timer fires.  A raced step is abandoned; any other goes on.
Deadline(r) ==
    /\ reqs[r].armed
    /\ LET fired == [reqs[r] EXCEPT !.armed = FALSE, !.aborted = @ \/ r \in Abortable]
           rec   == IF IsRaced(fired.pc)
                    THEN [fired EXCEPT !.abandoned = TRUE, !.step = fired.pc, !.pc = "catch"]
                    ELSE fired
       IN  IF r \in Abortable THEN Rejected(r, rec) ELSE Only(r, rec)
    /\ UNCHANGED app

Disconnect(r) ==
    /\ r \in MayDisconnect /\ ~reqs[r].aborted /\ reqs[r].pc \notin {"new", "refused"}
    /\ Rejected(r, [reqs[r] EXCEPT !.aborted = TRUE])
    /\ UNCHANGED app

QueueTimer(r) ==
    /\ QueueTimeout /\ Doing(reqs[r], "queued")
    /\ Rejected(r, reqs[r])
    /\ UNCHANGED app

\* A step that was abandoned goes on to the limiter, or settles.
LateStep(r) ==
    /\ reqs[r].step \in Raced \ {"queued"}
    /\ LateSettle(r) \/ (reqs[r].step = "chain" /\ Limit(r))
    /\ UNCHANGED app

\* Mutant: an abandoned step is waited for without a limit.
GraceArmedNever(rec) == FALSE

GraceArmed(rec) == rec.deferred = "waiting"

\* The grace window is over.
GraceOver(r) ==
    /\ GraceArmed(reqs[r]) /\ reqs[r].step \in OutlivesGrace
    /\ Finalize(r, reqs[r])
    /\ UNCHANGED app

-----------------------------------------------------------------------------
(***************************************************************************)
(* shutdown                                                                *)
(***************************************************************************)
Inflight == {r \in Requests : reqs[r].counted}

Becomes(c, state, rec) == app' = [rec EXCEPT !.calls[c] = state] /\ UNCHANGED <<reqs, buckets>>

\* A later call does not wait for the listeners.
Shutdown(c) ==
    /\ app.calls[c] = "none"
    /\ Becomes(c, IF app.listened THEN "drain" ELSE "listeners",
               [app EXCEPT !.draining = TRUE, !.listened = TRUE])

ListenersDone(c) == app.calls[c] = "listeners" /\ Becomes(c, "drain", app)

DrainOver(timeout) == Inflight = {} \/ timeout

\* The wait is over; the first call to get here runs the close hooks.
Drain(c) ==
    /\ app.calls[c] = "drain"
    /\ \E timeout \in BOOLEAN :
          /\ DrainOver(timeout)
          /\ IF app.closing # "no" THEN Becomes(c, "done", app)
             ELSE Becomes(c, "close", [app EXCEPT !.closing = "running", !.forced = Inflight # {}])

\* A close hook that throws ends the call.
CloseDone(c) ==
    /\ app.calls[c] = "close"
    /\ \E state \in {"done", "failed"} : Becomes(c, state, [app EXCEPT !.closing = "run"])

-----------------------------------------------------------------------------
RequestStep(r) ==
    \/ Arrive(r) \/ OnRequest(r) \/ PreBody(r) \/ BeforeHandle(r) \/ Work(r)
    \/ OnSend(r) \/ OnResponse(r) \/ OnError(r) \/ ErrorSend(r)
    \/ Deadline(r) \/ Disconnect(r) \/ QueueTimer(r) \/ LateStep(r) \/ GraceOver(r)

ShutdownStep(c) == Shutdown(c) \/ ListenersDone(c) \/ Drain(c) \/ CloseDone(c)

Next == (\E r \in Requests : RequestStep(r)) \/ (\E c \in Calls : ShutdownStep(c))

Spec == Init /\ [][Next]_vars

\* Timers fire, and hooks that nothing is raced against settle.  A raced
\* step may hang for good if its request has a deadline.
Fairness ==
    /\ \A r \in Requests :
          /\ WF_vars(OnRequest(r)) /\ WF_vars(OnSend(r)) /\ WF_vars(OnResponse(r))
          /\ WF_vars(OnError(r)) /\ WF_vars(ErrorSend(r))
          /\ WF_vars(Deadline(r)) /\ WF_vars(GraceOver(r))
          /\ WF_vars(r \notin Timed /\ (PreBody(r) \/ BeforeHandle(r) \/ Work(r)))
          /\ WF_vars(reqs[r].step \notin OutlivesGrace /\ LateStep(r))
    /\ \A c \in Calls : WF_vars(ListenersDone(c)) /\ WF_vars(Drain(c)) /\ WF_vars(CloseDone(c))

FairSpec == Spec /\ Fairness

-----------------------------------------------------------------------------
(* The shape of the dispatcher's state. *)
DispatchTypeOK ==
    /\ reqs \in [Requests -> RequestRecord]
    /\ buckets \in [Keys -> [active : 0..MaxConcurrent, queue : Seq(Requests)]]
    /\ app \in [draining : BOOLEAN, listened : BOOLEAN, forced : BOOLEAN,
                calls : [Calls -> {"none", "listeners", "drain", "close", "done", "failed"}],
                closing : {"no", "running", "run"}]

Of(k, P(_)) == {r \in Requests : reqs[r].key = k /\ P(reqs[r])}

(* "Never leaked, and never released twice": the semaphore counts the requests
   that hold a slot, although a slot may be released by onSend, by a finalizer
   in finally, by one that was deferred, or by the grace timer, and may be
   handed from one request to the next. *)
SlotsAccounted ==
    \A k \in Keys : buckets[k].active = Cardinality(Of(k, LAMBDA rec : rec.acquired))

(* Nobody waits for a slot that is free, and the queue holds the waiters, each
   once: timeouts, aborts and abandoned waiters leave none behind. *)
NoIdleSlot ==
    \A k \in Keys :
        LET queue == buckets[k].queue
        IN  /\ queue # <<>> => buckets[k].active = MaxConcurrent
            /\ Elements(queue) = Of(k, LAMBDA rec : Doing(rec, "queued"))
            /\ Len(queue) = Cardinality(Elements(queue)) /\ Len(queue) <= MaxQueue

\* The work of rec runs; it does not count once its grace window is over.
Works(rec) == Doing(rec, "work") /\ rec.deferred # "done"

(* "maxConcurrent bounds running work": the handlers that run, the abandoned
   ones included that the client has its 408 for, are never more than the
   limit. *)
WorkWithinLimit ==
    \A k \in Keys : Cardinality(Of(k, Works)) <= MaxConcurrent

\* A beforeHandle chain goes on although the finalizers of its request have run.
TooLate(rec) == rec.step = "chain" /\ rec.deferred = "done"

(* "A finalizer registered here runs exactly once per request regardless of how
   the response path ended, so a lease can never leak": whatever settles a
   request (onSend, finally, the abandoned step, the grace timer) leaves it
   without a slot, and it is given none afterwards.  The code has one exception,
   which the sentence has not: a chain that outlives the grace window may still
   take a slot, and that one never comes back. *)
LeaseEnds ==
    [][\A r \in Requests :
          reqs'[r].acquired /\ ~reqs'[r].counted =>
              TooLate(reqs[r]) \/ (reqs[r].acquired /\ ~reqs[r].counted)]_vars

(* When the close hooks start without a timeout, no handler and no hook runs
   that dispatch awaits, abandoned ones included whose grace window is not over,
   and none starts afterwards.  Only the onSend and onResponse hooks of an error
   response may run: dispatch does not await them, so that the drain does not
   wait for these requests to settle. *)
CloseAfterHandlers ==
    app.closing # "no" /\ ~app.forced =>
        \A r \in Requests : /\ reqs[r].pc \in {"new", "errorSend"} \cup Answered
                            /\ reqs[r].step # "none" => reqs[r].deferred = "done"

(* Every request is answered, although handlers hang, waiters queue behind
   them, and the deadline of a waiter may not be able to abort it. *)
EveryRequestAnswered ==
    \A r \in Requests : (reqs[r].pc \in InTry) ~> (reqs[r].pc \in Answered)

(* A slot comes back, even from a handler that never returns, as long as it was
   taken within the grace window (LeaseEnds has the other case). *)
SlotComesBack == \A r \in Requests : reqs[r].acquired ~> ~reqs[r].acquired
=============================================================================
