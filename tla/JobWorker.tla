------------------------------ MODULE JobWorker ------------------------------
(***************************************************************************)
(* createJobWorker of src/jobs.ts: workers that poll a shared store, run   *)
(* the jobs they claim, keep leases alive, and stop with a grace period;   *)
(* composed with the store of module JobStore and a client that enqueues   *)
(* and cancels.                                                            *)
(*                                                                         *)
(* A worker is single-threaded but suspends at every await.  A step of a   *)
(* worker is therefore what runs between two awaits: it consumes the       *)
(* answer of the store call that it awaited, and goes on up to and         *)
(* including the next store call, whose effect is immediate and whose      *)
(* answer is consumed by a later step.  Steps of other workers, timers and *)
(* clients interleave in between.                                          *)
(*                                                                         *)
(* A store call may fail (a durable store may be out of reach): it throws, *)
(* and the store did, or did not, perform it.  A worker may crash at any   *)
(* point.  Timers may fire at any time while they are armed.               *)
(***************************************************************************)
EXTENDS JobStore

CONSTANTS
    QueuesOf,       \* worker -> sequence of the queues that it claims from
    Concurrency,    \* worker -> jobs that its poll loop runs at a time
    BackoffMs,      \* attempt -> min(maxDelayMs, baseDelayMs * 2^(attempt - 1))
    MaxHeartbeatFailures,
    MayStop,        \* the workers that stop() is called on
    MayCrash,       \* the workers that may crash
    MaxTime, MaxFaults, MaxBeats, MaxCancels    \* bounds

ASSUME WorkerConstants ==
    /\ QueuesOf \in [Workers -> Seq(Queues) \ {<<>>}]
    /\ Concurrency \in [Workers -> Nat \ {0}] /\ MaxHeartbeatFailures \in Nat \ {0}
    /\ MayStop \subseteq Workers /\ MayCrash \subseteq Workers
    /\ MaxTime \in Nat /\ MaxFaults \in Nat /\ MaxBeats \in Nat /\ MaxCancels \in Nat
    /\ 0..MaxTime \subseteq Time
    /\ \A a \in Attempts : /\ BackoffMs[a] \in Nat
                           /\ \A t \in 0..MaxTime, d \in 0..BackoffMs[a] : t + d \in Time

Claims == JobIds \X Attempts
NoClaim     == <<NoJob, 0>>     \* the store had nothing to claim
BrokenClaim == <<NoJob, 1>>     \* the claim call threw

VARIABLES
    now,      \* the clock
    wk,       \* worker -> lifecycle and poll loop
    runs,     \* claim -> the execute() call that runs it
    reports,  \* job -> how often onComplete and onDead were called
    budgets   \* faults, beats and cancels still to come

workerVars == <<now, wk, runs, reports, budgets>>
allVars == <<storeVars, workerVars>>

\* What the poll loop awaits: the answer of takeReaped or of claim, for its
\* i-th queue.
WorkerRecord ==
    [state : {"idle", "polling", "grace", "unwind", "down", "crashed"},
     drain : {"off", "reaped", "claimed"}, i : Nat, got : SUBSET JobIds,
     claim : Claims \cup {NoClaim, BrokenClaim}, again : BOOLEAN, awaited : SUBSET Claims]

\* A run awaits its handler, or the answer of complete or fail.
RunRecord ==
    [pc : {"none", "handler", "threw", "completed", "retried", "died", "refused", "done"},
     w : Workers \cup {Nobody}, aborted : BOOLEAN, timedOut : BOOLEAN,
     lost : BOOLEAN, fails : 0..MaxHeartbeatFailures]

FreshRun(w) == [pc |-> "handler", w |-> w, aborted |-> FALSE, timedOut |-> FALSE,
                lost |-> FALSE, fails |-> 0]
NotRun == [FreshRun(Nobody) EXCEPT !.pc = "none"]
Done   == [FreshRun(Nobody) EXCEPT !.pc = "done"]

WorkerInit ==
    /\ now = 0
    /\ wk = [w \in Workers |-> [state |-> "idle", drain |-> "off", i |-> 0, got |-> {},
                                claim |-> NoClaim, again |-> FALSE, awaited |-> {}]]
    /\ runs = [r \in Claims |-> NotRun]
    /\ reports = [id \in JobIds |-> [complete |-> 0, dead |-> 0]]
    /\ budgets = [faults |-> MaxFaults, beats |-> MaxBeats, cancels |-> MaxCancels]

Stopped(w)  == wk[w].state \notin {"idle", "polling"}
Alive(w)    == wk[w].state # "crashed"
Active      == {r \in Claims : runs[r].pc \notin {"none", "done"}}
InFlight(w) == {r \in Active : runs[r].w = w}

\* One of the bounded events of kind k happens.
Charge(k) == budgets[k] > 0 /\ budgets' = [budgets EXCEPT ![k] = @ - 1]

NoStoreStep == UNCHANGED storeVars

-----------------------------------------------------------------------------
(***************************************************************************)
(* The client and the clock.                                               *)
(***************************************************************************)
Enqueue ==
    /\ \E opts \in EnqueueOpts : Put(opts, now, now)
    /\ UNCHANGED workerVars

CancelJob ==
    /\ \E id \in JobIds : Cancel(id, now)
    /\ Charge("cancels")
    /\ UNCHANGED <<now, wk, runs, reports>>

\* Time matters to the store only while a lease or a delay runs.
DeadlineAhead ==
    \E id \in JobIds : \/ jobs[id].status = "running" /\ jobs[id].leaseUntil >= now
                       \/ jobs[id].status = "delayed" /\ jobs[id].runAt > now

Tick ==
    /\ DeadlineAhead /\ now < MaxTime
    /\ now' = now + 1
    /\ NoStoreStep /\ UNCHANGED <<wk, runs, reports, budgets>>

-----------------------------------------------------------------------------
(***************************************************************************)
(* The poll loop: tick, drainAvailable, claimNext.                         *)
(***************************************************************************)
Queue(w, i) == QueuesOf[w][i]

Become(w, rec) == wk' = [wk EXCEPT ![w] = rec]

\* takeReaped of the i-th queue.  An error is logged and the queue skipped.
AskReaped(w, rec, i) ==
    \/ /\ \E outbox \in Outboxes(now) :
             /\ TakeFrom(outbox, Queue(w, i), now)
             /\ Become(w, [rec EXCEPT !.drain = "reaped", !.i = i,
                                      !.got = TakenFrom(outbox, Reaped(now), Queue(w, i))])
       /\ UNCHANGED budgets
    \/ /\ NoStoreStep \/ TakeReaped(Queue(w, i), now)
       /\ Charge("faults")
       /\ Become(w, [rec EXCEPT !.drain = "reaped", !.i = i, !.got = {}])

\* Mutant: the attempt number from before the claim.
ClaimOfStale(id) == <<id, jobs[id].attempts>>

\* The claim that a successful call of store.claim answers with.
ClaimOf(id) == <<id, jobs[id].attempts + 1>>

\* claim from the i-th queue.  An error ends the drain until the next tick.
AskClaim(w, rec, i) ==
    LET answered(claim) ==
            Become(w, [rec EXCEPT !.drain = "claimed", !.i = i, !.got = {}, !.claim = claim])
        granted(id) == ClaimJob(id, Queue(w, i), w, now)
    IN  \/ ClaimNothing(Queue(w, i), now) /\ answered(NoClaim) /\ UNCHANGED budgets
        \/ /\ \E id \in JobIds : granted(id) /\ answered(ClaimOf(id))
           /\ UNCHANGED budgets
        \/ /\ NoStoreStep \/ \E id \in JobIds : granted(id)
           /\ Charge("faults") /\ answered(BrokenClaim)

DrainOff(w, rec) ==
    /\ Become(w, [rec EXCEPT !.drain = "off", !.i = 0, !.got = {}, !.claim = NoClaim, !.again = FALSE])
    /\ NoStoreStep /\ UNCHANGED budgets

\* Mutant: one job too many.
HasRoomTooMany(w, n) == n <= Concurrency[w]

HasRoom(w, n) == n < Concurrency[w]

\* Mutant: the loop goes straight to claiming.
LoopHeadClaims(w, rec, n) ==
    IF ~Stopped(w) /\ HasRoom(w, n) THEN AskClaim(w, [rec EXCEPT !.claim = NoClaim], 1)
    ELSE DrainOff(w, rec)

\* while (!stopped && inFlight.size < concurrency), with n jobs in flight
LoopHead(w, rec, n) ==
    IF ~Stopped(w) /\ HasRoom(w, n) THEN AskReaped(w, [rec EXCEPT !.claim = NoClaim], 1)
    ELSE DrainOff(w, rec)

\* break, then while (drainAgain && !stopped)
LoopBreak(w, n) ==
    IF wk[w].again /\ ~Stopped(w) THEN LoopHead(w, [wk[w] EXCEPT !.again = FALSE], n)
    ELSE DrainOff(w, wk[w])

Start(w) ==
    /\ wk[w].state = "idle"
    /\ wk' = [wk EXCEPT ![w].state = "polling"]
    /\ NoStoreStep /\ UNCHANGED <<now, runs, reports, budgets>>

\* The poll timer fires; tick re-arms it and drains, or lets the drain that
\* is under way go round once more.
PollTick(w) ==
    /\ wk[w].state = "polling"
    /\ \/ wk[w].drain = "off" /\ LoopHead(w, wk[w], Cardinality(InFlight(w)))
       \/ /\ wk[w].drain # "off" /\ ~wk[w].again
          /\ wk' = [wk EXCEPT ![w].again = TRUE]
          /\ NoStoreStep /\ UNCHANGED budgets
    /\ UNCHANGED <<now, runs, reports>>

\* takeReaped answered: report each job, then ask for the next queue's, or
\* start to claim.
ReapedBack(w) ==
    /\ Alive(w) /\ wk[w].drain = "reaped"
    /\ reports' = [id \in JobIds |-> IF id \in wk[w].got
                                     THEN [reports[id] EXCEPT !.dead = @ + 1] ELSE reports[id]]
    /\ IF wk[w].i < Len(QueuesOf[w]) THEN AskReaped(w, wk[w], wk[w].i + 1)
       ELSE AskClaim(w, wk[w], 1)
    /\ UNCHANGED <<now, runs>>

Launch(claim, w) == runs' = [runs EXCEPT ![claim] = FreshRun(w)]

\* claim answered: launch the job and go on with the loop, whether or not
\* the worker has been stopped in the meantime.
ClaimBack(w) ==
    /\ Alive(w) /\ wk[w].drain = "claimed"
    /\ LET claim == wk[w].claim
           n     == Cardinality(InFlight(w))
       IN  \/ /\ claim \in Claims
              /\ Launch(claim, w)
              /\ LoopHead(w, wk[w], n + 1)
           \/ /\ claim = NoClaim
              /\ IF wk[w].i < Len(QueuesOf[w]) THEN AskClaim(w, wk[w], wk[w].i + 1)
                 ELSE LoopBreak(w, n)
              /\ UNCHANGED runs
           \/ /\ claim = BrokenClaim
              /\ LoopBreak(w, n)
              /\ UNCHANGED runs
    /\ UNCHANGED <<now, reports>>

-----------------------------------------------------------------------------
(***************************************************************************)
(* execute: one run of one claim r = <<id, attempt>>.                      *)
(***************************************************************************)
Goes(r, pc) == runs' = [runs EXCEPT ![r] = IF pc = "done" THEN Done ELSE [@ EXCEPT !.pc = pc]]

Owns(r) == OwnedRunning(r[1], runs[r].w, r[2])

\* store.complete, and how it answers
CallComplete(r) ==
    \/ Complete(r[1], runs[r].w, r[2], now) /\ Goes(r, "completed") /\ UNCHANGED budgets
    \/ ~Owns(r) /\ NoStoreStep /\ Goes(r, "refused") /\ UNCHANGED budgets
    \/ /\ NoStoreStep \/ Complete(r[1], runs[r].w, r[2], now)
       /\ Charge("faults") /\ Goes(r, "threw")

WillRetry(r, fatal) == ~fatal /\ r[2] < jobs[r[1]].opts.maxAttempts

\* computeBackoffMs: full jitter, floor(random() * exp) with random() < 1
Backoffs(attempt) == {d \in 0..BackoffMs[attempt] : d < BackoffMs[attempt] \/ d = 0}

StoreFail(r, fatal) ==
    /\ Owns(r)
    /\ IF WillRetry(r, fatal)
       THEN \E d \in Backoffs(r[2]) : Fail(r[1], runs[r].w, r[2], "delayed", now + d, now)
       ELSE Fail(r[1], runs[r].w, r[2], "dead", now, now)

\* The catch branch: a run that lost its lease leaves the outcome to the new
\* owner, any other calls store.fail.  If that throws, the run ends.
CallFail(r, fatal) ==
    \/ /\ runs[r].lost
       /\ NoStoreStep /\ Goes(r, "done") /\ UNCHANGED budgets
    \/ /\ ~runs[r].lost
       /\ StoreFail(r, fatal)
       /\ Goes(r, IF WillRetry(r, fatal) THEN "retried" ELSE "died") /\ UNCHANGED budgets
    \/ /\ ~runs[r].lost /\ ~Owns(r)
       /\ NoStoreStep /\ Goes(r, "refused") /\ UNCHANGED budgets
    \/ /\ ~runs[r].lost
       /\ NoStoreStep \/ StoreFail(r, fatal)
       /\ Charge("faults") /\ Goes(r, "done")

HandlerReturns(r) ==
    /\ runs[r].pc = "handler"
    /\ IF runs[r].aborted THEN CallFail(r, FALSE) ELSE CallComplete(r)
    /\ UNCHANGED <<now, wk, reports>>

\* A timed-out run fails as retryable whatever the handler threw.
HandlerThrows(r, fatal) ==
    /\ runs[r].pc = "handler"
    /\ CallFail(r, fatal /\ ~runs[r].timedOut)
    /\ UNCHANGED <<now, wk, reports>>

\* store.complete threw
CompleteThrew(r) ==
    /\ runs[r].pc = "threw"
    /\ CallFail(r, FALSE)
    /\ UNCHANGED <<now, wk, reports>>

\* The store answered: call the hooks, leave the in-flight set.
Settle(r) ==
    /\ runs[r].pc \in {"completed", "retried", "died", "refused"}
    /\ reports' = [reports EXCEPT
            ![r[1]].complete = IF runs[r].pc = "completed" THEN @ + 1 ELSE @,
            ![r[1]].dead     = IF runs[r].pc = "died" THEN @ + 1 ELSE @]
    /\ Goes(r, "done")
    /\ NoStoreStep /\ UNCHANGED <<now, wk, budgets>>

\* A heartbeat, from the timer or from the handler.
Beat(r) ==
    /\ r \in Active /\ ~runs[r].lost
    /\ Charge("beats")
    /\ \/ /\ Heartbeat(r[1], runs[r].w, r[2], now)
          /\ runs' = [runs EXCEPT ![r].fails = 0]
       \/ /\ Owns(r) => jobs[r[1]].leaseUntil < now           \* refused
          /\ NoStoreStep
          /\ runs' = [runs EXCEPT ![r].fails = 0, ![r].lost = TRUE, ![r].aborted = TRUE]
    /\ UNCHANGED <<now, wk, reports>>

\* A heartbeat that throws; the third in a row counts as a lost lease.
BeatThrows(r) ==
    /\ r \in Active /\ ~runs[r].lost
    /\ Charge("faults")
    /\ NoStoreStep \/ Heartbeat(r[1], runs[r].w, r[2], now)
    /\ LET out == runs[r].fails + 1 >= MaxHeartbeatFailures
       IN  runs' = [runs EXCEPT ![r].fails = @ + 1, ![r].lost = out, ![r].aborted = @ \/ out]
    /\ UNCHANGED <<now, wk, reports>>

Timeout(r) ==
    /\ r \in Active /\ ~runs[r].timedOut
    /\ runs' = [runs EXCEPT ![r].timedOut = TRUE, ![r].aborted = TRUE]
    /\ NoStoreStep /\ UNCHANGED <<now, wk, reports, budgets>>

-----------------------------------------------------------------------------
(***************************************************************************)
(* stop, and crashes.                                                      *)
(***************************************************************************)
Stop(w) ==
    /\ w \in MayStop /\ wk[w].state \in {"idle", "polling"}
    /\ wk' = [wk EXCEPT ![w].state = IF InFlight(w) = {} THEN "down" ELSE "grace",
                        ![w].awaited = InFlight(w)]
    /\ NoStoreStep /\ UNCHANGED <<now, runs, reports, budgets>>

\* Mutant: settled jobs are not removed from what stop() awaits.
NeverSettled(w) == wk[w].awaited = {}

Settled(w) == wk[w].awaited \cap Active = {}

\* The jobs in flight have settled, within the grace period or after it.
StopSettled(w) ==
    /\ wk[w].state \in {"grace", "unwind"} /\ Settled(w)
    /\ wk' = [wk EXCEPT ![w].state = "down", ![w].awaited = {}]
    /\ NoStoreStep /\ UNCHANGED <<now, runs, reports, budgets>>

\* The grace period is over: abort what is in flight, and wait for it.
StopDeadline(w) ==
    /\ wk[w].state = "grace"
    /\ wk' = [wk EXCEPT ![w].state = IF InFlight(w) = {} THEN "down" ELSE "unwind",
                        ![w].awaited = InFlight(w)]
    /\ runs' = [r \in Claims |-> IF r \in InFlight(w) THEN [runs[r] EXCEPT !.aborted = TRUE]
                                 ELSE runs[r]]
    /\ NoStoreStep /\ UNCHANGED <<now, reports, budgets>>

Crash(w) ==
    /\ w \in MayCrash /\ Alive(w)
    /\ wk' = [wk EXCEPT ![w] = [state |-> "crashed", drain |-> "off", i |-> 0, got |-> {},
                                claim |-> NoClaim, again |-> FALSE, awaited |-> {}]]
    /\ runs' = [r \in Claims |-> IF r \in InFlight(w) THEN Done ELSE runs[r]]
    /\ NoStoreStep /\ UNCHANGED <<now, reports, budgets>>

-----------------------------------------------------------------------------
WorkerStep(w) ==
    \/ Start(w) \/ PollTick(w) \/ ReapedBack(w) \/ ClaimBack(w)
    \/ Stop(w) \/ StopSettled(w) \/ StopDeadline(w) \/ Crash(w)

RunStep(r) ==
    \/ HandlerReturns(r) \/ (\E fatal \in BOOLEAN : HandlerThrows(r, fatal))
    \/ CompleteThrew(r) \/ Settle(r) \/ Beat(r) \/ BeatThrows(r) \/ Timeout(r)

WorkerNext ==
    \/ Enqueue \/ CancelJob \/ Tick
    \/ \E w \in Workers : WorkerStep(w)
    \/ \E r \in Claims : RunStep(r)

Init == StoreInit /\ WorkerInit

Spec == Init /\ [][WorkerNext]_allVars

\* What the runtime guarantees: the clock advances, timers fire, promises
\* that the store resolved are resumed, and a handler whose signal has been
\* aborted returns or throws.  A handler that is not aborted may take as
\* long as it likes: its timeout is what ends it.
Fairness ==
    /\ WF_allVars(Tick)
    /\ \A w \in Workers :
          /\ WF_allVars(Start(w)) /\ WF_allVars(PollTick(w))
          /\ WF_allVars(ReapedBack(w)) /\ WF_allVars(ClaimBack(w))
          /\ WF_allVars(StopSettled(w)) /\ WF_allVars(StopDeadline(w))
    /\ \A r \in Claims :
          /\ WF_allVars(Timeout(r)) /\ WF_allVars(Settle(r)) /\ WF_allVars(CompleteThrew(r))
          /\ WF_allVars(runs[r].aborted /\ (HandlerReturns(r) \/ \E f \in BOOLEAN : HandlerThrows(r, f)))

FairSpec == Spec /\ Fairness

-----------------------------------------------------------------------------
(* The shape of the workers' state. *)
WorkerTypeOK ==
    /\ StoreShape
    /\ now \in 0..MaxTime
    /\ wk \in [Workers -> WorkerRecord]
    /\ runs \in [Claims -> RunRecord]
    /\ reports \in [JobIds -> [complete : Nat, dead : Nat]]

(* A job's final outcome is reported at most once, by one worker, and the
   report is true: onComplete only for a job the store has as completed,
   onDead only for one it has as dead.  The final attempt may time out, lose
   its lease, be reaped by another worker and be cancelled, all at once. *)
OneOutcomeReported ==
    \A id \in JobIds :
        /\ reports[id].complete + reports[id].dead <= 1
        /\ reports[id].complete = 1 => jobs[id].status \in {"completed", "absent"}
        /\ reports[id].dead = 1 => jobs[id].status \in {"dead", "absent"}

(* The poll loop never runs more than concurrency jobs, the one it has just
   claimed included, however ticks, claims and settlements overlap. *)
LoopWithinConcurrency ==
    \A w \in Workers :
        Cardinality(InFlight(w)) + (IF wk[w].claim \in Claims THEN 1 ELSE 0) <= Concurrency[w]

(* A live lease is respected: while a record's lease has not expired, no
   other claim supersedes it. *)
LeaseRespected ==
    [][\A id \in JobIds :
          jobs[id].status = "running" /\ jobs[id].leaseUntil >= now =>
              jobs'[id].attempts = jobs[id].attempts \/ jobs'[id].status = "absent"]_allVars

(* A claim fences the runs before it out: once a job has been claimed anew, by
   the same worker even, a run of an earlier claim that completes, fails or
   beats late changes nothing.  While a lease lasts, a running record is changed
   by the run of its current claim, or cancelled. *)
OwnerDecides ==
    [][\A id \in JobIds :
          LET r == <<id, jobs[id].attempts>>
          IN  jobs[id].status = "running" /\ jobs'[id] # jobs[id] =>
                  \/ r \in Active /\ (runs'[r] # runs[r] \/ jobs'[id].status = "running")
                  \/ jobs'[id].status = "cancelled"
                  \/ jobs[id].leaseUntil < now]_allVars

(* Every job that is enqueued ends as completed, dead or cancelled, although
   workers crash, a store call fails and handlers hang until they are aborted,
   as long as one worker keeps polling. *)
EveryJobSettles ==
    \A id \in JobIds : (id <= issued) ~> (jobs[id].status \in Terminal \cup {"absent"})

(* A job that the reaper dead-lettered does not stay in the outbox: some
   worker takes it. *)
OutboxDrained ==
    \A id \in JobIds : (id \in Elements(reapedDead)) ~> (id \notin Elements(reapedDead))

(* stop() resolves, through the grace period or the abort behind it, as long as
   a handler whose signal is aborted ends. *)
StopResolves ==
    \A w \in Workers : (wk[w].state \in {"grace", "unwind"}) ~> (wk[w].state \in {"down", "crashed"})

(* "Stop polling, wait up to graceMs for in-flight jobs to settle, then abort
   their signals and wait for them to unwind": once stop() has resolved, the
   worker runs nothing. *)
StopQuiesces == \A w \in Workers : wk[w].state = "down" => InFlight(w) = {}
=============================================================================
