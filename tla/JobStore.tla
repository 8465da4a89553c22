------------------------------ MODULE JobStore ------------------------------
(***************************************************************************)
(* MemoryJobStore of src/jobs.ts, the reference implementation of the      *)
(* JobStore interface: a map of job records, an idempotency index, and a   *)
(* bounded outbox of the jobs its lease reaper dead-lettered.              *)
(*                                                                         *)
(* Every method is one synchronous call, so every method is one action.    *)
(* The callers are arbitrary: any worker may call any method for any job,  *)
(* with any attempt number and any clock reading t.  Readings need not     *)
(* increase from one call to the next, because each worker process reads   *)
(* its own clock.  A call that the store refuses (a lost lease, an unknown *)
(* id, a duplicate or conflicting idempotency key) changes nothing and is  *)
(* a stuttering step.                                                      *)
(*                                                                         *)
(* Job identities are numbered in the order in which put inserts them,     *)
(* which is the iteration order of the Map.  The UUID that compareRunnable *)
(* uses as its last tie-break is unrelated to that order: the model picks  *)
(* any of the records that tie.  Name, payload, tenant, result and the     *)
(* last error of a job do not influence the store and are left out.        *)
(***************************************************************************)
EXTENDS Integers, Sequences, FiniteSets

CONSTANTS
    MaxJobs,            \* bound: records ever inserted
    Workers, Queues, Keys,
    EnqueueOpts,        \* the EnqueueOptions that callers use
    Time,               \* the clock readings that callers pass
    Capacity, RetentionMs, DeadRetentionMs, MaxReapedBuffer,
    NoKey, NoOpts, Nobody

\* delay is runAt - createdAt: negative for a runAt in the past.
OptionsType ==
    [queue : Queues, key : Keys \cup {NoKey}, priority : Int, delay : Int,
     maxAttempts : Nat \ {0}, leaseMs : Nat \ {0}]

ASSUME StoreConstants ==
    /\ MaxJobs \in Nat
    /\ EnqueueOpts \subseteq OptionsType
    /\ Time \subseteq Nat
    /\ Capacity \in Nat \ {0}
    /\ RetentionMs \in Nat /\ DeadRetentionMs \in Nat
    /\ MaxReapedBuffer \in Nat \ {0}
    /\ NoKey \notin Keys /\ NoOpts \notin EnqueueOpts /\ Nobody \notin Workers

JobIds  == 1..MaxJobs
NoJob   == 0
NoLease == -1

Terminal == {"completed", "dead", "cancelled"}
Waiting  == {"queued", "delayed"}
Statuses == {"absent", "running"} \cup Waiting \cup Terminal

StoredJob ==
    [opts : EnqueueOpts \cup {NoOpts}, status : Statuses, attempts : Nat,
     runAt : Int, createdAt : Int, updatedAt : Int,
     leaseUntil : Nat \cup {NoLease}, lockedBy : Workers \cup {Nobody}]

\* No record under this id: not inserted yet, or purged.
Absent ==
    [opts |-> NoOpts, status |-> "absent", attempts |-> 0, runAt |-> 0,
     createdAt |-> 0, updatedAt |-> 0, leaseUntil |-> NoLease, lockedBy |-> Nobody]

VARIABLES
    jobs,        \* #jobs: job id -> StoredJob
    idem,        \* #idem: <<queue, idempotency key>> -> job id
    reapedDead,  \* #reapedDead: ids awaiting takeReaped, oldest first
    issued       \* how many identities put has used

storeVars == <<jobs, idem, reapedDead, issued>>

Elements(s) == {s[i] : i \in DOMAIN s}

StoreInit ==
    /\ jobs = [id \in JobIds |-> Absent]
    /\ idem = [slot \in Queues \X Keys |-> NoJob]
    /\ reapedDead = <<>>
    /\ issued = 0

-----------------------------------------------------------------------------
(***************************************************************************)
(* The lease reaper, which claim, get, list and takeReaped run first.      *)
(***************************************************************************)
\* Mutant: a lease expires at its deadline and not after it.
ExpiredEarly(job, t) == job.status = "running" /\ job.leaseUntil # NoLease /\ job.leaseUntil <= t

\* Mutant: nobody reaps.
ExpiredNever(job, t) == FALSE

Expired(job, t) == job.status = "running" /\ job.leaseUntil # NoLease /\ job.leaseUntil < t
Exhausted(job)  == job.attempts >= job.opts.maxAttempts

ReapJob(job, t) ==
    [job EXCEPT !.status     = IF Exhausted(job) THEN "dead" ELSE "queued",
                !.runAt      = IF Exhausted(job) THEN t ELSE @,
                !.lockedBy   = Nobody,
                !.leaseUntil = NoLease,
                !.updatedAt  = t]

Reaped(t) == [id \in JobIds |-> IF Expired(jobs[id], t) THEN ReapJob(jobs[id], t) ELSE jobs[id]]

\* Mutant: every expired lease is announced, requeued jobs too.
ReapedToDeathEager(t) == {id \in JobIds : Expired(jobs[id], t)}

ReapedToDeath(t) == {id \in JobIds : Expired(jobs[id], t) /\ Exhausted(jobs[id])}

\* The elements of S in the iteration order of the Map.
InMapOrder(S) ==
    {s \in [1..Cardinality(S) -> S] : \A i, j \in 1..Cardinality(S) : i < j => s[i] < s[j]}

\* Pushing onto a full outbox shifts the oldest entry out.
LastOf(s) == IF Len(s) <= MaxReapedBuffer
             THEN s ELSE SubSeq(s, Len(s) - MaxReapedBuffer + 1, Len(s))

\* The outboxes the reaper may leave behind: exactly one, as a set.
Outboxes(t) == {LastOf(reapedDead \o new) : new \in InMapOrder(ReapedToDeath(t))}

ReapLeases(t) ==
    /\ jobs' = Reaped(t)
    /\ reapedDead' \in Outboxes(t)
    /\ UNCHANGED <<idem, issued>>

-----------------------------------------------------------------------------
(***************************************************************************)
(* put                                                                     *)
(***************************************************************************)
Present(table) == {id \in JobIds : table[id].status # "absent"}

Holder(opts) == IF opts.key = NoKey THEN NoJob ELSE idem[<<opts.queue, opts.key>>]

\* A record holds the key: put answers duplicate, or throws on another payload.
KeyHeld(opts) == Holder(opts) # NoJob /\ jobs[Holder(opts)].status # "absent"

Retention(job) == IF job.status = "dead" THEN DeadRetentionMs ELSE RetentionMs

\* Mutant: the sweep looks at the age of a record and not at its status.
PurgeableAnyStatus(t) ==
    {id \in JobIds : jobs[id].status # "absent" /\ t - jobs[id].updatedAt > Retention(jobs[id])}

Purgeable(t) ==
    {id \in JobIds : jobs[id].status \in Terminal /\ t - jobs[id].updatedAt > Retention(jobs[id])}

PurgedJobs(t) == [id \in JobIds |-> IF id \in Purgeable(t) THEN Absent ELSE jobs[id]]

Slot(job) == <<job.opts.queue, job.opts.key>>

\* Mutant: the sweep forgets the index.
PurgedIdemForgotten(t) == idem

PurgedIdem(t) ==
    [slot \in Queues \X Keys |->
        IF \E id \in Purgeable(t) : Slot(jobs[id]) = slot THEN NoJob ELSE idem[slot]]

Inserted(opts, created, t) ==
    [opts |-> opts, status |-> IF created + opts.delay > t THEN "delayed" ELSE "queued",
     attempts |-> 0, runAt |-> created + opts.delay, createdAt |-> created,
     updatedAt |-> t, leaseUntil |-> NoLease, lockedBy |-> Nobody]

\* Insertion under the next identity, into a table and an index.
Insert(opts, created, t, table, index) ==
    /\ issued < MaxJobs
    /\ issued' = issued + 1
    /\ jobs' = [table EXCEPT ![issued + 1] = Inserted(opts, created, t)]
    /\ idem' = IF opts.key = NoKey THEN index
               ELSE [index EXCEPT ![<<opts.queue, opts.key>>] = issued + 1]

\* Mutant: one record too many.
FullOffByOne(table) == Cardinality(Present(table)) > Capacity

Full(table) == Cardinality(Present(table)) >= Capacity

\* created is the reading enqueue took before it awaited the fingerprint.
Put(opts, created, t) ==
    /\ ~KeyHeld(opts)
    /\ UNCHANGED reapedDead
    /\ \/ ~Full(jobs) /\ Insert(opts, created, t, jobs, idem)
       \/ /\ Full(jobs) /\ ~Full(PurgedJobs(t))
          /\ Insert(opts, created, t, PurgedJobs(t), PurgedIdem(t))
       \/ /\ Full(jobs) /\ Full(PurgedJobs(t))          \* throws store_full
          /\ jobs' = PurgedJobs(t) /\ idem' = PurgedIdem(t)
          /\ UNCHANGED issued

-----------------------------------------------------------------------------
(***************************************************************************)
(* claim                                                                   *)
(***************************************************************************)
\* compareRunnable(a, b) < 0, the random id left aside.
RunsBefore(a, b) ==
    \/ a.opts.priority > b.opts.priority
    \/ a.opts.priority = b.opts.priority /\ a.runAt < b.runAt
    \/ a.opts.priority = b.opts.priority /\ a.runAt = b.runAt /\ a.createdAt < b.createdAt

RunnableIn(table, queue, t) ==
    {id \in JobIds : /\ table[id].status # "absent"
                     /\ table[id].opts.queue = queue
                     /\ \/ table[id].status = "queued"
                        \/ table[id].status = "delayed" /\ table[id].runAt <= t}

BestIn(table, queue, t) ==
    {id \in RunnableIn(table, queue, t) :
        \A other \in RunnableIn(table, queue, t) : ~RunsBefore(table[other], table[id])}

\* Mutant: the attempt is not counted at claim time.
LeasedUncounted(job, worker, t) ==
    [job EXCEPT !.status = "running", !.lockedBy = worker,
                !.leaseUntil = t + job.opts.leaseMs, !.updatedAt = t]

Leased(job, worker, t) ==
    [job EXCEPT !.status = "running", !.lockedBy = worker,
                !.leaseUntil = t + job.opts.leaseMs, !.attempts = @ + 1, !.updatedAt = t]

ClaimJob(id, queue, worker, t) ==
    /\ id \in BestIn(Reaped(t), queue, t)
    /\ jobs' = [Reaped(t) EXCEPT ![id] = Leased(@, worker, t)]
    /\ reapedDead' \in Outboxes(t)
    /\ UNCHANGED <<idem, issued>>

ClaimNothing(queue, t) ==
    /\ RunnableIn(Reaped(t), queue, t) = {}
    /\ ReapLeases(t)

Claim(queue, worker, t) ==
    ClaimNothing(queue, t) \/ \E id \in JobIds : ClaimJob(id, queue, worker, t)

-----------------------------------------------------------------------------
(***************************************************************************)
(* heartbeat, complete, fail: accepted from the owner of the claim only.   *)
(***************************************************************************)
\* Mutant: the worker is looked at, and not its claim.
OwnedRunningAnyClaim(id, worker, attempt) ==
    jobs[id].status = "running" /\ jobs[id].lockedBy = worker

OwnedRunning(id, worker, attempt) ==
    /\ jobs[id].status = "running"
    /\ jobs[id].lockedBy = worker
    /\ jobs[id].attempts = attempt

Heartbeat(id, worker, attempt, t) ==
    /\ OwnedRunning(id, worker, attempt)
    /\ jobs[id].leaseUntil # NoLease => jobs[id].leaseUntil >= t
    /\ jobs' = [jobs EXCEPT ![id].leaseUntil = t + jobs[id].opts.leaseMs, ![id].updatedAt = t]
    /\ UNCHANGED <<idem, reapedDead, issued>>

Released(job, status, runAt, t) ==
    [job EXCEPT !.status = status, !.runAt = runAt, !.lockedBy = Nobody,
                !.leaseUntil = NoLease, !.updatedAt = t]

Complete(id, worker, attempt, t) ==
    /\ OwnedRunning(id, worker, attempt)
    /\ jobs' = [jobs EXCEPT ![id] = Released(@, "completed", @.runAt, t)]
    /\ UNCHANGED <<idem, reapedDead, issued>>

\* Mutant: fail applies whatever the worker asked for.
FailedUnbounded(job, status, runAt, t) ==
    Released(job, status, IF status = "delayed" THEN runAt ELSE t, t)

\* The store, not the worker, has the last word on the budget.
Failed(job, status, runAt, t) ==
    IF Exhausted(job) THEN Released(job, "dead", t, t)
    ELSE Released(job, status, IF status = "delayed" THEN runAt ELSE t, t)

Fail(id, worker, attempt, status, runAt, t) ==
    /\ OwnedRunning(id, worker, attempt)
    /\ jobs' = [jobs EXCEPT ![id] = Failed(@, status, runAt, t)]
    /\ UNCHANGED <<idem, reapedDead, issued>>

Cancel(id, t) ==
    /\ jobs[id].status \notin Terminal \cup {"absent"}
    /\ jobs' = [jobs EXCEPT ![id] = Released(@, "cancelled", @.runAt, t)]
    /\ UNCHANGED <<idem, reapedDead, issued>>

\* get and list: the answer is a copy, only the reaping changes the store.
Read(t) == ReapLeases(t)

-----------------------------------------------------------------------------
(***************************************************************************)
(* takeReaped: hand out the outbox entries of one queue, forget the purged *)
(* ones, keep the rest in order.                                           *)
(***************************************************************************)
TakenFrom(outbox, table, queue) ==
    {id \in Elements(outbox) : table[id].status # "absent" /\ table[id].opts.queue = queue}

\* Mutant: what is handed out stays in the outbox.
KeptFromAll(outbox, table, queue) == {id \in Elements(outbox) : table[id].status # "absent"}

KeptFrom(outbox, table, queue) ==
    {id \in Elements(outbox) : table[id].status # "absent" /\ table[id].opts.queue # queue}

\* S in the order of the sequence s.
InOrderOf(s, S) ==
    {k \in [1..Cardinality(S) -> S] :
        \A i, j \in 1..Cardinality(S) : i < j =>
            \E a, b \in DOMAIN s : a < b /\ s[a] = k[i] /\ s[b] = k[j]}

\* The caller gets the jobs TakenFrom(outbox, Reaped(t), queue).
TakeFrom(outbox, queue, t) ==
    /\ reapedDead' \in InOrderOf(outbox, KeptFrom(outbox, Reaped(t), queue))
    /\ jobs' = Reaped(t)
    /\ UNCHANGED <<idem, issued>>

TakeReaped(queue, t) == \E outbox \in Outboxes(t) : TakeFrom(outbox, queue, t)

-----------------------------------------------------------------------------
Attempts == UNION {1..opts.maxAttempts : opts \in EnqueueOpts}

\* A call by some caller whose clock reads t.
CallAt(t) ==
    \/ \E opts \in EnqueueOpts, created \in Time : created <= t /\ Put(opts, created, t)
    \/ \E queue \in Queues, worker \in Workers : Claim(queue, worker, t)
    \/ \E id \in JobIds, worker \in Workers, attempt \in Attempts :
          \/ Heartbeat(id, worker, attempt, t)
          \/ Complete(id, worker, attempt, t)
          \/ \E status \in {"queued", "dead"} : Fail(id, worker, attempt, status, t, t)
          \/ \E runAt \in Time : Fail(id, worker, attempt, "delayed", runAt, t)
    \/ \E id \in JobIds : Cancel(id, t)
    \/ Read(t)
    \/ \E queue \in Queues : TakeReaped(queue, t)

StoreNext == \E t \in Time : CallAt(t)

StoreSpec == StoreInit /\ [][StoreNext]_storeVars

-----------------------------------------------------------------------------
\* The types of the store's fields.
StoreShape ==
    /\ jobs \in [JobIds -> StoredJob]
    /\ idem \in [Queues \X Keys -> JobIds \cup {NoJob}]
    /\ reapedDead \in Seq(JobIds)
    /\ issued \in 0..MaxJobs
    /\ \A id \in JobIds : jobs[id].status = "absent" <=> jobs[id].opts = NoOpts

\* The store never holds more than capacity records, and the outbox stays
\* within its own bound.
WithinCapacity ==
    /\ Cardinality(Present(jobs)) <= Capacity
    /\ Len(reapedDead) <= MaxReapedBuffer

(* The shape of the store's state, and its bounds: put sweeps a full store and
   refuses the job if that makes no room, and the reaper pushes onto an outbox
   that nobody may be draining. *)
TypeOK == StoreShape /\ WithinCapacity

(* A record has an owner and a lease deadline exactly while it is running:
   no path through reap, fail, complete or cancel leaves a lock behind, and
   no running record is out of the reaper's reach. *)
LeaseIffRunning ==
    \A id \in JobIds :
        /\ jobs[id].status = "running" <=> jobs[id].lockedBy # Nobody
        /\ jobs[id].status = "running" <=> jobs[id].leaseUntil # NoLease

(* The attempt budget, on every path that makes a record claimable: a record
   that waits has an attempt left, a running one has spent at least one, and
   none has spent more than maxAttempts, lease expiries included. *)
BudgetKept ==
    \A id \in JobIds : jobs[id].status # "absent" =>
        /\ jobs[id].attempts <= jobs[id].opts.maxAttempts
        /\ jobs[id].status \in Waiting => jobs[id].attempts < jobs[id].opts.maxAttempts
        /\ jobs[id].status = "running" => jobs[id].attempts >= 1

(* The idempotency index holds <<queue, key>> -> id exactly when record id is
   in the store with that queue and key.  Hence no two records share a key,
   and the "stale index entry" branch of put is dead code: purging a record
   always removes its index entry, and never that of another record. *)
IndexExact ==
    \A slot \in Queues \X Keys, id \in JobIds :
        idem[slot] = id <=> jobs[id].status # "absent" /\ Slot(jobs[id]) = slot

(* takeReaped must report a job at most once: no id is twice in the outbox,
   and what is in it is dead, or was purged in the meantime. *)
OutboxOfTheDead ==
    /\ \A i, j \in DOMAIN reapedDead : reapedDead[i] = reapedDead[j] => i = j
    /\ \A id \in Elements(reapedDead) : jobs[id].status \in {"dead", "absent"}

(* Identities beyond the last one used have no record and are in no outbox. *)
FreshIdsUnused ==
    \A id \in JobIds : id > issued =>
        jobs[id].status = "absent" /\ id \notin Elements(reapedDead)

(* The inductive invariant. *)
StoreInv ==
    /\ StoreShape /\ LeaseIffRunning /\ BudgetKept /\ IndexExact
    /\ OutboxOfTheDead /\ FreshIdsUnused /\ WithinCapacity

(* The attempt number fences a claim: while a record is running it only
   changes by being claimed anew, and it grows by one each time.  So the
   number a worker holds identifies its claim for good. *)
AttemptsFence ==
    [][\A id \in JobIds : jobs[id].status # "absent" /\ jobs'[id].status # "absent" =>
          \/ jobs'[id].attempts = jobs[id].attempts
             /\ (jobs'[id].status = "running" =>
                    jobs[id].status = "running" /\ jobs'[id].lockedBy = jobs[id].lockedBy)
          \/ jobs'[id].attempts = jobs[id].attempts + 1 /\ jobs'[id].status = "running"]_storeVars

(* A job enters the outbox only in the call that dead-letters it.  Dead is
   final, so no job is handed to takeReaped's callers twice. *)
ReapedOnce ==
    [][\A id \in Elements(reapedDead') \ Elements(reapedDead) :
          jobs[id].status = "running" /\ jobs'[id].status = "dead"]_storeVars

-----------------------------------------------------------------------------
(***************************************************************************)
(* The store implements the life cycle.                                    *)
(***************************************************************************)
LifeStatus(id) == IF id > issued THEN "new"
                  ELSE IF jobs[id].status = "absent" THEN "purged" ELSE jobs[id].status

Lifecycle == INSTANCE JobLifecycle WITH
    Jobs     <- JobIds,
    Budgets  <- {opts.maxAttempts : opts \in EnqueueOpts},
    status   <- [id \in JobIds |-> LifeStatus(id)],
    attempts <- [id \in JobIds |-> jobs[id].attempts],
    budget   <- [id \in JobIds |-> IF jobs[id].status = "absent"
                                   THEN 0 ELSE jobs[id].opts.maxAttempts]

(* The JobStatus diagram is what the store does: every call moves each job
   along at most one of its arrows (an expired lease that is claimed in the
   same call counts as one), and none moves a job along any other. *)
ImplementsLifecycle == Lifecycle!Spec
=============================================================================
