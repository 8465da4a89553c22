# Daloy in TLA+

Daloy is a TypeScript web framework. Most of it transforms one request into one
response; what is hard to test is the part that keeps state across requests,
timers and processes. This directory models that part, checks it with TLC and
proves its central invariants with TLAPS. Paths below are paths of the
repository (`src/jobs.ts`); definitions carry the names of the code wherever
TLA+ allows it, and `PROJECT.json` maps every definition to its lines.

## Inventory

| Part | State it keeps | Operations | What is hard | What makes it correct |
|---|---|---|---|---|
| Job store (`jobs.ts`, `MemoryJobStore`) | job records, idempotency index, outbox of reaped jobs | put, claim, heartbeat, complete, fail, cancel, get, list, takeReaped | leases that expire under clocks that disagree, a full table, a full outbox | attempt budget on every path, one owner per running job, exact index, a documented life cycle |
| Job queue and worker (`jobs.ts`) | poll loop, in-flight runs, per-run timers | enqueue, start, poll tick, execute, heartbeats, stop | every await is a point of interleaving; store calls fail or take effect unseen; workers crash | one true report per job, concurrency limit, every job settles, stop resolves and quiesces |
| Scheduler (`scheduler.ts`) | tasks, one timer each, the run in progress | define, start, tick, runNow, stop | overruns, manual runs, synchronous throws, stop racing with runs, timer range | single flight, one timer, living cadence, nothing after stop, no run before its time |
| Cron (`scheduler.ts`) | none | parseCron, matches, nextCronRun | calendar corner cases | equals the declarative meaning of the five fields |
| Idempotency keys (`idempotency.ts`) | reservations and stored responses | reserve, replay, commit, release | concurrent duplicates, handlers that fail, expiry while in flight | at most one execution per live key, no leaked reservation |
| Concurrency limit (`concurrency-limit.ts`, `request-finalizers.ts`) | active count, wait queue | acquire, queue, release, queue timeout | timeouts, aborts and abandoned requests racing with a hand-over | never above the limit, no lost slot, nobody waits for a free one |
| Sessions (`session.ts`) | records, tombstones | load, save, rotate, destroy | concurrent requests on one session | no resurrection of a destroyed or rotated session |
| Response cache (`response-cache.ts`) | entries, refreshes in flight | lookup, store, background refresh | a refresh beside requests that store under the same key | never serves past its windows, one refresh per key |
| Circuit breaker (`fetch-resilience.ts`) | state, failures, probes | admit, record, reset | late outcomes in half-open | bounded probes, opens and closes as documented |
| Webhook delivery (`webhook-delivery.ts`) | attempts, dead letters | send, retry, dead-letter | retries of what was delivered | bounded attempts, each failure ends in the sink |
| Rate limits, auto-ban (`middleware.ts`, `rate-limit-redis.ts`, `auto-ban.ts`) | windows, strikes, bans | hit, strike, ban | window edges, capacity | never more than the limit in a window |
| App (`app.ts`, `router.ts`) | routes, plugins, in-flight requests, deadlines, close hooks | dispatch, deadline, drain, close | steps that run on after their request was answered, hooks that throw on every path, shutdown under load | every request answered, leases given up once and not early, closes after the drain |
| WebSocket, streaming, MCP, A2A | connections, tasks | protocol steps | backpressure, disconnects | protocol order |

Security predicates, token and signature code, body parsing, compression,
OpenAPI generation, logging and the runtime adapters are pure transformations
or I/O and are not modelled (`PROJECT.json` gives the reason for each).

How the parts interact: `App.useJobs` attaches a store and possibly a worker;
`App.cron` owns a scheduler; `App.cronEnqueue` is a scheduler task that
enqueues with a key derived from the tick's slot, so that replicas deduplicate
in the store. Middleware (idempotency, concurrency, sessions, cache) meets in
the request life cycle through hooks and request finalizers. `App.onClose` stops
the scheduler and the worker during shutdown.

## Modules

| Module | Models |
|---|---|
| `JobLifecycle` | the abstract promise: the arrows a job may take and its attempt budget |
| `JobStore` | `MemoryJobStore`, one action per method, under arbitrary callers |
| `JobWorker` | workers, clients, clock, faults and crashes composed with `JobStore` |
| `Scheduler` | the `Scheduler` class with the runtime's timers |
| `Dispatch` | the life of a request in `App.dispatch` with deadline, finalizers and `concurrencyLimit()`, and `App.shutdown` |
| `Idempotency` | `idempotency()` and `MemoryIdempotencyStore` in the life of the requests that carry a key |
| `Session` | `session()`, `rotateSession()` and their store, on several instances |
| `CircuitBreaker` | the class of that name, as functions of its fields |
| `Delivery` | `createWebhookSender` and other callers over one `resilientFetch` and its `CircuitBreaker` |
| `InsertionOrder` | a JavaScript `Map` as a sequence in insertion order, shared by `Idempotency` and `Session` |
| `JobStoreProofs`, `JobWorkerProofs`, `SchedulerProofs`, `DispatchProofs`, `IdempotencyProofs`, `SessionProofs`, `DeliveryProofs` | the inductive invariant and the theorems of each component |
| `InsertionOrderProofs` | lemmas on deletion and eviction in such a map |
| `MC...` | small instances for TLC |

Definitions marked `Mutant:` are deliberate faults. No specification uses them;
each replaces a definition of the model to show that a property would notice.

### JobStore

`jobs` is `#jobs`, `idem` is `#idem`, `reapedDead` is `#reapedDead`; `issued`
counts the identities handed out, so that a purged job is told from one that
was never put. Each method is synchronous, hence one action, and it includes
the lease reaper that `claim`, `get`, `list` and `takeReaped` run first, and the
sweep that `put` runs when the table is full. Callers are arbitrary: any clock
reading, in any order, any worker and any attempt number. A refused call is a
stuttering step. Reaping several jobs in one call keeps the Map's order; the
random id that breaks ties in `compareRunnable` is a free choice.

Names, payloads, tenants, results and error texts do not steer the store. A put
with a key that is held answers "duplicate" or throws a conflict, depending on
the payload: neither changes the state.

### JobWorker

A step is what a worker does between two awaits. The drain loop is a small
program counter (`drain`, `i`, `got`, `claim`): it asks takeReaped for each of
its queues, then claim for each, launches, and starts over while there is room.
`runs` holds the `execute` call of each claim `<<job, attempt>>`. A store call
that throws may or may not have happened. Heartbeats and the calls of the hooks
are one step each: what would happen between a heartbeat and its answer is the
same as before the heartbeat, because the answer only touches the run itself.
`Concurrency` is an option of each worker.
Timers of the worker are untimed: an armed one may fire at any moment. Only
leases and delays are timed, by `now`.

### Scheduler

Time is relative (each timer counts down) and the wall clock is a circle, so
there is no bound on time. `setTimeout` is modelled by what it does
(`TimerDelay`): a delay outside its range becomes 1. `slots` are the handles
that are really pending, `timer` the one the task knows. A handler suspends or
throws synchronously; in the second case the `finally` block runs before
`current` is assigned, and the task keeps a reference to a settled run.

### Dispatch

A step is one macrotask with the microtasks it queues, since promises are
resumed before the next timer. `pc` is where `dispatch` is; `step` is the hook
or handler that the deadline abandoned and that runs on beside it. A raced hook
may go on, answer, throw or hang. `abandoned` is the mark in
`ABANDONED_REQUESTS`, `fin` the registered finalizers, `deferred` the pending
`afterAbandonedStep`, `counted` the request's share of `inflight`. A release hands the slot
over, rejects the waiters it passes over and resumes the one it picks in the
same step. The catch block returns its response without `await`, so that
`finally` precedes the `errorSend` hooks; the success path awaits. A waiter
whose adapter has no abort hook (`Abortable`) stays queued after its deadline.
`OutlivesGrace` says which abandoned steps may still run when the grace window
ends: all of them in `dispatch`; in `dispatch_live` the waiters and handlers, but
not the hooks in front of the limiter ("chain"), whose late slot does not come
back (see the disagreements below). Routing, validation and the
contents of responses are left out: they only decide which way a step ends. The
branch of `race` for a deadline that has expired already cannot be reached: no
timer fires between two raced steps.

### Idempotency

The request life of `Dispatch`, reduced to what a reservation can notice: the
raced steps are the hooks up to the fingerprint ("print"), those behind
idempotency's ("rest") and the handler. `pending` is `PENDING_STATE_KEY`, `fin`
the registered finalizer, and the reservation token of a record is its request,
so that a completion or release by token is one by `owner`. The map keeps its
insertion order, because eviction is by age. What follows the fingerprint in
`beforeHandle` has no await with this store and is one step. On the error path
the catch block does not await its response: if idempotency's onSend hook is the
first of the chain, it starts before `finally`; if another one is ahead
(`Ahead`), it comes after it. A response is reduced to whether the hook stores
it. Error bodies are taken to fit and to be readable; the body of a good
response may be too large, and for `Torn` requests it may fail. `Attended` says
whether code of the request is still going to complete or release what it
reserved: its capture, or a finalizer that has not run.

### Session

Every store call is a step of its own, as for a store behind a network; the
callbacks between two awaits are one step. `kind` says whether the store has
`update()` and `touch()` or neither; both sorts share the semantics of
`MemorySessionStore`, with its capacity and its order. Each instance has its own
tombstones. The data of a session is the value that `rotateSession` watches,
and `Does` says what the handler of a route may do. A request presents any id
that was ever sent in a cookie, or none. `dead` is a history of what was
destroyed in the store. A handler that throws or is abandoned skips
`afterHandle`; what it would do with the session afterwards is left out. A store
call may reject, performed or not: the request then takes the error path of
`dispatch`, and `onSend` runs once more, for the error response, with the state
that the first pass left. A hook behind `session()` that throws has the same
effect.
The `store.destroy` at the end of `onSend` for a rotated session is never
reached, since `regenerate` clears `originalId`.

### CircuitBreaker and Delivery

The breaker's methods are synchronous functions of its fields. A call of
`resilientFetch` is admitted once and makes up to `Retries + 1` tries, with a
sleep between them; its caller may abort it at any time (the sender's
per-attempt timer does), which the code counts neither as success nor as
failure. A delivery is a loop of such calls; a refusal of the breaker is an
attempt like any other. The outcome of a try is a class of statuses or errors.
Delays are untimed; the clock only matters to `resetTimeoutMs`. `probe` tells
which calls were admitted in the current half-open period and `strayed` whether
another one's outcome has come in since it began. Callbacks (`onAttempt`,
`onRetry`, `onStateChange`) are taken not to throw.

## Runs

| Run | Instance | What it shows |
|---|---|---|
| `job_store` | 3 identities, capacity 2, outbox 1, 2 queues, 1 key, times 0..2 in any order, budgets 1 and 2 | the store's invariants, the fence, `ReapedOnce`, and that the store implements `JobLifecycle` |
| `job_worker` | 1 job with 2 attempts, 2 workers (one with two queues and room for two jobs, one with room for one), 2 failing calls, a heartbeat, a cancel, a crash, time 0..3 | `OneOutcomeReported`, `LoopWithinConcurrency`, `LeaseRespected`, `OwnerDecides` |
| `job_worker_live` | the same with a stop, without cancel and heartbeat, one failing call, time 0..9 | `EveryJobSettles`, `OutboxDrained`, `StopResolves` |
| `job_worker_stop` | a job with one attempt, no faults | violated: `StopQuiesces` (below) |
| `scheduler` | an interval task that runs on start and times out, a cron task, an unsatisfiable cron task, 2 concurrent runs | single flight, one timer, cadence, stop, liveness |
| `scheduler_rarely` | a cron slot beyond the range of setTimeout | violated: `NotBeforeItsTime` (below) |
| `dispatch` | 3 requests (one abortable with a client that disconnects, one with a deadline only, one without), 1 slot, queue of 2, two shutdown calls, any step may outlive the grace window | `SlotsAccounted`, `NoIdleSlot`, `WorkWithinLimit`, `CloseAfterHandlers`, `LeaseEnds` |
| `dispatch_live` | the same, nobody abortable, no queue timeout, no shutdown, "queued" and "work" may outlive the grace window | `EveryRequestAnswered`, `SlotComesBack` |
| `idempotency` | 3 requests (two with a deadline) on 2 keys, 2 fingerprints, a store of 1 record, a TTL of 1 and a clock of 2 instants; any step may outlive the grace window, one request's body may fail | `OneExecution`, `ReservationAttended`, `RecordStands`, `KeyUnblocked` |
| `session` | 3 requests (one may throw, one log out, one regenerate) of one session on 2 instances, a store of 2 records, 1 tombstone per instance, both sorts of store, one failing store call | `NoResurrection`, `PrivilegesRotate` |
| `session_legacy` | the same on one instance, a store without `update()` | violated: `RevocationComplete` (below) |
| `delivery` | 2 deliveries of 2 attempts (one retried within them) and a fetch, 1 probe, 2 successes to close, a sink for 1 letter | `ProbesAccounted`, `DeliverySettles`, and the bound on what reaches the wire |

Why the bounds suffice. In `job_store` the third identity lets a purged record
be followed by one with the same key, and capacity 2 with outbox 1 makes both
overflow. Three clock readings give leases that are live, at their deadline and
expired. In `job_worker` two attempts give a first claim that is lost and a
second by the other worker, or by the same one, which is where only the attempt
number tells the runs apart (`OwnerDecides`); a job's runs only meet through
its own record, so one job is enough, and more jobs are the business of
`job_store`. The time bound of `job_worker_live` is never reached: time advances only
while a lease or a delay is ahead. In `scheduler` two run slots let a second handler
of one task show up. In `dispatch` three requests are a holder, a waiter that is
gone and a waiter behind it; a full queue and an early arrival need no more. In
`idempotency` the three are the first request, its retry, and one that evicts
their record or reuses the key with another payload; with one record every
reservation of another key evicts, and two instants expire every record. In
`session` two requests on one instance share tombstones while the third does
not see them, a rotation evicts the tombstone of a logout, and three ids are one
that is rotated twice. In `delivery` a failure opens the breaker, so that the
others are late outcomes of an earlier state; two successes keep it half-open
while a probe ends and the next begins. A system of finitely many requests
comes to rest, so deadlock is not checked in these runs.

Fairness. `job_worker_live` and `scheduler` assume weak fairness of the clock, of armed
timers and of the continuation of settled promises, which the event loop
gives, and that a handler whose signal is aborted ends, which the code's
documentation asks of handlers. A handler that is not aborted may hang; the
per-attempt timeout (default 30 s) is what ends it, so `EveryJobSettles` is
about jobs with `timeoutMs > 0`. No fairness is assumed of enqueues, faults,
crashes, stops, cancels, heartbeats or manual runs. One worker neither stops
nor crashes.

`dispatch_live` assumes weak fairness of the deadline and grace timers and of
the hooks that nothing is raced against (onRequest, onSend, onResponse,
onError), and that the steps of a request without a deadline end. The steps of
a request with a deadline may hang forever, before and after they are
abandoned. `idempotency` assumes the same, apart from an abandoned step that does
not outlive the grace window, which ends; its clock may stop, so that no key
is unblocked by mere expiry. `delivery` assumes that every try ends (the fetch
timeout, default 10 s, ends it), that sleeps end and that the sink answers, well or
badly; neither aborts nor the clock are assumed to come, so that deliveries end
under a breaker that stays open.

Three disagreements with the documentation are shown by runs:

- `stop()` of a worker resolves while the poll loop is inside `claimNext`; the
  loop then claims a job and launches it (`job_worker_stop`).
- A cron slot more than 2^31 - 1 ms ahead (`@monthly`, `@yearly`) is run at
  once, again and again, since the delay is not clamped (`scheduler_rarely`).
- With a session store that has no `update()`, the write-back of a request reads
  the record and then sets it; a logout or rotation of the same process in
  between is undone, while the documentation calls revocation complete within
  one process (`session_legacy`).

Three more are within the bounds of passing runs. There the property says
exactly where the code departs from the documentation, so that it fails if the
code departs anywhere else, and the theorem proves that exact statement:

- "A lease can never leak", says `request-finalizers.ts:9`, and
  `concurrency-limit.mdx:37` "a slot is never leaked". A beforeHandle hook that hangs beyond the
  grace window and then resumes lets `concurrencyLimit()` take a slot whose
  finalizer nobody runs any more: it is lost for good. `LeaseEnds` has this case
  (`TooLate`) as its only exception.
- A failed response pipeline releases the key, says `idempotency.mdx:225`. A
  response whose body stream fails while it is captured leaves its reservation
  in flight until it expires, since `pending` was cleared before (`BodyFails`);
  and a reservation made after the grace window is left behind like the slot
  above (`TooLate`). `ReservationAttended` has these two as its only exceptions.
- Shutdown waits for the requests in flight to settle, says `app.ts:6286`. An
  error response is returned without `await` (`app.ts:6155`): its request is not
  counted while its onSend and onResponse hooks run, and the close hooks may run
  under them. `CloseAfterHandlers` lets `errorSend`, and nothing else, run then.

Others are left open by the named definition:

- A thrown response that `cacheableStatus` accepts is released by the finalizer
  and not stored when another onSend hook is ahead of idempotency's (`Ahead`).
- A handler that changes watched session data and then throws has it written
  under the id that was not rotated, and so has a rotation whose `destroy` fails
  once its tombstone is evicted (`Bypassed` in `PrivilegesRotate`).
- `rotateSession` regenerates a session that its handler destroyed if the
  watched value went with it: the request ends with a new, empty session and no
  cookie that clears the old one. A `regenerate()` in flight during a logout
  stores the data it loaded under a new id.
- The outcome of a call admitted before the half-open period is taken for that
  of a probe: it frees a slot it never had, or closes the breaker
  (`strayed` in `ProbesAccounted`).

## Proofs

Every invariant, action property and refinement that a passing run checks is
also a theorem, for every value of the constants: any number of jobs, workers,
requests, keys and callers, any limits and capacities, and any bound on time and
faults. The assumptions are those named in the modules (`StoreConstants`,
`WorkerConstants`, `SchedulerConstants`, `DispatchConstants`,
`IdempotencyConstants`, `SessionConstants`, `BreakerConstants`,
`DeliveryConstants`): types and positive limits, which the constructors of the
code validate or default; a worker has at least one queue, "no key" is not
a key, and the store's callers may read every time that the
workers' clock and backoff can produce. TLC evaluates them in every run.

| Theorem | States |
|---|---|
| `TypeCorrect`, `StoreCorrect`, `BudgetCorrect`, `IndexCorrect`, `OutboxCorrect` | the invariants of the job store |
| `FenceCorrect`, `ReapedOnceCorrect` | its action properties `AttemptsFence`, `ReapedOnce` |
| `LifecycleImplemented` | `StoreSpec => ImplementsLifecycle`: the store refines `JobLifecycle` |
| `TerminalStays`, `BudgetBoundsClaims` | what the life cycle itself gives |
| `WorkerTypeCorrect`, `OutcomeCorrect`, `ConcurrencyCorrect`, `LeaseCorrect` | the invariants and the action property of the workers |
| `OwnerCorrect` | the action property `OwnerDecides`: a claim fences the runs before it out |
| `StoreImplemented`, `WorkersFollowLifecycle` | workers, clients, faults and crashes on the store refine the store alone, and so the life cycle |
| `SchedulerTypeCorrect`, `SingleFlightCorrect`, `OneTimerCorrect`, `StopFinalCorrect` | the invariants of the scheduler |
| `DispatchTypeCorrect`, `SlotsCorrect`, `QueueCorrect`, `WorkCorrect`, `CloseCorrect`, `LeaseCorrect` | the invariants of request life, limiter and shutdown, and the action property `LeaseEnds` |
| `IdempotencyTypeCorrect`, `ExecutionCorrect`, `ReleaseCorrect`, `StandsCorrect` | the invariants of idempotency keys and the action properties `ReservationAttended` and `RecordStands` |
| `SessionTypeCorrect`, `NoResurrectionCorrect`, `RotationCorrect` | the invariants of sessions and the action property `PrivilegesRotate` |
| `DeliveryTypeCorrect`, `ProbesCorrect` | the invariants of deliveries, the bound on the wire included, and of the breaker |

None of the properties is inductive as it stands. What each proof adds:

- `StoreInv`. It has the shape of the state and the bounds of `TypeOK` as separate
  parts, since the workers' invariant needs only the first. `IndexExact` needs `FreshIdsUnused` (an insertion must not meet an
  old entry) and the tie between absent records and their options;
  `OutboxOfTheDead` needs `LeaseIffRunning` and the uniqueness of what is
  reaped; `BudgetKept` is kept by `fail` only because the store, and not the
  worker, compares with the budget. The refinement is a case split over the
  operations: a call that reaps and then claims the same job is a single `Claim`
  of the life cycle.
- `WorkerInv`. That the end of a job is reported at most once and truly is an
  argument about custody (`Custody`): the news is in one place at a time, namely
  the outbox, the answer that one poll loop awaits, one run whose settlement the
  store has accepted, or told; and wherever it is, the record says the same
  or has been purged. A store call that takes effect unseen, or a crash, loses
  the news but never copies it. The limit on runs in flight needs that a drain
  goes on only while there is room (`LoopOK`). `OwnerDecides` is proved caller by
  caller (`Decided`): a poll loop reaps or claims, a client inserts or cancels, and
  a run passes the store its own claim, which the store compares. The refinements follow because
  every step is a call of `StoreInv`'s operations at the current time.
- `SchedulerInv`. `SchedulerTypeOK` says that `running` and `current` agree. For
  this a task and its run point at each other (`RunsHeld`) even when
  the handler throws synchronously, a pending timer is the one the task knows
  (`TimersHeld`), and every run that `stop()` found in progress is awaited
  (`StopHolds`).
- `DispatchInv`. A bucket's count and queue are exactly the requests that hold
  and await its slots (`BucketOK`), and the queue is empty unless the bucket is
  full. `Consistent` says what a request may hold at each place, with its
  abandoned step: a slot always comes with the finalizer that gives it up, and
  once the request is over only a pending `afterAbandonedStep` may keep it.
  `LeaseEnds` is about steps and has a lemma per operation that settles a request
  (`Leaves`).
- `IdemInv`. A request at work still owns its record or has lost it to expiry or
  eviction (`Guarded`); what a record says agrees with where its owner is
  (`Stored`); the finalizer outlasts `pending` (`Local`). Every step of a request is
  a `Moves`, which collects what the two action properties need.
- `SessionInv`. A request owns an id it made until it sends it (`Owned`), so
  nobody else can write it; what requests remember of an id agrees with the
  store and with each other unless one of them changed it and could not rotate
  (`Agreed`).
- `DeliveryInv`. The wire bound needs what each place in the two loops has spent
  (`DeliverySpent`, `FetchSpent`); the probe count needs that a probe is a call
  in progress of the current half-open period (`ProbesCurrent`).

TLC also finds each of these invariants true on the instance of its component's
run. The proofs have one lemma
per action or per operation of a store, and within it a step per conjunct that
the action can disturb. `Idempotency` and `Session` rest on the lemmas of
`InsertionOrderProofs`: deleting entries of a map keeps the order and the
uniqueness of the rest, and evicting down to the capacity removes the oldest.

Left to TLC are the properties that need fairness and ENABLED, which this prover
does not handle: `EveryJobSettles`, `OutboxDrained`, `StopResolves`,
`StopReturnsEventually`, `TicksForever`, `EveryRequestAnswered`, `SlotComesBack`,
`KeyUnblocked` and `DeliverySettles`. `StopQuiesces`, `NotBeforeItsTime` and
`RevocationComplete` are false, as their runs show.

## Not modelled

Cron parsing and calendar arithmetic, the response cache, rate limits and
auto-ban, WebSocket and streaming, MCP and A2A have state and could be modelled
in the same manner; the parts above come first because several actors meet in
them. The rest of the repository (security predicates, tokens, body parsing,
adapters, OpenAPI, the CLI and the scaffolder, the attack and release scripts,
the website) transforms one input or is tooling: there is no state for a model
checker to explore. These are most of its lines.

## Plan

1. Proofs beyond the properties of the runs: the safety part of what is live (what
   a worker's loop may still do after `stop()`, which attempts a delivery has
   left), the order of hand-over in the concurrency limiter's queue.
2. `ResponseCache`: stale-while-revalidate, one refresh per key.
3. `CronEnqueue`: scheduler replicas feeding one job store through keyed slots.
4. `Cron`: parse, match and next run, checked against a declarative definition.
