--------------------------- MODULE JobWorkerProofs ---------------------------
(***************************************************************************)
(* Proofs about the workers of createJobWorker on their store, for every   *)
(* number of jobs, workers, queues and attempts, any concurrency, and any  *)
(* number of faults, heartbeats, cancels, stops and crashes.               *)
(***************************************************************************)
EXTENDS JobWorker, JobStoreProofs

-----------------------------------------------------------------------------
(***************************************************************************)
(* The inductive invariant.  The news that a job has ended is in one place *)
(* at a time: in the outbox of the store, in the answer that a poll loop   *)
(* awaits, in a run whose outcome the store has accepted, or told.         *)
(***************************************************************************)
InOutbox(id)   == id \in Elements(reapedDead)
InLoop(id, w)  == id \in wk[w].got
InRun(id, r)   == r[1] = id /\ runs[r].pc \in {"completed", "died"}
Told(id)       == reports[id].complete # 0 \/ reports[id].dead # 0

OnePlace(id) ==
    /\ Told(id) => /\ ~InOutbox(id)
                   /\ \A w \in Workers : ~InLoop(id, w)
                   /\ \A r \in Claims : ~InRun(id, r)
    /\ InOutbox(id) => /\ \A w \in Workers : ~InLoop(id, w)
                       /\ \A r \in Claims : ~InRun(id, r)
    /\ \A w \in Workers : InLoop(id, w) =>
          /\ \A v \in Workers : InLoop(id, v) => v = w
          /\ \A r \in Claims : ~InRun(id, r)
    /\ \A r, s \in Claims : InRun(id, r) /\ InRun(id, s) => r = s

IsDead(id)      == id <= issued /\ jobs[id].status \in {"dead", "absent"}
IsCompleted(id) == id <= issued /\ jobs[id].status \in {"completed", "absent"}

\* The news is true: dead and completed are final, and a forgotten job is not
\* inserted again.
TrueNews(id) ==
    /\ InOutbox(id) => IsDead(id)
    /\ \A w \in Workers : InLoop(id, w) => IsDead(id)
    /\ \A r \in Claims : r[1] = id /\ runs[r].pc = "died" => IsDead(id)
    /\ \A r \in Claims : r[1] = id /\ runs[r].pc = "completed" => IsCompleted(id)
    /\ reports[id].dead # 0 => IsDead(id)
    /\ reports[id].complete # 0 => IsCompleted(id)
    /\ reports[id].complete + reports[id].dead <= 1

Custody(id) == OnePlace(id) /\ TrueNews(id)

\* A drain holds news only while it awaits takeReaped and a claim only while
\* it awaits claim, and it goes on only while there is room for one more job.
LoopOK(w) ==
    /\ wk[w].drain # "reaped" => wk[w].got = {}
    /\ wk[w].drain = "off" => wk[w].claim = NoClaim
    /\ IsFiniteSet(InFlight(w)) /\ Cardinality(InFlight(w)) <= Concurrency[w]
    /\ wk[w].drain # "off" => Cardinality(InFlight(w)) < Concurrency[w]

\* A run that goes on has a worker, and has not missed too many heartbeats.
RunOK(r) ==
    /\ r \in Active => runs[r].w \in Workers
    /\ runs[r].lost \/ runs[r].fails < MaxHeartbeatFailures

WorkerInv ==
    /\ StoreInv /\ WorkerTypeOK
    /\ \A w \in Workers : LoopOK(w)
    /\ \A r \in Claims : RunOK(r)
    /\ \A id \in JobIds : Custody(id)

-----------------------------------------------------------------------------
(***************************************************************************)
(* What a call of the store does to the news.                              *)
(***************************************************************************)
\* The clock of the workers is one that the store's callers may read.
LEMMA ClockReadings ==
    ASSUME now \in 0..MaxTime
    PROVE  now \in Time /\ now \in Nat
BY WorkerConstants

\* What is final stays, what is forgotten stays so, and only a record that
\* dies in this call enters the outbox.
Final(id) ==
    /\ issued <= issued'
    /\ id <= issued /\ jobs[id].status = "absent" => jobs'[id].status = "absent"
    /\ jobs[id].status \in Terminal => jobs'[id].status \in {jobs[id].status, "absent"}
    /\ id \in Elements(reapedDead') =>
          id \in Elements(reapedDead) \/ (jobs[id].status = "running" /\ jobs'[id].status = "dead")

\* Every call of the store keeps its invariant and what is final.
LEMMA CallFacts ==
    ASSUME StoreInv, now \in 0..MaxTime, [CallAt(now)]_storeVars
    PROVE  StoreInv' /\ \A id \in JobIds : Final(id)
<1>t. now \in Time
  BY ClockReadings
<1>1. [StoreNext]_storeVars
  BY <1>t DEF StoreNext
<1>2. StoreInv'
  BY <1>1, InvInductive
<1>3. Parts /\ JobsSound /\ issued \in Nat
  BY InvIsParts DEF Parts, JobsSound, SoundTable
<1>4. CASE UNCHANGED storeVars
  BY <1>2, <1>3, <1>4 DEF storeVars, Final
<1>5. CASE CallAt(now)
  <2>1. \/ \E opts \in EnqueueOpts, created \in Time : Put(opts, created, now)
        \/ UpdateCall(now)
        \/ ReapingCall(now)
    BY <1>5, <1>t DEF CallAt, UpdateCall, ReapingCall
  <2>2. CASE \E opts \in EnqueueOpts, created \in Time : Put(opts, created, now)
    <3>1. /\ \A id \in JobIds : Stays(id) \/ Sweeps(id) \/ Adds(id)
          /\ issued' # issued => issued' = issued + 1
          /\ UNCHANGED reapedDead
      BY <1>t, <1>3, <2>2, PutKeeps
    <3>2. issued <= issued'
      BY <1>3, <3>1
    <3>3. ASSUME NEW id \in JobIds PROVE Final(id)
      <4>1. CASE Stays(id)
        BY <3>1, <3>2, <4>1 DEF Stays, Final
      <4>2. CASE Sweeps(id)
        BY <3>1, <3>2, <4>2 DEF Sweeps, Absent, Final
      <4>3. CASE Adds(id)
        <5>1. ~(id <= issued) /\ jobs[id].status = "absent" /\ "absent" \notin Terminal
          BY <1>3, <4>3 DEF Adds, Terminal
        <5> QED
          BY <3>1, <3>2, <5>1 DEF Final
      <4> QED
        BY <3>1, <4>1, <4>2, <4>3
    <3> QED
      BY <1>2, <3>3
  <2>3. CASE UpdateCall(now) \/ ReapingCall(now)
    <3>1. JobsSound' /\ (\A id \in JobIds : Moves(id)) /\ UNCHANGED <<idem, issued>>
      BY <1>t, <1>3, <2>3, UpdateCallMoves, ReapingCallMoves
    <3>2. \A id \in JobIds :
            /\ jobs'[id].status = "absent" <=> jobs[id].status = "absent"
            /\ jobs[id].status \in Terminal => jobs'[id].status = jobs[id].status
      BY <1>3, <3>1, MovesKeepShape
    <3>3. ASSUME NEW id \in JobIds, id \in Elements(reapedDead')
          PROVE  \/ id \in Elements(reapedDead)
                 \/ jobs[id].status = "running" /\ jobs'[id].status = "dead"
      <4>1. CASE UpdateCall(now)
        BY <1>t, <1>3, <3>3, <4>1, UpdateCallMoves
      <4>2. CASE ReapingCall(now)
        BY <1>t, <1>3, <3>3, <4>2, ReapingOutbox, ReapedStaysDead
      <4> QED
        BY <2>3, <4>1, <4>2
    <3> QED
      BY <1>2, <1>3, <3>1, <3>2, <3>3 DEF Final
  <2> QED
    BY <2>1, <2>2, <2>3
<1> QED
  BY <1>4, <1>5

\* A call at time now does not supersede a claim whose lease is live.
LEMMA LeaseLive ==
    ASSUME StoreInv, now \in 0..MaxTime, [CallAt(now)]_storeVars,
           NEW id \in JobIds, jobs[id].status = "running", jobs[id].leaseUntil >= now
    PROVE  jobs'[id].attempts = jobs[id].attempts \/ jobs'[id].status = "absent"
<1>t. now \in Time /\ now \in Nat
  BY ClockReadings
<1>1. Parts /\ JobsSound /\ jobs[id] \in StoredJob /\ issued \in Nat
  BY InvIsParts DEF Parts, JobsSound, SoundTable
<1>2. CASE UNCHANGED storeVars
  BY <1>2 DEF storeVars
<1>3. CASE CallAt(now)
  <2>1. \/ \E opts \in EnqueueOpts, created \in Time : Put(opts, created, now)
        \/ UpdateCall(now)
        \/ ReapingCall(now)
    BY <1>3, <1>t DEF CallAt, UpdateCall, ReapingCall
  <2>2. CASE \E opts \in EnqueueOpts, created \in Time : Put(opts, created, now)
    <3>1. Stays(id) \/ Sweeps(id) \/ Adds(id)
      BY <1>t, <1>1, <2>2, PutKeeps
    <3> QED
      BY <3>1 DEF Stays, Same, Sweeps, Adds, Absent
  <2>3. CASE UpdateCall(now)
    <3>0. jobs \in [JobIds -> StoredJob]
      BY <1>1 DEF JobsSound
    <3>1. ASSUME NEW c \in JobIds, NEW w, NEW attempt, Heartbeat(c, w, attempt, now)
          PROVE  jobs'[id].attempts = jobs[id].attempts
      BY <3>0, <3>1 DEF Heartbeat, StoredJob
    <3>2. ASSUME NEW c \in JobIds, NEW status, NEW runAt,
                 jobs' = [jobs EXCEPT ![c] = Released(@, status, runAt, now)]
          PROVE  jobs'[id].attempts = jobs[id].attempts
      BY <3>0, <3>2 DEF Released, StoredJob
    <3>3. ASSUME NEW c \in JobIds, NEW w, NEW attempt, NEW status, NEW runAt,
                 Fail(c, w, attempt, status, runAt, now)
          PROVE  jobs'[id].attempts = jobs[id].attempts
      <4>1. CASE Exhausted(jobs[c])
        <5>1. jobs' = [jobs EXCEPT ![c] = Released(@, "dead", now, now)]
          BY <3>0, <3>3, <4>1 DEF Fail, Failed
        <5> QED
          BY <5>1, <3>2
      <4>2. CASE ~Exhausted(jobs[c])
        <5> DEFINE at == IF status = "delayed" THEN runAt ELSE now
        <5>1. jobs' = [jobs EXCEPT ![c] = Released(@, status, at, now)]
          BY <3>0, <3>3, <4>2 DEF Fail, Failed
        <5> QED
          BY <5>1, <3>2
      <4> QED
        BY <4>1, <4>2
    <3>4. ASSUME NEW c \in JobIds, NEW w, NEW attempt, Complete(c, w, attempt, now) \/ Cancel(c, now)
          PROVE  jobs'[id].attempts = jobs[id].attempts
      <4>1. \E status : jobs' = [jobs EXCEPT ![c] = Released(@, status, jobs[c].runAt, now)]
        BY <3>0, <3>4 DEF Complete, Cancel
      <4> QED
        BY <4>1, <3>2
    <3> QED
      BY <2>3, <3>1, <3>3, <3>4 DEF UpdateCall
  <2>4. CASE ReapingCall(now)
    <3>1. ~Expired(jobs[id], now) /\ Reaped(now)[id] = jobs[id]
      BY <1>t, <1>1, ReapedTable DEF Expired, StoredJob, NoLease
    <3>2. \/ jobs' = Reaped(now)
          \/ \E c \in JobIds, queue \in Queues, worker \in Workers : ClaimJob(c, queue, worker, now)
      BY <2>4 DEF ReapingCall, Claim, ClaimNothing, ReapLeases, Read, TakeReaped, TakeFrom
    <3>3. ASSUME NEW c \in JobIds, NEW queue \in Queues, NEW worker \in Workers,
                 ClaimJob(c, queue, worker, now)
          PROVE  jobs'[id] = jobs[id]
      <4>1. c \in RunnableIn(Reaped(now), queue, now) /\ jobs' = [Reaped(now) EXCEPT ![c] = Leased(@, worker, now)]
        BY <3>3 DEF ClaimJob, BestIn
      <4>2. c # id
        BY <3>1, <4>1 DEF RunnableIn
      <4> QED
        BY <1>t, <1>1, <3>1, <4>1, <4>2, ReapedTable
    <3> QED
      BY <3>1, <3>2, <3>3
  <2> QED
    BY <2>1, <2>2, <2>3, <2>4
<1> QED
  BY <1>2, <1>3

-----------------------------------------------------------------------------
(***************************************************************************)
(* How a step passes the news of job id on.                                *)
(***************************************************************************)
LoopsKeep(id)   == \A w \in Workers : id \in wk'[w].got => id \in wk[w].got
EndsAt(id, r)   == r[1] = id /\ runs'[r].pc \in {"completed", "died"}
RunsKeep(id)    == \A r \in Claims : EndsAt(id, r) => runs'[r].pc = runs[r].pc
ReportsKeep(id) == reports'[id] = reports[id]

\* Nobody gets news, apart from the outbox; somebody may lose it.
Waits(id) == LoopsKeep(id) /\ RunsKeep(id) /\ ReportsKeep(id)

\* takeReaped hands it to the loop of w.
Fetched(id) ==
    \/ InOutbox(id)
    \/ jobs[id].status = "running"

ToLoop(id, w) ==
    /\ Fetched(id) /\ jobs'[id].status = "dead" /\ id \notin Elements(reapedDead')
    /\ \A v \in Workers \ {w} : id \in wk'[v].got => id \in wk[v].got
    /\ RunsKeep(id) /\ ReportsKeep(id)

\* The store accepts the outcome of run r.
ToRun(id, r) ==
    /\ r[1] = id /\ jobs[id].status = "running" /\ reapedDead' = reapedDead
    /\ runs'[r].pc = "completed" => jobs'[id].status = "completed"
    /\ runs'[r].pc = "died" => jobs'[id].status = "dead"
    /\ \A s \in Claims \ {r} : EndsAt(id, s) => runs'[s].pc = runs[s].pc
    /\ LoopsKeep(id) /\ ReportsKeep(id)

\* The loop of w calls onDead.
LoopTells(id, w) ==
    /\ id \in wk[w].got /\ id \notin wk'[w].got
    /\ LoopsKeep(id) /\ RunsKeep(id)
    /\ reports'[id] = [reports[id] EXCEPT !.dead = @ + 1]

\* Run r calls onComplete or onDead.
RunTells(id, r) ==
    /\ r[1] = id /\ runs'[r].pc = "done" /\ UNCHANGED storeVars
    /\ LoopsKeep(id) /\ RunsKeep(id)
    /\ \/ runs[r].pc = "completed" /\ reports'[id] = [reports[id] EXCEPT !.complete = @ + 1]
       \/ runs[r].pc = "died" /\ reports'[id] = [reports[id] EXCEPT !.dead = @ + 1]

Passes(id) ==
    \/ Waits(id)
    \/ \E w \in Workers : ToLoop(id, w) \/ LoopTells(id, w)
    \/ \E r \in Claims : ToRun(id, r) \/ RunTells(id, r)

Setting(id) ==
    /\ StoreInv /\ StoreInv' /\ Custody(id) /\ Final(id)
    /\ reports[id] \in [complete : Nat, dead : Nat]

\* A record that runs has an identity in use, and there is no news of it.
LEMMA NoNews ==
    ASSUME NEW id \in JobIds, StoreInv, Custody(id), jobs[id].status = "running"
    PROVE  /\ id <= issued
           /\ ~InOutbox(id) /\ ~Told(id)
           /\ \A w \in Workers : ~InLoop(id, w)
           /\ \A r \in Claims : ~InRun(id, r)
<1>1. id <= issued
  BY DEF StoreInv, FreshIdsUnused, StoreShape, JobIds
<1>2. ~IsDead(id) /\ ~IsCompleted(id)
  BY DEF IsDead, IsCompleted
<1> QED
  BY <1>1, <1>2 DEF Custody, TrueNews, InRun, Told

\* News of a death stays true, and so does news of a completion.
LEMMA NewsStaysTrue ==
    ASSUME NEW id \in JobIds, Setting(id)
    PROVE  /\ IsDead(id) => IsDead(id)'
           /\ IsCompleted(id) => IsCompleted(id)'
           /\ jobs[id].status = "running" =>
                 /\ jobs'[id].status = "dead" => IsDead(id)'
                 /\ jobs'[id].status = "completed" => IsCompleted(id)'
           /\ (InOutbox(id))' => IsDead(id)'
<1>1. id \in Nat /\ issued \in Nat /\ issued' \in Nat /\ issued <= issued'
  BY DEF Setting, StoreInv, StoreShape, JobIds, Final
<1>2. jobs[id].status = "running" => id <= issued
  BY DEF Setting, StoreInv, FreshIdsUnused, StoreShape, JobIds
<1>3. id <= issued => id <= issued'
  BY <1>1
<1>4. "dead" \in Terminal /\ "completed" \in Terminal
  BY DEF Terminal
<1>5. IsDead(id) => IsDead(id)'
  BY <1>3, <1>4 DEF Setting, Final, IsDead
<1>6. IsCompleted(id) => IsCompleted(id)'
  BY <1>3, <1>4 DEF Setting, Final, IsCompleted
<1>7. jobs[id].status = "running" =>
         /\ jobs'[id].status = "dead" => IsDead(id)'
         /\ jobs'[id].status = "completed" => IsCompleted(id)'
  BY <1>2, <1>3 DEF IsDead, IsCompleted
<1>8. (InOutbox(id))' => IsDead(id)'
  BY <1>5, <1>7 DEF Setting, Custody, TrueNews, InOutbox, Final
<1> QED
  BY <1>5, <1>6, <1>7, <1>8

LEMMA WaitsKeeps ==
    ASSUME NEW id \in JobIds, Setting(id), Waits(id)
    PROVE  Custody(id)'
<1>1. /\ \A w \in Workers : InLoop(id, w)' => InLoop(id, w)
      /\ \A r \in Claims : InRun(id, r)' => InRun(id, r) /\ runs'[r].pc = runs[r].pc
      /\ Told(id)' = Told(id) /\ reports'[id] = reports[id]
  BY DEF Waits, LoopsKeep, RunsKeep, ReportsKeep, EndsAt, InLoop, InRun, Told
<1>2. CASE jobs[id].status = "running"
  <2>1. /\ ~Told(id)' /\ (\A w \in Workers : ~InLoop(id, w)') /\ (\A r \in Claims : ~InRun(id, r)')
    BY <1>1, <1>2, NoNews DEF Setting
  <2>2. OnePlace(id)'
    BY <2>1 DEF OnePlace
  <2>3. TrueNews(id)'
    <3>1. reports'[id].complete = 0 /\ reports'[id].dead = 0
      BY <2>1 DEF Told
    <3> QED
      BY <2>1, <3>1, NewsStaysTrue DEF TrueNews, InRun, InLoop
  <2> QED
    BY <2>2, <2>3 DEF Custody
<1>3. CASE jobs[id].status # "running"
  <2>1. InOutbox(id)' => InOutbox(id)
    BY <1>3 DEF Setting, Final, InOutbox
  <2>2. OnePlace(id)'
    BY <1>1, <2>1 DEF OnePlace, Setting, Custody
  <2>3. TrueNews(id)'
    BY <1>1, <2>1, NewsStaysTrue DEF TrueNews, Setting, Custody, InRun, InLoop
  <2> QED
    BY <2>2, <2>3 DEF Custody
<1> QED
  BY <1>2, <1>3

LEMMA ToLoopKeeps ==
    ASSUME NEW id \in JobIds, Setting(id), NEW w \in Workers, ToLoop(id, w)
    PROVE  Custody(id)'
<1>1. /\ id <= issued /\ ~Told(id)
      /\ \A v \in Workers : ~InLoop(id, v)
      /\ \A r \in Claims : ~InRun(id, r)
  <2>1. CASE jobs[id].status = "running"
    BY <2>1, NoNews DEF Setting
  <2>2. CASE InOutbox(id)
    BY <2>2 DEF Setting, Custody, OnePlace, TrueNews, IsDead
  <2> QED
    BY <2>1, <2>2 DEF ToLoop, Fetched
<1>2. /\ \A v \in Workers \ {w} : ~InLoop(id, v)'
      /\ \A r \in Claims : ~InRun(id, r)'
      /\ ~Told(id)' /\ ~InOutbox(id)'
      /\ reports'[id].complete = 0 /\ reports'[id].dead = 0
  BY <1>1 DEF ToLoop, RunsKeep, ReportsKeep, EndsAt, InLoop, InRun, Told, InOutbox
<1>3. OnePlace(id)'
  BY <1>2 DEF OnePlace
<1>4. IsDead(id)'
  <2>1. id \in Nat /\ issued \in Nat /\ issued' \in Nat /\ issued <= issued'
    BY DEF Setting, StoreInv, StoreShape, JobIds, Final
  <2> QED
    BY <1>1, <2>1 DEF ToLoop, IsDead
<1>5. TrueNews(id)'
  BY <1>2, <1>4 DEF TrueNews, InRun, InLoop
<1> QED
  BY <1>3, <1>5 DEF Custody

LEMMA ToRunKeeps ==
    ASSUME NEW id \in JobIds, Setting(id), NEW r \in Claims, ToRun(id, r)
    PROVE  Custody(id)'
<1>1. /\ id <= issued /\ ~Told(id) /\ ~InOutbox(id)
      /\ \A v \in Workers : ~InLoop(id, v)
      /\ \A s \in Claims : ~InRun(id, s)
  BY NoNews DEF Setting, ToRun
<1>2. /\ \A v \in Workers : ~InLoop(id, v)'
      /\ \A s \in Claims \ {r} : ~InRun(id, s)'
      /\ ~Told(id)' /\ ~InOutbox(id)'
      /\ reports'[id].complete = 0 /\ reports'[id].dead = 0
  BY <1>1 DEF ToRun, LoopsKeep, ReportsKeep, EndsAt, InLoop, InRun, Told, InOutbox
<1>3. OnePlace(id)'
  BY <1>2 DEF OnePlace
<1>4. /\ runs'[r].pc = "completed" => IsCompleted(id)'
      /\ runs'[r].pc = "died" => IsDead(id)'
  BY NewsStaysTrue DEF ToRun
<1>5. TrueNews(id)'
  BY <1>2, <1>4 DEF TrueNews, InRun, InLoop
<1> QED
  BY <1>3, <1>5 DEF Custody

LEMMA LoopTellsKeeps ==
    ASSUME NEW id \in JobIds, Setting(id), NEW w \in Workers, LoopTells(id, w)
    PROVE  Custody(id)'
<1>1. InLoop(id, w) /\ IsDead(id) /\ jobs[id].status # "running"
  BY DEF LoopTells, InLoop, Setting, Custody, TrueNews, IsDead
<1>2. /\ ~Told(id) /\ ~InOutbox(id)
      /\ \A v \in Workers : InLoop(id, v) => v = w
      /\ \A s \in Claims : ~InRun(id, s)
  BY <1>1 DEF Setting, Custody, OnePlace
<1>3. /\ \A v \in Workers : ~InLoop(id, v)'
      /\ \A s \in Claims : ~InRun(id, s)'
      /\ ~InOutbox(id)'
  BY <1>1, <1>2 DEF LoopTells, LoopsKeep, RunsKeep, EndsAt, InLoop, InRun, InOutbox, Setting, Final
<1>4. reports'[id].complete = 0 /\ reports'[id].dead = 1
  BY <1>2 DEF LoopTells, Told, Setting
<1>5. OnePlace(id)'
  BY <1>3 DEF OnePlace
<1>6. IsDead(id)'
  BY <1>1, NewsStaysTrue
<1>7. TrueNews(id)'
  BY <1>3, <1>4, <1>6 DEF TrueNews, InRun, InLoop
<1> QED
  BY <1>5, <1>7 DEF Custody

LEMMA RunTellsKeeps ==
    ASSUME NEW id \in JobIds, Setting(id), NEW r \in Claims, RunTells(id, r)
    PROVE  Custody(id)'
<1>1. /\ InRun(id, r)
      /\ runs[r].pc = "completed" => IsCompleted(id)
      /\ runs[r].pc = "died" => IsDead(id)
  BY DEF RunTells, InRun, Setting, Custody, TrueNews
<1>2. /\ ~Told(id) /\ ~InOutbox(id)
      /\ \A v \in Workers : ~InLoop(id, v)
      /\ \A s \in Claims : InRun(id, s) => s = r
  BY <1>1 DEF Setting, Custody, OnePlace
<1>3. /\ \A v \in Workers : ~InLoop(id, v)'
      /\ \A s \in Claims : ~InRun(id, s)'
      /\ ~InOutbox(id)'
  BY <1>1, <1>2 DEF RunTells, LoopsKeep, RunsKeep, EndsAt, InLoop, InRun, InOutbox, storeVars
<1>4. \/ runs[r].pc = "completed" /\ reports'[id].complete = 1 /\ reports'[id].dead = 0
      \/ runs[r].pc = "died" /\ reports'[id].complete = 0 /\ reports'[id].dead = 1
  BY <1>2 DEF RunTells, Told, Setting
<1>5. OnePlace(id)'
  BY <1>3 DEF OnePlace
<1>7. TrueNews(id)'
  BY <1>1, <1>3, <1>4, NewsStaysTrue DEF TrueNews, InRun, InLoop
<1> QED
  BY <1>5, <1>7 DEF Custody

\* However the news is passed on, it stays in one place, and true.
LEMMA CustodyKept ==
    ASSUME NEW id \in JobIds, Setting(id), Passes(id)
    PROVE  Custody(id)'
BY WaitsKeeps, ToLoopKeeps, ToRunKeeps, LoopTellsKeeps, RunTellsKeeps DEF Passes

-----------------------------------------------------------------------------
(***************************************************************************)
(* The store calls of the poll loop, and what the loop is left with.       *)
(***************************************************************************)
Resumes(w, new) ==
    /\ new \in WorkerRecord /\ wk' = [wk EXCEPT ![w] = new]
    /\ [CallAt(now)]_storeVars
    /\ \A id \in new.got :
          Fetched(id) /\ jobs'[id].status = "dead" /\ id \notin Elements(reapedDead')
    /\ new.drain # "reaped" => new.got = {}
    /\ new.drain = "off" => new.claim = NoClaim

\* What takeReaped hands out was in the outbox, or dies in this call; it is
\* dead, and no longer in the outbox.
LEMMA TakenIsDead ==
    ASSUME StoreInv, NEW t \in Time, NEW queue \in Queues, NEW outbox \in Outboxes(t),
           TakeFrom(outbox, queue, t), NEW id \in TakenFrom(outbox, Reaped(t), queue)
    PROVE  id \in JobIds /\ Fetched(id) /\ jobs'[id].status = "dead" /\ id \notin Elements(reapedDead')
<1>1. /\ JobsSound /\ reapedDead \in Seq(JobIds) /\ Distinct(reapedDead)
      /\ \A e \in Elements(reapedDead) : jobs[e].status \in {"dead", "absent"}
  BY InvIsParts DEF Parts, JobsSound, SoundTable
<1>2. Elements(reapedDead) \cap ReapedToDeath(t) = {}
  BY <1>1 DEF ReapedToDeath, Expired
<1>3. /\ outbox \in Seq(JobIds) /\ Distinct(outbox) /\ Len(outbox) <= MaxReapedBuffer
      /\ Elements(outbox) \subseteq Elements(reapedDead) \cup ReapedToDeath(t)
  BY <1>1, <1>2, OutboxAfterReap
<1>4. id \in Elements(outbox) /\ Reaped(t)[id].status # "absent" /\ Reaped(t)[id].opts.queue = queue
  BY DEF TakenFrom
<1>5. id \in JobIds
  BY <1>3, <1>4 DEF Elements
<1>6. jobs' = Reaped(t) /\ reapedDead' \in InOrderOf(outbox, KeptFrom(outbox, Reaped(t), queue))
  BY DEF TakeFrom
<1>7. Elements(reapedDead') \subseteq KeptFrom(outbox, Reaped(t), queue)
  <2>1. KeptFrom(outbox, Reaped(t), queue) \in SUBSET Elements(outbox)
    BY DEF KeptFrom
  <2> QED
    BY <1>3, <1>6, <2>1, OutboxKept
<1>8. id \notin Elements(reapedDead')
  BY <1>4, <1>7 DEF KeptFrom
<1>9. CASE id \in Elements(reapedDead)
  <2>1. Reaped(t)[id] = jobs[id]
    BY <1>1, <1>5, <1>9, ReapedTable DEF Expired
  <2> QED
    BY <1>1, <1>4, <1>5, <1>6, <1>8, <1>9, <2>1 DEF Fetched, InOutbox
<1>10. CASE id \in ReapedToDeath(t)
  <2>1. Expired(jobs[id], t) /\ Exhausted(jobs[id])
    BY <1>10 DEF ReapedToDeath
  <2>2. jobs[id].status = "running" /\ Reaped(t)[id].status = "dead"
    BY <1>1, <1>5, <2>1, ReapedTable DEF Expired
  <2> QED
    BY <1>5, <1>6, <1>8, <2>2 DEF Fetched
<1> QED
  BY <1>3, <1>4, <1>9, <1>10

LEMMA AskReapedResumes ==
    ASSUME StoreInv, now \in 0..MaxTime, NEW w \in Workers, NEW rec \in WorkerRecord,
           NEW i \in 1..Len(QueuesOf[w]), AskReaped(w, rec, i)
    PROVE  \E new : Resumes(w, new) /\ new.drain = "reaped"
<1>t. now \in Time
  BY ClockReadings
<1>q. Queue(w, i) \in Queues /\ i \in Nat
  BY WorkerConstants DEF Queue
<1> DEFINE asked(S) == [rec EXCEPT !.drain = "reaped", !.i = i, !.got = S]
<1>1. ASSUME NEW S \in SUBSET JobIds
      PROVE  /\ asked(S) \in WorkerRecord
             /\ asked(S).got = S /\ asked(S).drain = "reaped"
  BY <1>q DEF WorkerRecord
<1>2. CASE \E outbox \in Outboxes(now) :
             /\ TakeFrom(outbox, Queue(w, i), now)
             /\ Become(w, asked(TakenFrom(outbox, Reaped(now), Queue(w, i))))
  <2>1. PICK outbox \in Outboxes(now) :
             /\ TakeFrom(outbox, Queue(w, i), now)
             /\ Become(w, asked(TakenFrom(outbox, Reaped(now), Queue(w, i))))
    BY <1>2
  <2> DEFINE S == TakenFrom(outbox, Reaped(now), Queue(w, i))
             new == asked(S)
  <2>2. \A id \in S :
          id \in JobIds /\ Fetched(id) /\ jobs'[id].status = "dead" /\ id \notin Elements(reapedDead')
    BY <1>t, <1>q, <2>1, TakenIsDead
  <2>3. CallAt(now)
    BY <1>q, <2>1 DEF CallAt, TakeReaped
  <2>4. wk' = [wk EXCEPT ![w] = new]
    BY <2>1 DEF Become
  <2>5. S \in SUBSET JobIds
    BY <2>2
  <2>6. new \in WorkerRecord /\ new.got = S /\ new.drain = "reaped"
    BY <1>1, <2>5
  <2> HIDE DEF new, S
  <2> QED
    BY <2>2, <2>3, <2>4, <2>6 DEF Resumes
<1>3. CASE (NoStoreStep \/ TakeReaped(Queue(w, i), now)) /\ Become(w, asked({}))
  <2> DEFINE new == asked({})
  <2>1. [CallAt(now)]_storeVars
    BY <1>q, <1>3 DEF NoStoreStep, CallAt
  <2>2. wk' = [wk EXCEPT ![w] = new]
    BY <1>3 DEF Become
  <2>3. new \in WorkerRecord /\ new.got = {} /\ new.drain = "reaped"
    BY <1>1
  <2> HIDE DEF new
  <2> QED
    BY <2>1, <2>2, <2>3 DEF Resumes
<1> QED
  BY <1>2, <1>3 DEF AskReaped

\* The claim that the store grants is one of the attempts of the job.
LEMMA ClaimIsClaim ==
    ASSUME StoreInv, NEW t \in Time, NEW w \in Workers, NEW queue \in Queues, NEW id \in JobIds,
           ClaimJob(id, queue, w, t)
    PROVE  ClaimOf(id) \in Claims
<1>1. JobsSound /\ Sound(jobs[id])
  BY InvIsParts DEF Parts, JobsSound, SoundTable
<1>2. Reaped(t)[id].status \in Waiting
  BY DEF ClaimJob, BestIn, RunnableIn, Waiting
<1>3. /\ Sound(Reaped(t)[id]) /\ Reaped(t)[id].opts = jobs[id].opts
      /\ Reaped(t)[id].attempts = jobs[id].attempts
  BY <1>1, ReapedTable
<1>4. /\ jobs[id].attempts \in Nat /\ jobs[id].attempts < jobs[id].opts.maxAttempts
      /\ jobs[id].opts \in EnqueueOpts /\ jobs[id].opts.maxAttempts \in Nat
  BY <1>1, <1>2, <1>3, PresentOpts DEF Sound, StoredJob, Waiting
<1>5. jobs[id].attempts + 1 \in 1..jobs[id].opts.maxAttempts
  BY <1>4
<1>6. jobs[id].attempts + 1 \in Attempts
  BY <1>4, <1>5 DEF Attempts
<1> QED
  BY <1>6 DEF ClaimOf, Claims

LEMMA AskClaimResumes ==
    ASSUME StoreInv, now \in 0..MaxTime, NEW w \in Workers, NEW rec \in WorkerRecord,
           NEW i \in 1..Len(QueuesOf[w]), AskClaim(w, rec, i)
    PROVE  \E new : Resumes(w, new) /\ new.drain = "claimed"
<1>t. now \in Time
  BY ClockReadings
<1>q. Queue(w, i) \in Queues /\ i \in Nat
  BY WorkerConstants DEF Queue
<1> DEFINE asked(c) == [rec EXCEPT !.drain = "claimed", !.i = i, !.got = {}, !.claim = c]
           granted(id) == ClaimJob(id, Queue(w, i), w, now)
<1>1. ASSUME NEW c \in Claims \cup {NoClaim, BrokenClaim}
      PROVE  /\ asked(c) \in WorkerRecord
             /\ asked(c).got = {} /\ asked(c).drain = "claimed"
  BY <1>q DEF WorkerRecord
<1>2. ASSUME NEW c \in Claims \cup {NoClaim, BrokenClaim}, Become(w, asked(c)),
             [CallAt(now)]_storeVars
      PROVE  \E new : Resumes(w, new) /\ new.drain = "claimed"
  <2> DEFINE new == asked(c)
  <2>1. wk' = [wk EXCEPT ![w] = new]
    BY <1>2 DEF Become
  <2>2. new \in WorkerRecord /\ new.got = {} /\ new.drain = "claimed"
    BY <1>1
  <2> HIDE DEF new
  <2> QED
    BY <1>2, <2>1, <2>2 DEF Resumes
<1>3. CASE ClaimNothing(Queue(w, i), now) /\ Become(w, asked(NoClaim))
  <2>1. CallAt(now)
    BY <1>q, <1>3 DEF CallAt, Claim
  <2> QED
    BY <1>2, <1>3, <2>1
<1>4. CASE \E id \in JobIds : granted(id) /\ Become(w, asked(ClaimOf(id)))
  <2>1. PICK id \in JobIds : granted(id) /\ Become(w, asked(ClaimOf(id)))
    BY <1>4
  <2>2. CallAt(now)
    BY <1>q, <2>1 DEF CallAt, Claim
  <2>3. ClaimOf(id) \in Claims
    BY <1>t, <1>q, <2>1, ClaimIsClaim
  <2> QED
    BY <1>2, <2>1, <2>2, <2>3
<1>5. CASE (NoStoreStep \/ \E id \in JobIds : granted(id)) /\ Become(w, asked(BrokenClaim))
  <2>1. [CallAt(now)]_storeVars
    BY <1>q, <1>5 DEF NoStoreStep, CallAt, Claim
  <2> QED
    BY <1>2, <1>5, <2>1
<1> QED
  BY <1>3, <1>4, <1>5 DEF AskClaim

LEMMA DrainOffResumes ==
    ASSUME NEW w \in Workers, NEW rec \in WorkerRecord, DrainOff(w, rec)
    PROVE  \E new : Resumes(w, new) /\ new.drain = "off"
<1> DEFINE new == [rec EXCEPT !.drain = "off", !.i = 0, !.got = {}, !.claim = NoClaim, !.again = FALSE]
<1>1. /\ new \in WorkerRecord /\ new.got = {} /\ new.drain = "off" /\ new.claim = NoClaim
  BY DEF WorkerRecord
<1>2. wk' = [wk EXCEPT ![w] = new] /\ UNCHANGED storeVars
  BY DEF DrainOff, Become, NoStoreStep
<1> HIDE DEF new
<1> QED
  BY <1>1, <1>2 DEF Resumes

\* The loop goes on only if there is room for a job more than n.
LEMMA LoopHeadResumes ==
    ASSUME StoreInv, now \in 0..MaxTime, NEW w \in Workers, NEW rec \in WorkerRecord, NEW n,
           LoopHead(w, rec, n)
    PROVE  \E new : Resumes(w, new) /\ (new.drain # "off" => n < Concurrency[w])
<1>1. CASE HasRoom(w, n) /\ AskReaped(w, [rec EXCEPT !.claim = NoClaim], 1)
  <2>1. [rec EXCEPT !.claim = NoClaim] \in WorkerRecord
    BY DEF WorkerRecord
  <2>2. 1 \in 1..Len(QueuesOf[w])
    BY WorkerConstants
  <2>3. \E new : Resumes(w, new) /\ new.drain = "reaped"
    BY <1>1, <2>1, <2>2, AskReapedResumes
  <2> QED
    BY <1>1, <2>3 DEF HasRoom
<1>2. CASE DrainOff(w, rec)
  BY <1>2, DrainOffResumes
<1> QED
  BY <1>1, <1>2 DEF LoopHead

LEMMA LoopBreakResumes ==
    ASSUME StoreInv, now \in 0..MaxTime, NEW w \in Workers, wk[w] \in WorkerRecord, NEW n,
           LoopBreak(w, n)
    PROVE  \E new : Resumes(w, new) /\ (new.drain # "off" => n < Concurrency[w])
<1>1. CASE LoopHead(w, [wk[w] EXCEPT !.again = FALSE], n)
  <2>1. [wk[w] EXCEPT !.again = FALSE] \in WorkerRecord
    BY DEF WorkerRecord
  <2> QED
    BY <1>1, <2>1, LoopHeadResumes
<1>2. CASE DrainOff(w, wk[w])
  BY <1>2, DrainOffResumes
<1> QED
  BY <1>1, <1>2 DEF LoopBreak

-----------------------------------------------------------------------------
(***************************************************************************)
(* What a step has to show.                                                *)
(***************************************************************************)
StepOK == WorkerInv' /\ [CallAt(now)]_storeVars

LEMMA Together ==
    ASSUME WorkerInv, [CallAt(now)]_storeVars, now' \in 0..MaxTime,
           wk' \in [Workers -> WorkerRecord], runs' \in [Claims -> RunRecord],
           reports' \in [JobIds -> [complete : Nat, dead : Nat]],
           \A w \in Workers : LoopOK(w)', \A r \in Claims : RunOK(r)',
           \A id \in JobIds : Passes(id)
    PROVE  StepOK
<1>1. StoreInv /\ now \in 0..MaxTime
  BY DEF WorkerInv, WorkerTypeOK
<1>2. StoreInv' /\ \A id \in JobIds : Final(id)
  BY <1>1, CallFacts
<1>3. \A id \in JobIds : Custody(id)'
  BY <1>1, <1>2, CustodyKept DEF Setting, WorkerInv, WorkerTypeOK
<1>4. WorkerTypeOK'
  BY <1>2 DEF WorkerTypeOK, StoreInv
<1> QED
  BY <1>2, <1>3, <1>4 DEF WorkerInv, StepOK

\* Jobs in flight only become fewer.
LEMMA FlightWithin ==
    ASSUME WorkerInv, NEW w \in Workers, InFlight(w)' \subseteq InFlight(w)
    PROVE  /\ IsFiniteSet(InFlight(w)') /\ Cardinality(InFlight(w)') \in Nat
           /\ Cardinality(InFlight(w)) \in Nat
           /\ Cardinality(InFlight(w)') <= Cardinality(InFlight(w))
<1>1. IsFiniteSet(InFlight(w))
  BY DEF WorkerInv, LoopOK
<1> QED
  BY <1>1, FS_Subset, FS_CardinalityType

LEMMA LoopKept ==
    ASSUME WorkerInv, NEW w \in Workers, InFlight(w)' \subseteq InFlight(w),
           \/ wk'[w].drain = wk[w].drain /\ wk'[w].got = wk[w].got /\ wk'[w].claim = wk[w].claim
           \/ wk'[w].drain = "off" /\ wk'[w].got = {} /\ wk'[w].claim = NoClaim
    PROVE  LoopOK(w)'
<1>1. /\ IsFiniteSet(InFlight(w)') /\ Cardinality(InFlight(w)') \in Nat
      /\ Cardinality(InFlight(w)) \in Nat
      /\ Cardinality(InFlight(w)') <= Cardinality(InFlight(w))
  BY FlightWithin
<1>2. LoopOK(w) /\ Concurrency[w] \in Nat
  BY WorkerConstants DEF WorkerInv
<1>3. /\ Cardinality(InFlight(w)') <= Concurrency[w]
      /\ wk[w].drain # "off" => Cardinality(InFlight(w)') < Concurrency[w]
  BY <1>1, <1>2 DEF LoopOK
<1> QED
  BY <1>1, <1>2, <1>3 DEF LoopOK

\* Runs that stay as they are.
LEMMA RunsAsTheyAre ==
    ASSUME WorkerInv, runs' = runs
    PROVE  /\ \A w \in Workers : InFlight(w)' = InFlight(w)
           /\ \A r \in Claims : RunOK(r)'
           /\ runs' \in [Claims -> RunRecord]
           /\ \A id \in JobIds : RunsKeep(id)
BY DEF WorkerInv, WorkerTypeOK, InFlight, Active, RunOK, RunsKeep, EndsAt

\* Steps that leave the runs, the reports and what the loops hold alone.
LEMMA AsideKeeps ==
    ASSUME WorkerInv, [CallAt(now)]_storeVars, now' \in 0..MaxTime,
           wk' \in [Workers -> WorkerRecord], runs' = runs, reports' = reports,
           \A w \in Workers : /\ wk'[w].drain = wk[w].drain /\ wk'[w].got = wk[w].got
                              /\ wk'[w].claim = wk[w].claim
    PROVE  StepOK
<1>1. \A w \in Workers : LoopOK(w)'
  BY RunsAsTheyAre, LoopKept
<1>2. \A id \in JobIds : Passes(id)
  BY RunsAsTheyAre DEF Passes, Waits, LoopsKeep, ReportsKeep
<1>3. reports' \in [JobIds -> [complete : Nat, dead : Nat]]
  BY DEF WorkerInv, WorkerTypeOK
<1> QED
  BY <1>1, <1>2, <1>3, RunsAsTheyAre, Together

LEMMA ClientKeeps ==
    ASSUME WorkerInv, Enqueue \/ CancelJob \/ Tick
    PROVE  StepOK
<1>1. /\ wk \in [Workers -> WorkerRecord] /\ now \in 0..MaxTime
      /\ now \in Nat /\ MaxTime \in Nat /\ now \in Time
  BY ClockReadings, WorkerConstants DEF WorkerInv, WorkerTypeOK
<1>2. CASE Enqueue
  <2>1. CallAt(now)
    BY <1>1, <1>2 DEF Enqueue, CallAt
  <2> QED
    BY <1>1, <1>2, <2>1, AsideKeeps DEF Enqueue, workerVars
<1>3. CASE CancelJob
  <2>1. CallAt(now)
    BY <1>3 DEF CancelJob, CallAt
  <2> QED
    BY <1>1, <1>3, <2>1, AsideKeeps DEF CancelJob
<1>4. CASE Tick
  <2>1. now' \in 0..MaxTime
    BY <1>1, <1>4 DEF Tick
  <2> QED
    BY <1>1, <1>4, <2>1, AsideKeeps DEF Tick, NoStoreStep
<1> QED
  BY <1>2, <1>3, <1>4

\* start, and the steps of stop that abort nothing.
LEMMA StopKeeps ==
    ASSUME WorkerInv, NEW w \in Workers, Start(w) \/ Stop(w) \/ StopSettled(w)
    PROVE  StepOK
<1>1. wk \in [Workers -> WorkerRecord] /\ now \in 0..MaxTime
  BY DEF WorkerInv, WorkerTypeOK
<1>2. InFlight(w) \subseteq Claims
  BY DEF InFlight, Active
<1>3. \E state \in {"polling", "grace", "down"}, S \in SUBSET Claims :
        wk' = [wk EXCEPT ![w].state = state, ![w].awaited = S]
  <2>1. CASE Start(w)
    <3>1. wk' = [wk EXCEPT ![w].state = "polling", ![w].awaited = wk[w].awaited]
      BY <1>1, <2>1 DEF Start, WorkerRecord
    <3>2. wk[w].awaited \in SUBSET Claims
      BY <1>1 DEF WorkerRecord
    <3> QED
      BY <3>1, <3>2
  <2>2. CASE Stop(w)
    BY <1>2, <2>2 DEF Stop
  <2>3. CASE StopSettled(w)
    BY <2>3 DEF StopSettled
  <2> QED
    BY <2>1, <2>2, <2>3
<1>4. /\ wk' \in [Workers -> WorkerRecord]
      /\ \A v \in Workers : /\ wk'[v].drain = wk[v].drain /\ wk'[v].got = wk[v].got
                            /\ wk'[v].claim = wk[v].claim
  <2>1. PICK state \in {"polling", "grace", "down"}, S \in SUBSET Claims :
              wk' = [wk EXCEPT ![w].state = state, ![w].awaited = S]
    BY <1>3
  <2> DEFINE new == [wk[w] EXCEPT !.state = state, !.awaited = S]
  <2>2. /\ new \in WorkerRecord /\ new.drain = wk[w].drain /\ new.got = wk[w].got
        /\ new.claim = wk[w].claim
    BY <1>1 DEF WorkerRecord
  <2>3. wk' = [wk EXCEPT ![w] = new]
    BY <1>1, <2>1
  <2> HIDE DEF new
  <2> QED
    BY <1>1, <2>2, <2>3
<1> QED
  BY <1>1, <1>4, AsideKeeps DEF Start, Stop, StopSettled, NoStoreStep

-----------------------------------------------------------------------------
(***************************************************************************)
(* The steps of the poll loop.                                             *)
(***************************************************************************)
\* takeReaped passes its news to the loop, and the loop tells what it had.
LEMMA LoopPasses ==
    ASSUME WorkerInv, NEW w \in Workers, NEW new, Resumes(w, new),
           \A r \in Claims : runs'[r] = runs[r] \/ runs'[r].pc = "handler",
           \A id \in JobIds : reports'[id] = IF id \in wk[w].got
                                             THEN [reports[id] EXCEPT !.dead = @ + 1] ELSE reports[id]
    PROVE  \A id \in JobIds : Passes(id)
<1> SUFFICES ASSUME NEW id \in JobIds PROVE Passes(id)
  OBVIOUS
<1>1. /\ wk \in [Workers -> WorkerRecord] /\ StoreInv /\ Custody(id)
  BY DEF WorkerInv, WorkerTypeOK
<1>2. wk'[w] = new /\ \A v \in Workers \ {w} : wk'[v] = wk[v]
  BY <1>1 DEF Resumes
<1>3. RunsKeep(id)
  BY DEF RunsKeep, EndsAt
<1>4. CASE id \in wk[w].got
  <2>1. ~InOutbox(id) /\ IsDead(id)
    BY <1>1, <1>4 DEF Custody, OnePlace, TrueNews, InLoop
  <2>2. ~Fetched(id)
    BY <2>1 DEF Fetched, IsDead
  <2>3. id \notin new.got
    BY <2>2 DEF Resumes
  <2>4. LoopTells(id, w)
    BY <1>2, <1>3, <1>4, <2>3 DEF LoopTells, LoopsKeep
  <2> QED
    BY <2>4 DEF Passes
<1>5. CASE id \notin wk[w].got /\ id \in new.got
  <2>1. ToLoop(id, w)
    BY <1>2, <1>3, <1>5 DEF ToLoop, ReportsKeep, Resumes
  <2> QED
    BY <2>1 DEF Passes
<1>6. CASE id \notin wk[w].got /\ id \notin new.got
  <2>1. Waits(id)
    BY <1>2, <1>3, <1>6 DEF Waits, LoopsKeep, ReportsKeep
  <2> QED
    BY <2>1 DEF Passes
<1> QED
  BY <1>4, <1>5, <1>6

\* A step of the loop of w with n jobs in flight after it.
LEMMA LoopKeeps ==
    ASSUME WorkerInv, NEW w \in Workers, NEW new, Resumes(w, new),
           runs' \in [Claims -> RunRecord], \A r \in Claims : RunOK(r)',
           \A r \in Claims : runs'[r] = runs[r] \/ runs'[r].pc = "handler",
           reports' \in [JobIds -> [complete : Nat, dead : Nat]],
           \A id \in JobIds : reports'[id] = IF id \in wk[w].got
                                             THEN [reports[id] EXCEPT !.dead = @ + 1] ELSE reports[id],
           \A v \in Workers \ {w} : InFlight(v)' \subseteq InFlight(v),
           IsFiniteSet(InFlight(w)'), Cardinality(InFlight(w)') <= Concurrency[w],
           new.drain # "off" => Cardinality(InFlight(w)') < Concurrency[w],
           now' = now
    PROVE  StepOK
<1>1. wk \in [Workers -> WorkerRecord] /\ now' \in 0..MaxTime
  BY DEF WorkerInv, WorkerTypeOK
<1>2. /\ wk' \in [Workers -> WorkerRecord] /\ wk'[w] = new
      /\ \A v \in Workers \ {w} : wk'[v] = wk[v]
      /\ [CallAt(now)]_storeVars
  BY <1>1 DEF Resumes
<1>3. LoopOK(w)'
  BY <1>2 DEF LoopOK, Resumes
<1>4. \A v \in Workers \ {w} : LoopOK(v)'
  BY <1>2, LoopKept
<1>5. \A id \in JobIds : Passes(id)
  BY LoopPasses
<1> QED
  BY <1>1, <1>2, <1>3, <1>4, <1>5, Together

\* A step of the loop that launches nothing.
LEMMA LoopOnKeeps ==
    ASSUME WorkerInv, NEW w \in Workers, NEW new, Resumes(w, new), runs' = runs, now' = now,
           reports' = [id \in JobIds |-> IF id \in wk[w].got
                                         THEN [reports[id] EXCEPT !.dead = @ + 1] ELSE reports[id]],
           new.drain # "off" => Cardinality(InFlight(w)) < Concurrency[w]
    PROVE  StepOK
<1>1. /\ \A v \in Workers : InFlight(v)' = InFlight(v)
      /\ \A r \in Claims : RunOK(r)'
      /\ runs' \in [Claims -> RunRecord]
  BY RunsAsTheyAre
<1>2. reports' \in [JobIds -> [complete : Nat, dead : Nat]]
  BY DEF WorkerInv, WorkerTypeOK
<1>3. IsFiniteSet(InFlight(w)') /\ Cardinality(InFlight(w)') <= Concurrency[w]
  BY <1>1 DEF WorkerInv, LoopOK
<1> QED
  BY <1>1, <1>2, <1>3, LoopKeeps

\* A loop that holds no news reports nothing.
LEMMA NothingToTell ==
    ASSUME WorkerInv, NEW w \in Workers, wk[w].got = {}
    PROVE  reports = [id \in JobIds |-> IF id \in wk[w].got
                                        THEN [reports[id] EXCEPT !.dead = @ + 1] ELSE reports[id]]
BY DEF WorkerInv, WorkerTypeOK

LEMMA PollTickKeeps ==
    ASSUME WorkerInv, NEW w \in Workers, PollTick(w)
    PROVE  StepOK
<1>1. /\ wk \in [Workers -> WorkerRecord] /\ wk[w] \in WorkerRecord /\ now \in 0..MaxTime
      /\ StoreInv /\ LoopOK(w)
  BY DEF WorkerInv, WorkerTypeOK
<1>2. CASE wk[w].drain = "off" /\ LoopHead(w, wk[w], Cardinality(InFlight(w)))
  <2>1. PICK new : Resumes(w, new) /\ (new.drain # "off" => Cardinality(InFlight(w)) < Concurrency[w])
    BY <1>1, <1>2, LoopHeadResumes
  <2>2. wk[w].got = {}
    BY <1>1, <1>2 DEF LoopOK
  <2>3. runs' = runs /\ now' = now /\ reports' = reports
    BY DEF PollTick
  <2> QED
    BY <2>1, <2>2, <2>3, NothingToTell, LoopOnKeeps
<1>3. CASE wk' = [wk EXCEPT ![w].again = TRUE] /\ NoStoreStep
  <2>1. /\ wk' \in [Workers -> WorkerRecord]
        /\ \A v \in Workers : /\ wk'[v].drain = wk[v].drain /\ wk'[v].got = wk[v].got
                              /\ wk'[v].claim = wk[v].claim
    BY <1>1, <1>3 DEF WorkerRecord
  <2> QED
    BY <1>1, <1>3, <2>1, AsideKeeps DEF PollTick, NoStoreStep
<1> QED
  BY <1>2, <1>3 DEF PollTick

LEMMA ReapedBackKeeps ==
    ASSUME WorkerInv, NEW w \in Workers, ReapedBack(w)
    PROVE  StepOK
<1>1. /\ wk[w] \in WorkerRecord /\ wk[w].i \in Nat /\ now \in 0..MaxTime /\ StoreInv
      /\ Len(QueuesOf[w]) \in Nat /\ 1 \in 1..Len(QueuesOf[w])
  BY WorkerConstants DEF WorkerInv, WorkerTypeOK, WorkerRecord
<1>2. Cardinality(InFlight(w)) < Concurrency[w]
  BY DEF WorkerInv, LoopOK, ReapedBack
<1>3. \E new : Resumes(w, new)
  <2>1. CASE wk[w].i < Len(QueuesOf[w]) /\ AskReaped(w, wk[w], wk[w].i + 1)
    <3>1. wk[w].i + 1 \in 1..Len(QueuesOf[w])
      BY <1>1, <2>1
    <3> QED
      BY <1>1, <2>1, <3>1, AskReapedResumes
  <2>2. CASE AskClaim(w, wk[w], 1)
    BY <1>1, <2>2, AskClaimResumes
  <2> QED
    BY <2>1, <2>2 DEF ReapedBack
<1> QED
  BY <1>2, <1>3, LoopOnKeeps DEF ReapedBack

LEMMA ClaimBackKeeps ==
    ASSUME WorkerInv, NEW w \in Workers, ClaimBack(w)
    PROVE  StepOK
<1>1. /\ wk[w] \in WorkerRecord /\ wk[w].i \in Nat /\ now \in 0..MaxTime /\ StoreInv
      /\ Len(QueuesOf[w]) \in Nat /\ runs \in [Claims -> RunRecord]
      /\ reports \in [JobIds -> [complete : Nat, dead : Nat]]
  BY WorkerConstants DEF WorkerInv, WorkerTypeOK, WorkerRecord
<1>2. /\ Cardinality(InFlight(w)) < Concurrency[w] /\ IsFiniteSet(InFlight(w))
      /\ Cardinality(InFlight(w)) \in Nat /\ wk[w].got = {}
  BY FS_CardinalityType DEF WorkerInv, LoopOK, ClaimBack
<1>3. now' = now /\ reports' = reports /\ Concurrency[w] \in Nat
  BY WorkerConstants DEF ClaimBack
<1>4. reports' = [id \in JobIds |-> IF id \in wk[w].got
                                    THEN [reports[id] EXCEPT !.dead = @ + 1] ELSE reports[id]]
  BY <1>2, <1>3, NothingToTell
<1> DEFINE claim == wk[w].claim
           n     == Cardinality(InFlight(w))
<1>5. CASE claim \in Claims /\ Launch(claim, w) /\ LoopHead(w, wk[w], n + 1)
  <2>0. PICK c \in Claims : c = claim
    BY <1>5
  <2>1. PICK new : Resumes(w, new) /\ (new.drain # "off" => n + 1 < Concurrency[w])
    BY <1>1, <1>5, LoopHeadResumes
  <2>2. /\ FreshRun(w) \in RunRecord /\ FreshRun(w).pc = "handler" /\ FreshRun(w).w = w
        /\ FreshRun(w).fails = 0
    BY WorkerConstants DEF FreshRun, RunRecord
  <2>3. /\ runs' \in [Claims -> RunRecord] /\ runs'[c] = FreshRun(w)
        /\ \A r \in Claims \ {c} : runs'[r] = runs[r]
    BY <1>1, <1>5, <2>0, <2>2 DEF Launch
  <2>4. \A r \in Claims : runs'[r] = runs[r] \/ runs'[r].pc = "handler"
    BY <2>2, <2>3
  <2>5. \A r \in Claims : RunOK(r)'
    <3>1. ASSUME NEW r \in Claims, r # c PROVE RunOK(r)'
      BY <2>3, <3>1 DEF WorkerInv, RunOK, Active
    <3>2. 0 < MaxHeartbeatFailures
      BY WorkerConstants
    <3>3. RunOK(c)'
      BY <2>2, <2>3, <3>2 DEF RunOK
    <3> QED
      BY <3>1, <3>3
  <2>6. /\ \A v \in Workers \ {w} : InFlight(v)' \subseteq InFlight(v)
        /\ InFlight(w)' \subseteq InFlight(w) \cup {c}
    BY <2>2, <2>3 DEF InFlight, Active
  <2>7. IsFiniteSet(InFlight(w) \cup {c}) /\ Cardinality(InFlight(w) \cup {c}) <= n + 1
        /\ Cardinality(InFlight(w) \cup {c}) \in Nat
    <3>1. /\ IsFiniteSet(InFlight(w) \cup {c})
          /\ \/ Cardinality(InFlight(w) \cup {c}) = n
             \/ Cardinality(InFlight(w) \cup {c}) = n + 1
      BY <1>2, FS_AddElement
    <3> QED
      BY <1>2, <3>1
  <2>8. /\ IsFiniteSet(InFlight(w)') /\ Cardinality(InFlight(w)') \in Nat
        /\ Cardinality(InFlight(w)') <= Cardinality(InFlight(w) \cup {c})
    BY <2>6, <2>7, FS_Subset, FS_CardinalityType
  <2>9. Cardinality(InFlight(w)') <= n + 1
    BY <1>2, <2>7, <2>8
  <2>10. /\ Cardinality(InFlight(w)') <= Concurrency[w]
         /\ new.drain # "off" => Cardinality(InFlight(w)') < Concurrency[w]
    BY <1>2, <1>3, <2>1, <2>8, <2>9
  <2> QED
    BY <1>1, <1>3, <1>4, <2>1, <2>3, <2>4, <2>5, <2>6, <2>8, <2>10, LoopKeeps
<1>6. CASE wk[w].i < Len(QueuesOf[w]) /\ AskClaim(w, wk[w], wk[w].i + 1) /\ runs' = runs
  <2>1. wk[w].i + 1 \in 1..Len(QueuesOf[w])
    BY <1>1, <1>6
  <2>2. \E new : Resumes(w, new)
    BY <1>1, <1>6, <2>1, AskClaimResumes
  <2> QED
    BY <1>2, <1>3, <1>4, <1>6, <2>2, LoopOnKeeps
<1>7. CASE LoopBreak(w, n) /\ runs' = runs
  <2>1. PICK new : Resumes(w, new) /\ (new.drain # "off" => n < Concurrency[w])
    BY <1>1, <1>7, LoopBreakResumes
  <2> QED
    BY <1>3, <1>4, <1>7, <2>1, LoopOnKeeps
<1> QED
  BY <1>5, <1>6, <1>7 DEF ClaimBack

-----------------------------------------------------------------------------
(***************************************************************************)
(* Steps that change many runs: the abort at the end of the grace period,  *)
(* and a crash.                                                            *)
(***************************************************************************)
LEMMA DoneRecord ==
    /\ Done \in RunRecord /\ Done.pc = "done" /\ Done.lost = FALSE /\ Done.fails = 0
    /\ 0 < MaxHeartbeatFailures
<1>1. 0 < MaxHeartbeatFailures /\ 0 \in 0..MaxHeartbeatFailures
  BY WorkerConstants
<1> DEFINE base == FreshRun(Nobody)
<1>2. base \in RunRecord /\ base.lost = FALSE /\ base.fails = 0
  BY <1>1 DEF FreshRun, RunRecord
<1>3. Done = [base EXCEPT !.pc = "done"]
  BY DEF Done
<1> HIDE DEF base
<1> QED
  BY <1>1, <1>2, <1>3 DEF RunRecord

LEMMA ManyKeep ==
    ASSUME WorkerInv, NEW w \in Workers, NEW new \in WorkerRecord,
           wk' = [wk EXCEPT ![w] = new],
           \/ new.drain = wk[w].drain /\ new.got = wk[w].got /\ new.claim = wk[w].claim
           \/ new.drain = "off" /\ new.got = {} /\ new.claim = NoClaim,
           runs' \in [Claims -> RunRecord],
           \A r \in Claims : \/ runs'[r] = Done
                             \/ /\ runs'[r].pc = runs[r].pc /\ runs'[r].w = runs[r].w
                                /\ runs'[r].lost = runs[r].lost /\ runs'[r].fails = runs[r].fails,
           UNCHANGED storeVars, now' = now, reports' = reports
    PROVE  StepOK
<1>1. /\ wk \in [Workers -> WorkerRecord] /\ now' \in 0..MaxTime
      /\ reports' \in [JobIds -> [complete : Nat, dead : Nat]]
  BY DEF WorkerInv, WorkerTypeOK
<1>2. /\ wk' \in [Workers -> WorkerRecord] /\ wk'[w] = new
      /\ \A v \in Workers \ {w} : wk'[v] = wk[v]
  BY <1>1
<1>3. \A v \in Workers : InFlight(v)' \subseteq InFlight(v)
  BY DoneRecord DEF InFlight, Active
<1>4. \A v \in Workers : LoopOK(v)'
  BY <1>2, <1>3, LoopKept
<1>5. \A r \in Claims : RunOK(r)'
  BY DoneRecord DEF WorkerInv, RunOK, Active
<1>6. \A id \in JobIds : Passes(id)
  <2> SUFFICES ASSUME NEW id \in JobIds PROVE Waits(id)
    BY DEF Passes
  <2>1. RunsKeep(id)
    BY DoneRecord DEF RunsKeep, EndsAt
  <2>2. LoopsKeep(id) /\ ReportsKeep(id)
    BY <1>2 DEF LoopsKeep, ReportsKeep
  <2> QED
    BY <2>1, <2>2 DEF Waits
<1> QED
  BY <1>1, <1>2, <1>4, <1>5, <1>6, Together

LEMMA StopDeadlineKeeps ==
    ASSUME WorkerInv, NEW w \in Workers, StopDeadline(w)
    PROVE  StepOK
<1>1. wk \in [Workers -> WorkerRecord] /\ runs \in [Claims -> RunRecord]
  BY DEF WorkerInv, WorkerTypeOK
<1>2. InFlight(w) \subseteq Claims
  BY DEF InFlight, Active
<1> DEFINE state == IF InFlight(w) = {} THEN "down" ELSE "unwind"
           new   == [wk[w] EXCEPT !.state = state, !.awaited = InFlight(w)]
<1>3. /\ new \in WorkerRecord /\ new.drain = wk[w].drain /\ new.got = wk[w].got
      /\ new.claim = wk[w].claim
  BY <1>1, <1>2 DEF WorkerRecord
<1>4. wk' = [wk EXCEPT ![w] = new]
  BY <1>1 DEF StopDeadline
<1>5. ASSUME NEW r \in Claims
      PROVE  /\ runs'[r] \in RunRecord
             /\ runs'[r].pc = runs[r].pc /\ runs'[r].w = runs[r].w
             /\ runs'[r].lost = runs[r].lost /\ runs'[r].fails = runs[r].fails
  <2>1. /\ runs[r] \in RunRecord
        /\ runs'[r] = IF r \in InFlight(w) THEN [runs[r] EXCEPT !.aborted = TRUE] ELSE runs[r]
    BY <1>1 DEF StopDeadline
  <2> QED
    BY <2>1 DEF RunRecord
<1>6. runs' \in [Claims -> RunRecord]
  <2>1. runs' = [r \in Claims |-> runs'[r]]
    BY DEF StopDeadline
  <2> QED
    BY <1>5, <2>1
<1>7. UNCHANGED storeVars /\ now' = now /\ reports' = reports
  BY DEF StopDeadline, NoStoreStep
<1> HIDE DEF new
<1> QED
  BY <1>3, <1>4, <1>5, <1>6, <1>7, ManyKeep

LEMMA CrashKeeps ==
    ASSUME WorkerInv, NEW w \in Workers, Crash(w)
    PROVE  StepOK
<1>1. wk \in [Workers -> WorkerRecord] /\ runs \in [Claims -> RunRecord]
  BY DEF WorkerInv, WorkerTypeOK
<1> DEFINE new == [state |-> "crashed", drain |-> "off", i |-> 0, got |-> {},
                   claim |-> NoClaim, again |-> FALSE, awaited |-> {}]
<1>2. new \in WorkerRecord /\ new.drain = "off" /\ new.got = {} /\ new.claim = NoClaim
  BY DEF WorkerRecord
<1>3. wk' = [wk EXCEPT ![w] = new]
  BY DEF Crash
<1>4. /\ runs' \in [Claims -> RunRecord]
      /\ \A r \in Claims : runs'[r] = Done \/ runs'[r] = runs[r]
  BY <1>1, DoneRecord DEF Crash
<1>5. UNCHANGED storeVars /\ now' = now /\ reports' = reports
  BY DEF Crash, NoStoreStep
<1> HIDE DEF new
<1> QED
  BY <1>2, <1>3, <1>4, <1>5, ManyKeep

-----------------------------------------------------------------------------
(***************************************************************************)
(* The steps of a run.                                                     *)
(***************************************************************************)
\* Run r becomes new.
Turns(r, new) ==
    /\ new \in RunRecord /\ runs' = [runs EXCEPT ![r] = new]
    /\ new.pc = "done" \/ new.w = runs[r].w
    /\ new.lost \/ new.fails < MaxHeartbeatFailures
    /\ wk' = wk /\ now' = now
    /\ [CallAt(now)]_storeVars

\* Its new place holds no news that it did not hold before.
Silent(r, new) ==
    /\ new.pc \notin {"completed", "died"} \/ new.pc = runs[r].pc
    /\ reports' = reports

\* The store accepts its outcome.
Accepted(r, new) ==
    /\ jobs[r[1]].status = "running" /\ reapedDead' = reapedDead
    /\ \/ new.pc = "completed" /\ jobs'[r[1]].status = "completed"
       \/ new.pc = "died" /\ jobs'[r[1]].status = "dead"
    /\ reports' = reports

LEMMA TurnsKeeps ==
    ASSUME WorkerInv, NEW r \in Claims, r \in Active, NEW new, Turns(r, new),
           reports' \in [JobIds -> [complete : Nat, dead : Nat]],
           \/ Silent(r, new)
           \/ Accepted(r, new)
           \/ /\ RunTells(r[1], r)
              /\ \A id \in JobIds \ {r[1]} : reports'[id] = reports[id]
    PROVE  StepOK
<1>1. /\ runs \in [Claims -> RunRecord] /\ now' \in 0..MaxTime
      /\ wk' \in [Workers -> WorkerRecord] /\ r[1] \in JobIds
  BY DEF WorkerInv, WorkerTypeOK, Turns, Claims
<1>2. /\ runs' \in [Claims -> RunRecord] /\ runs'[r] = new
      /\ \A s \in Claims \ {r} : runs'[s] = runs[s]
  BY <1>1 DEF Turns
<1>3. \A v \in Workers : InFlight(v)' \subseteq InFlight(v)
  BY <1>2 DEF InFlight, Active, Turns
<1>4. \A v \in Workers : LoopOK(v)'
  BY <1>3, LoopKept DEF Turns
<1>5. \A s \in Claims : RunOK(s)'
  <2>1. ASSUME NEW s \in Claims, s # r PROVE RunOK(s)'
    BY <1>2, <2>1 DEF WorkerInv, RunOK, Active
  <2>2. RunOK(r)'
    BY <1>2 DEF WorkerInv, RunOK, Active, Turns
  <2> QED
    BY <2>1, <2>2
<1>6. ASSUME NEW id \in JobIds PROVE Passes(id)
  <2>1. LoopsKeep(id)
    BY DEF LoopsKeep, Turns
  <2>2. id # r[1] => RunsKeep(id)
    BY <1>2 DEF RunsKeep, EndsAt
  <2>3. CASE Silent(r, new)
    <3>1. RunsKeep(id) /\ ReportsKeep(id)
      BY <1>2, <2>3 DEF Silent, RunsKeep, EndsAt, ReportsKeep
    <3> QED
      BY <2>1, <3>1 DEF Passes, Waits
  <2>4. CASE Accepted(r, new)
    <3>1. ReportsKeep(id)
      BY <2>4 DEF Accepted, ReportsKeep
    <3>2. CASE id # r[1]
      BY <2>1, <2>2, <3>1, <3>2 DEF Passes, Waits
    <3>3. CASE id = r[1]
      <4>1. ToRun(id, r)
        BY <1>2, <2>1, <2>4, <3>1, <3>3 DEF ToRun, Accepted, EndsAt
      <4> QED
        BY <4>1 DEF Passes
    <3> QED
      BY <3>2, <3>3
  <2>5. CASE RunTells(r[1], r) /\ \A j \in JobIds \ {r[1]} : reports'[j] = reports[j]
    <3>1. CASE id # r[1]
      BY <2>1, <2>2, <2>5, <3>1 DEF Passes, Waits, ReportsKeep
    <3>2. CASE id = r[1]
      BY <2>5, <3>2 DEF Passes
    <3> QED
      BY <3>1, <3>2
  <2> QED
    BY <2>3, <2>4, <2>5
<1> QED
  BY <1>1, <1>2, <1>4, <1>5, <1>6, Together DEF Turns

\* What is known of a run that goes on.
LEMMA ActiveRun ==
    ASSUME WorkerInv, NEW r \in Claims, r \in Active
    PROVE  /\ runs[r] \in RunRecord /\ runs[r].w \in Workers
           /\ runs[r].lost \/ runs[r].fails < MaxHeartbeatFailures
           /\ r[1] \in JobIds /\ r[2] \in Attempts
           /\ now \in 0..MaxTime /\ now \in Time
           /\ reports \in [JobIds -> [complete : Nat, dead : Nat]]
           /\ jobs \in [JobIds -> StoredJob]
BY ClockReadings DEF WorkerInv, WorkerTypeOK, RunOK, Claims, StoreShape

\* The run waits for something else, or ends.
LEMMA GoesTurns ==
    ASSUME WorkerInv, NEW r \in Claims, r \in Active,
           NEW pc \in {"threw", "completed", "retried", "died", "refused", "done"}, Goes(r, pc),
           wk' = wk, now' = now, [CallAt(now)]_storeVars
    PROVE  \E new : Turns(r, new) /\ new.pc = pc
<1>1. runs[r] \in RunRecord /\ (runs[r].lost \/ runs[r].fails < MaxHeartbeatFailures)
  BY ActiveRun
<1> DEFINE new == IF pc = "done" THEN Done ELSE [runs[r] EXCEPT !.pc = pc]
<1>2. runs' = [runs EXCEPT ![r] = new]
  BY DEF Goes
<1>3. CASE pc = "done"
  <2>1. new = Done
    BY <1>3
  <2> HIDE DEF new
  <2> QED
    BY <1>2, <1>3, <2>1, DoneRecord DEF Turns
<1>4. CASE pc # "done"
  <2>1. /\ new \in RunRecord /\ new.pc = pc /\ new.w = runs[r].w
        /\ new.lost = runs[r].lost /\ new.fails = runs[r].fails
    BY <1>1, <1>4 DEF RunRecord
  <2> HIDE DEF new
  <2> QED
    BY <1>1, <1>2, <2>1 DEF Turns
<1> QED
  BY <1>3, <1>4

\* What an accepted complete does.
LEMMA CompleteFacts ==
    ASSUME WorkerInv, NEW r \in Claims, r \in Active, Complete(r[1], runs[r].w, r[2], now)
    PROVE  /\ CallAt(now) /\ jobs[r[1]].status = "running" /\ reapedDead' = reapedDead
           /\ jobs'[r[1]].status = "completed"
<1>1. /\ runs[r].w \in Workers /\ r[1] \in JobIds /\ r[2] \in Attempts
      /\ jobs \in [JobIds -> StoredJob]
  BY ActiveRun
<1>2. CallAt(now)
  BY <1>1 DEF CallAt
<1> QED
  BY <1>1, <1>2 DEF Complete, OwnedRunning, Released, StoredJob

\* What an accepted fail does: the job dies when the worker has no attempt
\* left for it.
LEMMA FailFacts ==
    ASSUME WorkerInv, NEW r \in Claims, r \in Active, NEW fatal, StoreFail(r, fatal)
    PROVE  /\ CallAt(now) /\ jobs[r[1]].status = "running" /\ reapedDead' = reapedDead
           /\ ~WillRetry(r, fatal) => jobs'[r[1]].status = "dead"
<1>1. /\ runs[r].w \in Workers /\ r[1] \in JobIds /\ r[2] \in Attempts
      /\ jobs \in [JobIds -> StoredJob] /\ now \in 0..MaxTime /\ now \in Time
  BY ActiveRun
<1>2. CASE WillRetry(r, fatal)
  <2>1. PICK d \in Backoffs(r[2]) : Fail(r[1], runs[r].w, r[2], "delayed", now + d, now)
    BY <1>2 DEF StoreFail
  <2>2. now + d \in Time
    BY <1>1, WorkerConstants DEF Backoffs
  <2>3. CallAt(now)
    BY <1>1, <2>1, <2>2 DEF CallAt
  <2> QED
    BY <1>2, <2>1, <2>3 DEF Fail, OwnedRunning
<1>3. CASE ~WillRetry(r, fatal)
  <2>1. Fail(r[1], runs[r].w, r[2], "dead", now, now)
    BY <1>3 DEF StoreFail
  <2>2. CallAt(now)
    BY <1>1, <2>1 DEF CallAt
  <2>3. jobs'[r[1]] = Failed(jobs[r[1]], "dead", now, now) /\ jobs[r[1]] \in StoredJob
    BY <1>1, <2>1 DEF Fail
  <2>4. Failed(jobs[r[1]], "dead", now, now).status = "dead"
    BY <2>3 DEF Failed, Released, StoredJob
  <2> QED
    BY <2>1, <2>2, <2>3, <2>4 DEF Fail, OwnedRunning
<1> QED
  BY <1>2, <1>3

\* The run goes on without news, whatever the store did.
LEMMA GoesSilently ==
    ASSUME WorkerInv, NEW r \in Claims, r \in Active,
           NEW pc \in {"threw", "retried", "refused", "done"}, Goes(r, pc),
           wk' = wk, now' = now, reports' = reports, [CallAt(now)]_storeVars
    PROVE  StepOK
<1>1. PICK new : Turns(r, new) /\ new.pc = pc
  BY GoesTurns
<1>2. Silent(r, new)
  BY <1>1 DEF Silent
<1> QED
  BY <1>1, <1>2, TurnsKeeps, ActiveRun

\* The store has accepted how the run ended.
LEMMA GoesAccepted ==
    ASSUME WorkerInv, NEW r \in Claims, r \in Active,
           NEW pc \in {"completed", "died"}, Goes(r, pc),
           wk' = wk, now' = now, reports' = reports, CallAt(now),
           jobs[r[1]].status = "running", reapedDead' = reapedDead,
           jobs'[r[1]].status = IF pc = "died" THEN "dead" ELSE "completed"
    PROVE  StepOK
<1>1. PICK new : Turns(r, new) /\ new.pc = pc
  BY GoesTurns
<1>2. Accepted(r, new)
  BY <1>1 DEF Accepted
<1> QED
  BY <1>1, <1>2, TurnsKeeps, ActiveRun

LEMMA CallCompleteKeeps ==
    ASSUME WorkerInv, NEW r \in Claims, r \in Active, CallComplete(r),
           wk' = wk, now' = now, reports' = reports
    PROVE  StepOK
<1>1. CASE Complete(r[1], runs[r].w, r[2], now) /\ Goes(r, "completed")
  BY <1>1, CompleteFacts, GoesAccepted
<1>2. CASE NoStoreStep /\ Goes(r, "refused")
  BY <1>2, GoesSilently DEF NoStoreStep
<1>3. CASE (NoStoreStep \/ Complete(r[1], runs[r].w, r[2], now)) /\ Goes(r, "threw")
  <2>1. [CallAt(now)]_storeVars
    BY <1>3, CompleteFacts DEF NoStoreStep
  <2> QED
    BY <1>3, <2>1, GoesSilently
<1> QED
  BY <1>1, <1>2, <1>3 DEF CallComplete

LEMMA CallFailKeeps ==
    ASSUME WorkerInv, NEW r \in Claims, r \in Active, NEW fatal, CallFail(r, fatal),
           wk' = wk, now' = now, reports' = reports
    PROVE  StepOK
<1>1. CASE NoStoreStep /\ (Goes(r, "done") \/ Goes(r, "refused"))
  BY <1>1, GoesSilently DEF NoStoreStep
<1>2. CASE StoreFail(r, fatal) /\ WillRetry(r, fatal) /\ Goes(r, "retried")
  BY <1>2, FailFacts, GoesSilently
<1>3. CASE StoreFail(r, fatal) /\ ~WillRetry(r, fatal) /\ Goes(r, "died")
  BY <1>3, FailFacts, GoesAccepted
<1>4. CASE (NoStoreStep \/ StoreFail(r, fatal)) /\ Goes(r, "done")
  <2>1. [CallAt(now)]_storeVars
    BY <1>4, FailFacts DEF NoStoreStep
  <2> QED
    BY <1>4, <2>1, GoesSilently
<1> QED
  BY <1>1, <1>2, <1>3, <1>4 DEF CallFail

LEMMA HandlerKeeps ==
    ASSUME WorkerInv, NEW r \in Claims,
           HandlerReturns(r) \/ (\E fatal \in BOOLEAN : HandlerThrows(r, fatal)) \/ CompleteThrew(r)
    PROVE  StepOK
<1>1. r \in Active
  BY DEF HandlerReturns, HandlerThrows, CompleteThrew, Active
<1>2. wk' = wk /\ now' = now /\ reports' = reports
  BY DEF HandlerReturns, HandlerThrows, CompleteThrew
<1>3. CallComplete(r) \/ \E fatal : CallFail(r, fatal)
  BY DEF HandlerReturns, HandlerThrows, CompleteThrew
<1> QED
  BY <1>1, <1>2, <1>3, CallCompleteKeeps, CallFailKeeps

\* The hooks are called once, by the run that holds the news.
LEMMA SettleKeeps ==
    ASSUME WorkerInv, NEW r \in Claims, Settle(r)
    PROVE  StepOK
<1>1. r \in Active /\ wk' = wk /\ now' = now /\ UNCHANGED storeVars
  BY DEF Settle, Active, NoStoreStep
<1>2. /\ runs[r] \in RunRecord /\ r[1] \in JobIds /\ runs \in [Claims -> RunRecord]
      /\ reports \in [JobIds -> [complete : Nat, dead : Nat]]
  BY <1>1, ActiveRun DEF WorkerInv, WorkerTypeOK
<1>3. PICK new : Turns(r, new) /\ new.pc = "done"
  BY <1>1, GoesTurns DEF Settle
<1> DEFINE rec == reports[r[1]]
           c == IF runs[r].pc = "completed" THEN rec.complete + 1 ELSE rec.complete
           d == IF runs[r].pc = "died" THEN rec.dead + 1 ELSE rec.dead
           told == [rec EXCEPT !.complete = c, !.dead = d]
<1>4. rec \in [complete : Nat, dead : Nat] /\ c \in Nat /\ d \in Nat
  BY <1>2
<1>5. reports' = [reports EXCEPT ![r[1]] = told]
  BY <1>2 DEF Settle
<1>6. told \in [complete : Nat, dead : Nat]
  <2> HIDE DEF rec, c, d
  <2> QED
    BY <1>4
<1>7. /\ reports' \in [JobIds -> [complete : Nat, dead : Nat]]
      /\ reports'[r[1]] = told /\ \A id \in JobIds \ {r[1]} : reports'[id] = reports[id]
  <2> HIDE DEF told
  <2> QED
    BY <1>2, <1>5, <1>6
<1>8. runs'[r] = new
  BY <1>2, <1>3 DEF Turns
<1>9. CASE runs[r].pc \in {"completed", "died"}
  <2>1. /\ LoopsKeep(r[1])
        /\ RunsKeep(r[1])
    <3>1. \A s \in Claims \ {r} : runs'[s] = runs[s]
      BY <1>2, <1>3 DEF Turns
    <3> QED
      BY <1>1, <1>3, <1>8, <3>1 DEF LoopsKeep, RunsKeep, EndsAt
  <2>2. \/ runs[r].pc = "completed" /\ told = [rec EXCEPT !.complete = @ + 1]
        \/ runs[r].pc = "died" /\ told = [rec EXCEPT !.dead = @ + 1]
    BY <1>4, <1>9
  <2>3. RunTells(r[1], r)
    <3> HIDE DEF told
    <3> QED
      BY <1>1, <1>3, <1>7, <1>8, <2>1, <2>2 DEF RunTells
  <2> QED
    BY <1>1, <1>3, <1>7, <2>3, TurnsKeeps
<1>10. CASE runs[r].pc \notin {"completed", "died"}
  <2>1. told = rec
    BY <1>4, <1>10
  <2>2. reports' = reports
    BY <1>2, <1>5, <2>1
  <2>3. Silent(r, new)
    BY <1>3, <2>2 DEF Silent
  <2> QED
    BY <1>1, <1>3, <1>7, <2>3, TurnsKeeps
<1> QED
  BY <1>9, <1>10

\* Heartbeats and the timeout of the attempt only touch the run.
LEMMA BeatKeeps ==
    ASSUME WorkerInv, NEW r \in Claims, Beat(r) \/ BeatThrows(r) \/ Timeout(r)
    PROVE  StepOK
<1>1. r \in Active /\ wk' = wk /\ now' = now /\ reports' = reports
  BY DEF Beat, BeatThrows, Timeout
<1>2. /\ runs[r] \in RunRecord /\ runs[r].w \in Workers /\ r[1] \in JobIds /\ r[2] \in Attempts
      /\ runs[r].lost \/ runs[r].fails < MaxHeartbeatFailures
      /\ reports \in [JobIds -> [complete : Nat, dead : Nat]]
      /\ runs \in [Claims -> RunRecord] /\ MaxHeartbeatFailures \in Nat
  BY <1>1, ActiveRun, WorkerConstants DEF WorkerInv, WorkerTypeOK
<1>3. [CallAt(now)]_storeVars
  BY <1>2 DEF Beat, BeatThrows, Timeout, NoStoreStep, CallAt
<1>4. \E new : /\ runs' = [runs EXCEPT ![r] = new]
               /\ new \in RunRecord /\ new.pc = runs[r].pc /\ new.w = runs[r].w
               /\ new.lost \/ new.fails < MaxHeartbeatFailures
  <2>1. CASE \E lost, aborted \in BOOLEAN :
               runs' = [runs EXCEPT ![r] = [runs[r] EXCEPT !.fails = 0, !.lost = lost, !.aborted = aborted]]
    <3>1. PICK lost, aborted \in BOOLEAN :
               runs' = [runs EXCEPT ![r] = [runs[r] EXCEPT !.fails = 0, !.lost = lost, !.aborted = aborted]]
      BY <2>1
    <3> DEFINE new == [runs[r] EXCEPT !.fails = 0, !.lost = lost, !.aborted = aborted]
    <3>2. /\ 0 < MaxHeartbeatFailures /\ 0 \in 0..MaxHeartbeatFailures
          /\ lost \in BOOLEAN /\ aborted \in BOOLEAN
      BY <1>2, DoneRecord
    <3>3. new \in RunRecord /\ new.pc = runs[r].pc /\ new.w = runs[r].w /\ new.fails = 0
      BY <1>2, <3>2 DEF RunRecord
    <3>4. runs' = [runs EXCEPT ![r] = new]
      BY <1>2, <3>1
    <3> HIDE DEF new
    <3> QED
      BY <3>2, <3>3, <3>4
  <2>2. CASE BeatThrows(r)
    <3> DEFINE f == runs[r].fails + 1
               out == f >= MaxHeartbeatFailures
               new == [runs[r] EXCEPT !.fails = f, !.lost = out, !.aborted = @ \/ out]
    <3>1. runs[r].fails < MaxHeartbeatFailures /\ runs[r].fails \in Nat
      BY <1>2, <2>2 DEF BeatThrows, RunRecord
    <3>2. f \in 0..MaxHeartbeatFailures /\ (out \/ f < MaxHeartbeatFailures) /\ out \in BOOLEAN
      BY <1>2, <3>1
    <3>3. runs' = [runs EXCEPT ![r] = new]
      BY <1>2, <2>2 DEF BeatThrows
    <3> HIDE DEF f, out
    <3>4. /\ new \in RunRecord /\ new.pc = runs[r].pc /\ new.w = runs[r].w
          /\ new.fails = f /\ new.lost = out
      BY <1>2, <3>2 DEF RunRecord
    <3> HIDE DEF new
    <3> QED
      BY <3>2, <3>3, <3>4
  <2>3. CASE Timeout(r)
    <3> DEFINE new == [runs[r] EXCEPT !.timedOut = TRUE, !.aborted = TRUE]
    <3>1. /\ new \in RunRecord /\ new.pc = runs[r].pc /\ new.w = runs[r].w
          /\ new.fails = runs[r].fails /\ new.lost = runs[r].lost
      BY <1>2 DEF RunRecord
    <3>2. runs' = [runs EXCEPT ![r] = new]
      BY <1>2, <2>3 DEF Timeout
    <3> HIDE DEF new
    <3> QED
      BY <1>2, <3>1, <3>2
  <2>4. CASE Beat(r)
    <3>1. CASE runs' = [runs EXCEPT ![r].fails = 0]
      <4>1. runs[r].lost \in BOOLEAN /\ runs[r].aborted \in BOOLEAN
        BY <1>2 DEF RunRecord
      <4>2. [runs[r] EXCEPT !.fails = 0] =
            [runs[r] EXCEPT !.fails = 0, !.lost = runs[r].lost, !.aborted = runs[r].aborted]
        BY <1>2 DEF RunRecord
      <4>3. runs' = [runs EXCEPT ![r] = [runs[r] EXCEPT !.fails = 0]]
        BY <1>2, <3>1
      <4> QED
        BY <2>1, <4>1, <4>2, <4>3
    <3>2. CASE runs' = [runs EXCEPT ![r].fails = 0, ![r].lost = TRUE, ![r].aborted = TRUE]
      <4>1. runs' = [runs EXCEPT ![r] = [runs[r] EXCEPT !.fails = 0, !.lost = TRUE, !.aborted = TRUE]]
        BY <1>2, <3>2
      <4> QED
        BY <2>1, <4>1
    <3> QED
      BY <2>4, <3>1, <3>2 DEF Beat
  <2> QED
    BY <2>2, <2>3, <2>4
<1>5. PICK new : /\ runs' = [runs EXCEPT ![r] = new]
                 /\ new \in RunRecord /\ new.pc = runs[r].pc /\ new.w = runs[r].w
                 /\ new.lost \/ new.fails < MaxHeartbeatFailures
  BY <1>4
<1>6. Turns(r, new) /\ Silent(r, new)
  BY <1>1, <1>3, <1>5 DEF Turns, Silent
<1> QED
  BY <1>1, <1>2, <1>6, TurnsKeeps

-----------------------------------------------------------------------------
(***************************************************************************)
(* The theorems.                                                           *)
(***************************************************************************)
LEMMA StepsAreOK == WorkerInv /\ [WorkerNext]_allVars => StepOK
<1> SUFFICES ASSUME WorkerInv, [WorkerNext]_allVars PROVE StepOK
  OBVIOUS
<1>1. CASE Enqueue \/ CancelJob \/ Tick
  BY <1>1, ClientKeeps
<1>2. ASSUME NEW w \in Workers, WorkerStep(w) PROVE StepOK
  BY <1>2, StopKeeps, PollTickKeeps, ReapedBackKeeps, ClaimBackKeeps, StopDeadlineKeeps, CrashKeeps
  DEF WorkerStep
<1>3. ASSUME NEW r \in Claims, RunStep(r) PROVE StepOK
  BY <1>3, HandlerKeeps, SettleKeeps, BeatKeeps DEF RunStep
<1>4. CASE UNCHANGED allVars
  <2>1. UNCHANGED storeVars /\ UNCHANGED workerVars
    BY <1>4 DEF allVars
  <2>2. wk' = wk /\ runs' = runs /\ reports' = reports /\ now' = now
    BY <2>1 DEF workerVars
  <2>3. wk \in [Workers -> WorkerRecord] /\ now \in 0..MaxTime
    BY DEF WorkerInv, WorkerTypeOK
  <2> QED
    BY <2>1, <2>2, <2>3, AsideKeeps
<1> QED
  BY <1>1, <1>2, <1>3, <1>4 DEF WorkerNext

LEMMA WorkerInvInitially == Init => WorkerInv
<1> SUFFICES ASSUME Init PROVE WorkerInv
  OBVIOUS
<1>1. StoreInv /\ StoreShape /\ reapedDead = <<>>
  BY InvInitially DEF Init, StoreInit, StoreInv
<1>2. /\ now = 0 /\ 0 \in 0..MaxTime
      /\ runs = [r \in Claims |-> NotRun]
      /\ reports = [id \in JobIds |-> [complete |-> 0, dead |-> 0]]
  BY WorkerConstants DEF Init, WorkerInit
<1> DEFINE idle == [state |-> "idle", drain |-> "off", i |-> 0, got |-> {},
                    claim |-> NoClaim, again |-> FALSE, awaited |-> {}]
<1>3. wk = [w \in Workers |-> idle]
  BY DEF Init, WorkerInit
<1>4. idle \in WorkerRecord /\ idle.drain = "off" /\ idle.got = {} /\ idle.claim = NoClaim
  BY DEF WorkerRecord
<1> HIDE DEF idle
<1>5. /\ NotRun \in RunRecord /\ NotRun.pc = "none" /\ NotRun.fails < MaxHeartbeatFailures
  <2>1. 0 < MaxHeartbeatFailures /\ 0 \in 0..MaxHeartbeatFailures
    BY WorkerConstants
  <2> DEFINE base == FreshRun(Nobody)
  <2>2. base \in RunRecord /\ base.fails = 0
    BY <2>1 DEF FreshRun, RunRecord
  <2>3. NotRun = [base EXCEPT !.pc = "none"]
    BY DEF NotRun
  <2> HIDE DEF base
  <2> QED
    BY <2>1, <2>2, <2>3 DEF RunRecord
<1>6. WorkerTypeOK
  <2>1. reports \in [JobIds -> [complete : Nat, dead : Nat]]
    BY <1>2
  <2> QED
    BY <1>1, <1>2, <1>3, <1>4, <1>5, <2>1 DEF WorkerTypeOK
<1>7. \A w \in Workers : LoopOK(w)
  <2>1. \A w \in Workers : InFlight(w) = {}
    BY <1>2, <1>5 DEF InFlight, Active
  <2>2. IsFiniteSet({}) /\ Cardinality({}) = 0 /\ \A w \in Workers : 0 <= Concurrency[w]
    BY FS_EmptySet, WorkerConstants
  <2> QED
    BY <1>3, <1>4, <2>1, <2>2 DEF LoopOK
<1>8. \A r \in Claims : RunOK(r)
  BY <1>2, <1>5 DEF RunOK, Active
<1>9. ASSUME NEW id \in JobIds PROVE Custody(id)
  <2>1. /\ reports[id].complete = 0 /\ reports[id].dead = 0
        /\ ~InOutbox(id) /\ \A w \in Workers : ~InLoop(id, w)
        /\ \A r \in Claims : runs[r].pc = "none"
    BY <1>1, <1>2, <1>3, <1>4, <1>5 DEF InOutbox, Elements, InLoop
  <2> QED
    BY <2>1 DEF Custody, OnePlace, TrueNews, Told, InRun
<1> QED
  BY <1>1, <1>6, <1>7, <1>8, <1>9 DEF WorkerInv

LEMMA WorkersCorrect == Spec => []WorkerInv
<1>1. WorkerInv /\ [WorkerNext]_allVars => WorkerInv'
  BY StepsAreOK DEF StepOK
<1> QED
  BY <1>1, WorkerInvInitially, PTL DEF Spec

(* The state of workers and runs keeps its shape, for any number of workers,
   jobs and attempts: in particular a claim is always one of the attempts of
   its job, and missed heartbeats are counted up to their limit only. *)
THEOREM WorkerTypeCorrect == Spec => []WorkerTypeOK
<1>1. WorkerInv => WorkerTypeOK
  BY DEF WorkerInv
<1> QED
  BY <1>1, WorkersCorrect, PTL

(* onComplete and onDead are called at most once for a job, taken together and
   over all workers, and what they report is true: although execute, the
   lease reaper, cancel, failed store calls and crashes race for every job. *)
THEOREM OutcomeCorrect == Spec => []OneOutcomeReported
<1>1. WorkerInv => OneOutcomeReported
  BY DEF WorkerInv, WorkerTypeOK, Custody, TrueNews, OneOutcomeReported, IsDead, IsCompleted
<1> QED
  BY <1>1, WorkersCorrect, PTL

(* The poll loop never has more than concurrency jobs, the one just claimed
   included, however ticks, claims, settlements, stops and crashes overlap. *)
THEOREM ConcurrencyCorrect == Spec => []LoopWithinConcurrency
<1>1. ASSUME WorkerInv, NEW w \in Workers
      PROVE  Cardinality(InFlight(w)) + (IF wk[w].claim \in Claims THEN 1 ELSE 0) <= Concurrency[w]
  <2>1. LoopOK(w) /\ Cardinality(InFlight(w)) \in Nat /\ Concurrency[w] \in Nat
    BY <1>1, FS_CardinalityType, WorkerConstants DEF WorkerInv, LoopOK
  <2>2. wk[w].drain = "off" => wk[w].claim \notin Claims
    BY <2>1 DEF LoopOK, NoClaim, Claims, NoJob, JobIds
  <2> QED
    BY <2>1, <2>2 DEF LoopOK
<1>2. WorkerInv => LoopWithinConcurrency
  BY <1>1 DEF LoopWithinConcurrency
<1> QED
  BY <1>2, WorkersCorrect, PTL

\* The store sees calls of its methods at the current time and nothing else.
LEMMA StoreCalled == Spec => StoreInit /\ [][CallAt(now)]_storeVars
<1>1. WorkerInv /\ [WorkerNext]_allVars => [CallAt(now)]_storeVars
  BY StepsAreOK DEF StepOK
<1>2. Init => StoreInit
  BY DEF Init
<1> QED
  BY <1>1, <1>2, WorkersCorrect, PTL DEF Spec

(* Whatever workers, clients and faults do, the composition implements the
   specification of the store: all that is proved of the store under arbitrary
   callers holds with the workers on it. *)
THEOREM StoreImplemented == Spec => StoreSpec
<1>1. WorkerInv /\ [CallAt(now)]_storeVars => [StoreNext]_storeVars
  <2>1. WorkerInv => now \in Time
    BY ClockReadings DEF WorkerInv, WorkerTypeOK
  <2> QED
    BY <2>1 DEF StoreNext
<1> QED
  BY <1>1, StoreCalled, WorkersCorrect, PTL DEF StoreSpec

(* In particular every job that the workers run goes through the life cycle
   that the comment on JobStatus draws. *)
THEOREM WorkersFollowLifecycle == Spec => ImplementsLifecycle
BY StoreImplemented, LifecycleImplemented, PTL

(* While a record's lease has not expired, no claim of another worker, or of
   the same one, supersedes it: not after faults, lost answers or crashes. *)
THEOREM LeaseCorrect == Spec => LeaseRespected
<1> DEFINE A == \A id \in JobIds :
          jobs[id].status = "running" /\ jobs[id].leaseUntil >= now =>
              jobs'[id].attempts = jobs[id].attempts \/ jobs'[id].status = "absent"
<1>1. WorkerInv /\ [WorkerNext]_allVars => [A]_allVars
  <2> SUFFICES ASSUME WorkerInv, [WorkerNext]_allVars PROVE A
    OBVIOUS
  <2>1. /\ StoreInv /\ now \in 0..MaxTime
        /\ [CallAt(now)]_storeVars
    BY StepsAreOK DEF StepOK, WorkerInv, WorkerTypeOK
  <2> QED
    BY <2>1, LeaseLive
<1>2. Spec => [][A]_allVars
  BY <1>1, WorkersCorrect, PTL DEF Spec
<1> QED
  BY <1>2 DEF LeaseRespected

-----------------------------------------------------------------------------
(***************************************************************************)
(* Who changes a running record.                                           *)
(***************************************************************************)
\* What the property asks of job id.
Decided(id) ==
    LET r == <<id, jobs[id].attempts>>
    IN  jobs[id].status = "running" /\ jobs'[id] # jobs[id] =>
            \/ r \in Active /\ (runs'[r] # runs[r] \/ jobs'[id].status = "running")
            \/ jobs'[id].status = "cancelled"
            \/ jobs[id].leaseUntil < now

\* A poll loop reaps and claims, and calls nothing else that changes a record.
LEMMA LoopReaps ==
    ASSUME NEW w \in Workers, WorkerStep(w)
    PROVE  \/ jobs' = jobs
           \/ jobs' = Reaped(now)
           \/ \E c \in JobIds : \E queue : ClaimJob(c, queue, w, now)
<1> DEFINE Calls == \/ jobs' = jobs
                    \/ jobs' = Reaped(now)
                    \/ \E c \in JobIds : \E queue : ClaimJob(c, queue, w, now)
<1>1. ASSUME NEW rec, DrainOff(w, rec) PROVE Calls
  BY <1>1 DEF DrainOff, NoStoreStep, storeVars
<1>2. ASSUME NEW rec, NEW i, AskReaped(w, rec, i) PROVE Calls
  BY <1>2 DEF AskReaped, NoStoreStep, storeVars, TakeReaped, TakeFrom
<1>3. ASSUME NEW rec, NEW i, AskClaim(w, rec, i) PROVE Calls
  BY <1>3 DEF AskClaim, NoStoreStep, storeVars, ClaimNothing, ReapLeases
<1>4. ASSUME NEW rec, NEW n, LoopHead(w, rec, n) PROVE Calls
  BY <1>1, <1>2, <1>4 DEF LoopHead
<1>5. ASSUME NEW n, LoopBreak(w, n) PROVE Calls
  BY <1>1, <1>4, <1>5 DEF LoopBreak
<1>6. CASE PollTick(w)
  BY <1>4, <1>6 DEF PollTick, NoStoreStep, storeVars
<1>7. CASE ReapedBack(w)
  BY <1>2, <1>3, <1>7 DEF ReapedBack
<1>8. CASE ClaimBack(w)
  BY <1>3, <1>4, <1>5, <1>8 DEF ClaimBack
<1>9. CASE Start(w) \/ Stop(w) \/ StopSettled(w) \/ StopDeadline(w) \/ Crash(w)
  BY <1>9 DEF Start, Stop, StopSettled, StopDeadline, Crash, NoStoreStep, storeVars
<1> QED
  BY <1>6, <1>7, <1>8, <1>9 DEF WorkerStep

\* The reaper takes a running record only when its lease is over.
LEMMA LoopLeavesRuns ==
    ASSUME WorkerInv, NEW w \in Workers, WorkerStep(w), NEW id \in JobIds
    PROVE  Decided(id)
<1>1. now \in Time /\ now \in Nat
  BY ClockReadings DEF WorkerInv, WorkerTypeOK
<1>2. JobsSound /\ jobs[id] \in StoredJob
  BY InvIsParts DEF WorkerInv, Parts, JobsSound, SoundTable
<1>3. SUFFICES ASSUME jobs[id].status = "running", ~(jobs[id].leaseUntil < now)
               PROVE  jobs'[id] = jobs[id]
  BY DEF Decided
<1>4. Reaped(now)[id] = jobs[id]
  BY <1>1, <1>2, <1>3, ReapedTable DEF Expired
<1>5. ASSUME NEW c \in JobIds, NEW queue, ClaimJob(c, queue, w, now) PROVE jobs'[id] = jobs[id]
  <2>1. /\ c \in RunnableIn(Reaped(now), queue, now)
        /\ jobs' = [Reaped(now) EXCEPT ![c] = Leased(@, w, now)]
    BY <1>5 DEF ClaimJob, BestIn
  <2>2. c # id
    BY <1>3, <1>4, <2>1 DEF RunnableIn
  <2> QED
    BY <1>1, <1>2, <1>4, <2>1, <2>2, ReapedTable
<1> QED
  BY <1>4, <1>5, LoopReaps

\* A client inserts, sweeps what is over, and cancels.
LEMMA ClientLeavesRuns ==
    ASSUME WorkerInv, Enqueue \/ CancelJob \/ Tick, NEW id \in JobIds
    PROVE  Decided(id)
<1>1. /\ jobs \in [JobIds -> StoredJob] /\ issued \in Nat
      /\ id > issued => jobs[id].status = "absent"
  BY DEF WorkerInv, WorkerTypeOK, StoreInv, StoreShape, FreshIdsUnused
<1>2. CASE Enqueue
  <2> SUFFICES ASSUME jobs[id].status = "running" PROVE jobs'[id] = jobs[id]
    BY DEF Decided
  <2>1. PICK opts \in EnqueueOpts : Put(opts, now, now)
    BY <1>2 DEF Enqueue
  <2>2. id # issued + 1 /\ PurgedJobs(now)[id] = jobs[id]
    BY <1>1 DEF PurgedJobs, Purgeable, Terminal, JobIds
  <2>3. DOMAIN PurgedJobs(now) = JobIds
    BY DEF PurgedJobs
  <2>4. ASSUME NEW table, table \in {jobs, PurgedJobs(now)}, NEW index,
               Insert(opts, now, now, table, index)
        PROVE  jobs'[id] = jobs[id]
    BY <1>1, <2>2, <2>3, <2>4 DEF Insert
  <2> QED
    BY <2>1, <2>2, <2>4 DEF Put
<1>3. CASE CancelJob
  <2>1. PICK c \in JobIds : jobs' = [jobs EXCEPT ![c] = Released(@, "cancelled", @.runAt, now)]
    BY <1>3 DEF CancelJob, Cancel
  <2>2. c = id => jobs'[id].status = "cancelled"
    BY <1>1, <2>1 DEF Released, StoredJob
  <2> QED
    BY <1>1, <2>1, <2>2 DEF Decided
<1>4. CASE Tick
  BY <1>4 DEF Tick, NoStoreStep, storeVars, Decided
<1> QED
  BY <1>2, <1>3, <1>4

\* The store refuses a run unless its claim is the current one.
LEMMA RunsDecideTheirOwn ==
    ASSUME WorkerInv, NEW r \in Claims, RunStep(r), NEW id \in JobIds
    PROVE  Decided(id)
<1>1. jobs \in [JobIds -> StoredJob] /\ runs \in [Claims -> RunRecord]
  BY DEF WorkerInv, WorkerTypeOK, StoreShape
<1>2. jobs' = jobs => Decided(id)
  BY DEF Decided
<1>3. ASSUME NEW job, jobs' = [jobs EXCEPT ![r[1]] = job], OwnedRunning(r[1], runs[r].w, r[2]),
             r \in Active, runs'[r] # runs[r] \/ job.status = "running"
      PROVE  Decided(id)
  <2>1. CASE id = r[1]
    <3>1. r = <<id, jobs[id].attempts>> /\ jobs'[id] = job
      BY <1>1, <1>3, <2>1 DEF OwnedRunning, Claims
    <3> QED
      BY <1>3, <3>1 DEF Decided
  <2>2. CASE id # r[1]
    BY <1>1, <1>3, <2>2 DEF Decided
  <2> QED
    BY <2>1, <2>2
<1>4. ASSUME NEW pc, pc \notin {"handler", "threw"}, Goes(r, pc), runs[r].pc \in {"handler", "threw"}
      PROVE  runs'[r] # runs[r] /\ r \in Active
  <2>1. r \in Active
    BY <1>4 DEF Active
  <2>2. runs'[r].pc # runs[r].pc
    BY <1>1, <1>4 DEF Goes, Done, FreshRun, RunRecord
  <2> QED
    BY <2>1, <2>2
<1>5. ASSUME CallComplete(r), runs[r].pc = "handler" PROVE Decided(id)
  <2>1. r \in Active /\ runs'[r] # runs[r]
    <3>1. \E pc \in {"completed", "refused", "threw"} : Goes(r, pc)
      BY <1>5 DEF CallComplete
    <3>2. runs'[r].pc # runs[r].pc
      BY <1>1, <1>5, <3>1 DEF Goes, RunRecord
    <3> QED
      BY <1>5, <3>2 DEF Active
  <2>2. CASE Complete(r[1], runs[r].w, r[2], now)
    BY <1>3, <2>1, <2>2 DEF Complete
  <2> QED
    BY <1>2, <1>5, <2>2 DEF CallComplete, NoStoreStep, storeVars
<1>6. ASSUME NEW fatal, CallFail(r, fatal), runs[r].pc \in {"handler", "threw"} PROVE Decided(id)
  <2>1. \E pc \in {"done", "retried", "died", "refused"} : Goes(r, pc)
    BY <1>6 DEF CallFail
  <2>2. r \in Active /\ runs'[r] # runs[r]
    BY <1>4, <1>6, <2>1
  <2>3. ASSUME NEW status, NEW runAt, Fail(r[1], runs[r].w, r[2], status, runAt, now)
        PROVE  Decided(id)
    BY <1>3, <2>2, <2>3 DEF Fail
  <2> QED
    BY <1>2, <1>6, <2>3 DEF CallFail, StoreFail, NoStoreStep, storeVars
<1>7. ASSUME Heartbeat(r[1], runs[r].w, r[2], now), r \in Active PROVE Decided(id)
  <2> DEFINE job == [jobs[r[1]] EXCEPT !.leaseUntil = now + jobs[r[1]].opts.leaseMs, !.updatedAt = now]
  <2>1. r[1] \in JobIds
    BY DEF Claims
  <2>2. jobs' = [jobs EXCEPT ![r[1]] = job]
    BY <1>1, <1>7, <2>1 DEF Heartbeat
  <2>3. jobs[r[1]] \in StoredJob /\ jobs[r[1]].status = "running"
    BY <1>1, <1>7, <2>1 DEF Heartbeat, OwnedRunning
  <2>4. job.status = "running"
    BY <2>3 DEF StoredJob
  <2> HIDE DEF job
  <2> QED
    BY <1>3, <1>7, <2>2, <2>4 DEF Heartbeat
<1>8. CASE HandlerReturns(r) \/ (\E fatal \in BOOLEAN : HandlerThrows(r, fatal)) \/ CompleteThrew(r)
  BY <1>5, <1>6, <1>8 DEF HandlerReturns, HandlerThrows, CompleteThrew
<1>9. CASE Settle(r) \/ Timeout(r)
  BY <1>2, <1>9 DEF Settle, Timeout, NoStoreStep, storeVars
<1>10. CASE Beat(r) \/ BeatThrows(r)
  BY <1>2, <1>7, <1>10 DEF Beat, BeatThrows, NoStoreStep, storeVars
<1> QED
  BY <1>8, <1>9, <1>10 DEF RunStep

(* While its lease lasts, a running record is changed by the run of its current
   claim, or cancelled: complete, fail and heartbeat of an earlier claim are
   refused, of the same worker too, for any number of workers and runs. *)
THEOREM OwnerCorrect == Spec => OwnerDecides
<1>1. WorkerInv /\ [WorkerNext]_allVars => [\A id \in JobIds : Decided(id)]_allVars
  BY LoopLeavesRuns, ClientLeavesRuns, RunsDecideTheirOwn DEF WorkerNext
<1>2. Spec => [][\A id \in JobIds : Decided(id)]_allVars
  BY <1>1, WorkersCorrect, PTL DEF Spec
<1> QED
  BY <1>2 DEF OwnerDecides, Decided
=============================================================================
