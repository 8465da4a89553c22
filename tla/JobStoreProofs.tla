--------------------------- MODULE JobStoreProofs ---------------------------
(***************************************************************************)
(* Proofs about MemoryJobStore, for every number of jobs, workers, queues, *)
(* keys, every capacity, every set of options and every clock.             *)
(***************************************************************************)
EXTENDS JobStore, FiniteSetTheorems, FunctionTheorems, TLAPS

(***************************************************************************)
(* What every record satisfies on its own: the parts of the invariant that *)
(* concern one record at a time, gathered so that one lemma per record     *)
(* operation settles all of them.                                          *)
(***************************************************************************)
Sound(job) ==
    /\ job \in StoredJob
    /\ job.status = "absent" <=> job.opts = NoOpts
    /\ job.status = "running" <=> job.lockedBy # Nobody
    /\ job.status = "running" <=> job.leaseUntil # NoLease
    /\ job.status # "absent" =>
        /\ job.attempts <= job.opts.maxAttempts
        /\ job.status \in Waiting => job.attempts < job.opts.maxAttempts
        /\ job.status = "running" => job.attempts >= 1

JobsSound == jobs \in [JobIds -> StoredJob] /\ \A id \in JobIds : Sound(jobs[id])

\* The options of a record that is present are those of some caller.
LEMMA PresentOpts ==
    ASSUME NEW job, Sound(job), job.status # "absent"
    PROVE  /\ job.opts \in EnqueueOpts
           /\ job.opts.maxAttempts \in Nat \ {0}
           /\ job.opts.leaseMs \in Nat \ {0}
           /\ job.opts.queue \in Queues
           /\ job.opts.key \in Keys \cup {NoKey}
<1>1. job.opts \in EnqueueOpts
  BY DEF Sound, StoredJob
<1>2. job.opts \in OptionsType
  BY <1>1, StoreConstants
<1> QED
  BY <1>1, <1>2 DEF OptionsType

\* The record that stands for no record is sound.
LEMMA AbsentSound == Sound(Absent)
BY StoreConstants DEF Sound, Absent, StoredJob, Statuses, Waiting, Terminal, NoLease

\* Reaping an expired lease leaves a sound record that still exists.
LEMMA ReapSound ==
    ASSUME NEW job, Sound(job), NEW t \in Time, Expired(job, t)
    PROVE  /\ Sound(ReapJob(job, t))
           /\ ReapJob(job, t).status = IF Exhausted(job) THEN "dead" ELSE "queued"
           /\ ReapJob(job, t).opts = job.opts
           /\ ReapJob(job, t).attempts = job.attempts
<1>1. job \in StoredJob /\ job.status = "running" /\ job.status # "absent" /\ t \in Int
  BY StoreConstants DEF Sound, Expired
<1>2. job.opts.maxAttempts \in Nat /\ job.attempts \in Nat
  BY <1>1, PresentOpts DEF StoredJob
<1>3. /\ ReapJob(job, t).status = IF Exhausted(job) THEN "dead" ELSE "queued"
      /\ ReapJob(job, t).opts = job.opts
      /\ ReapJob(job, t).attempts = job.attempts
      /\ ReapJob(job, t).lockedBy = Nobody
      /\ ReapJob(job, t).leaseUntil = NoLease
  BY <1>1 DEF ReapJob, StoredJob
<1>4. ReapJob(job, t) \in StoredJob
  BY <1>1 DEF ReapJob, StoredJob, Statuses, Waiting, Terminal, NoLease
<1>5. job.opts # NoOpts /\ job.attempts <= job.opts.maxAttempts
  BY <1>1 DEF Sound
<1> QED
  BY <1>2, <1>3, <1>4, <1>5 DEF Sound, Exhausted, Waiting, NoLease

\* Inserting writes a sound record: it has a whole budget.
LEMMA InsertSound ==
    ASSUME NEW opts \in EnqueueOpts, NEW created \in Time, NEW t \in Time
    PROVE  /\ Sound(Inserted(opts, created, t))
           /\ Inserted(opts, created, t).status \in Waiting
<1>1. opts \in OptionsType /\ created \in Int /\ t \in Int
  BY StoreConstants
<1>2. opts.maxAttempts \in Nat \ {0} /\ created + opts.delay \in Int
  BY <1>1 DEF OptionsType
<1> QED
  BY <1>1, <1>2, StoreConstants
  DEF Sound, Inserted, StoredJob, Statuses, Waiting, Terminal, NoLease

\* A claim turns a sound waiting record into a sound running one.
LEMMA LeaseSound ==
    ASSUME NEW job, Sound(job), job.status \in Waiting, NEW w \in Workers, NEW t \in Time
    PROVE  /\ Sound(Leased(job, w, t))
           /\ Leased(job, w, t).status = "running"
           /\ Leased(job, w, t).opts = job.opts
           /\ Leased(job, w, t).attempts = job.attempts + 1
<1>1. job \in StoredJob /\ job.status # "absent" /\ t \in Nat /\ t \in Int
  BY StoreConstants DEF Sound, Waiting
<1>2. job.opts.maxAttempts \in Nat /\ job.attempts \in Nat /\ job.opts.leaseMs \in Nat
  BY <1>1, PresentOpts DEF StoredJob
<1>a. t + job.opts.leaseMs \in Nat /\ job.attempts + 1 \in Nat
  BY <1>1, <1>2
<1>3. job.attempts < job.opts.maxAttempts
  BY <1>1 DEF Sound
<1>4. /\ Leased(job, w, t).status = "running"
      /\ Leased(job, w, t).opts = job.opts
      /\ Leased(job, w, t).attempts = job.attempts + 1
      /\ Leased(job, w, t).lockedBy = w
      /\ Leased(job, w, t).leaseUntil = t + job.opts.leaseMs
  BY <1>1 DEF Leased, StoredJob
<1>5. Leased(job, w, t) \in StoredJob
  BY <1>1, <1>a DEF Leased, StoredJob, Statuses, Waiting, Terminal, NoLease
<1>6. job.opts # NoOpts /\ w # Nobody /\ t + job.opts.leaseMs # NoLease
  BY <1>1, <1>2, StoreConstants DEF Sound, NoLease
<1> QED
  BY <1>2, <1>3, <1>4, <1>5, <1>6 DEF Sound, Waiting

\* A heartbeat moves the deadline of a sound running record.
LEMMA BeatSound ==
    ASSUME NEW job, Sound(job), job.status = "running", NEW t \in Time
    PROVE  Sound([job EXCEPT !.leaseUntil = t + job.opts.leaseMs, !.updatedAt = t])
<1>1. job \in StoredJob /\ job.status # "absent" /\ t \in Nat /\ t \in Int
  BY StoreConstants DEF Sound
<1>2. job.opts.leaseMs \in Nat
  BY <1>1, PresentOpts
<1>a. t + job.opts.leaseMs \in Nat
  BY <1>1, <1>2
<1> DEFINE new == [job EXCEPT !.leaseUntil = t + job.opts.leaseMs, !.updatedAt = t]
<1>3. /\ new.status = "running" /\ new.opts = job.opts /\ new.attempts = job.attempts
      /\ new.lockedBy = job.lockedBy /\ new.leaseUntil = t + job.opts.leaseMs
  BY <1>1 DEF StoredJob
<1>4. new \in StoredJob
  BY <1>1, <1>a DEF StoredJob, Statuses, Waiting, Terminal, NoLease
<1>5. new.leaseUntil # NoLease
  BY <1>1, <1>2, <1>3 DEF NoLease
<1>6. job.opts # NoOpts /\ job.lockedBy # Nobody /\ job.attempts <= job.opts.maxAttempts
      /\ job.attempts >= 1
  BY <1>1 DEF Sound
<1> HIDE DEF new
<1>7. Sound(new)
  BY <1>3, <1>4, <1>5, <1>6 DEF Sound, Waiting
<1> QED
  BY <1>7 DEF new

\* Releasing a record into a terminal state, or back into a waiting one
\* while an attempt is left, keeps it sound.
LEMMA ReleaseSound ==
    ASSUME NEW job, Sound(job), job.status # "absent",
           NEW status, NEW runAt \in Int, NEW t \in Time,
           status \in Terminal \/ (status \in Waiting /\ job.attempts < job.opts.maxAttempts)
    PROVE  /\ Sound(Released(job, status, runAt, t))
           /\ Released(job, status, runAt, t).status = status
           /\ Released(job, status, runAt, t).opts = job.opts
           /\ Released(job, status, runAt, t).attempts = job.attempts
<1>1. job \in StoredJob /\ t \in Nat /\ t \in Int
  BY StoreConstants DEF Sound
<1>2. job.opts.maxAttempts \in Nat /\ job.attempts \in Nat
  BY <1>1, PresentOpts DEF StoredJob
<1>3. /\ Released(job, status, runAt, t).status = status
      /\ Released(job, status, runAt, t).opts = job.opts
      /\ Released(job, status, runAt, t).attempts = job.attempts
      /\ Released(job, status, runAt, t).lockedBy = Nobody
      /\ Released(job, status, runAt, t).leaseUntil = NoLease
  BY <1>1 DEF Released, StoredJob
<1>4. status \in Statuses /\ status # "absent" /\ status # "running"
  BY DEF Statuses, Terminal, Waiting
<1>5. Released(job, status, runAt, t) \in StoredJob
  BY <1>1, <1>4 DEF Released, StoredJob, NoLease
<1>6. job.opts # NoOpts /\ job.attempts <= job.opts.maxAttempts
  BY DEF Sound
<1>7. status \in Waiting => job.attempts < job.opts.maxAttempts
  BY DEF Waiting, Terminal
<1> QED
  BY <1>3, <1>4, <1>5, <1>6, <1>7 DEF Sound

\* fail dead-letters an exhausted record whatever the worker asked for.
LEMMA FailSound ==
    ASSUME NEW job, Sound(job), job.status = "running",
           NEW status \in {"delayed", "queued", "dead"}, NEW runAt \in Time, NEW t \in Time
    PROVE  /\ Sound(Failed(job, status, runAt, t))
           /\ Failed(job, status, runAt, t).status = IF Exhausted(job) THEN "dead" ELSE status
           /\ Failed(job, status, runAt, t).opts = job.opts
           /\ Failed(job, status, runAt, t).attempts = job.attempts
<1>1. job.status # "absent" /\ t \in Int /\ runAt \in Int
  BY StoreConstants
<1>2. job.opts.maxAttempts \in Nat /\ job.attempts \in Nat
  BY <1>1, PresentOpts DEF Sound, StoredJob
<1>3. CASE Exhausted(job)
  <2>1. "dead" \in Terminal
    BY DEF Terminal
  <2>2. Failed(job, status, runAt, t) = Released(job, "dead", t, t)
    BY <1>3 DEF Failed
  <2> QED
    BY <1>1, <1>3, <2>1, <2>2, ReleaseSound
<1>4. CASE ~Exhausted(job)
  <2>1. status \in Terminal \/ (status \in Waiting /\ job.attempts < job.opts.maxAttempts)
    BY <1>2, <1>4 DEF Exhausted, Terminal, Waiting
  <2>2. PICK r \in Int : Failed(job, status, runAt, t) = Released(job, status, r, t)
    BY <1>1, <1>4 DEF Failed
  <2> QED
    BY <1>1, <1>4, <2>1, <2>2, ReleaseSound
<1> QED
  BY <1>3, <1>4

-----------------------------------------------------------------------------
(***************************************************************************)
(* The reaper.                                                             *)
(***************************************************************************)
\* Reaping changes the status of expired records only; options and attempt
\* counts stay, and every record stays sound.
LEMMA ReapedTable ==
    ASSUME JobsSound, NEW t \in Time
    PROVE  /\ Reaped(t) \in [JobIds -> StoredJob]
           /\ \A id \in JobIds :
                /\ Sound(Reaped(t)[id])
                /\ Reaped(t)[id].opts = jobs[id].opts
                /\ Reaped(t)[id].attempts = jobs[id].attempts
                /\ \/ Reaped(t)[id] = jobs[id] /\ ~Expired(jobs[id], t)
                   \/ /\ Expired(jobs[id], t) /\ Exhausted(jobs[id])
                      /\ Reaped(t)[id].status = "dead"
                   \/ /\ Expired(jobs[id], t) /\ ~Exhausted(jobs[id])
                      /\ Reaped(t)[id].status = "queued"
<1>1. ASSUME NEW id \in JobIds
      PROVE  /\ Sound(Reaped(t)[id])
             /\ Reaped(t)[id].opts = jobs[id].opts
             /\ Reaped(t)[id].attempts = jobs[id].attempts
             /\ \/ Reaped(t)[id] = jobs[id] /\ ~Expired(jobs[id], t)
                \/ /\ Expired(jobs[id], t) /\ Exhausted(jobs[id])
                   /\ Reaped(t)[id].status = "dead"
                \/ /\ Expired(jobs[id], t) /\ ~Exhausted(jobs[id])
                   /\ Reaped(t)[id].status = "queued"
  <2>1. Sound(jobs[id])
    BY DEF JobsSound
  <2>2. CASE Expired(jobs[id], t)
    <3>1. Reaped(t)[id] = ReapJob(jobs[id], t)
      BY <2>2 DEF Reaped
    <3> QED
      BY <2>1, <2>2, <3>1, ReapSound
  <2>3. CASE ~Expired(jobs[id], t)
    <3>1. Reaped(t)[id] = jobs[id]
      BY <2>3 DEF Reaped
    <3> QED
      BY <2>1, <2>3, <3>1
  <2> QED
    BY <2>2, <2>3
<1>2. \A id \in JobIds : Reaped(t)[id] \in StoredJob
  BY <1>1 DEF Sound
<1>3. Reaped(t) = [id \in JobIds |-> Reaped(t)[id]]
  BY DEF Reaped
<1> QED
  BY <1>1, <1>2, <1>3

\* Subsets of the identities are finite.
LEMMA FiniteIds ==
    ASSUME NEW S \in SUBSET JobIds
    PROVE  IsFiniteSet(S) /\ Cardinality(S) \in Nat
<1>1. IsFiniteSet(JobIds)
  BY StoreConstants, FS_Interval DEF JobIds
<1>2. IsFiniteSet(S)
  BY <1>1, FS_Subset
<1> QED
  BY <1>2, FS_CardinalityType

\* A sequence of identities without repetition.
Distinct(s) == \A i, j \in DOMAIN s : s[i] = s[j] => i = j

\* The outbox after the reaper: old entries and newly dead ones, each once,
\* within the bound.
LEMMA OutboxAfterReap ==
    ASSUME NEW t \in Time, NEW outbox \in Outboxes(t),
           reapedDead \in Seq(JobIds), Distinct(reapedDead),
           Elements(reapedDead) \cap ReapedToDeath(t) = {}
    PROVE  /\ outbox \in Seq(JobIds) /\ Distinct(outbox)
           /\ Len(outbox) <= MaxReapedBuffer
           /\ Elements(outbox) \subseteq Elements(reapedDead) \cup ReapedToDeath(t)
<1> DEFINE S == ReapedToDeath(t)
<1>1. S \in SUBSET JobIds /\ Cardinality(S) \in Nat
  <2>1. S \in SUBSET JobIds
    BY DEF ReapedToDeath
  <2> QED
    BY <2>1, FiniteIds
<1>2. PICK new \in InMapOrder(S) : outbox = LastOf(reapedDead \o new)
  BY DEF Outboxes
<1> HIDE DEF S
<1> DEFINE c == Cardinality(S)
<1>3. new \in [1..c -> S] /\ \A i, j \in 1..c : i < j => new[i] < new[j]
  BY <1>2 DEF InMapOrder
<1>a. c \in Nat
  BY <1>1
<1> HIDE DEF c
<1>4. new \in Seq(JobIds) /\ Len(new) = c
  BY <1>1, <1>3, <1>a
<1>5. \A i, j \in 1..c : new[i] = new[j] => i = j
  <2> SUFFICES ASSUME NEW i \in 1..c, NEW j \in 1..c, new[i] = new[j], i # j
               PROVE  FALSE
    OBVIOUS
  <2>1. new[i] \in JobIds /\ new[j] \in JobIds
    BY <1>1, <1>3
  <2>2. new[i] \in Int /\ new[j] \in Int
    BY <2>1 DEF JobIds
  <2>3. i < j \/ j < i
    OBVIOUS
  <2>4. new[i] < new[j] \/ new[j] < new[i]
    BY <1>3, <2>3
  <2> QED
    BY <2>2, <2>4
<1> DEFINE all == reapedDead \o new
<1>6. /\ all \in Seq(JobIds)
      /\ Len(all) = Len(reapedDead) + c
      /\ \A i \in 1..Len(all) :
            all[i] = IF i <= Len(reapedDead) THEN reapedDead[i] ELSE new[i - Len(reapedDead)]
  BY <1>4
<1>7. \A i \in 1..Len(all) : all[i] \in Elements(reapedDead) \cup S
  <2> SUFFICES ASSUME NEW i \in 1..Len(all)
               PROVE  all[i] \in Elements(reapedDead) \cup S
    OBVIOUS
  <2>1. CASE i <= Len(reapedDead)
    BY <1>6, <2>1 DEF Elements
  <2>2. CASE i > Len(reapedDead)
    <3>1. i - Len(reapedDead) \in 1..c
      BY <1>6, <1>a, <2>2
    <3> QED
      BY <1>3, <1>6, <2>2, <3>1
  <2> QED
    BY <2>1, <2>2
<1>8. \A i, j \in 1..Len(all) : all[i] = all[j] => i = j
  <2> SUFFICES ASSUME NEW i \in 1..Len(all), NEW j \in 1..Len(all), all[i] = all[j]
               PROVE  i = j
    OBVIOUS
  <2> DEFINE n == Len(reapedDead)
  <2>1. n \in Nat /\ i \in Int /\ j \in Int
    OBVIOUS
  <2>2. \A k \in 1..Len(all) : k > n => k - n \in 1..c /\ all[k] = new[k - n] /\ all[k] \in S
    BY <1>3, <1>6, <1>a
  <2>3. \A k \in 1..Len(all) : k <= n =>
            k \in DOMAIN reapedDead /\ all[k] = reapedDead[k] /\ all[k] \in Elements(reapedDead)
    BY <1>6 DEF Elements
  <2>4. \A x : ~(x \in S /\ x \in Elements(reapedDead))
    BY DEF S
  <2>5. CASE i <= n /\ j <= n
    BY <2>3, <2>5 DEF Distinct
  <2>6. CASE i > n /\ j > n
    <3>1. i - n = j - n
      BY <1>5, <2>2, <2>6
    <3> QED
      BY <2>1, <3>1
  <2>7. CASE (i <= n /\ j > n) \/ (i > n /\ j <= n)
    BY <2>2, <2>3, <2>4, <2>7
  <2> HIDE DEF n
  <2> QED
    BY <2>1, <2>5, <2>6, <2>7
<1> HIDE DEF all
<1>9. CASE Len(all) <= MaxReapedBuffer
  <2>1. outbox = all
    BY <1>2, <1>9 DEF LastOf, all
  <2>2. DOMAIN all = 1..Len(all)
    BY <1>6
  <2> QED
    BY <1>6, <1>7, <1>8, <1>9, <2>1, <2>2 DEF Distinct, Elements, S
<1>10. CASE Len(all) > MaxReapedBuffer
  <2> DEFINE m == Len(all) - MaxReapedBuffer
  <2>1. m \in Nat /\ MaxReapedBuffer \in Nat /\ MaxReapedBuffer + m = Len(all)
    BY <1>6, <1>10, StoreConstants
  <2>a. outbox = LastOf(all)
    BY <1>2 DEF all
  <2>b. ~(Len(all) <= MaxReapedBuffer)
    BY <1>6, <1>10, <2>1
  <2>2. outbox = SubSeq(all, m + 1, Len(all))
    BY <2>a, <2>b DEF LastOf
  <2> HIDE DEF m
  <2>3. /\ outbox \in Seq(JobIds) /\ Len(outbox) = MaxReapedBuffer
        /\ \A i \in 1..MaxReapedBuffer : outbox[i] = all[i + m] /\ i + m \in 1..Len(all)
    BY <1>6, <2>1, <2>2
  <2>4. DOMAIN outbox = 1..MaxReapedBuffer
    BY <2>3
  <2>5. Distinct(outbox)
    <3> SUFFICES ASSUME NEW i \in 1..MaxReapedBuffer, NEW j \in 1..MaxReapedBuffer,
                        outbox[i] = outbox[j]
                 PROVE  i = j
      BY <2>4 DEF Distinct
    <3>1. i + m = j + m
      BY <1>8, <2>3
    <3> QED
      BY <2>1, <3>1
  <2>6. \A i \in DOMAIN outbox : outbox[i] \in Elements(reapedDead) \cup S
    BY <1>7, <2>3, <2>4
  <2> QED
    BY <2>1, <2>3, <2>5, <2>6 DEF Elements, S
<1> QED
  BY <1>6, <1>9, <1>10, StoreConstants

\* What takeReaped keeps: some of the outbox, each entry once, no longer.
LEMMA OutboxKept ==
    ASSUME NEW outbox \in Seq(JobIds), Distinct(outbox), Len(outbox) <= MaxReapedBuffer,
           NEW S \in SUBSET Elements(outbox), NEW kept \in InOrderOf(outbox, S)
    PROVE  /\ kept \in Seq(JobIds) /\ Distinct(kept)
           /\ Len(kept) <= MaxReapedBuffer
           /\ Elements(kept) \subseteq S
<1> DEFINE c == Cardinality(S)
           n == Len(outbox)
<1>1. Elements(outbox) \in SUBSET JobIds
  BY DEF Elements
<1>2. c \in Nat /\ IsFiniteSet(S)
  BY <1>1, FiniteIds
<1>3. /\ kept \in [1..c -> S]
      /\ \A i, j \in 1..c : i < j =>
            \E a, b \in DOMAIN outbox : a < b /\ outbox[a] = kept[i] /\ outbox[b] = kept[j]
  BY DEF InOrderOf
<1>4. n \in Nat /\ DOMAIN outbox = 1..n
  OBVIOUS
<1>5. c <= n
  <2>1. outbox \in Surjection(1..n, Elements(outbox))
    BY <1>4 DEF Surjection, Elements
  <2>2. IsFiniteSet(1..n) /\ Cardinality(1..n) = n
    BY <1>4, FS_Interval
  <2>3. IsFiniteSet(Elements(outbox)) /\ Cardinality(Elements(outbox)) <= n
    BY <2>1, <2>2, FS_Surjection
  <2>4. c <= Cardinality(Elements(outbox))
    BY <2>3, FS_Subset
  <2>5. Cardinality(Elements(outbox)) \in Nat
    BY <2>3, FS_CardinalityType
  <2> QED
    BY <1>2, <1>4, <2>3, <2>4, <2>5
<1> HIDE DEF c, n
<1>6. kept \in Seq(JobIds) /\ Len(kept) = c /\ DOMAIN kept = 1..c
  BY <1>1, <1>2, <1>3
<1>7. \A i, j \in 1..c : i < j => kept[i] # kept[j]
  <2> SUFFICES ASSUME NEW i \in 1..c, NEW j \in 1..c, i < j
               PROVE  kept[i] # kept[j]
    OBVIOUS
  <2>1. PICK a \in 1..n, b \in 1..n : a < b /\ outbox[a] = kept[i] /\ outbox[b] = kept[j]
    BY <1>3, <1>4
  <2>2. a # b
    BY <1>4, <2>1
  <2> QED
    BY <1>4, <2>1, <2>2 DEF Distinct
<1>8. Distinct(kept)
  <2> SUFFICES ASSUME NEW i \in 1..c, NEW j \in 1..c, kept[i] = kept[j], i # j
               PROVE  FALSE
    BY <1>6 DEF Distinct
  <2>1. i < j \/ j < i
    BY <1>2
  <2> QED
    BY <1>7, <2>1
<1>9. Elements(kept) \subseteq S
  BY <1>3, <1>6 DEF Elements
<1>10. Len(kept) <= MaxReapedBuffer
  BY <1>2, <1>4, <1>5, <1>6, StoreConstants DEF n
<1> QED
  BY <1>6, <1>8, <1>9, <1>10

-----------------------------------------------------------------------------
(***************************************************************************)
(* What a call can do to one record.                                       *)
(***************************************************************************)
Same(id) == jobs'[id].opts = jobs[id].opts /\ jobs'[id].attempts = jobs[id].attempts

Stays(id) == Same(id) /\ jobs'[id].status = jobs[id].status /\ jobs'[id].lockedBy = jobs[id].lockedBy

Leaves(id) ==
    /\ Same(id) /\ jobs[id].status = "running"
    /\ \/ jobs'[id].status \in {"completed", "dead"}
       \/ jobs'[id].status \in Waiting /\ jobs[id].attempts < jobs[id].opts.maxAttempts

Taken(id) ==
    /\ jobs[id].status \in Waiting \cup {"running"}
    /\ jobs[id].attempts < jobs[id].opts.maxAttempts
    /\ jobs'[id].status = "running"
    /\ jobs'[id].opts = jobs[id].opts /\ jobs'[id].attempts = jobs[id].attempts + 1

Cancelled(id) ==
    Same(id) /\ jobs[id].status \in Waiting \cup {"running"} /\ jobs'[id].status = "cancelled"

\* The moves of a call that neither inserts nor sweeps.
Moves(id) == Stays(id) \/ Leaves(id) \/ Taken(id) \/ Cancelled(id)

\* Reaping moves expired records only.
LEMMA ReapMoves ==
    ASSUME JobsSound, NEW t \in Time, jobs' = Reaped(t)
    PROVE  JobsSound' /\ \A id \in JobIds : Moves(id)
<1>1. JobsSound'
  BY ReapedTable DEF JobsSound, Sound, StoredJob
<1>2. ASSUME NEW id \in JobIds
      PROVE  Moves(id)
  <2>1. Sound(jobs[id])
    BY DEF JobsSound
  <2>2. CASE Reaped(t)[id] = jobs[id]
    BY <2>2 DEF Moves, Stays, Same
  <2>3. CASE Expired(jobs[id], t) /\ Exhausted(jobs[id]) /\ Reaped(t)[id].status = "dead"
    BY <2>3, ReapedTable DEF Moves, Leaves, Same, Expired
  <2>4. CASE Expired(jobs[id], t) /\ ~Exhausted(jobs[id]) /\ Reaped(t)[id].status = "queued"
    <3>1. jobs[id].attempts \in Nat /\ jobs[id].opts.maxAttempts \in Nat
      BY <2>1, <2>4, PresentOpts DEF Sound, StoredJob, Expired
    <3>2. jobs[id].attempts < jobs[id].opts.maxAttempts
      BY <2>4, <3>1 DEF Exhausted
    <3> QED
      BY <2>4, <3>2, ReapedTable DEF Moves, Leaves, Same, Expired, Waiting
  <2> QED
    BY <2>2, <2>3, <2>4, ReapedTable
<1> QED
  BY <1>1, <1>2

\* Claiming reaps, and then leases one waiting record.
LEMMA ClaimMoves ==
    ASSUME JobsSound, NEW t \in Time, NEW w \in Workers, NEW queue \in Queues, NEW c \in JobIds,
           ClaimJob(c, queue, w, t)
    PROVE  JobsSound' /\ \A id \in JobIds : Moves(id)
<1>1. /\ jobs' = [Reaped(t) EXCEPT ![c] = Leased(Reaped(t)[c], w, t)]
      /\ Reaped(t)[c].status \in Waiting
  BY DEF ClaimJob, BestIn, RunnableIn, Waiting
<1>2. /\ Reaped(t) \in [JobIds -> StoredJob]
      /\ \A id \in JobIds : Sound(Reaped(t)[id])
  BY ReapedTable
<1>3. /\ Sound(Leased(Reaped(t)[c], w, t))
      /\ Leased(Reaped(t)[c], w, t).status = "running"
      /\ Leased(Reaped(t)[c], w, t).opts = Reaped(t)[c].opts
      /\ Leased(Reaped(t)[c], w, t).attempts = Reaped(t)[c].attempts + 1
  BY <1>1, <1>2, LeaseSound
<1>4. jobs' \in [JobIds -> StoredJob]
  BY <1>1, <1>2, <1>3 DEF Sound
<1>5. /\ jobs'[c] = Leased(Reaped(t)[c], w, t)
      /\ \A id \in JobIds : id # c => jobs'[id] = Reaped(t)[id]
  BY <1>1, <1>2
<1>6. \A id \in JobIds : Sound(jobs'[id])
  BY <1>2, <1>3, <1>5
<1>7. JobsSound'
  BY <1>4, <1>6 DEF JobsSound, Sound, StoredJob
<1>8. Moves(c)
  <2>1. Reaped(t)[c].attempts < Reaped(t)[c].opts.maxAttempts
    BY <1>1, <1>2 DEF Sound, Waiting
  <2>2. Reaped(t)[c].opts = jobs[c].opts /\ Reaped(t)[c].attempts = jobs[c].attempts
    BY ReapedTable
  <2>3. jobs[c].status \in Waiting \cup {"running"}
    BY <1>1, ReapedTable DEF Expired, Waiting
  <2> QED
    BY <1>3, <1>5, <2>1, <2>2, <2>3 DEF Moves, Taken
<1>9. ASSUME NEW id \in JobIds, id # c
      PROVE  Moves(id)
  <2>1. Sound(jobs[id])
    BY DEF JobsSound
  <2>2. CASE Reaped(t)[id] = jobs[id]
    BY <1>5, <1>9, <2>2 DEF Moves, Stays, Same
  <2>3. CASE Expired(jobs[id], t) /\ Exhausted(jobs[id]) /\ Reaped(t)[id].status = "dead"
    BY <1>5, <1>9, <2>3, ReapedTable DEF Moves, Leaves, Same, Expired
  <2>4. CASE Expired(jobs[id], t) /\ ~Exhausted(jobs[id]) /\ Reaped(t)[id].status = "queued"
    <3>1. jobs[id].attempts \in Nat /\ jobs[id].opts.maxAttempts \in Nat
      BY <2>1, <2>4, PresentOpts DEF Sound, StoredJob, Expired
    <3>2. jobs[id].attempts < jobs[id].opts.maxAttempts
      BY <2>4, <3>1 DEF Exhausted
    <3> QED
      BY <1>5, <1>9, <2>4, <3>2, ReapedTable DEF Moves, Leaves, Same, Expired, Waiting
  <2> QED
    BY <2>2, <2>3, <2>4, ReapedTable
<1> QED
  BY <1>7, <1>8, <1>9

\* heartbeat, complete, fail and cancel replace one record by a sound one.
LEMMA UpdateMoves ==
    ASSUME JobsSound, NEW c \in JobIds, NEW new, Sound(new),
           jobs' = [jobs EXCEPT ![c] = new],
           new.opts = jobs[c].opts, new.attempts = jobs[c].attempts,
           \/ new.status = jobs[c].status /\ new.lockedBy = jobs[c].lockedBy
           \/ jobs[c].status = "running" /\ new.status \in {"completed", "dead"}
           \/ jobs[c].status = "running" /\ new.status \in Waiting
              /\ jobs[c].attempts < jobs[c].opts.maxAttempts
           \/ jobs[c].status \in Waiting \cup {"running"} /\ new.status = "cancelled"
    PROVE  JobsSound' /\ \A id \in JobIds : Moves(id)
<1>1. jobs \in [JobIds -> StoredJob] /\ new \in StoredJob
  BY DEF JobsSound, Sound
<1>2. jobs' \in [JobIds -> StoredJob]
  BY <1>1
<1>3. jobs'[c] = new /\ \A id \in JobIds : id # c => jobs'[id] = jobs[id]
  BY <1>1
<1>4. \A id \in JobIds : Sound(jobs'[id])
  BY <1>3 DEF JobsSound
<1>5. JobsSound'
  BY <1>2, <1>4 DEF JobsSound, Sound, StoredJob
<1>6. Moves(c)
  BY <1>3 DEF Moves, Stays, Leaves, Cancelled, Same
<1>7. \A id \in JobIds : id # c => Moves(id)
  BY <1>3 DEF Moves, Stays, Same
<1> QED
  BY <1>5, <1>6, <1>7

\* The calls that answer about one record, by the owner of the claim or by
\* whoever cancels.
UpdateCall(t) ==
    \/ \E id \in JobIds, worker \in Workers, attempt \in Attempts :
          \/ Heartbeat(id, worker, attempt, t)
          \/ Complete(id, worker, attempt, t)
          \/ \E status \in {"delayed", "queued", "dead"}, runAt \in Time :
                Fail(id, worker, attempt, status, runAt, t)
    \/ \E id \in JobIds : Cancel(id, t)

LEMMA UpdateCallMoves ==
    ASSUME JobsSound, NEW t \in Time, UpdateCall(t)
    PROVE  /\ JobsSound' /\ \A id \in JobIds : Moves(id)
           /\ UNCHANGED <<idem, reapedDead, issued>>
<1>0. t \in Int
  BY StoreConstants
<1>1. ASSUME NEW id \in JobIds, NEW worker \in Workers, NEW attempt \in Attempts,
             Heartbeat(id, worker, attempt, t)
      PROVE  JobsSound' /\ \A j \in JobIds : Moves(j)
  <2> DEFINE new == [jobs[id] EXCEPT !.leaseUntil = t + jobs[id].opts.leaseMs, !.updatedAt = t]
  <2>1. Sound(jobs[id]) /\ jobs[id] \in StoredJob /\ jobs[id].status = "running"
    BY <1>1 DEF JobsSound, Sound, Heartbeat, OwnedRunning
  <2>2. Sound(new)
    BY <2>1, BeatSound
  <2>3. new.opts = jobs[id].opts /\ new.attempts = jobs[id].attempts
        /\ new.status = jobs[id].status /\ new.lockedBy = jobs[id].lockedBy
    BY <2>1 DEF StoredJob
  <2>4. jobs' = [jobs EXCEPT ![id] = new]
    BY <1>1 DEF Heartbeat
  <2> HIDE DEF new
  <2> QED
    BY <2>2, <2>3, <2>4, UpdateMoves
<1>2. ASSUME NEW id \in JobIds, NEW worker \in Workers, NEW attempt \in Attempts,
             Complete(id, worker, attempt, t)
      PROVE  JobsSound' /\ \A j \in JobIds : Moves(j)
  <2> DEFINE new == Released(jobs[id], "completed", jobs[id].runAt, t)
  <2>1. Sound(jobs[id]) /\ jobs[id].status = "running" /\ jobs[id].runAt \in Int
    BY <1>2 DEF JobsSound, Complete, OwnedRunning, StoredJob
  <2>2. /\ Sound(new) /\ new.status = "completed"
        /\ new.opts = jobs[id].opts /\ new.attempts = jobs[id].attempts
    BY <2>1, ReleaseSound DEF Terminal
  <2>3. jobs' = [jobs EXCEPT ![id] = new]
    BY <1>2 DEF Complete
  <2> HIDE DEF new
  <2> QED
    BY <2>1, <2>2, <2>3, UpdateMoves
<1>3. ASSUME NEW id \in JobIds, NEW worker \in Workers, NEW attempt \in Attempts,
             NEW status \in {"delayed", "queued", "dead"}, NEW runAt \in Time,
             Fail(id, worker, attempt, status, runAt, t)
      PROVE  JobsSound' /\ \A j \in JobIds : Moves(j)
  <2> DEFINE new == Failed(jobs[id], status, runAt, t)
  <2>1. Sound(jobs[id]) /\ jobs[id].status = "running"
    BY <1>3 DEF JobsSound, Fail, OwnedRunning
  <2>2. /\ Sound(new) /\ new.status = IF Exhausted(jobs[id]) THEN "dead" ELSE status
        /\ new.opts = jobs[id].opts /\ new.attempts = jobs[id].attempts
    BY <2>1, FailSound
  <2>3. jobs' = [jobs EXCEPT ![id] = new]
    BY <1>3 DEF Fail
  <2>4. jobs[id].attempts \in Nat /\ jobs[id].opts.maxAttempts \in Nat
    BY <2>1, PresentOpts DEF Sound, StoredJob
  <2>5. \/ new.status = "dead"
        \/ new.status \in Waiting /\ jobs[id].attempts < jobs[id].opts.maxAttempts
    BY <2>2, <2>4 DEF Exhausted, Waiting
  <2> HIDE DEF new
  <2> QED
    BY <2>1, <2>2, <2>3, <2>5, UpdateMoves
<1>4. ASSUME NEW id \in JobIds, Cancel(id, t)
      PROVE  JobsSound' /\ \A j \in JobIds : Moves(j)
  <2> DEFINE new == Released(jobs[id], "cancelled", jobs[id].runAt, t)
  <2>1. /\ Sound(jobs[id]) /\ jobs[id].runAt \in Int /\ jobs[id].status # "absent"
        /\ jobs[id].status \in Waiting \cup {"running"}
    BY <1>4 DEF JobsSound, Cancel, StoredJob, Statuses, Waiting, Terminal
  <2>a. "cancelled" \in Terminal
    BY DEF Terminal
  <2>2. /\ Sound(new) /\ new.status = "cancelled"
        /\ new.opts = jobs[id].opts /\ new.attempts = jobs[id].attempts
    BY <2>1, <2>a, ReleaseSound
  <2>3. jobs' = [jobs EXCEPT ![id] = new]
    BY <1>4 DEF Cancel
  <2> HIDE DEF new
  <2> QED
    BY <2>1, <2>2, <2>3, UpdateMoves
<1>5. UNCHANGED <<idem, reapedDead, issued>>
  BY DEF UpdateCall, Heartbeat, Complete, Fail, Cancel
<1> QED
  BY <1>1, <1>2, <1>3, <1>4, <1>5 DEF UpdateCall

\* The calls that reap: claim, get, list, takeReaped.
ReapingCall(t) ==
    \/ \E queue \in Queues, worker \in Workers : Claim(queue, worker, t)
    \/ Read(t)
    \/ \E queue \in Queues : TakeReaped(queue, t)

LEMMA ReapingCallMoves ==
    ASSUME JobsSound, NEW t \in Time, ReapingCall(t)
    PROVE  /\ JobsSound' /\ \A id \in JobIds : Moves(id)
           /\ UNCHANGED <<idem, issued>>
<1>1. ASSUME NEW queue \in Queues, NEW worker \in Workers, NEW id \in JobIds,
             ClaimJob(id, queue, worker, t)
      PROVE  JobsSound' /\ \A j \in JobIds : Moves(j)
  BY <1>1, ClaimMoves
<1>2. ASSUME jobs' = Reaped(t)
      PROVE  JobsSound' /\ \A j \in JobIds : Moves(j)
  BY <1>2, ReapMoves
<1>3. \/ jobs' = Reaped(t)
      \/ \E queue \in Queues, worker \in Workers, id \in JobIds : ClaimJob(id, queue, worker, t)
  BY DEF ReapingCall, Claim, ClaimNothing, Read, ReapLeases, TakeReaped, TakeFrom
<1>4. UNCHANGED <<idem, issued>>
  BY DEF ReapingCall, Claim, ClaimNothing, ClaimJob, Read, ReapLeases, TakeReaped, TakeFrom
<1> QED
  BY <1>1, <1>2, <1>3, <1>4

-----------------------------------------------------------------------------
(***************************************************************************)
(* put: the sweep and the insertion.                                       *)
(***************************************************************************)
SoundTable(table) == table \in [JobIds -> StoredJob] /\ \A id \in JobIds : Sound(table[id])

ExactOn(table, index) ==
    /\ index \in [Queues \X Keys -> JobIds \cup {NoJob}]
    /\ \A slot \in Queues \X Keys, id \in JobIds :
          index[slot] = id <=> table[id].status # "absent" /\ Slot(table[id]) = slot

Sweeps(id) == jobs[id].status \in Terminal /\ jobs'[id] = Absent

Adds(id) ==
    /\ id = issued + 1 /\ issued' = issued + 1
    /\ jobs[id].status = "absent" /\ jobs'[id].status \in Waiting
    /\ jobs'[id].attempts = 0 /\ jobs'[id].opts \in EnqueueOpts

\* The sweep keeps records sound and removes exactly the terminal records
\* past their retention.
LEMMA PurgeTable ==
    ASSUME JobsSound, NEW t \in Time
    PROVE  /\ SoundTable(PurgedJobs(t))
           /\ \A id \in JobIds :
                \/ PurgedJobs(t)[id] = jobs[id] /\ id \notin Purgeable(t)
                \/ id \in Purgeable(t) /\ PurgedJobs(t)[id] = Absent /\ jobs[id].status \in Terminal
<1>1. \A id \in JobIds :
          \/ PurgedJobs(t)[id] = jobs[id] /\ id \notin Purgeable(t)
          \/ id \in Purgeable(t) /\ PurgedJobs(t)[id] = Absent /\ jobs[id].status \in Terminal
  BY DEF PurgedJobs, Purgeable
<1>2. \A id \in JobIds : Sound(PurgedJobs(t)[id])
  BY <1>1, AbsentSound DEF JobsSound
<1>3. PurgedJobs(t) = [id \in JobIds |-> PurgedJobs(t)[id]]
  BY DEF PurgedJobs
<1>4. \A id \in JobIds : PurgedJobs(t)[id] \in StoredJob
  BY <1>2 DEF Sound
<1>5. PurgedJobs(t) \in [JobIds -> StoredJob]
  BY <1>3, <1>4
<1> QED
  BY <1>1, <1>2, <1>5 DEF SoundTable

\* The sweep of the index matches the sweep of the records.
LEMMA PurgeExact ==
    ASSUME JobsSound, NEW t \in Time, ExactOn(jobs, idem)
    PROVE  /\ ExactOn(PurgedJobs(t), PurgedIdem(t))
           /\ \A slot \in Queues \X Keys : idem[slot] = NoJob => PurgedIdem(t)[slot] = NoJob
<1>1. \A slot \in Queues \X Keys : PurgedIdem(t)[slot] =
          IF \E id \in Purgeable(t) : Slot(jobs[id]) = slot THEN NoJob ELSE idem[slot]
  BY DEF PurgedIdem
<1>2. PurgedIdem(t) \in [Queues \X Keys -> JobIds \cup {NoJob}]
  BY DEF PurgedIdem, ExactOn
<1>3. NoJob \notin JobIds
  BY DEF NoJob, JobIds
<1>4. Absent.status = "absent"
  BY DEF Absent
<1>5. ASSUME NEW slot \in Queues \X Keys, NEW id \in JobIds
      PROVE  PurgedIdem(t)[slot] = id <=>
                PurgedJobs(t)[id].status # "absent" /\ Slot(PurgedJobs(t)[id]) = slot
  <2>1. idem[slot] = id <=> jobs[id].status # "absent" /\ Slot(jobs[id]) = slot
    BY DEF ExactOn
  <2>2. CASE \E j \in Purgeable(t) : Slot(jobs[j]) = slot
    <3>1. PICK j \in Purgeable(t) : Slot(jobs[j]) = slot
      BY <2>2
    <3>2. j \in JobIds /\ jobs[j].status # "absent"
      BY DEF Purgeable, Terminal
    <3>3. idem[slot] = j
      BY <3>1, <3>2 DEF ExactOn
    <3>4. PurgedIdem(t)[slot] = NoJob
      BY <1>1, <2>2
    <3>5. CASE id = j
      BY <1>3, <1>4, <3>4, <3>5, PurgeTable
    <3>6. CASE id # j
      BY <1>3, <1>4, <2>1, <3>3, <3>4, <3>6, PurgeTable
    <3> QED
      BY <3>5, <3>6
  <2>3. CASE ~ \E j \in Purgeable(t) : Slot(jobs[j]) = slot
    <3>1. PurgedIdem(t)[slot] = idem[slot]
      BY <1>1, <2>3
    <3>2. CASE id \in Purgeable(t)
      BY <1>4, <2>1, <2>3, <3>1, <3>2, PurgeTable
    <3>3. CASE id \notin Purgeable(t)
      BY <2>1, <3>1, <3>3, PurgeTable
    <3> QED
      BY <3>2, <3>3
  <2> QED
    BY <2>2, <2>3
<1> QED
  BY <1>1, <1>2, <1>5 DEF ExactOn

\* Inserting under a fresh identity and a free key keeps records sound, the
\* index exact, and adds one record.
LEMMA InsertInto ==
    ASSUME NEW opts \in EnqueueOpts, NEW created \in Time, NEW t \in Time,
           NEW table, NEW index, SoundTable(table), ExactOn(table, index),
           Insert(opts, created, t, table, index), issued \in 0..MaxJobs,
           table[issued + 1].status = "absent",
           opts.key # NoKey => index[<<opts.queue, opts.key>>] = NoJob
    PROVE  /\ issued' \in 0..MaxJobs /\ issued + 1 \in JobIds
           /\ SoundTable(jobs') /\ ExactOn(jobs', idem')
           /\ \A id \in JobIds : id # issued + 1 => jobs'[id] = table[id]
           /\ jobs'[issued + 1] = Inserted(opts, created, t)
           /\ Present(jobs') = Present(table) \cup {issued + 1}
<1> DEFINE n == issued + 1
           new == Inserted(opts, created, t)
<1>1. n \in JobIds /\ issued' \in 0..MaxJobs /\ n # NoJob
  BY StoreConstants DEF Insert, JobIds, NoJob
<1>2. jobs' = [table EXCEPT ![n] = new]
  BY DEF Insert
<1>3. Sound(new) /\ new.status \in Waiting /\ new.status # "absent" /\ new.opts = opts
  BY InsertSound DEF Inserted, Waiting
<1>4. opts \in OptionsType
  BY StoreConstants
<1>a. opts.queue \in Queues /\ opts.key \in Keys \cup {NoKey}
  BY <1>4 DEF OptionsType
<1> HIDE DEF new, n
<1>5. table \in [JobIds -> StoredJob] /\ new \in StoredJob
  BY <1>3 DEF SoundTable, Sound
<1>6. jobs'[n] = new /\ \A id \in JobIds : id # n => jobs'[id] = table[id]
  BY <1>1, <1>2, <1>5
<1>7. SoundTable(jobs')
  <2>1. jobs' \in [JobIds -> StoredJob]
    BY <1>2, <1>5
  <2>2. \A id \in JobIds : Sound(jobs'[id])
    BY <1>3, <1>6 DEF SoundTable
  <2> QED
    BY <2>1, <2>2 DEF SoundTable
<1>8. Present(jobs') = Present(table) \cup {n}
  BY <1>1, <1>3, <1>6 DEF Present
<1>9. ExactOn(jobs', idem')
  <2>1. CASE opts.key = NoKey
    <3>1. idem' = index
      BY <2>1 DEF Insert
    <3>2. \A slot \in Queues \X Keys : Slot(new) # slot
      BY <1>3, <2>1, StoreConstants DEF Slot
    <3>3. \A slot \in Queues \X Keys : index[slot] # n
      BY <1>1 DEF ExactOn, n
    <3> QED
      BY <1>6, <3>1, <3>2, <3>3 DEF ExactOn
  <2>2. CASE opts.key # NoKey
    <3> DEFINE mine == <<opts.queue, opts.key>>
    <3>1. mine \in Queues \X Keys
      BY <1>a, <2>2
    <3>2. idem' = [index EXCEPT ![mine] = n]
      BY <2>2 DEF Insert, n
    <3>3. Slot(new) = mine
      BY <1>3 DEF Slot
    <3>4. \A slot \in Queues \X Keys : index[slot] # n
      BY <1>1 DEF ExactOn, n
    <3>5. \A id \in JobIds : ~(table[id].status # "absent" /\ Slot(table[id]) = mine)
      BY <2>2, <3>1 DEF ExactOn, NoJob, JobIds
    <3> HIDE DEF mine
    <3>6. idem' \in [Queues \X Keys -> JobIds \cup {NoJob}]
      BY <1>1, <3>2 DEF ExactOn
    <3>7. idem'[mine] = n /\ \A slot \in Queues \X Keys : slot # mine => idem'[slot] = index[slot]
      BY <3>1, <3>2 DEF ExactOn
    <3>8. ASSUME NEW slot \in Queues \X Keys, NEW id \in JobIds
          PROVE  idem'[slot] = id <=> jobs'[id].status # "absent" /\ Slot(jobs'[id]) = slot
      <4>1. CASE slot = mine /\ id = n
        BY <1>3, <1>6, <3>3, <3>7, <4>1
      <4>2. CASE slot = mine /\ id # n
        BY <1>6, <3>5, <3>7, <4>2
      <4>3. CASE slot # mine /\ id = n
        BY <1>6, <3>3, <3>4, <3>7, <4>3
      <4>4. CASE slot # mine /\ id # n
        BY <1>6, <3>7, <4>4 DEF ExactOn
      <4> QED
        BY <4>1, <4>2, <4>3, <4>4
    <3> QED
      BY <3>6, <3>8 DEF ExactOn
  <2> QED
    BY <2>1, <2>2
<1> QED
  BY <1>1, <1>6, <1>7, <1>8, <1>9 DEF n, new

-----------------------------------------------------------------------------
(***************************************************************************)
(* The inductive invariant.                                                *)
(***************************************************************************)
\* StoreInv, reorganised record by record.
Parts ==
    /\ SoundTable(jobs) /\ ExactOn(jobs, idem)
    /\ reapedDead \in Seq(JobIds) /\ Distinct(reapedDead)
    /\ issued \in 0..MaxJobs
    /\ \A id \in Elements(reapedDead) : jobs[id].status \in {"dead", "absent"}
    /\ FreshIdsUnused /\ WithinCapacity

LEMMA InvIsParts == StoreInv <=> Parts
<1>1. StoreInv => Parts
  BY DEF StoreInv, Parts, StoreShape, LeaseIffRunning, BudgetKept, IndexExact, OutboxOfTheDead,
         Distinct, SoundTable, ExactOn, Sound
<1>2. Parts => StoreInv
  BY DEF StoreInv, Parts, StoreShape, LeaseIffRunning, BudgetKept, IndexExact, OutboxOfTheDead,
         Distinct, SoundTable, ExactOn, Sound
<1> QED
  BY <1>1, <1>2

\* A call that moves records without inserting or sweeping keeps the index
\* exact and the records the same in number.
LEMMA MovesKeepShape ==
    ASSUME Parts, JobsSound', \A id \in JobIds : Moves(id), UNCHANGED <<idem, issued>>
    PROVE  /\ ExactOn(jobs, idem)' /\ SoundTable(jobs)'
           /\ Present(jobs)' = Present(jobs)
           /\ \A id \in JobIds : jobs'[id].status = "absent" <=> jobs[id].status = "absent"
           /\ \A id \in JobIds : jobs[id].status \in Terminal => jobs'[id].status = jobs[id].status
<1>1. ASSUME NEW id \in JobIds
      PROVE  /\ jobs'[id].opts = jobs[id].opts
             /\ jobs'[id].status = "absent" <=> jobs[id].status = "absent"
             /\ jobs[id].status \in Terminal => jobs'[id].status = jobs[id].status
  BY <1>1 DEF Moves, Stays, Leaves, Taken, Cancelled, Same, Waiting, Terminal
<1>2. SoundTable(jobs)'
  BY DEF JobsSound, SoundTable
<1>3. ExactOn(jobs, idem)'
  BY <1>1 DEF Parts, ExactOn, Slot
<1>4. Present(jobs)' = Present(jobs)
  BY <1>1 DEF Present
<1> QED
  BY <1>1, <1>2, <1>3, <1>4

\* Calls about one record keep the invariant.
LEMMA UpdateKeeps ==
    ASSUME Parts, NEW t \in Time, UpdateCall(t)
    PROVE  Parts'
<1>1. JobsSound
  BY DEF Parts, JobsSound, SoundTable
<1>2. /\ JobsSound' /\ \A id \in JobIds : Moves(id)
      /\ UNCHANGED <<idem, reapedDead, issued>>
  BY <1>1, UpdateCallMoves
<1>3. /\ ExactOn(jobs, idem)' /\ SoundTable(jobs)'
      /\ Present(jobs)' = Present(jobs)
      /\ \A id \in JobIds : jobs'[id].status = "absent" <=> jobs[id].status = "absent"
      /\ \A id \in JobIds : jobs[id].status \in Terminal => jobs'[id].status = jobs[id].status
  BY <1>2, MovesKeepShape
<1>4. Elements(reapedDead)' = Elements(reapedDead) /\ Elements(reapedDead) \subseteq JobIds
  BY <1>2 DEF Elements, Parts
<1>5. \A id \in Elements(reapedDead) : jobs'[id].status \in {"dead", "absent"}
  BY <1>3, <1>4 DEF Parts, Terminal
<1>6. FreshIdsUnused'
  BY <1>2, <1>3, <1>4 DEF FreshIdsUnused, Parts
<1>7. WithinCapacity'
  BY <1>2, <1>3 DEF WithinCapacity, Parts
<1> QED
  BY <1>2, <1>3, <1>4, <1>5, <1>6, <1>7 DEF Parts, Distinct

\* A record that the reaper lets die is dead after every call that reaps.
LEMMA ReapedStaysDead ==
    ASSUME Parts, NEW t \in Time, ReapingCall(t), NEW id \in ReapedToDeath(t)
    PROVE  jobs[id].status = "running" /\ jobs'[id].status = "dead"
<1>1. JobsSound /\ id \in JobIds /\ Expired(jobs[id], t) /\ Exhausted(jobs[id])
  BY DEF Parts, JobsSound, SoundTable, ReapedToDeath
<1>2. Reaped(t)[id].status = "dead" /\ jobs[id].status = "running"
  BY <1>1, ReapedTable DEF Expired
<1>3. CASE jobs' = Reaped(t)
  BY <1>2, <1>3
<1>4. ASSUME NEW queue \in Queues, NEW w \in Workers, NEW c \in JobIds, ClaimJob(c, queue, w, t)
      PROVE  jobs'[id].status = "dead"
  <2>1. c # id
    BY <1>2, <1>4 DEF ClaimJob, BestIn, RunnableIn
  <2>2. Reaped(t) \in [JobIds -> StoredJob]
    BY <1>1, ReapedTable
  <2>3. jobs'[id] = Reaped(t)[id]
    BY <1>1, <1>4, <2>1, <2>2 DEF ClaimJob
  <2> QED
    BY <1>2, <2>3
<1>5. \/ jobs' = Reaped(t)
      \/ \E queue \in Queues, w \in Workers, c \in JobIds : ClaimJob(c, queue, w, t)
  BY DEF ReapingCall, Claim, ClaimNothing, Read, ReapLeases, TakeReaped, TakeFrom
<1> QED
  BY <1>2, <1>3, <1>4, <1>5

\* The outbox after a call that reaps.
LEMMA ReapingOutbox ==
    ASSUME Parts, NEW t \in Time, ReapingCall(t)
    PROVE  /\ reapedDead' \in Seq(JobIds) /\ Distinct(reapedDead')
           /\ Len(reapedDead') <= MaxReapedBuffer
           /\ Elements(reapedDead') \subseteq Elements(reapedDead) \cup ReapedToDeath(t)
<1>1. \A id \in Elements(reapedDead) : id \notin ReapedToDeath(t)
  BY DEF Parts, ReapedToDeath, Expired
<1>2. Elements(reapedDead) \cap ReapedToDeath(t) = {}
  BY <1>1
<1>3. reapedDead \in Seq(JobIds) /\ Distinct(reapedDead)
  BY DEF Parts
<1>4. \A outbox \in Outboxes(t) :
           /\ outbox \in Seq(JobIds) /\ Distinct(outbox)
           /\ Len(outbox) <= MaxReapedBuffer
           /\ Elements(outbox) \subseteq Elements(reapedDead) \cup ReapedToDeath(t)
  BY <1>2, <1>3, OutboxAfterReap
<1>5. CASE reapedDead' \in Outboxes(t)
  BY <1>4, <1>5
<1>6. ASSUME NEW queue \in Queues, TakeReaped(queue, t)
      PROVE  /\ reapedDead' \in Seq(JobIds) /\ Distinct(reapedDead')
             /\ Len(reapedDead') <= MaxReapedBuffer
             /\ Elements(reapedDead') \subseteq Elements(reapedDead) \cup ReapedToDeath(t)
  <2>1. PICK outbox \in Outboxes(t) :
            reapedDead' \in InOrderOf(outbox, KeptFrom(outbox, Reaped(t), queue))
    BY <1>6 DEF TakeReaped, TakeFrom
  <2>2. KeptFrom(outbox, Reaped(t), queue) \in SUBSET Elements(outbox)
    BY DEF KeptFrom
  <2>3. /\ reapedDead' \in Seq(JobIds) /\ Distinct(reapedDead')
        /\ Len(reapedDead') <= MaxReapedBuffer
        /\ Elements(reapedDead') \subseteq KeptFrom(outbox, Reaped(t), queue)
    BY <1>4, <2>1, <2>2, OutboxKept
  <2> QED
    BY <1>4, <2>2, <2>3
<1> QED
  BY <1>5, <1>6 DEF ReapingCall, Claim, ClaimNothing, ClaimJob, Read, ReapLeases

\* Calls that reap keep the invariant.
LEMMA ReapingKeeps ==
    ASSUME Parts, NEW t \in Time, ReapingCall(t)
    PROVE  Parts'
<1>1. JobsSound
  BY DEF Parts, JobsSound, SoundTable
<1>2. JobsSound' /\ (\A id \in JobIds : Moves(id)) /\ UNCHANGED <<idem, issued>>
  BY <1>1, ReapingCallMoves
<1>3. /\ ExactOn(jobs, idem)' /\ SoundTable(jobs)'
      /\ Present(jobs)' = Present(jobs)
      /\ \A id \in JobIds : jobs'[id].status = "absent" <=> jobs[id].status = "absent"
      /\ \A id \in JobIds : jobs[id].status \in Terminal => jobs'[id].status = jobs[id].status
  BY <1>2, MovesKeepShape
<1>4. /\ reapedDead' \in Seq(JobIds) /\ Distinct(reapedDead')
      /\ Len(reapedDead') <= MaxReapedBuffer
      /\ Elements(reapedDead') \subseteq Elements(reapedDead) \cup ReapedToDeath(t)
  BY ReapingOutbox
<1>5. Elements(reapedDead) \subseteq JobIds
  BY DEF Elements, Parts
<1>6. \A id \in Elements(reapedDead') : jobs'[id].status \in {"dead", "absent"}
  <2> SUFFICES ASSUME NEW id \in Elements(reapedDead')
               PROVE  jobs'[id].status \in {"dead", "absent"}
    OBVIOUS
  <2>1. CASE id \in Elements(reapedDead)
    <3>1. id \in JobIds /\ jobs[id].status \in {"dead", "absent"}
      BY <1>5, <2>1 DEF Parts
    <3> QED
      BY <1>3, <3>1 DEF Terminal
  <2>2. CASE id \in ReapedToDeath(t)
    BY <2>2, ReapedStaysDead
  <2> QED
    BY <1>4, <2>1, <2>2
<1>7. FreshIdsUnused'
  <2>1. ASSUME NEW id \in JobIds, id > issued
        PROVE  jobs'[id].status = "absent" /\ id \notin Elements(reapedDead')
    <3>1. jobs[id].status = "absent" /\ id \notin Elements(reapedDead)
      BY <2>1 DEF Parts, FreshIdsUnused
    <3>2. id \notin ReapedToDeath(t)
      BY <3>1 DEF ReapedToDeath, Expired
    <3> QED
      BY <1>3, <1>4, <3>1, <3>2
  <2> QED
    BY <1>2, <2>1 DEF FreshIdsUnused, Elements
<1>8. WithinCapacity'
  BY <1>3, <1>4 DEF WithinCapacity, Parts
<1> QED
  BY <1>2, <1>3, <1>4, <1>6, <1>7, <1>8 DEF Parts, Distinct, Elements

\* What put does to each record, and that it keeps the invariant.
LEMMA PutKeeps ==
    ASSUME Parts, NEW opts \in EnqueueOpts, NEW created \in Time, NEW t \in Time,
           Put(opts, created, t)
    PROVE  /\ Parts'
           /\ \A id \in JobIds : Stays(id) \/ Sweeps(id) \/ Adds(id)
           /\ issued' # issued => issued' = issued + 1 /\ issued' \in JobIds /\ Adds(issued')
           /\ UNCHANGED reapedDead
<1>1. JobsSound /\ ExactOn(jobs, idem) /\ SoundTable(jobs) /\ issued \in 0..MaxJobs
      /\ reapedDead \in Seq(JobIds) /\ Distinct(reapedDead)
  BY DEF Parts, JobsSound, SoundTable
<1>2. UNCHANGED reapedDead /\ Elements(reapedDead) \subseteq JobIds
  BY DEF Put, Elements, Parts
<1>3. opts.key # NoKey => idem[<<opts.queue, opts.key>>] = NoJob
  <2> SUFFICES ASSUME opts.key # NoKey, idem[<<opts.queue, opts.key>>] # NoJob
               PROVE  FALSE
    OBVIOUS
  <2>1. opts \in OptionsType
    BY StoreConstants
  <2>2. <<opts.queue, opts.key>> \in Queues \X Keys
    BY <2>1 DEF OptionsType
  <2>3. PICK id \in JobIds : idem[<<opts.queue, opts.key>>] = id
    BY <1>1, <2>2 DEF ExactOn
  <2>4. jobs[id].status # "absent"
    BY <1>1, <2>2, <2>3 DEF ExactOn
  <2> QED
    BY <2>3, <2>4 DEF Put, KeyHeld, Holder
<1>4. /\ SoundTable(PurgedJobs(t)) /\ ExactOn(PurgedJobs(t), PurgedIdem(t))
      /\ opts.key # NoKey => PurgedIdem(t)[<<opts.queue, opts.key>>] = NoJob
      /\ \A id \in JobIds : \/ PurgedJobs(t)[id] = jobs[id]
                            \/ PurgedJobs(t)[id] = Absent /\ jobs[id].status \in Terminal
  <2>1. opts.key # NoKey => <<opts.queue, opts.key>> \in Queues \X Keys
    BY StoreConstants DEF OptionsType
  <2> QED
    BY <1>1, <1>3, <2>1, PurgeTable, PurgeExact
<1>5. Absent.status = "absent"
  BY DEF Absent
<1>6. Present(PurgedJobs(t)) \subseteq Present(jobs)
  BY <1>4, <1>5 DEF Present
<1>7. Cardinality(Present(PurgedJobs(t))) <= Cardinality(Present(jobs))
      /\ Cardinality(Present(jobs)) \in Nat /\ Cardinality(Present(PurgedJobs(t))) \in Nat
  <2>1. Present(jobs) \in SUBSET JobIds /\ Present(PurgedJobs(t)) \in SUBSET JobIds
    BY DEF Present
  <2> QED
    BY <1>6, <2>1, FiniteIds, FS_Subset
<1>8. ASSUME NEW table, NEW index, table \in {jobs, PurgedJobs(t)},
             SoundTable(table), ExactOn(table, index), ~Full(table),
             opts.key # NoKey => index[<<opts.queue, opts.key>>] = NoJob,
             \A id \in JobIds : \/ table[id] = jobs[id]
                                \/ table[id] = Absent /\ jobs[id].status \in Terminal,
             Insert(opts, created, t, table, index)
      PROVE  /\ Parts'
             /\ \A id \in JobIds : Stays(id) \/ Sweeps(id) \/ Adds(id)
             /\ issued' = issued + 1 /\ issued' \in JobIds /\ Adds(issued')
  <2>1. issued' = issued + 1 /\ issued + 1 \in JobIds /\ issued + 1 > issued
    BY <1>1, <1>8, StoreConstants DEF Insert, JobIds
  <2>2. jobs[issued + 1].status = "absent" /\ issued + 1 \notin Elements(reapedDead)
    BY <2>1 DEF Parts, FreshIdsUnused
  <2>3. table[issued + 1].status = "absent"
    BY <1>5, <1>8, <2>1, <2>2
  <2>4. /\ issued' \in 0..MaxJobs
        /\ SoundTable(jobs') /\ ExactOn(jobs', idem')
        /\ \A id \in JobIds : id # issued + 1 => jobs'[id] = table[id]
        /\ jobs'[issued + 1] = Inserted(opts, created, t)
        /\ Present(jobs') = Present(table) \cup {issued + 1}
    BY <1>1, <1>8, <2>3, InsertInto
  <2>5. /\ Inserted(opts, created, t).status \in Waiting
        /\ Inserted(opts, created, t).attempts = 0
        /\ Inserted(opts, created, t).opts = opts
    BY InsertSound DEF Inserted
  <2>6. Adds(issued + 1)
    BY <2>1, <2>2, <2>4, <2>5 DEF Adds
  <2>7. \A id \in JobIds : id # issued + 1 => Stays(id) \/ Sweeps(id)
    BY <1>8, <2>4 DEF Stays, Same, Sweeps
  <2>8. \A id \in Elements(reapedDead) : jobs'[id].status \in {"dead", "absent"}
    <3> SUFFICES ASSUME NEW id \in Elements(reapedDead)
                 PROVE  jobs'[id].status \in {"dead", "absent"}
      OBVIOUS
    <3>1. id \in JobIds /\ id # issued + 1 /\ jobs[id].status \in {"dead", "absent"}
      BY <1>2, <2>2 DEF Parts
    <3> QED
      BY <1>5, <1>8, <2>4, <3>1
  <2>9. FreshIdsUnused'
    <3>1. ASSUME NEW id \in JobIds, id > issued'
          PROVE  jobs'[id].status = "absent" /\ id \notin Elements(reapedDead)
      <4>1. id > issued /\ id # issued + 1
        BY <1>1, <2>1, <3>1 DEF JobIds
      <4>2. jobs[id].status = "absent" /\ id \notin Elements(reapedDead)
        BY <4>1 DEF Parts, FreshIdsUnused
      <4> QED
        BY <1>5, <1>8, <2>4, <4>1, <4>2
    <3> QED
      BY <1>2, <3>1 DEF FreshIdsUnused, Elements
  <2>10. Cardinality(Present(jobs')) <= Capacity
    <3>1. Present(table) \in SUBSET JobIds
      BY DEF Present
    <3>2. IsFiniteSet(Present(table)) /\ Cardinality(Present(table)) \in Nat
      BY <3>1, FiniteIds
    <3>3. Cardinality(Present(table)) < Capacity
      BY <1>8, <3>2, StoreConstants DEF Full
    <3>4. Cardinality(Present(table) \cup {issued + 1}) <= Cardinality(Present(table)) + 1
      BY <3>2, FS_AddElement
    <3>5. Cardinality(Present(jobs')) \in Nat
      BY <2>4, FiniteIds, <2>1, <3>1
    <3> QED
      BY <2>4, <3>2, <3>3, <3>4, <3>5, StoreConstants
  <2>11. WithinCapacity'
    BY <1>2, <2>10 DEF WithinCapacity, Parts, Present
  <2>12. SoundTable(jobs)' /\ ExactOn(jobs, idem)'
    BY <2>4 DEF SoundTable, ExactOn
  <2>13. Parts'
    BY <1>1, <1>2, <2>4, <2>8, <2>9, <2>11, <2>12 DEF Parts, Distinct, Elements
  <2> QED
    BY <2>1, <2>6, <2>7, <2>13
<1>9. ASSUME jobs' = PurgedJobs(t), idem' = PurgedIdem(t), UNCHANGED issued
      PROVE  Parts' /\ \A id \in JobIds : Stays(id) \/ Sweeps(id)
  <2>1. \A id \in JobIds : Stays(id) \/ Sweeps(id)
    BY <1>4, <1>9 DEF Stays, Same, Sweeps
  <2>2. SoundTable(jobs)' /\ ExactOn(jobs, idem)'
    BY <1>4, <1>9 DEF SoundTable, ExactOn
  <2>3. \A id \in Elements(reapedDead) : jobs'[id].status \in {"dead", "absent"}
    BY <1>2, <1>4, <1>5, <1>9 DEF Parts
  <2>4. FreshIdsUnused'
    BY <1>2, <1>4, <1>5, <1>9 DEF Parts, FreshIdsUnused, Elements
  <2>5. WithinCapacity'
    BY <1>2, <1>7, <1>9, StoreConstants DEF WithinCapacity, Parts, Present
  <2> QED
    BY <1>1, <1>2, <1>9, <2>1, <2>2, <2>3, <2>4, <2>5 DEF Parts, Distinct, Elements
<1>10. CASE ~Full(jobs) /\ Insert(opts, created, t, jobs, idem)
  BY <1>1, <1>2, <1>3, <1>8, <1>10
<1>11. CASE ~Full(PurgedJobs(t)) /\ Insert(opts, created, t, PurgedJobs(t), PurgedIdem(t))
  BY <1>2, <1>4, <1>8, <1>11
<1>12. CASE jobs' = PurgedJobs(t) /\ idem' = PurgedIdem(t) /\ UNCHANGED issued
  BY <1>2, <1>9, <1>12
<1> QED
  BY <1>10, <1>11, <1>12 DEF Put

\* Every step of the store is one of the three kinds of call.
LEMMA StepKinds ==
    ASSUME StoreNext
    PROVE  \E t \in Time :
              \/ \E opts \in EnqueueOpts, created \in Time : Put(opts, created, t)
              \/ UpdateCall(t)
              \/ ReapingCall(t)
BY DEF StoreNext, CallAt, UpdateCall, ReapingCall

\* The invariant is inductive.
LEMMA InvInductive == StoreInv /\ [StoreNext]_storeVars => StoreInv'
<1> SUFFICES ASSUME Parts, [StoreNext]_storeVars
             PROVE  Parts'
  BY InvIsParts, PTL
<1>1. CASE StoreNext
  <2>1. PICK t \in Time :
              \/ \E opts \in EnqueueOpts, created \in Time : Put(opts, created, t)
              \/ UpdateCall(t)
              \/ ReapingCall(t)
    BY <1>1, StepKinds
  <2> QED
    BY <2>1, PutKeeps, UpdateKeeps, ReapingKeeps
<1>2. CASE UNCHANGED storeVars
  BY <1>2 DEF storeVars, Parts, SoundTable, ExactOn, Distinct, Elements, FreshIdsUnused,
              WithinCapacity, Present
<1> QED
  BY <1>1, <1>2

LEMMA InvInitially == StoreInit => StoreInv
<1> SUFFICES ASSUME StoreInit PROVE Parts
  BY InvIsParts
<1>1. jobs = [id \in JobIds |-> Absent] /\ Absent.status = "absent" /\ Absent \in StoredJob
  BY AbsentSound DEF StoreInit, Absent, Sound
<1>2. SoundTable(jobs)
  BY <1>1, AbsentSound DEF SoundTable
<1>3. ExactOn(jobs, idem)
  BY <1>1 DEF StoreInit, ExactOn, NoJob, JobIds
<1>4. reapedDead = <<>> /\ Elements(reapedDead) = {} /\ issued = 0
  BY DEF StoreInit, Elements
<1>5. Present(jobs) = {}
  BY <1>1 DEF Present
<1>6. WithinCapacity
  BY <1>4, <1>5, FS_EmptySet, StoreConstants DEF WithinCapacity
<1> QED
  BY <1>1, <1>2, <1>3, <1>4, <1>6, StoreConstants DEF Parts, Distinct, FreshIdsUnused

(* The store's state keeps its shape, and neither the records nor the outbox of
   the reaper grow beyond their bounds, whatever the callers do. *)
THEOREM TypeCorrect == StoreSpec => []TypeOK
<1>1. StoreInv => TypeOK
  BY DEF StoreInv, TypeOK
<1> QED
  BY <1>1, InvInitially, InvInductive, PTL DEF StoreSpec

(* Locks, attempt budgets, the idempotency index, the outbox and the capacity
   are kept by put, claim, heartbeat, complete, fail, cancel, get, list and
   takeReaped in any order, from any number of workers and with any clock. *)
THEOREM StoreCorrect == StoreSpec => []StoreInv
BY InvInitially, InvInductive, PTL DEF StoreSpec

(* No record is ever claimed more often than maxAttempts, and no exhausted
   record waits to be claimed: fail and the lease reaper both keep the rule. *)
THEOREM BudgetCorrect == StoreSpec => []BudgetKept
<1>1. StoreInv => BudgetKept
  BY DEF StoreInv
<1> QED
  BY <1>1, StoreCorrect, PTL

(* At most one record per queue and key, and the index of put finds it. *)
THEOREM IndexCorrect == StoreSpec => []IndexExact
<1>1. StoreInv => IndexExact
  BY DEF StoreInv
<1> QED
  BY <1>1, StoreCorrect, PTL

(* No id is ever twice in the outbox of the reaped, and what is in it is dead
   or purged: takeReaped reports a job at most once. *)
THEOREM OutboxCorrect == StoreSpec => []OutboxOfTheDead
<1>1. StoreInv => OutboxOfTheDead
  BY DEF StoreInv
<1> QED
  BY <1>1, StoreCorrect, PTL

(* The fencing token: the attempt number of a running record identifies one
   claim, so heartbeat, complete and fail of an older claim are refused. *)
THEOREM FenceCorrect == StoreSpec => AttemptsFence
<1> DEFINE A == \A id \in JobIds : jobs[id].status # "absent" /\ jobs'[id].status # "absent" =>
          \/ jobs'[id].attempts = jobs[id].attempts
             /\ (jobs'[id].status = "running" =>
                    jobs[id].status = "running" /\ jobs'[id].lockedBy = jobs[id].lockedBy)
          \/ jobs'[id].attempts = jobs[id].attempts + 1 /\ jobs'[id].status = "running"
<1>1. ASSUME StoreInv, [StoreNext]_storeVars PROVE [A]_storeVars
  <2> SUFFICES ASSUME StoreNext PROVE A
    BY <1>1
  <2>1. PICK t \in Time :
              \/ \E opts \in EnqueueOpts, created \in Time : Put(opts, created, t)
              \/ UpdateCall(t)
              \/ ReapingCall(t)
    BY StepKinds
  <2>2. Parts /\ JobsSound
    BY <1>1, InvIsParts DEF Parts, JobsSound, SoundTable
  <2>3. CASE \E opts \in EnqueueOpts, created \in Time : Put(opts, created, t)
    <3>1. \A id \in JobIds : Stays(id) \/ Sweeps(id) \/ Adds(id)
      BY <2>2, <2>3, PutKeeps
    <3> QED
      BY <3>1 DEF Stays, Same, Sweeps, Adds, Absent
  <2>4. CASE UpdateCall(t) \/ ReapingCall(t)
    <3>1. \A id \in JobIds : Moves(id)
      BY <2>2, <2>4, UpdateCallMoves, ReapingCallMoves
    <3> QED
      BY <3>1 DEF Moves, Stays, Leaves, Taken, Cancelled, Same, Waiting
  <2> QED
    BY <2>1, <2>3, <2>4
<1>2. StoreSpec => [][A]_storeVars
  BY <1>1, StoreCorrect, PTL DEF StoreSpec
<1> QED
  BY <1>2 DEF AttemptsFence

(* A dead-lettered job enters the outbox in the call that kills it and never
   again, so takeReaped hands it out at most once. *)
THEOREM ReapedOnceCorrect == StoreSpec => ReapedOnce
<1> DEFINE A == \A id \in Elements(reapedDead') \ Elements(reapedDead) :
          jobs[id].status = "running" /\ jobs'[id].status = "dead"
<1>1. ASSUME StoreInv, [StoreNext]_storeVars PROVE [A]_storeVars
  <2> SUFFICES ASSUME StoreNext PROVE A
    BY <1>1
  <2>1. PICK t \in Time :
              \/ \E opts \in EnqueueOpts, created \in Time : Put(opts, created, t)
              \/ UpdateCall(t)
              \/ ReapingCall(t)
    BY StepKinds
  <2>2. Parts /\ JobsSound
    BY <1>1, InvIsParts DEF Parts, JobsSound, SoundTable
  <2>3. CASE UNCHANGED reapedDead
    BY <2>3
  <2>4. CASE ReapingCall(t)
    BY <2>2, <2>4, ReapingOutbox, ReapedStaysDead
  <2> QED
    BY <2>1, <2>2, <2>3, <2>4, PutKeeps, UpdateCallMoves
<1>2. StoreSpec => [][A]_storeVars
  BY <1>1, StoreCorrect, PTL DEF StoreSpec
<1> QED
  BY <1>2 DEF ReapedOnce

-----------------------------------------------------------------------------
(***************************************************************************)
(* The store implements the life cycle.                                    *)
(***************************************************************************)
LEMMA InitRefines == StoreInit => Lifecycle!Init
<1> SUFFICES ASSUME StoreInit PROVE Lifecycle!Init
  OBVIOUS
<1>1. \A id \in JobIds : jobs[id] = Absent /\ id > issued
  BY StoreConstants DEF StoreInit, JobIds
<1>2. Absent.status = "absent" /\ Absent.attempts = 0
  BY DEF Absent
<1> QED
  BY <1>1, <1>2 DEF Lifecycle!Init, LifeStatus

\* A record that exists moves along an arrow of the diagram, or stays.
LEMMA MoveRefines ==
    ASSUME Parts, NEW id \in JobIds, Moves(id), UNCHANGED issued
    PROVE  Lifecycle!JobStep(id)
<1>1. issued \in Int /\ id \in Int /\ jobs[id].attempts \in Nat /\ Sound(jobs[id])
  BY DEF Parts, JobIds, SoundTable, StoredJob, Sound
<1>2. CASE id > issued
  <2>1. jobs[id].status = "absent"
    BY <1>2 DEF Parts, FreshIdsUnused
  <2>2. Stays(id)
    BY <2>1 DEF Moves, Leaves, Taken, Cancelled, Waiting
  <2>3. /\ LifeStatus(id) = "new" /\ LifeStatus(id)' = "new"
        /\ jobs'[id].attempts = jobs[id].attempts + 0 /\ jobs'[id].status = "absent"
    BY <1>1, <1>2, <2>1, <2>2 DEF LifeStatus, Stays, Same
  <2> QED
    BY <2>1, <2>3 DEF Lifecycle!JobStep, Lifecycle!Stay, Lifecycle!Spends, Lifecycle!KeepsBudget
<1>3. CASE ~(id > issued)
  <2>1. /\ LifeStatus(id) = IF jobs[id].status = "absent" THEN "purged" ELSE jobs[id].status
        /\ LifeStatus(id)' = IF jobs'[id].status = "absent" THEN "purged" ELSE jobs'[id].status
    BY <1>3 DEF LifeStatus
  <2>2. CASE Stays(id)
    BY <1>1, <2>1, <2>2
    DEF Stays, Same, Lifecycle!JobStep, Lifecycle!Stay, Lifecycle!Spends, Lifecycle!KeepsBudget
  <2>3. CASE Leaves(id) /\ jobs'[id].status = "completed"
    BY <1>1, <2>1, <2>3
    DEF Leaves, Same, Lifecycle!JobStep, Lifecycle!Complete, Lifecycle!Spends, Lifecycle!KeepsBudget
  <2>4. CASE Leaves(id) /\ jobs'[id].status = "dead"
    BY <1>1, <2>1, <2>4
    DEF Leaves, Same, Lifecycle!JobStep, Lifecycle!Die, Lifecycle!Spends, Lifecycle!KeepsBudget
  <2>5. CASE /\ Leaves(id) /\ jobs'[id].status \in Waiting
             /\ jobs[id].attempts < jobs[id].opts.maxAttempts
    BY <1>1, <2>1, <2>5
    DEF Leaves, Same, Waiting, Lifecycle!Waiting, Lifecycle!JobStep, Lifecycle!Retry,
        Lifecycle!Spends, Lifecycle!KeepsBudget
  <2>6. CASE Taken(id)
    BY <1>1, <2>1, <2>6
    DEF Taken, Waiting, Lifecycle!Waiting, Lifecycle!JobStep, Lifecycle!Claim,
        Lifecycle!Spends, Lifecycle!KeepsBudget
  <2>7. CASE Cancelled(id)
    BY <1>1, <2>1, <2>7
    DEF Cancelled, Same, Waiting, Lifecycle!Waiting, Lifecycle!JobStep, Lifecycle!Cancel,
        Lifecycle!Spends, Lifecycle!KeepsBudget
  <2> QED
    BY <2>2, <2>3, <2>4, <2>5, <2>6, <2>7 DEF Moves, Leaves
<1> QED
  BY <1>2, <1>3

\* put enqueues one job, forgets terminal ones, and leaves the others alone.
LEMMA PutRefines ==
    ASSUME Parts, NEW opts \in EnqueueOpts, NEW created \in Time, NEW t \in Time,
           Put(opts, created, t), NEW id \in JobIds
    PROVE  Lifecycle!JobStep(id)
<1>1. /\ Parts'
      /\ Stays(id) \/ Sweeps(id) \/ Adds(id)
      /\ issued' # issued => issued' = issued + 1 /\ issued' \in JobIds /\ Adds(issued')
  BY PutKeeps
<1>2. /\ issued \in Int /\ issued' \in Int /\ id \in Int
      /\ jobs[id].attempts \in Nat /\ Sound(jobs[id])
  BY <1>1 DEF Parts, JobIds, SoundTable, StoredJob, Sound
<1>3. issued' = issued \/ issued' = issued + 1
  BY <1>1
<1>4. CASE Adds(id)
  <2>1. /\ LifeStatus(id) = "new" /\ LifeStatus(id)' = jobs'[id].status
        /\ jobs'[id].status # "absent"
    BY <1>2, <1>4 DEF Adds, LifeStatus, Waiting
  <2> QED
    BY <1>4, <2>1 DEF Adds, Waiting, Lifecycle!Waiting, Lifecycle!JobStep, Lifecycle!Enqueue
<1>5. CASE Sweeps(id)
  <2>1. jobs[id].status # "absent" /\ jobs[id].status \in Terminal
    BY <1>5 DEF Sweeps, Terminal
  <2>2. ~(id > issued)
    BY <1>2, <2>1 DEF Parts, FreshIdsUnused
  <2>3. ~(id > issued')
    BY <1>2, <1>3, <2>2
  <2>4. jobs'[id].status = "absent" /\ jobs'[id].attempts = 0
    BY <1>5 DEF Sweeps, Absent
  <2>5. LifeStatus(id) = jobs[id].status /\ LifeStatus(id)' = "purged"
    BY <2>1, <2>2, <2>3, <2>4 DEF LifeStatus
  <2> QED
    BY <2>1, <2>4, <2>5 DEF Terminal, Lifecycle!Terminal, Lifecycle!JobStep, Lifecycle!Purge
<1>6. CASE Stays(id) /\ ~Adds(id)
  <2>1. id > issued <=> id > issued'
    <3>1. CASE issued' = issued
      BY <3>1
    <3>2. CASE issued' # issued
      <4>1. issued' = issued + 1 /\ Adds(issued')
        BY <1>1, <3>2
      <4>2. id # issued'
        BY <1>6, <4>1
      <4> QED
        BY <1>2, <4>1, <4>2
    <3> QED
      BY <3>1, <3>2
  <2>2. LifeStatus(id)' = LifeStatus(id)
    BY <1>6, <2>1 DEF LifeStatus, Stays, Same
  <2>3. jobs'[id].attempts = jobs[id].attempts + 0
    BY <1>2, <1>6 DEF Stays, Same
  <2> QED
    BY <1>6, <2>2, <2>3
    DEF Stays, Same, Lifecycle!JobStep, Lifecycle!Stay, Lifecycle!Spends, Lifecycle!KeepsBudget
<1> QED
  BY <1>1, <1>4, <1>5, <1>6

(* MemoryJobStore implements the JobStatus diagram: whatever its callers do,
   each call moves each job along at most one arrow of the life cycle. *)
THEOREM LifecycleImplemented == StoreSpec => ImplementsLifecycle
<1>1. ASSUME StoreInv, [StoreNext]_storeVars
      PROVE  [Lifecycle!Next]_(Lifecycle!vars)
  <2>1. CASE StoreNext
    <3>1. PICK t \in Time :
              \/ \E opts \in EnqueueOpts, created \in Time : Put(opts, created, t)
              \/ UpdateCall(t)
              \/ ReapingCall(t)
      BY <2>1, StepKinds
    <3>2. Parts /\ JobsSound
      BY <1>1, InvIsParts DEF Parts, JobsSound, SoundTable
    <3>3. ASSUME NEW id \in JobIds PROVE Lifecycle!JobStep(id)
      <4>1. CASE \E opts \in EnqueueOpts, created \in Time : Put(opts, created, t)
        BY <3>2, <4>1, PutRefines
      <4>2. CASE UpdateCall(t) \/ ReapingCall(t)
        <5>1. (\A j \in JobIds : Moves(j)) /\ UNCHANGED issued
          BY <3>2, <4>2, UpdateCallMoves, ReapingCallMoves
        <5> QED
          BY <3>2, <5>1, MoveRefines
      <4> QED
        BY <3>1, <4>1, <4>2
    <3> QED
      BY <3>3 DEF Lifecycle!Next
  <2>2. CASE UNCHANGED storeVars
    BY <2>2 DEF storeVars, Lifecycle!vars, LifeStatus
  <2> QED
    BY <1>1, <2>1, <2>2
<1> QED
  BY <1>1, InitRefines, StoreCorrect, PTL DEF StoreSpec, ImplementsLifecycle, Lifecycle!Spec

-----------------------------------------------------------------------------
(***************************************************************************)
(* What follows from the life cycle alone, and hence holds of everything   *)
(* that implements it.                                                     *)
(***************************************************************************)
LifeBudget(id) == IF jobs[id].status = "absent" THEN 0 ELSE jobs[id].opts.maxAttempts

\* A step of the life cycle, job by job.
LEMMA LifeSteps ==
    ASSUME NEW id \in JobIds, Lifecycle!JobStep(id)
    PROVE  LET s == LifeStatus(id)
               t == LifeStatus(id)'
               a == jobs[id].attempts
               b == jobs'[id].attempts
               n == LifeBudget(id)
               m == LifeBudget(id)'
           IN  \/ s = "new" /\ t \in Waiting /\ b = 0
                  /\ m \in {opts.maxAttempts : opts \in EnqueueOpts}
               \/ s \in Waiting \cup {"running"} /\ a < n /\ t = "running" /\ b = a + 1 /\ m = n
               \/ s = "running" /\ t \in {"completed", "dead"} /\ b = a + 0 /\ m = n
               \/ s = "running" /\ a < n /\ t \in Waiting /\ b = a + 0 /\ m = n
               \/ s \in Waiting \cup {"running"} /\ t = "cancelled" /\ b = a + 0 /\ m = n
               \/ s \in Terminal /\ t = "purged" /\ b = 0 /\ m = 0
               \/ t = s /\ b = a + 0 /\ m = n
BY DEF Lifecycle!JobStep, Lifecycle!Enqueue, Lifecycle!Claim, Lifecycle!Complete, Lifecycle!Retry,
       Lifecycle!Die, Lifecycle!Cancel, Lifecycle!Purge, Lifecycle!Stay, Lifecycle!Spends,
       Lifecycle!KeepsBudget, Lifecycle!Waiting, Lifecycle!Terminal, Waiting, Terminal, LifeBudget

(* In everything that implements the life cycle, a job that has reached
   completed, dead or cancelled stays there or is purged. *)
THEOREM TerminalStays == Lifecycle!Spec => Lifecycle!TerminalIsFinal
<1> DEFINE A == \A j \in JobIds :
                  [id \in JobIds |-> LifeStatus(id)][j] \in Lifecycle!Terminal =>
                      ([id \in JobIds |-> LifeStatus(id)]')[j] \in
                          {[id \in JobIds |-> LifeStatus(id)][j], "purged"}
<1>1. ASSUME [Lifecycle!Next]_(Lifecycle!vars) PROVE [A]_(Lifecycle!vars)
  <2> SUFFICES ASSUME Lifecycle!Next, NEW id \in JobIds, LifeStatus(id) \in Terminal
               PROVE  LifeStatus(id)' \in {LifeStatus(id), "purged"}
    BY <1>1 DEF Lifecycle!Terminal, Terminal
  <2>1. Lifecycle!JobStep(id)
    BY DEF Lifecycle!Next
  <2> QED
    BY <2>1, LifeSteps DEF Waiting, Terminal
<1>2. Lifecycle!Spec => [][A]_(Lifecycle!vars)
  BY <1>1, PTL DEF Lifecycle!Spec
<1> QED
  BY <1>2 DEF Lifecycle!TerminalIsFinal

(* Everything that implements the life cycle bounds the claims of a job by its
   budget, crashes and lease expiries included. *)
THEOREM BudgetBoundsClaims == Lifecycle!Spec => [](Lifecycle!TypeOK /\ Lifecycle!WithinBudget)
<1> DEFINE Fine(id) ==
        /\ LifeStatus(id) \in Lifecycle!Statuses /\ jobs[id].attempts \in Nat
        /\ LifeBudget(id) \in {opts.maxAttempts : opts \in EnqueueOpts} \cup {0}
        /\ jobs[id].attempts <= LifeBudget(id)
        /\ LifeStatus(id) \in Waiting => jobs[id].attempts < LifeBudget(id)
<1>0. \A b \in {opts.maxAttempts : opts \in EnqueueOpts} : b \in Nat \ {0}
  BY StoreConstants DEF OptionsType
<1>1. Lifecycle!TypeOK /\ Lifecycle!WithinBudget <=> \A id \in JobIds : Fine(id)
  BY DEF Lifecycle!TypeOK, Lifecycle!WithinBudget, Lifecycle!Waiting, Waiting, LifeBudget
<1>2. Lifecycle!Init => \A id \in JobIds : Fine(id)
  <2> SUFFICES ASSUME Lifecycle!Init, NEW id \in JobIds PROVE Fine(id)
    OBVIOUS
  <2>1. LifeStatus(id) = "new" /\ jobs[id].attempts = 0 /\ LifeBudget(id) = 0
    <3>1. /\ [j \in JobIds |-> LifeStatus(j)][id] = [j \in JobIds |-> "new"][id]
          /\ [j \in JobIds |-> jobs[j].attempts][id] = [j \in JobIds |-> 0][id]
          /\ [j \in JobIds |-> LifeBudget(j)][id] = [j \in JobIds |-> 0][id]
      BY DEF Lifecycle!Init, LifeBudget
    <3> QED
      BY <3>1
  <2> QED
    BY <2>1 DEF Lifecycle!Statuses, Waiting
<1>3. ASSUME \A id \in JobIds : Fine(id), [Lifecycle!Next]_(Lifecycle!vars)
      PROVE  (\A id \in JobIds : Fine(id))'
  <2> SUFFICES ASSUME NEW id \in JobIds PROVE Fine(id)'
    OBVIOUS
  <2>0. Fine(id) /\ LifeBudget(id) \in Nat
    BY <1>0, <1>3
  <2>1. CASE UNCHANGED Lifecycle!vars
    <3>1. /\ [j \in JobIds |-> LifeStatus(j)']= [j \in JobIds |-> LifeStatus(j)]
          /\ [j \in JobIds |-> jobs'[j].attempts] = [j \in JobIds |-> jobs[j].attempts]
          /\ [j \in JobIds |-> LifeBudget(j)'] = [j \in JobIds |-> LifeBudget(j)]
      BY <2>1 DEF Lifecycle!vars, LifeBudget
    <3>2. /\ LifeStatus(id)' = LifeStatus(id) /\ jobs'[id].attempts = jobs[id].attempts
          /\ LifeBudget(id)' = LifeBudget(id)
      BY <3>1
    <3> QED
      BY <2>0, <3>2
  <2>2. CASE Lifecycle!Next
    <3>1. Lifecycle!JobStep(id)
      BY <2>2 DEF Lifecycle!Next
    <3> DEFINE s == LifeStatus(id)
               t == LifeStatus(id)'
               a == jobs[id].attempts
               b == jobs'[id].attempts
               n == LifeBudget(id)
               m == LifeBudget(id)'
               B == {opts.maxAttempts : opts \in EnqueueOpts}
    <3>2. \/ s = "new" /\ t \in Waiting /\ b = 0 /\ m \in B
          \/ s \in Waiting \cup {"running"} /\ a < n /\ t = "running" /\ b = a + 1 /\ m = n
          \/ s = "running" /\ t \in {"completed", "dead"} /\ b = a + 0 /\ m = n
          \/ s = "running" /\ a < n /\ t \in Waiting /\ b = a + 0 /\ m = n
          \/ s \in Waiting \cup {"running"} /\ t = "cancelled" /\ b = a + 0 /\ m = n
          \/ s \in Terminal /\ t = "purged" /\ b = 0 /\ m = 0
          \/ t = s /\ b = a + 0 /\ m = n
      BY <3>1, LifeSteps
    <3>3. /\ s \in Lifecycle!Statuses /\ a \in Nat /\ n \in B \cup {0} /\ n \in Nat /\ a <= n
          /\ s \in Waiting => a < n
      BY <2>0
    <3>4. \A x \in B : x \in Nat \ {0}
      BY <1>0
    <3> HIDE DEF s, t, a, b, n, m, B
    <3>5. t \in Lifecycle!Statuses
      BY <3>2, <3>3 DEF Lifecycle!Statuses, Lifecycle!Waiting, Lifecycle!Terminal, Waiting, Terminal
    <3>6. b \in Nat /\ m \in B \cup {0} /\ b <= m /\ (t \in Waiting => b < m)
      <4>0. a + 0 = a /\ (a < n => a + 1 \in Nat /\ a + 1 <= n)
        BY <3>3
      <4>1. CASE b = 0 /\ m \in B
        <5>1. m \in Nat \ {0}
          BY <4>1, <3>4
        <5> QED
          BY <4>1, <5>1
      <4>2. CASE a < n /\ t = "running" /\ b = a + 1 /\ m = n
        BY <3>3, <4>0, <4>2 DEF Waiting
      <4>3. CASE t \in {"completed", "dead", "cancelled"} /\ b = a + 0 /\ m = n
        BY <3>3, <4>0, <4>3 DEF Waiting
      <4>4. CASE a < n /\ b = a + 0 /\ m = n
        BY <3>3, <4>0, <4>4
      <4>5. CASE t = "purged" /\ b = 0 /\ m = 0
        BY <4>5 DEF Waiting
      <4>6. CASE t = s /\ b = a + 0 /\ m = n
        BY <3>3, <4>0, <4>6
      <4> QED
        BY <3>2, <4>1, <4>2, <4>3, <4>4, <4>5, <4>6
    <3> USE DEF s, t, a, b, n, m, B
    <3> QED
      BY <3>5, <3>6
  <2> QED
    BY <1>3, <2>1, <2>2
<1> HIDE DEF Fine
<1>4. Lifecycle!Spec => [](\A id \in JobIds : Fine(id))
  BY <1>2, <1>3, PTL DEF Lifecycle!Spec
<1> QED
  BY <1>1, <1>4, PTL
=============================================================================
