--------------------------- MODULE SchedulerProofs ---------------------------
(***************************************************************************)
(* Proofs about the Scheduler class, for any tasks, schedules, timeouts    *)
(* and grace periods, and any number of handlers in progress.              *)
(***************************************************************************)
EXTENDS Scheduler, FiniteSetTheorems, WellFoundedInduction, TLAPS

(* A task and its run refer to each other: current is the run in progress
   exactly while running is set. *)
RunsHeld ==
    /\ \A i \in Busy : /\ tasks[handlers[i].task].running
                       /\ tasks[handlers[i].task].current = i
    /\ \A t \in Tasks : tasks[t].running => /\ tasks[t].current \in Busy
                                            /\ handlers[tasks[t].current].task = t
    /\ \A t \in Tasks : tasks[t].current \in RunIds => tasks[t].running

Unarmed(rec) == \A h \in Slots : rec.slots[h] = Off

HoldsTimer(rec) == \A h \in Slots : rec.slots[h] # Off => rec.timer = h

(* Timers are pending for defined tasks only, while the scheduler runs. *)
TimersHeld ==
    /\ \A t \in Tasks : HoldsTimer(tasks[t])
    /\ \A t \in Tasks : ~tasks[t].defined \/ ~Running => Unarmed(tasks[t])
    /\ \A k \in DOMAIN order : tasks[order[k]].defined

(* stop() waits for every run that it found in progress. *)
StopHolds ==
    /\ sched.stop # "no" => sched.started /\ sched.stopped
    /\ sched.stop \in {"grace", "unwind"} =>
           \A i \in Busy : handlers[i].late \/ i \in sched.awaited
    /\ sched.stop = "returned" => \A i \in Busy : handlers[i].late

SchedulerInv == SchedulerShape /\ RunsHeld /\ TimersHeld /\ StopHolds

-----------------------------------------------------------------------------
(***************************************************************************)
(* The next match of a cron expression exists.                             *)
(***************************************************************************)
\* The least-number principle, for sets.
LEMMA LeastNat ==
    ASSUME NEW S \in SUBSET Nat, S # {}
    PROVE  \E n \in S : \A m \in S : n <= m
<1> DEFINE R == {ss \in Nat \X Nat : ss[1] < ss[2]}
<1>1. IsWellFoundedOn(R, Nat)
  BY NatLessThanWellFounded DEF OpToRel
<1> HIDE DEF R
<1>2. PICK n \in S : \A m \in S : <<m, n>> \notin R
  BY <1>1, WFMin, S \in SUBSET Nat, S # {}
<1>3. \A m \in S : ~(m < n)
  BY <1>2 DEF R
<1> QED
  BY <1>3

\* Every instant of the day comes within the next Day units.
LEMMA ComesAround ==
    ASSUME NEW c \in 0..Day - 1, NEW k \in 0..Day - 1
    PROVE  \E d \in 1..Day : (k + d) % Day = c
<1>1. CASE c > k
  <2>1. c - k \in 1..Day /\ k + (c - k) = c
    BY <1>1, SchedulerConstants
  <2>2. c % Day = c
    BY SchedulerConstants
  <2> QED
    BY <2>1, <2>2
<1>2. CASE c <= k
  <2>1. c - k + Day \in 1..Day /\ k + (c - k + Day) = c + Day
    BY <1>2, SchedulerConstants
  <2>2. (c + Day) % Day = c
    BY SchedulerConstants
  <2> QED
    BY <2>1, <2>2
<1> QED
  BY <1>1, <1>2, SchedulerConstants

(* For an expression that matches some time, nextCronRun returns a time
   that matches, at least one unit and at most one cycle ahead, and no
   earlier time after now matches. *)
LEMMA NextCronFound ==
    ASSUME NEW t \in Tasks, clock \in 0..Day - 1, CronAt[t] # {}
    PROVE  /\ NextCron(t) \in 1..Day
           /\ (clock + NextCron(t)) % Day \in CronAt[t]
           /\ \A e \in 1..NextCron(t) - 1 : (clock + e) % Day \notin CronAt[t]
<1> DEFINE S == {d \in 1..Day : (clock + d) % Day \in CronAt[t]}
<1>1. PICK c \in CronAt[t] : TRUE
  OBVIOUS
<1>2. c \in 0..Day - 1
  BY <1>1, SchedulerConstants
<1>3. S # {}
  BY <1>1, <1>2, ComesAround
<1>4. S \in SUBSET Nat
  BY SchedulerConstants
<1>5. PICK d \in S : \A m \in S : d <= m
  BY <1>3, <1>4, LeastNat
<1>6. d \in 1..Day /\ (clock + d) % Day \in CronAt[t]
  BY <1>5
<1>7. \A e \in 1..d - 1 : (clock + e) % Day \notin CronAt[t]
  <2> TAKE e \in 1..d - 1
  <2>1. e \in 1..Day /\ e < d
    BY <1>6, SchedulerConstants
  <2> QED
    BY <1>5, <1>6, <2>1, SchedulerConstants
<1> QED
  BY <1>6, <1>7 DEF NextCron

LEMMA NextDelayType ==
    ASSUME NEW t \in Tasks, clock \in 0..Day - 1, Satisfiable(t)
    PROVE  NextDelay(t) \in Nat
<1>1. CASE IntervalMs[t] # 0
  BY <1>1, SchedulerConstants DEF NextDelay
<1>2. CASE IntervalMs[t] = 0
  <2>1. NextCron(t) \in 1..Day
    BY <1>2, NextCronFound DEF Satisfiable
  <2> QED
    BY <1>2, <2>1, SchedulerConstants DEF NextDelay
<1> QED
  BY <1>1, <1>2

-----------------------------------------------------------------------------
(***************************************************************************)
(* Arming.                                                                 *)
(***************************************************************************)
LEMMA TimerDelayType == ASSUME NEW d \in Nat PROVE TimerDelay(d) \in Nat \ {0}
BY SchedulerConstants DEF TimerDelay

\* A task without a timer holds the one that it is given.
LEMMA SetTimerHolds ==
    ASSUME NEW rec \in TaskRecord, Unarmed(rec), NEW delay \in Nat
    PROVE  /\ SetTimer(rec, delay) \in TaskRecord
           /\ HoldsTimer(SetTimer(rec, delay))
           /\ SetTimer(rec, delay).defined = rec.defined
           /\ SetTimer(rec, delay).running = rec.running
           /\ SetTimer(rec, delay).current = rec.current
<1>1. TimerDelay(delay) \in Nat
  BY TimerDelayType
<1> DEFINE slots == [rec.slots EXCEPT ![1] = TimerDelay(delay)]
<1>2. slots \in [Slots -> Delays] /\ slots[2] = Off
  <2>1. rec.slots \in [{1, 2} -> Delays] /\ rec.slots[2] = Off
    BY DEF TaskRecord, Unarmed, Slots
  <2> QED
    BY <1>1, <2>1 DEF Slots, Delays
<1>3. SetTimer(rec, delay) = [rec EXCEPT !.timer = 1, !.slots = slots, !.nextIn = delay]
  BY DEF SetTimer, Unarmed, Slots, TaskRecord
<1> HIDE DEF slots
<1>4. /\ SetTimer(rec, delay).timer = 1
      /\ SetTimer(rec, delay).slots = slots
      /\ SetTimer(rec, delay) \in TaskRecord
  BY <1>2, <1>3 DEF TaskRecord, Slots, Delays
<1>5. HoldsTimer(SetTimer(rec, delay))
  BY <1>2, <1>4 DEF HoldsTimer, Slots
<1> QED
  BY <1>3, <1>4, <1>5 DEF TaskRecord

LEMMA ArmFirstHolds ==
    ASSUME NEW t \in Tasks, NEW rec \in TaskRecord, Unarmed(rec), clock \in 0..Day - 1,
           ~ArmThrows(rec, t)
    PROVE  /\ ArmFirst(rec, t) \in TaskRecord
           /\ HoldsTimer(ArmFirst(rec, t))
           /\ ArmFirst(rec, t).defined = rec.defined
           /\ ArmFirst(rec, t).running = rec.running
           /\ ArmFirst(rec, t).current = rec.current
<1>1. (IF rec.runOnStart THEN 0 ELSE NextDelay(t)) \in Nat
  BY NextDelayType DEF ArmThrows
<1> QED
  BY <1>1, SetTimerHolds DEF ArmFirst

LEMMA NotIdle == ASSUME NEW r \in RunRecord PROVE r # Idle
BY DEF RunRecord, Idle

\* Where the runs are left alone, so are the facts about them.
LEMMA RunsUntouched ==
    ASSUME RunsHeld, UNCHANGED handlers,
           \A t \in Tasks : /\ tasks'[t].running = tasks[t].running
                            /\ tasks'[t].current = tasks[t].current,
           SchedulerShape
    PROVE  RunsHeld'
<1>1. Busy' = Busy
  BY DEF Busy
<1>2. \A i \in Busy : handlers[i].task \in Tasks
  BY DEF Busy, SchedulerShape, RunRecord
<1> QED
  BY <1>1, <1>2 DEF RunsHeld

\* Where the handlers and the call of stop are left alone, so is what stop owes.
LEMMA StopUntouched ==
    ASSUME StopHolds, UNCHANGED <<handlers, sched>>
    PROVE  StopHolds'
BY DEF StopHolds, Busy

-----------------------------------------------------------------------------
(***************************************************************************)
(* Each step keeps the invariant.                                          *)
(***************************************************************************)
LEMMA InvInitially == Init => SchedulerInv
<1> SUFFICES ASSUME Init PROVE SchedulerInv
  OBVIOUS
<1>1. Busy = {}
  BY DEF Init, Busy
<1>2. SchedulerShape
  BY SchedulerConstants DEF Init, SchedulerShape, TaskRecord, Delays
<1>3. RunsHeld
  BY <1>1 DEF Init, RunsHeld, RunIds, NoRun
<1>4. TimersHeld
  BY DEF Init, TimersHeld, HoldsTimer, Unarmed
<1>5. StopHolds
  BY <1>1 DEF Init, StopHolds
<1> QED
  BY <1>2, <1>3, <1>4, <1>5 DEF SchedulerInv

LEMMA DefineInv ==
    ASSUME SchedulerInv, NEW t \in Tasks, NEW b \in BOOLEAN, Define(t, b)
    PROVE  SchedulerInv'
<1> USE DEF SchedulerInv
<1> DEFINE rec == [tasks[t] EXCEPT !.defined = TRUE, !.runOnStart = b]
           new == IF Running /\ ~ArmThrows(rec, t) THEN ArmFirst(rec, t) ELSE rec
<1>1. tasks[t] \in TaskRecord /\ Unarmed(tasks[t])
  BY DEF SchedulerShape, TimersHeld, Define
<1>2. rec \in TaskRecord /\ rec.defined /\ rec.slots = tasks[t].slots
      /\ rec.running = tasks[t].running /\ rec.current = tasks[t].current
  BY <1>1 DEF TaskRecord
<1>3. Unarmed(rec)
  BY <1>1, <1>2 DEF Unarmed
<1>4. tasks' = [tasks EXCEPT ![t] = new]
  BY DEF Define
<1> HIDE DEF rec
<1>5. new \in TaskRecord /\ HoldsTimer(new) /\ new.defined
      /\ new.running = tasks[t].running /\ new.current = tasks[t].current
  <2>1. HoldsTimer(rec)
    BY <1>3 DEF HoldsTimer, Unarmed
  <2> QED
    BY <1>2, <1>3, <2>1, ArmFirstHolds DEF SchedulerShape
<1>6. ~Running => Unarmed(new)
  BY <1>3
<1> HIDE DEF new
<1>7. SchedulerShape'
  BY <1>4, <1>5 DEF SchedulerShape, Define
<1>8. RunsHeld'
  BY <1>4, <1>5, RunsUntouched DEF SchedulerShape, Define
<1>9. TimersHeld'
  <2>1. \A u \in Tasks : tasks'[u] = IF u = t THEN new ELSE tasks[u]
    BY <1>4 DEF SchedulerShape
  <2>2. Running' = Running
    BY DEF Running, Define
  <2>3. \A k \in DOMAIN order' : tasks'[order'[k]].defined
    BY <1>5, <2>1 DEF Define, SchedulerShape, TimersHeld
  <2> QED
    BY <1>5, <1>6, <2>1, <2>2, <2>3 DEF TimersHeld
<1> QED
  BY <1>7, <1>8, <1>9, StopUntouched DEF Define

LEMMA StartInv ==
    ASSUME SchedulerInv, Start
    PROVE  SchedulerInv'
<1> USE DEF SchedulerInv
<1>1. \A t \in Tasks : tasks[t] \in TaskRecord /\ Unarmed(tasks[t])
  BY DEF SchedulerShape, TimersHeld, Start, MayStart, Running
<1>2. \A t \in ArmedByStart : t \in Tasks /\ tasks[t].defined /\ ~ArmThrows(tasks[t], t)
  <2> TAKE t \in ArmedByStart
  <2>1. PICK k \in DOMAIN order : t = order[k] /\ \A j \in 1..k : ~ArmThrows(tasks[order[j]], order[j])
    BY DEF ArmedByStart
  <2>2. k \in 1..k
    BY <2>1 DEF SchedulerShape
  <2> QED
    BY <2>1, <2>2 DEF SchedulerShape, TimersHeld
<1>3. \A t \in Tasks : /\ tasks'[t] \in TaskRecord
                       /\ HoldsTimer(tasks'[t])
                       /\ tasks'[t].defined = tasks[t].defined
                       /\ tasks'[t].running = tasks[t].running
                       /\ tasks'[t].current = tasks[t].current
                       /\ ~tasks[t].defined => Unarmed(tasks'[t])
  <2> TAKE t \in Tasks
  <2>1. tasks'[t] = IF t \in ArmedByStart THEN ArmFirst(tasks[t], t) ELSE tasks[t]
    BY DEF Start
  <2>2. CASE t \in ArmedByStart
    BY <1>1, <1>2, <2>1, <2>2, ArmFirstHolds DEF SchedulerShape
  <2>3. CASE t \notin ArmedByStart
    BY <1>1, <2>1, <2>3 DEF HoldsTimer, Unarmed
  <2> QED
    BY <2>2, <2>3
<1>4. sched' = [sched EXCEPT !.started = TRUE, !.stopped = FALSE] /\ sched.stop = "no"
  BY DEF Start, MayStart, StopHolds
<1>5. SchedulerShape'
  <2>1. tasks' \in [Tasks -> TaskRecord]
    BY <1>3 DEF Start
  <2> QED
    BY <1>4, <2>1 DEF SchedulerShape, Start
<1>6. RunsHeld'
  BY <1>3, RunsUntouched DEF Start
<1>7. TimersHeld'
  <2>1. Running'
    BY <1>4 DEF Running, SchedulerShape
  <2>2. order' = order /\ \A k \in DOMAIN order : order[k] \in Tasks
    BY DEF Start, SchedulerShape
  <2> QED
    BY <1>3, <2>1, <2>2 DEF TimersHeld
<1>8. StopHolds'
  BY <1>4 DEF StopHolds, SchedulerShape
<1> QED
  BY <1>5, <1>6, <1>7, <1>8

\* #run, for a task without a run in progress and whatever was done to its
\* timer before.
LEMMA RunInv ==
    ASSUME SchedulerInv, NEW t \in Tasks, ~tasks[t].running,
           NEW rec \in TaskRecord, HoldsTimer(rec), rec.defined = tasks[t].defined,
           ~rec.defined \/ ~Running => Unarmed(rec),
           Run(t, rec), UNCHANGED <<clock, order, sched>>
    PROVE  SchedulerInv'
<1> USE DEF SchedulerInv
<1>1. PICK i \in RunIds \ Busy :
        \/ /\ handlers' = [handlers EXCEPT ![i] =
                  [task |-> t, late |-> sched.stopped, aborted |-> FALSE,
                   timeout |-> IF TimeoutMs[t] > 0 THEN TimerDelay(TimeoutMs[t]) ELSE Off]]
           /\ tasks' = [tasks EXCEPT ![t] = [rec EXCEPT !.running = TRUE, !.current = i]]
        \/ /\ tasks' = [tasks EXCEPT ![t] = [rec EXCEPT !.running = FALSE, !.current = Settled]]
           /\ UNCHANGED handlers
  BY DEF Run, ThrewAtOnce
<1>2. TimersHeld'
  <2>1. \A u \in Tasks : u # t => tasks'[u] = tasks[u]
    BY <1>1 DEF SchedulerShape
  <2>2. tasks'[t].slots = rec.slots /\ tasks'[t].timer = rec.timer /\ tasks'[t].defined = rec.defined
    <3>1. \/ tasks'[t] = [rec EXCEPT !.running = TRUE, !.current = i]
          \/ tasks'[t] = [rec EXCEPT !.running = FALSE, !.current = Settled]
      BY <1>1 DEF SchedulerShape
    <3> QED
      BY <3>1 DEF TaskRecord
  <2>3. HoldsTimer(tasks'[t]) /\ (Unarmed(rec) => Unarmed(tasks'[t]))
    BY <2>2 DEF HoldsTimer, Unarmed
  <2>4. Running' = Running
    BY DEF Running
  <2>5. \A k \in DOMAIN order : order[k] \in Tasks
    BY DEF SchedulerShape
  <2> QED
    BY <2>1, <2>2, <2>3, <2>4, <2>5 DEF TimersHeld
<1>3. i \in RunIds /\ i \notin {NoRun, Settled} /\ handlers[i] = Idle
  BY <1>1 DEF Busy, RunIds, NoRun, Settled
<1>4. \A j \in Busy : handlers[j] \in RunRecord /\ handlers[j].task \in Tasks \ {t}
  BY DEF Busy, SchedulerShape, RunRecord, RunsHeld
<1>5. CASE handlers' # handlers
  <2> DEFINE new == [task |-> t, late |-> sched.stopped, aborted |-> FALSE,
                     timeout |-> IF TimeoutMs[t] > 0 THEN TimerDelay(TimeoutMs[t]) ELSE Off]
  <2>1. new \in RunRecord /\ new.task = t /\ new.late = sched.stopped
    <3>1. TimeoutMs[t] \in Nat
      BY SchedulerConstants
    <3>2. (IF TimeoutMs[t] > 0 THEN TimerDelay(TimeoutMs[t]) ELSE Off) \in Delays
      BY <3>1, TimerDelayType DEF Delays
    <3> QED
      BY <3>2 DEF RunRecord, SchedulerShape
  <2>2. /\ handlers' = [handlers EXCEPT ![i] = new]
        /\ tasks' = [tasks EXCEPT ![t] = [rec EXCEPT !.running = TRUE, !.current = i]]
    BY <1>1, <1>5
  <2> HIDE DEF new
  <2>3. SchedulerShape'
    <3>1. [rec EXCEPT !.running = TRUE, !.current = i] \in TaskRecord
      BY <1>3 DEF TaskRecord
    <3> QED
      BY <2>1, <2>2, <3>1 DEF SchedulerShape
  <2>4. \A j \in RunIds : handlers'[j] = IF j = i THEN new ELSE handlers[j]
    BY <2>2 DEF SchedulerShape
  <2>5. Busy' = Busy \cup {i}
    BY <1>3, <2>1, <2>4, NotIdle DEF Busy
  <2>6. /\ tasks'[t].running /\ tasks'[t].current = i
        /\ \A u \in Tasks \ {t} : tasks'[u] = tasks[u]
    BY <2>2 DEF SchedulerShape, TaskRecord
  <2>7. RunsHeld'
    <3>1. \A j \in Busy' : /\ tasks'[handlers'[j].task].running
                           /\ tasks'[handlers'[j].task].current = j
      BY <1>3, <1>4, <2>1, <2>4, <2>5, <2>6 DEF RunsHeld, Busy
    <3>2. \A u \in Tasks : tasks'[u].running => /\ tasks'[u].current \in Busy'
                                                /\ handlers'[tasks'[u].current].task = u
      BY <1>3, <2>1, <2>4, <2>5, <2>6 DEF RunsHeld, Busy
    <3>3. \A u \in Tasks : tasks'[u].current \in RunIds => tasks'[u].running
      BY <2>6 DEF RunsHeld
    <3> QED
      BY <3>1, <3>2, <3>3 DEF RunsHeld
  <2>8. StopHolds'
    BY <2>1, <2>4, <2>5, <1>3 DEF StopHolds, Busy
  <2> QED
    BY <1>2, <2>3, <2>7, <2>8
<1>6. CASE handlers' = handlers
  <2>1. tasks' = [tasks EXCEPT ![t] = [rec EXCEPT !.running = FALSE, !.current = Settled]]
    <3> DEFINE new == [task |-> t, late |-> sched.stopped, aborted |-> FALSE,
                       timeout |-> IF TimeoutMs[t] > 0 THEN TimerDelay(TimeoutMs[t]) ELSE Off]
    <3>1. new # Idle
      BY DEF Idle
    <3>2. handlers' # [handlers EXCEPT ![i] = new]
      BY <1>3, <1>6, <3>1 DEF SchedulerShape
    <3> QED
      BY <1>1, <3>2
  <2>2. SchedulerShape'
    <3>1. [rec EXCEPT !.running = FALSE, !.current = Settled] \in TaskRecord
      BY DEF TaskRecord
    <3> QED
      BY <1>6, <2>1, <3>1 DEF SchedulerShape
  <2>3. /\ ~tasks'[t].running /\ tasks'[t].current = Settled
        /\ \A u \in Tasks \ {t} : tasks'[u] = tasks[u]
    BY <2>1 DEF SchedulerShape, TaskRecord
  <2>4. RunsHeld'
    <3>1. Busy' = Busy
      BY <1>6 DEF Busy
    <3>2. Settled \notin RunIds
      BY DEF Settled, RunIds
    <3> QED
      BY <1>4, <1>6, <2>3, <3>1, <3>2 DEF RunsHeld
  <2> QED
    BY <1>2, <1>6, <2>2, <2>4, StopUntouched
<1> QED
  BY <1>5, <1>6

LEMMA TickInv ==
    ASSUME SchedulerInv, NEW t \in Tasks, Tick(t)
    PROVE  SchedulerInv'
<1> USE DEF SchedulerInv
<1>1. PICK h \in Slots :
        /\ tasks[t].slots[h] = 0
        /\ LET fired == [tasks[t] EXCEPT !.slots[h] = Off, !.timer = NoSlot]
           IN  \/ /\ sched.stopped \/ ~Satisfiable(t)
                  /\ tasks' = [tasks EXCEPT ![t] = fired]
                  /\ UNCHANGED handlers
               \/ /\ ~sched.stopped /\ Satisfiable(t)
                  /\ IF FreeToRun(t) THEN Run(t, Rearmed(fired, t))
                     ELSE /\ tasks' = [tasks EXCEPT ![t] = Rearmed(fired, t)]
                          /\ UNCHANGED handlers
        /\ UNCHANGED <<clock, order, sched>>
  BY DEF Tick
<1> DEFINE slots == [tasks[t].slots EXCEPT ![h] = Off]
           fired == [tasks[t] EXCEPT !.slots = slots, !.timer = NoSlot]
<1>2. tasks[t] \in TaskRecord /\ HoldsTimer(tasks[t]) /\ tasks[t].slots[h] # Off
  BY <1>1 DEF SchedulerShape, TimersHeld, Off
<1>3. tasks[t].defined /\ Running
  BY <1>2 DEF TimersHeld, Unarmed
<1>4. slots \in [Slots -> Delays] /\ \A k \in Slots : slots[k] = Off
  <2>1. tasks[t].slots \in [Slots -> Delays]
    BY <1>2 DEF TaskRecord
  <2>2. \A k \in Slots : k # h => tasks[t].slots[k] = Off
    BY <1>2 DEF HoldsTimer
  <2> QED
    BY <2>1, <2>2 DEF Delays
<1>5. [tasks[t] EXCEPT !.slots[h] = Off, !.timer = NoSlot] = fired
  BY <1>2 DEF TaskRecord
<1> HIDE DEF slots
<1>6. fired \in TaskRecord /\ fired.slots = slots /\ fired.defined = tasks[t].defined
      /\ fired.running = tasks[t].running /\ fired.current = tasks[t].current
  BY <1>2, <1>4 DEF TaskRecord
<1>7. Unarmed(fired) /\ HoldsTimer(fired)
  BY <1>4, <1>6 DEF Unarmed, HoldsTimer
<1>8. \/ /\ tasks' = [tasks EXCEPT ![t] = fired]
         /\ UNCHANGED handlers
      \/ /\ Satisfiable(t)
         /\ IF FreeToRun(t) THEN Run(t, Rearmed(fired, t))
            ELSE /\ tasks' = [tasks EXCEPT ![t] = Rearmed(fired, t)]
                 /\ UNCHANGED handlers
  BY <1>1, <1>5
<1> HIDE DEF fired
<1>9. Satisfiable(t) => /\ Rearmed(fired, t) \in TaskRecord
                        /\ HoldsTimer(Rearmed(fired, t))
                        /\ Rearmed(fired, t).defined = tasks[t].defined
                        /\ Rearmed(fired, t).running = tasks[t].running
                        /\ Rearmed(fired, t).current = tasks[t].current
  BY <1>6, <1>7, NextDelayType, SetTimerHolds DEF SchedulerShape, Rearmed
<1>10. CASE Satisfiable(t) /\ FreeToRun(t) /\ Run(t, Rearmed(fired, t))
  BY <1>1, <1>3, <1>9, <1>10, RunInv DEF FreeToRun
<1>11. ASSUME NEW rec \in TaskRecord, HoldsTimer(rec), rec.defined = tasks[t].defined,
              rec.running = tasks[t].running, rec.current = tasks[t].current,
              tasks' = [tasks EXCEPT ![t] = rec], UNCHANGED handlers
       PROVE  SchedulerInv'
  <2>1. \A u \in Tasks : tasks'[u] = IF u = t THEN rec ELSE tasks[u]
    BY <1>11 DEF SchedulerShape
  <2>2. SchedulerShape'
    BY <1>1, <1>11 DEF SchedulerShape
  <2>3. RunsHeld'
    BY <1>11, <2>1, RunsUntouched
  <2>4. TimersHeld'
    <3>1. Running' = Running
      BY <1>1 DEF Running
    <3>2. \A k \in DOMAIN order : order[k] \in Tasks
      BY DEF SchedulerShape
    <3> QED
      BY <1>1, <1>3, <1>11, <2>1, <3>1, <3>2 DEF TimersHeld
  <2>5. StopHolds'
    BY <1>1, <1>11, StopUntouched
  <2> QED
    BY <2>2, <2>3, <2>4, <2>5
<1> QED
  BY <1>6, <1>7, <1>8, <1>9, <1>10, <1>11

LEMMA RunNowInv ==
    ASSUME SchedulerInv, NEW t \in Tasks, RunNow(t)
    PROVE  SchedulerInv'
<1>1. tasks[t] \in TaskRecord /\ HoldsTimer(tasks[t])
      /\ (~tasks[t].defined \/ ~Running => Unarmed(tasks[t]))
  BY DEF SchedulerInv, SchedulerShape, TimersHeld
<1> QED
  BY <1>1, RunInv DEF RunNow, FreeToRun

LEMMA HandlerSettlesInv ==
    ASSUME SchedulerInv, NEW i \in RunIds, HandlerSettles(i)
    PROVE  SchedulerInv'
<1> USE DEF SchedulerInv
<1> DEFINE t == handlers[i].task
           rec == [tasks[t] EXCEPT !.running = FALSE, !.current = NoRun]
<1>1. i \in Busy /\ t \in Tasks /\ tasks[t] \in TaskRecord
  BY DEF HandlerSettles, Busy, SchedulerShape, RunRecord
<1>2. tasks[t].running /\ tasks[t].current = i
  BY <1>1 DEF RunsHeld
<1>3. tasks' = [tasks EXCEPT ![t] = rec]
  BY <1>1 DEF HandlerSettles, SchedulerShape, TaskRecord
<1>4. rec \in TaskRecord /\ ~rec.running /\ rec.current = NoRun /\ rec.defined = tasks[t].defined
      /\ rec.slots = tasks[t].slots /\ rec.timer = tasks[t].timer
  BY <1>1 DEF TaskRecord
<1> HIDE DEF rec, t
<1>5. \A u \in Tasks : tasks'[u] = IF u = t THEN rec ELSE tasks[u]
  BY <1>3 DEF SchedulerShape
<1>6. \A j \in RunIds : handlers'[j] = IF j = i THEN Idle ELSE handlers[j]
  BY DEF HandlerSettles, SchedulerShape
<1>7. Busy' = Busy \ {i}
  BY <1>6 DEF Busy
<1>8. SchedulerShape'
  <2>1. sched' \in [started : BOOLEAN, stopped : BOOLEAN, stop : {"no", "grace", "unwind", "returned"},
                    awaited : SUBSET RunIds, grace : Delays]
    BY DEF HandlerSettles, SchedulerShape
  <2> QED
    BY <1>3, <1>4, <2>1 DEF SchedulerShape, HandlerSettles
<1>9. RunsHeld'
  <2>1. NoRun \notin RunIds
    BY DEF NoRun, RunIds
  <2>2. \A j \in Busy \ {i} : handlers'[j] = handlers[j] /\ handlers[j].task \in Tasks \ {t}
    BY <1>2, <1>6 DEF RunsHeld, Busy, SchedulerShape, RunRecord
  <2>3. \A j \in Busy' : /\ tasks'[handlers'[j].task].running
                         /\ tasks'[handlers'[j].task].current = j
    BY <1>5, <1>7, <2>2 DEF RunsHeld
  <2>4. \A u \in Tasks : tasks'[u].running => /\ tasks'[u].current \in Busy'
                                              /\ handlers'[tasks'[u].current].task = u
    <3> SUFFICES ASSUME NEW u \in Tasks, tasks'[u].running
                 PROVE  /\ tasks'[u].current \in Busy'
                        /\ handlers'[tasks'[u].current].task = u
      OBVIOUS
    <3>1. u # t /\ tasks'[u] = tasks[u]
      BY <1>4, <1>5
    <3>2. tasks[u].current \in Busy /\ handlers[tasks[u].current].task = u
      BY <3>1 DEF RunsHeld
    <3>3. tasks[u].current # i
      BY <3>1, <3>2 DEF t
    <3> QED
      BY <1>7, <2>2, <3>1, <3>2, <3>3
  <2>5. \A u \in Tasks : tasks'[u].current \in RunIds => tasks'[u].running
    BY <1>4, <1>5, <2>1 DEF RunsHeld
  <2> QED
    BY <2>3, <2>4, <2>5 DEF RunsHeld
<1>10. TimersHeld'
  <2>1. \A u \in Tasks : /\ tasks'[u].slots = tasks[u].slots
                         /\ tasks'[u].timer = tasks[u].timer
                         /\ tasks'[u].defined = tasks[u].defined
    BY <1>4, <1>5
  <2>2. Running' = Running
    BY DEF Running, HandlerSettles, SchedulerShape
  <2>3. order' = order /\ \A k \in DOMAIN order : order[k] \in Tasks
    BY DEF HandlerSettles, SchedulerShape
  <2> QED
    BY <2>1, <2>2, <2>3 DEF TimersHeld, HoldsTimer, Unarmed
<1>11. StopHolds'
  <2>1. /\ sched'.stop = sched.stop /\ sched'.started = sched.started /\ sched'.stopped = sched.stopped
        /\ sched'.awaited = sched.awaited \ {i}
    BY DEF HandlerSettles, SchedulerShape
  <2> QED
    BY <1>6, <1>7, <2>1 DEF StopHolds, Busy
<1> QED
  BY <1>8, <1>9, <1>10, <1>11

\* A step that only marks runs as aborted, or moves their timeouts.
LEMMA RunsKept ==
    ASSUME SchedulerInv,
           \A i \in RunIds : \/ handlers'[i] = handlers[i]
                             \/ /\ i \in Busy /\ handlers'[i] \in RunRecord
                                /\ handlers'[i].task = handlers[i].task
                                /\ handlers'[i].late = handlers[i].late
    PROVE  /\ Busy' = Busy
           /\ \A i \in Busy : /\ handlers'[i].task = handlers[i].task
                              /\ handlers'[i].late = handlers[i].late
           /\ \A i \in Busy : handlers[i].task \in Tasks
           /\ \A i \in RunIds : handlers'[i] \in RunRecord \cup {Idle}
<1>1. \A i \in Busy : handlers[i] \in RunRecord
  BY DEF SchedulerInv, SchedulerShape, Busy
<1> QED
  BY <1>1, NotIdle DEF Busy, SchedulerInv, SchedulerShape, RunRecord

LEMMA RunTimeoutInv ==
    ASSUME SchedulerInv, NEW i \in RunIds, RunTimeout(i)
    PROVE  SchedulerInv'
<1> USE DEF SchedulerInv
<1>1. handlers[i] \in RunRecord /\ i \in Busy
  BY DEF RunTimeout, Busy, SchedulerShape
<1> DEFINE new == [handlers[i] EXCEPT !.aborted = TRUE, !.timeout = Off]
<1>2. new \in RunRecord /\ new.task = handlers[i].task /\ new.late = handlers[i].late
  BY <1>1 DEF RunRecord, Delays
<1>3. handlers' = [handlers EXCEPT ![i] = new]
  BY <1>1 DEF RunTimeout, SchedulerShape, RunRecord
<1> HIDE DEF new
<1>4. /\ Busy' = Busy
      /\ \A j \in Busy : /\ handlers'[j].task = handlers[j].task
                         /\ handlers'[j].late = handlers[j].late
      /\ \A j \in Busy : handlers[j].task \in Tasks
  <2>1. \A j \in RunIds : handlers'[j] = IF j = i THEN new ELSE handlers[j]
    BY <1>3 DEF SchedulerShape
  <2> QED
    BY <1>1, <1>2, <2>1, RunsKept
<1>5. SchedulerShape'
  BY <1>2, <1>3 DEF SchedulerShape, RunTimeout
<1>6. RunsHeld'
  BY <1>4 DEF RunsHeld, RunTimeout
<1>7. TimersHeld'
  BY DEF TimersHeld, RunTimeout, Running
<1>8. StopHolds'
  BY <1>4 DEF StopHolds, RunTimeout
<1> QED
  BY <1>5, <1>6, <1>7, <1>8

\* The runs that stop waits for are those in progress.
LEMMA InflightIsBusy ==
    ASSUME SchedulerInv
    PROVE  InflightRuns = Busy /\ (Inflight = {} => Busy = {})
<1> USE DEF SchedulerInv
<1>1. \A t \in Tasks : tasks[t].current \in RunIds \cup {NoRun, Settled}
  BY DEF SchedulerShape, TaskRecord
<1>2. ASSUME NEW i \in Busy
      PROVE  handlers[i].task \in Inflight /\ i \in InflightRuns
  <2>1. i \in RunIds /\ i # NoRun /\ i # Settled
    BY DEF Busy, RunIds, NoRun, Settled
  <2>2. handlers[i].task \in Tasks /\ tasks[handlers[i].task].current = i
    BY DEF Busy, SchedulerShape, RunRecord, RunsHeld
  <2> QED
    BY <2>1, <2>2 DEF Inflight, InflightRuns
<1>3. ASSUME NEW i \in InflightRuns PROVE i \in Busy
  BY <1>1 DEF Inflight, InflightRuns, RunsHeld
<1> QED
  BY <1>2, <1>3

LEMMA StopUnstartedInv ==
    ASSUME SchedulerInv, StopUnstarted
    PROVE  SchedulerInv'
<1> USE DEF SchedulerInv
<1>1. sched' = [sched EXCEPT !.stopped = TRUE] /\ ~sched.started /\ UNCHANGED <<clock, tasks, order, handlers>>
  BY DEF StopUnstarted
<1>2. SchedulerShape'
  BY <1>1 DEF SchedulerShape
<1>3. RunsHeld'
  BY <1>1, RunsUntouched
<1>4. TimersHeld'
  BY <1>1 DEF TimersHeld, Running, SchedulerShape
<1>5. StopHolds'
  BY <1>1 DEF StopHolds, SchedulerShape
<1> QED
  BY <1>2, <1>3, <1>4, <1>5

\* clearTimeout gets at every timer that is pending.
LEMMA ClearedUnarmed ==
    ASSUME NEW rec \in TaskRecord, HoldsTimer(rec)
    PROVE  /\ Cleared(rec) \in TaskRecord /\ Unarmed(Cleared(rec))
           /\ Cleared(rec).running = rec.running
           /\ Cleared(rec).current = rec.current
           /\ Cleared(rec).defined = rec.defined
<1> DEFINE slots == [h \in Slots |-> IF h = rec.timer THEN Off ELSE rec.slots[h]]
<1>1. slots \in [Slots -> Delays] /\ \A h \in Slots : slots[h] = Off
  BY DEF TaskRecord, HoldsTimer, Delays
<1>2. Cleared(rec) = [rec EXCEPT !.slots = slots, !.timer = NoSlot, !.nextIn = Off]
  BY DEF Cleared
<1> HIDE DEF slots
<1>3. Cleared(rec).slots = slots /\ Cleared(rec) \in TaskRecord
  BY <1>1, <1>2 DEF TaskRecord, Delays
<1> QED
  BY <1>1, <1>2, <1>3 DEF TaskRecord, Unarmed

LEMMA StopInv ==
    ASSUME SchedulerInv, Stop
    PROVE  SchedulerInv'
<1> USE DEF SchedulerInv
<1>1. \A t \in Tasks : /\ tasks'[t] \in TaskRecord /\ Unarmed(tasks'[t])
                       /\ tasks'[t].running = tasks[t].running
                       /\ tasks'[t].current = tasks[t].current
                       /\ tasks'[t].defined = tasks[t].defined
  BY ClearedUnarmed DEF Stop, SchedulerShape, TimersHeld
<1>2. TimerDelay(GraceMs) \in Delays
  BY SchedulerConstants, TimerDelayType DEF Delays
<1>3. UNCHANGED <<clock, order, handlers>> /\ Busy' = Busy
  BY DEF Stop, Busy
<1>4. InflightRuns = Busy /\ (Inflight = {} => Busy = {}) /\ Busy \subseteq RunIds
  BY InflightIsBusy DEF Busy
<1>5. SchedulerShape'
  <2>1. tasks' \in [Tasks -> TaskRecord]
    BY <1>1 DEF Stop
  <2>2. sched' \in [started : BOOLEAN, stopped : BOOLEAN, stop : {"no", "grace", "unwind", "returned"},
                    awaited : SUBSET RunIds, grace : Delays]
    BY <1>2, <1>4 DEF Stop, SchedulerShape
  <2> QED
    BY <1>3, <2>1, <2>2 DEF SchedulerShape
<1>6. RunsHeld'
  BY <1>1, <1>3, RunsUntouched
<1>7. TimersHeld'
  <2>1. \A k \in DOMAIN order : order[k] \in Tasks
    BY DEF SchedulerShape
  <2> QED
    BY <1>1, <1>3, <2>1 DEF TimersHeld, HoldsTimer, Unarmed
<1>8. StopHolds'
  <2>1. sched'.started /\ sched'.stopped
        /\ \/ Inflight = {} /\ sched'.stop = "returned"
           \/ sched'.stop = "grace" /\ sched'.awaited = InflightRuns
    BY DEF Stop, Running, SchedulerShape
  <2> QED
    BY <1>3, <1>4, <2>1 DEF StopHolds
<1> QED
  BY <1>5, <1>6, <1>7, <1>8

LEMMA StopSettledInv ==
    ASSUME SchedulerInv, StopSettled
    PROVE  SchedulerInv'
<1> USE DEF SchedulerInv
<1>1. /\ sched' = [sched EXCEPT !.stop = "returned", !.awaited = {}, !.grace = Off]
      /\ sched.stop \in {"grace", "unwind"} /\ sched.awaited = {}
      /\ UNCHANGED <<clock, tasks, order, handlers>>
  BY DEF StopSettled, StopReturns
<1>2. SchedulerShape'
  BY <1>1 DEF SchedulerShape, Delays
<1>3. RunsHeld'
  BY <1>1, RunsUntouched
<1>4. TimersHeld'
  BY <1>1 DEF TimersHeld, Running, SchedulerShape
<1>5. StopHolds'
  BY <1>1 DEF StopHolds, SchedulerShape, Busy
<1> QED
  BY <1>2, <1>3, <1>4, <1>5

LEMMA StopDeadlineInv ==
    ASSUME SchedulerInv, StopDeadline
    PROVE  SchedulerInv'
<1> USE DEF SchedulerInv
<1>1. InflightRuns = Busy /\ (Inflight = {} => Busy = {}) /\ Busy \subseteq RunIds
  BY InflightIsBusy DEF Busy
<1>2. \A i \in RunIds : handlers'[i] = IF i \in Busy THEN [handlers[i] EXCEPT !.aborted = TRUE]
                                       ELSE handlers[i]
  BY <1>1 DEF StopDeadline, AbortedByStop
<1>3. \A i \in Busy : LET new == [handlers[i] EXCEPT !.aborted = TRUE]
                      IN  new \in RunRecord /\ new.task = handlers[i].task /\ new.late = handlers[i].late
  BY DEF Busy, SchedulerShape, RunRecord
<1>4. /\ Busy' = Busy
      /\ \A j \in Busy : /\ handlers'[j].task = handlers[j].task
                         /\ handlers'[j].late = handlers[j].late
      /\ \A j \in Busy : handlers[j].task \in Tasks
      /\ \A j \in RunIds : handlers'[j] \in RunRecord \cup {Idle}
  BY <1>1, <1>2, <1>3, RunsKept
<1>5. /\ sched.stop = "grace" /\ sched'.started = sched.started /\ sched'.stopped = sched.stopped
      /\ sched'.stop = (IF Inflight = {} THEN "returned" ELSE "unwind")
      /\ sched'.awaited = Busy
      /\ UNCHANGED <<clock, tasks, order>>
  BY <1>1 DEF StopDeadline, SchedulerShape
<1>6. SchedulerShape'
  <2>1. handlers' \in [RunIds -> RunRecord \cup {Idle}]
    BY <1>4 DEF StopDeadline
  <2>2. sched' \in [started : BOOLEAN, stopped : BOOLEAN, stop : {"no", "grace", "unwind", "returned"},
                    awaited : SUBSET RunIds, grace : Delays]
    BY <1>1 DEF StopDeadline, SchedulerShape, Delays
  <2> QED
    BY <1>5, <2>1, <2>2 DEF SchedulerShape
<1>7. RunsHeld'
  BY <1>4, <1>5 DEF RunsHeld
<1>8. TimersHeld'
  BY <1>5 DEF TimersHeld, Running
<1>9. StopHolds'
  BY <1>1, <1>4, <1>5 DEF StopHolds
<1> QED
  BY <1>6, <1>7, <1>8, <1>9

LEMMA PassedType ==
    ASSUME NEW d \in Delays
    PROVE  Passed(d) \in Delays /\ (Passed(d) = Off <=> d = Off)
BY DEF Passed, Delays, Off

LEMMA ElapseInv ==
    ASSUME SchedulerInv, Elapse
    PROVE  SchedulerInv'
<1> USE DEF SchedulerInv
<1>1. \A t \in Tasks : /\ tasks'[t] \in TaskRecord
                       /\ \A h \in Slots : tasks'[t].slots[h] = Off <=> tasks[t].slots[h] = Off
                       /\ tasks'[t].timer = tasks[t].timer
                       /\ tasks'[t].defined = tasks[t].defined
                       /\ tasks'[t].running = tasks[t].running
                       /\ tasks'[t].current = tasks[t].current
  <2> TAKE t \in Tasks
  <2> DEFINE slots == [h \in Slots |-> Passed(tasks[t].slots[h])]
  <2>1. tasks[t] \in TaskRecord
    BY DEF SchedulerShape
  <2>2. slots \in [Slots -> Delays] /\ \A h \in Slots : slots[h] = Off <=> tasks[t].slots[h] = Off
    BY <2>1, PassedType DEF TaskRecord
  <2>3. Passed(tasks[t].nextIn) \in Delays
    BY <2>1, PassedType DEF TaskRecord
  <2>4. tasks'[t] = [tasks[t] EXCEPT !.slots = slots, !.nextIn = Passed(tasks[t].nextIn)]
    BY <2>1 DEF Elapse, TaskRecord
  <2> HIDE DEF slots
  <2>5. tasks'[t].slots = slots
    BY <2>1, <2>4 DEF TaskRecord
  <2> QED
    BY <2>1, <2>2, <2>3, <2>4, <2>5 DEF TaskRecord
<1>2. \A i \in RunIds : handlers'[i] = IF i \in Busy THEN [handlers[i] EXCEPT !.timeout = Passed(handlers[i].timeout)]
                                       ELSE handlers[i]
  BY DEF Elapse, Busy, SchedulerShape, RunRecord
<1>3. \A i \in Busy : LET new == [handlers[i] EXCEPT !.timeout = Passed(handlers[i].timeout)]
                      IN  new \in RunRecord /\ new.task = handlers[i].task /\ new.late = handlers[i].late
  <2> TAKE i \in Busy
  <2>1. handlers[i] \in RunRecord
    BY DEF Busy, SchedulerShape
  <2>2. Passed(handlers[i].timeout) \in Delays
    BY <2>1, PassedType DEF RunRecord
  <2> QED
    BY <2>1, <2>2 DEF RunRecord
<1>4. /\ Busy' = Busy
      /\ \A j \in Busy : /\ handlers'[j].task = handlers[j].task
                         /\ handlers'[j].late = handlers[j].late
      /\ \A j \in Busy : handlers[j].task \in Tasks
      /\ \A j \in RunIds : handlers'[j] \in RunRecord \cup {Idle}
  BY <1>2, <1>3, RunsKept
<1>5. /\ sched' \in [started : BOOLEAN, stopped : BOOLEAN, stop : {"no", "grace", "unwind", "returned"},
                     awaited : SUBSET RunIds, grace : Delays]
      /\ sched'.started = sched.started /\ sched'.stopped = sched.stopped
      /\ sched'.stop = sched.stop /\ sched'.awaited = sched.awaited
  <2>1. Passed(sched.grace) \in Delays
    BY PassedType DEF SchedulerShape
  <2>2. sched' = [sched EXCEPT !.grace = Passed(sched.grace)]
    BY DEF Elapse, SchedulerShape
  <2> QED
    BY <2>1, <2>2 DEF SchedulerShape
<1>6. order' = order /\ \A k \in DOMAIN order : order[k] \in Tasks
  <2>1. order' = order
    BY DEF Elapse
  <2> QED
    BY <2>1 DEF SchedulerShape
<1>7. SchedulerShape'
  <2>1. clock' \in 0..Day - 1
    <3>1. clock' = (clock + 1) % Day
      BY DEF Elapse
    <3> QED
      BY <3>1, SchedulerConstants DEF SchedulerShape
  <2>2. tasks' \in [Tasks -> TaskRecord]
    BY <1>1 DEF Elapse
  <2>3. handlers' \in [RunIds -> RunRecord \cup {Idle}]
    BY <1>4 DEF Elapse
  <2> QED
    BY <1>5, <1>6, <2>1, <2>2, <2>3 DEF SchedulerShape
<1>8. RunsHeld'
  BY <1>1, <1>4 DEF RunsHeld, SchedulerShape
<1>9. TimersHeld'
  BY <1>1, <1>5, <1>6 DEF TimersHeld, HoldsTimer, Unarmed, Running
<1>10. StopHolds'
  BY <1>4, <1>5 DEF StopHolds
<1> QED
  BY <1>7, <1>8, <1>9, <1>10

LEMMA InvInductive == SchedulerInv /\ [Next]_vars => SchedulerInv'
<1> SUFFICES ASSUME SchedulerInv, [Next]_vars PROVE SchedulerInv'
  OBVIOUS
<1>1. ASSUME NEW t \in Tasks, NEW b \in OnStart[t], Define(t, b) PROVE SchedulerInv'
  <2>1. b \in BOOLEAN
    BY SchedulerConstants
  <2> QED
    BY <1>1, <2>1, DefineInv
<1>2. CASE UNCHANGED vars
  BY <1>2 DEF vars, SchedulerInv, SchedulerShape, RunsHeld, TimersHeld, StopHolds, Busy, Running
<1> QED
  BY <1>1, <1>2, TickInv, RunNowInv, StartInv, StopUnstartedInv, StopInv, StopSettledInv,
     StopDeadlineInv, HandlerSettlesInv, RunTimeoutInv, ElapseInv DEF Next

LEMMA SchedulerCorrect == Spec => []SchedulerInv
BY InvInitially, InvInductive, PTL DEF Spec

-----------------------------------------------------------------------------
(* The scheduler's state always has its shape: in particular every delay that
   setTimeout is given is a number, since nextCronRun is only asked for
   expressions that match some time.  And running says what current says, in
   whatever order handlers throw, suspend and settle. *)
THEOREM SchedulerTypeCorrect == Spec => []SchedulerTypeOK
<1>1. ASSUME SchedulerInv PROVE SchedulerTypeOK
  <2>1. Busy \subseteq RunIds
    BY DEF Busy
  <2> QED
    BY <1>1, <2>1 DEF SchedulerInv, RunsHeld, SchedulerTypeOK
<1> QED
  BY <1>1, SchedulerCorrect, PTL

(* "A task never overlaps itself", however ticks, manual runs, timeouts and
   stop interleave. *)
THEOREM SingleFlightCorrect == Spec => []SingleFlight
<1>1. ASSUME SchedulerInv PROVE SingleFlight
  <2> SUFFICES ASSUME NEW t \in Tasks
               PROVE  Cardinality(RunsOf(t)) = IF tasks[t].running THEN 1 ELSE 0
    BY DEF SingleFlight
  <2>1. CASE tasks[t].running
    <3>1. RunsOf(t) = {tasks[t].current}
      BY <1>1, <2>1 DEF SchedulerInv, RunsHeld, RunsOf
    <3> QED
      BY <2>1, <3>1, FS_Singleton
  <2>2. CASE ~tasks[t].running
    <3>1. RunsOf(t) = {}
      BY <1>1, <2>2 DEF SchedulerInv, RunsHeld, RunsOf
    <3> QED
      BY <2>2, <3>1, FS_EmptySet
  <2> QED
    BY <2>1, <2>2
<1> QED
  BY <1>1, SchedulerCorrect, PTL

(* "Exactly one timer is ever pending per task": a task that is re-armed by
   its tick, by start or by define never loses the handle of a pending timer. *)
THEOREM OneTimerCorrect == Spec => []OneTimerPending
<1>1. SchedulerInv => OneTimerPending
  BY DEF SchedulerInv, TimersHeld, HoldsTimer, OneTimerPending
<1> QED
  BY <1>1, SchedulerCorrect, PTL

(* When stop() has returned nothing of the schedule is left: no timer, and
   no run that was in progress when it was called. *)
THEOREM StopFinalCorrect == Spec => []StopIsFinal
<1>1. SchedulerInv => StopIsFinal
  BY DEF SchedulerInv, TimersHeld, StopHolds, Unarmed, Running, StopIsFinal
<1> QED
  BY <1>1, SchedulerCorrect, PTL
=============================================================================
