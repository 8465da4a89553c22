------------------------------ MODULE Scheduler ------------------------------
(***************************************************************************)
(* The Scheduler class of src/scheduler.ts: tasks on a fixed interval or a *)
(* cron expression, with at most one run of a task at a time, manual runs, *)
(* per-run timeouts and a graceful stop.                                   *)
(*                                                                         *)
(* Everything happens on one event loop, so a step is what runs between    *)
(* two awaits: a call of the API, a timer callback, or the settlement of a *)
(* handler.  Timers never fire early, and may fire arbitrarily late.       *)
(*                                                                         *)
(* Time is relative: every timer counts down, as does the time that is     *)
(* left until nextRunAt, and the wall clock runs in a circle of length     *)
(* Day on which a cron expression is the set of the instants it matches.   *)
(* So no bound on time is needed.  The statistics (runs, failures,         *)
(* skipped, lastRunAt, lastDurationMs, lastError) steer nothing and are    *)
(* left out, and so are getState and list, which only read.                *)
(***************************************************************************)
EXTENDS Integers, Sequences, FiniteSets

CONSTANTS
    Tasks,
    IntervalMs,     \* task -> its intervalMs, or 0 if it has a cron expression
    CronAt,         \* task -> the instants of the day that its cron matches
    Day,            \* the length of the wall clock's cycle
    OnStart,        \* task -> the values of runOnStart it may be defined with
    TimeoutMs,      \* task -> its timeoutMs, 0 for none
    Manual,         \* the tasks that runNow is called on
    GraceMs,
    TimerLimit,     \* the longest delay setTimeout honours, 2^31 - 1 ms
    MaxRuns         \* bound: handler invocations in progress at a time

ASSUME SchedulerConstants ==
    /\ Day \in Nat \ {0} /\ TimerLimit \in Nat \ {0} /\ GraceMs \in Nat
    /\ IntervalMs \in [Tasks -> Nat] /\ TimeoutMs \in [Tasks -> Nat]
    /\ CronAt \in [Tasks -> SUBSET (0..Day - 1)]
    /\ OnStart \in [Tasks -> SUBSET BOOLEAN]
    /\ Manual \subseteq Tasks
    /\ MaxRuns \in Nat \ {0}

RunIds == 1..MaxRuns
Slots  == {1, 2}    \* a task's timer handles; the code means to use one at a time
Off    == -1        \* no timer, or no nextRunAt
NoSlot == 0
NoRun  == 0
Settled == -1       \* a reference to a run that is over
Delays == {Off} \cup Nat

TaskRecord ==
    [defined : BOOLEAN,
     runOnStart : BOOLEAN,
     slots   : [Slots -> Delays],               \* what is left until each handle fires
     timer   : Slots \cup {NoSlot},             \* timer
     nextIn  : Delays,                          \* nextRunAt, from now
     running : BOOLEAN,
     current : RunIds \cup {NoRun, Settled}]    \* current

RunRecord ==
    [task : Tasks, late : BOOLEAN, aborted : BOOLEAN, timeout : Delays]

VARIABLES
    clock,      \* the wall clock, 0..Day - 1
    tasks,      \* #tasks
    order,      \* its iteration order
    sched,      \* #started, #stopped, and the stop() call in progress
    handlers    \* run -> the handler invocation in progress, or Idle

vars == <<clock, tasks, order, sched, handlers>>

Idle == [late |-> FALSE]

Init ==
    /\ clock = 0
    /\ tasks = [t \in Tasks |-> [defined |-> FALSE, runOnStart |-> FALSE,
                                 slots |-> [h \in Slots |-> Off], timer |-> NoSlot,
                                 nextIn |-> Off, running |-> FALSE, current |-> NoRun]]
    /\ order = <<>>
    /\ sched = [started |-> FALSE, stopped |-> FALSE, stop |-> "no", awaited |-> {}, grace |-> Off]
    /\ handlers = [i \in RunIds |-> Idle]

Busy    == {i \in RunIds : handlers[i] # Idle}
Running == sched.started /\ ~sched.stopped

-----------------------------------------------------------------------------
(***************************************************************************)
(* Arming a task's timer.                                                  *)
(***************************************************************************)
\* nextCronRun throws for an expression that matches no time.
Satisfiable(t) == IntervalMs[t] # 0 \/ CronAt[t] # {}

\* The first match strictly after now.
NextCron(t) == CHOOSE d \in 1..Day :
                  /\ (clock + d) % Day \in CronAt[t]
                  /\ \A e \in 1..d - 1 : (clock + e) % Day \notin CronAt[t]

NextDelay(t) == IF IntervalMs[t] # 0 THEN IntervalMs[t] ELSE NextCron(t)

\* setTimeout: a delay out of its range is replaced by 1.
TimerDelay(d) == IF d < 1 \/ d > TimerLimit THEN 1 ELSE d

SetTimer(rec, delay) ==
    LET h == IF rec.slots[1] = Off THEN 1 ELSE 2
    IN  [rec EXCEPT !.timer = h, !.slots[h] = TimerDelay(delay), !.nextIn = delay]

\* The first timer after start or define.
ArmFirst(rec, t) == SetTimer(rec, IF rec.runOnStart THEN 0 ELSE NextDelay(t))

\* With runOnStart the expression is not looked at before the first tick.
ArmThrows(rec, t) == ~rec.runOnStart /\ ~Satisfiable(t)

-----------------------------------------------------------------------------
(***************************************************************************)
(* define, start                                                           *)
(***************************************************************************)
\* If arming throws, the task stays registered.
Define(t, runOnStart) ==
    /\ ~tasks[t].defined
    /\ order' = Append(order, t)
    /\ LET rec == [tasks[t] EXCEPT !.defined = TRUE, !.runOnStart = runOnStart]
       IN  tasks' = [tasks EXCEPT ![t] = IF Running /\ ~ArmThrows(rec, t)
                                         THEN ArmFirst(rec, t) ELSE rec]
    /\ UNCHANGED <<clock, sched, handlers>>

\* The tasks that start() arms: it throws at the first it cannot arm.
ArmedByStart ==
    {order[i] : i \in {k \in DOMAIN order : \A j \in 1..k : ~ArmThrows(tasks[order[j]], order[j])}}

\* Mutant: start does not look at #started.
MayStartAgain == TRUE

MayStart == ~sched.started

Start ==
    /\ MayStart
    /\ sched' = [sched EXCEPT !.started = TRUE, !.stopped = FALSE]
    /\ tasks' = [t \in Tasks |-> IF t \in ArmedByStart THEN ArmFirst(tasks[t], t) ELSE tasks[t]]
    /\ UNCHANGED <<clock, order, handlers>>

-----------------------------------------------------------------------------
(***************************************************************************)
(* Runs.                                                                   *)
(***************************************************************************)
\* Mutant: running is set together with current, behind the call of the handler.
ThrewAtOnceMarkedLate(rec) == [rec EXCEPT !.running = TRUE, !.current = Settled]

\* The handler threw before its first await: "finally" runs before current is set.
ThrewAtOnce(rec) == [rec EXCEPT !.running = FALSE, !.current = Settled]

\* #run: the handler suspends, or throws at once.
Run(t, rec) ==
    \E i \in RunIds \ Busy :
        /\ \A j \in RunIds \ Busy : i <= j
        /\ \/ /\ handlers' = [handlers EXCEPT ![i] =
                     [task |-> t, late |-> sched.stopped, aborted |-> FALSE,
                      timeout |-> IF TimeoutMs[t] > 0 THEN TimerDelay(TimeoutMs[t]) ELSE Off]]
              /\ tasks' = [tasks EXCEPT ![t] = [rec EXCEPT !.running = TRUE, !.current = i]]
           \/ /\ tasks' = [tasks EXCEPT ![t] = ThrewAtOnce(rec)]
              /\ UNCHANGED handlers

\* Mutant: a run that has been aborted is not counted as running.
FreeToRunUnlessCurrent(t) == tasks[t].current \in RunIds => handlers[tasks[t].current].aborted

FreeToRun(t) == ~tasks[t].running

\* Mutant: a tick that is skipped does not re-arm.
RearmedUnlessRunning(rec, t) == IF tasks[t].running THEN rec ELSE SetTimer(rec, NextDelay(t))

\* #arm(task, false), the schedule being satisfiable
Rearmed(rec, t) == SetTimer(rec, NextDelay(t))

\* A cadence timer fires: re-arm first, then run, or skip.  An expression
\* without a match makes #arm throw, and the tick is lost.
Tick(t) ==
    \E h \in Slots :
        /\ tasks[t].slots[h] = 0
        /\ LET fired == [tasks[t] EXCEPT !.slots[h] = Off, !.timer = NoSlot]
           IN  \/ /\ sched.stopped \/ ~Satisfiable(t)
                  /\ tasks' = [tasks EXCEPT ![t] = fired]
                  /\ UNCHANGED handlers
               \/ /\ ~sched.stopped /\ Satisfiable(t)
                  /\ IF FreeToRun(t) THEN Run(t, Rearmed(fired, t))
                     ELSE /\ tasks' = [tasks EXCEPT ![t] = Rearmed(fired, t)]
                          /\ UNCHANGED handlers
        /\ UNCHANGED <<clock, order, sched>>

\* A manual run, at any time, also after stop.
RunNow(t) ==
    /\ t \in Manual /\ tasks[t].defined /\ FreeToRun(t)
    /\ Run(t, tasks[t])
    /\ UNCHANGED <<clock, order, sched>>

\* The handler of run i returns or throws.
HandlerSettles(i) ==
    /\ i \in Busy
    /\ tasks' = [tasks EXCEPT ![handlers[i].task].running = FALSE,
                              ![handlers[i].task].current = NoRun]
    /\ handlers' = [handlers EXCEPT ![i] = Idle]
    /\ sched' = [sched EXCEPT !.awaited = @ \ {i}]
    /\ UNCHANGED <<clock, order>>

RunTimeout(i) ==
    /\ i \in Busy /\ handlers[i].timeout = 0
    /\ handlers' = [handlers EXCEPT ![i].aborted = TRUE, ![i].timeout = Off]
    /\ UNCHANGED <<clock, tasks, order, sched>>

-----------------------------------------------------------------------------
(***************************************************************************)
(* stop                                                                    *)
(***************************************************************************)
Inflight == {t \in Tasks : tasks[t].current # NoRun}

InflightRuns == {tasks[t].current : t \in Inflight} \ {Settled}

Cleared(rec) ==
    [rec EXCEPT !.slots = [h \in Slots |-> IF h = rec.timer THEN Off ELSE rec.slots[h]],
                !.timer = NoSlot, !.nextIn = Off]

\* A call before start, or a second one, only sets #stopped.
StopUnstarted ==
    /\ ~sched.started /\ ~sched.stopped
    /\ sched' = [sched EXCEPT !.stopped = TRUE]
    /\ UNCHANGED <<clock, tasks, order, handlers>>

Stop ==
    /\ Running
    /\ tasks' = [t \in Tasks |-> Cleared(tasks[t])]
    /\ sched' = IF Inflight = {} THEN [sched EXCEPT !.stopped = TRUE, !.stop = "returned"]
                ELSE [sched EXCEPT !.stopped = TRUE, !.stop = "grace", !.awaited = InflightRuns,
                                   !.grace = TimerDelay(GraceMs)]
    /\ UNCHANGED <<clock, order, handlers>>

\* Mutant: what is aborted is not awaited.
StopReturnsEarly == sched.stop \in {"grace", "unwind"} /\ (sched.stop = "grace" => sched.awaited = {})

StopReturns == sched.stop \in {"grace", "unwind"} /\ sched.awaited = {}

StopSettled ==
    /\ StopReturns
    /\ sched' = [sched EXCEPT !.stop = "returned", !.awaited = {}, !.grace = Off]
    /\ UNCHANGED <<clock, tasks, order, handlers>>

\* Mutant: the deadline passes and nobody is told.
AbortedByStopNever(i) == FALSE

AbortedByStop(i) == i \in InflightRuns

StopDeadline ==
    /\ sched.stop = "grace" /\ sched.grace = 0
    /\ sched' = [sched EXCEPT !.stop = IF Inflight = {} THEN "returned" ELSE "unwind",
                              !.awaited = InflightRuns, !.grace = Off]
    /\ handlers' = [i \in RunIds |-> IF AbortedByStop(i) THEN [handlers[i] EXCEPT !.aborted = TRUE]
                                     ELSE handlers[i]]
    /\ UNCHANGED <<clock, tasks, order>>

-----------------------------------------------------------------------------
Passed(d) == IF d > 0 THEN d - 1 ELSE d

\* Time passes: one unit, for every timer.
Elapse ==
    /\ clock' = (clock + 1) % Day
    /\ tasks' = [t \in Tasks |-> [tasks[t] EXCEPT !.slots = [h \in Slots |-> Passed(@[h])],
                                                  !.nextIn = Passed(@)]]
    /\ sched' = [sched EXCEPT !.grace = Passed(@)]
    /\ handlers' = [i \in RunIds |-> IF i \in Busy THEN [handlers[i] EXCEPT !.timeout = Passed(@)]
                                     ELSE Idle]
    /\ UNCHANGED order

Next ==
    \/ \E t \in Tasks : (\E b \in OnStart[t] : Define(t, b)) \/ Tick(t) \/ RunNow(t)
    \/ Start \/ StopUnstarted \/ Stop \/ StopSettled \/ StopDeadline
    \/ \E i \in RunIds : HandlerSettles(i) \/ RunTimeout(i)
    \/ Elapse

Spec == Init /\ [][Next]_vars

\* What the runtime guarantees: time passes, due timers fire, settled
\* promises are resumed, and a handler whose signal is aborted ends.
Fairness ==
    /\ WF_vars(Elapse) /\ WF_vars(StopSettled) /\ WF_vars(StopDeadline)
    /\ \A t \in Tasks : WF_vars(Tick(t))
    /\ \A i \in RunIds : WF_vars(RunTimeout(i)) /\ WF_vars(i \in Busy /\ handlers[i].aborted /\ HandlerSettles(i))

FairSpec == Spec /\ Fairness

-----------------------------------------------------------------------------
SchedulerShape ==
    /\ clock \in 0..Day - 1
    /\ tasks \in [Tasks -> TaskRecord]
    /\ order \in Seq(Tasks)
    /\ sched \in [started : BOOLEAN, stopped : BOOLEAN, stop : {"no", "grace", "unwind", "returned"},
                  awaited : SUBSET RunIds, grace : Delays]
    /\ handlers \in [RunIds -> RunRecord \cup {Idle}]

(* The shape of the scheduler's state; and the two notions of a run in progress
   agree, running, by which ticks and manual runs are skipped, and current, by
   which stop() waits, also after a handler that threw before current was set. *)
SchedulerTypeOK ==
    /\ SchedulerShape
    /\ \A t \in Tasks : tasks[t].running <=> tasks[t].current \in Busy

\* The tasks that precede the first one with an expression that never matches.
Schedulable ==
    {order[i] : i \in {k \in DOMAIN order : \A j \in 1..k : Satisfiable(order[j])}}

RunsOf(t) == {i \in Busy : handlers[i].task = t}

(* "A task never overlaps itself": ticks, manual runs and runs that outlast
   their timeout or the grace period never put a second handler of the same
   task in progress, and running tells whether there is one. *)
SingleFlight ==
    \A t \in Tasks : Cardinality(RunsOf(t)) = IF tasks[t].running THEN 1 ELSE 0

(* "Exactly one timer is ever pending per task": no handle is ever pending
   that the task does not hold, so that stop can clear it. *)
OneTimerPending ==
    \A t \in Tasks, h \in Slots : tasks[t].slots[h] # Off => tasks[t].timer = h

(* Once stop() has returned, no timer is pending and no handler that was in
   progress when stop() was called, or that a timer started, is still going. *)
StopIsFinal ==
    sched.stop = "returned" =>
        /\ \A t \in Tasks, h \in Slots : tasks[t].slots[h] = Off
        /\ \A i \in Busy : handlers[i].late

(* A run that the schedule starts does not start before the time it is
   scheduled for. *)
NotBeforeItsTime ==
    [][\A t \in Tasks : Tick(t) /\ ~sched.stopped => tasks[t].nextIn = 0]_vars

(* stop() returns, by itself or because it aborts the handlers in progress once
   the grace period is over, which then end. *)
StopReturnsEventually == (sched.stop \in {"grace", "unwind"}) ~> (sched.stop = "returned")

(* A task whose handler hangs is still ticked over and over, so that the
   overruns are noticed and the next run can start once it ends. *)
TicksForever ==
    \A t \in Tasks :
        <>[](Running /\ t \in Schedulable) => []<><<Tick(t)>>_vars
=============================================================================
