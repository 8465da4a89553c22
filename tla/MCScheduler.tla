---------------------------- MODULE MCScheduler ----------------------------
(***************************************************************************)
(* Small schedulers: an interval task that runs at once and times out, a   *)
(* cron task, and a cron task whose expression matches no time.            *)
(***************************************************************************)
EXTENDS Scheduler, TLC

CONSTANTS often, rarely, never

MCTasks      == {often, rarely, never}
MCInterval   == often :> 2 @@ rarely :> 0 @@ never :> 0
MCCronAt     == often :> {} @@ rarely :> {0} @@ never :> {}
MCOnStart    == often :> {TRUE} @@ rarely :> {FALSE} @@ never :> BOOLEAN
MCManual     == {often, rarely}
MCTimeout    == often :> 1 @@ rarely :> 0 @@ never :> 0
=============================================================================
