---------------------------- MODULE JobLifecycle ----------------------------
(***************************************************************************)
(* What the job queue of src/jobs.ts promises about one job, whatever the  *)
(* store, the workers and the clocks do: the life cycle that the comment   *)
(* on JobStatus draws.  A job is enqueued once, each claim spends one      *)
(* attempt of its budget, a terminal job never runs again, and only a      *)
(* terminal job may be forgotten.                                          *)
(*                                                                         *)
(* One step may move several jobs, because a single call of the store      *)
(* reaps every expired lease before it does anything else.                 *)
(***************************************************************************)
EXTENDS Integers

CONSTANTS
    Jobs,       \* the identities a job can have
    Budgets     \* the values maxAttempts can have

VARIABLES
    status,     \* "new" before the first put, "purged" after the sweep
    attempts,   \* claims made so far
    budget      \* maxAttempts

vars == <<status, attempts, budget>>

Terminal == {"completed", "dead", "cancelled"}
Waiting  == {"queued", "delayed"}
Statuses == {"new", "running", "purged"} \cup Waiting \cup Terminal

TypeOK ==
    \A j \in Jobs : status[j] \in Statuses /\ attempts[j] \in Nat /\ budget[j] \in Budgets \cup {0}

Init ==
    /\ status = [j \in Jobs |-> "new"]
    /\ attempts = [j \in Jobs |-> 0]
    /\ budget = [j \in Jobs |-> 0]

(***************************************************************************)
(* The arrows of the diagram, for job j.                                   *)
(***************************************************************************)
Spends(j, n)   == attempts'[j] = attempts[j] + n
KeepsBudget(j) == budget'[j] = budget[j]

Enqueue(j) ==
    /\ status[j] = "new"
    /\ status'[j] \in Waiting
    /\ attempts'[j] = 0
    /\ budget'[j] \in Budgets

\* "running --lease expired, attempts < max--> queued", claimed again in the
\* same call of the store, is the case status[j] = "running".
Claim(j) ==
    /\ status[j] \in Waiting \cup {"running"}
    /\ attempts[j] < budget[j]
    /\ status'[j] = "running"
    /\ Spends(j, 1) /\ KeepsBudget(j)

Complete(j) ==
    /\ status[j] = "running" /\ status'[j] = "completed"
    /\ Spends(j, 0) /\ KeepsBudget(j)

Retry(j) ==
    /\ status[j] = "running" /\ attempts[j] < budget[j]
    /\ status'[j] \in Waiting
    /\ Spends(j, 0) /\ KeepsBudget(j)

Die(j) ==
    /\ status[j] = "running" /\ status'[j] = "dead"
    /\ Spends(j, 0) /\ KeepsBudget(j)

Cancel(j) ==
    /\ status[j] \in Waiting \cup {"running"} /\ status'[j] = "cancelled"
    /\ Spends(j, 0) /\ KeepsBudget(j)

Purge(j) ==
    /\ status[j] \in Terminal /\ status'[j] = "purged"
    /\ attempts'[j] = 0 /\ budget'[j] = 0

Stay(j) ==
    /\ status'[j] = status[j]
    /\ Spends(j, 0) /\ KeepsBudget(j)

JobStep(j) ==
    \/ Enqueue(j) \/ Claim(j) \/ Complete(j) \/ Retry(j) \/ Die(j)
    \/ Cancel(j) \/ Purge(j) \/ Stay(j)

Next == \A j \in Jobs : JobStep(j)

Spec == Init /\ [][Next]_vars

-----------------------------------------------------------------------------
(* No job is ever claimed more often than its budget allows, and a job that
   waits to be claimed still has an attempt left: the rule a store must keep
   so that a process-crashing job cannot rerun forever. *)
WithinBudget ==
    \A j \in Jobs :
        /\ attempts[j] <= budget[j]
        /\ status[j] \in Waiting => attempts[j] < budget[j]

(* "Terminal states have no outgoing transitions": all that can still happen
   to a terminal job is that the store forgets it. *)
TerminalIsFinal ==
    [][\A j \in Jobs : status[j] \in Terminal => status'[j] \in {status[j], "purged"}]_vars
=============================================================================
