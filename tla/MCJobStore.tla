----------------------------- MODULE MCJobStore -----------------------------
(***************************************************************************)
(* MemoryJobStore under arbitrary callers, on a small instance: a keyed    *)
(* job with one attempt, and an urgent one of another queue with two.      *)
(***************************************************************************)
EXTENDS JobStore

CONSTANTS w1, q1, q2, k1

MCWorkers == {w1}
MCQueues  == {q1, q2}
MCKeys    == {k1}
MCTime    == 0..2

MCEnqueueOpts ==
    {[queue |-> q1, key |-> k1, priority |-> 0, delay |-> 0, maxAttempts |-> 1, leaseMs |-> 1],
     [queue |-> q2, key |-> NoKey, priority |-> 1, delay |-> 1, maxAttempts |-> 2, leaseMs |-> 1]}
=============================================================================
