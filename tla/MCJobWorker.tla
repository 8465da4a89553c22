---------------------------- MODULE MCJobWorker ----------------------------
(***************************************************************************)
(* Two workers on one store, small instances.                              *)
(***************************************************************************)
EXTENDS JobWorker

CONSTANTS w1, w2, q1, q2

MCWorkers  == {w1, w2}
MCQueues   == {q1, q2}

\* w2 also serves a queue that nobody uses, so that its drains go from one
\* queue to the next.
MCQueuesOf == [w \in MCWorkers |-> IF w = w1 THEN <<q1>> ELSE <<q2, q1>>]

\* Both on the one queue.
OneQueueOf == [w \in MCWorkers |-> <<q1>>]

\* w1 may claim its job again while an earlier run of its own goes on.
MCConcurrency  == [w \in MCWorkers |-> IF w = w1 THEN 2 ELSE 1]
OneConcurrency == [w \in MCWorkers |-> 1]

MCStop     == {w1}
MCBackoff  == <<2, 2>>
MCTime     == 0..MaxTime + 2

\* A job with two attempts.
TwoAttempts ==
    {[queue |-> q1, key |-> NoKey, priority |-> 0, delay |-> 0, maxAttempts |-> 2, leaseMs |-> 1]}

\* A job with a single attempt.
OneAttempt ==
    {[queue |-> q1, key |-> NoKey, priority |-> 0, delay |-> 0, maxAttempts |-> 1, leaseMs |-> 1]}
=============================================================================
