----------------------------- MODULE MCDispatch -----------------------------
(***************************************************************************)
(* Three requests to one limited surface, and a shutdown.                  *)
(***************************************************************************)
EXTENDS Dispatch, TLC

CONSTANTS r1, r2, r3, k1, c1, c2

MCRequests == {r1, r2, r3}

\* The limiter lets r3 pass unlimited, at times.
MCKeysOf  == [r \in MCRequests |-> IF r = r3 THEN {k1, NoKey} ELSE {k1}]
OneKeyOf  == [r \in MCRequests |-> {k1}]

\* r3 has no deadline, and only the signal of r1 can be aborted by it.
MCTimed         == {r1, r2}
MCAbortable     == {r1}
MCMayDisconnect == {r1}

MCCalls == {c1, c2}
CallsSymmetry == Permutations(MCCalls)
=============================================================================
