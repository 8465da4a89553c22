------------------------------ MODULE MCSession ------------------------------
(***************************************************************************)
(* Three requests of one session on different routes, two on one instance. *)
(***************************************************************************)
EXTENDS Session

CONSTANTS r1, r2, r3, i1, i2

Routes ==
    [r \in Requests |-> CASE r = r1 -> {"change", "throw"}
                          [] r = r2 -> {"destroy"}
                          [] r = r3 -> {"change", "regenerate"}]

TwoInstances == [r \in Requests |-> IF r = r3 THEN i2 ELSE i1]
OneInstance  == [r \in Requests |-> i1]
=============================================================================
