---------------------------- MODULE MCIdempotency ----------------------------
(***************************************************************************)
(* Three requests over two keys: one without a deadline whose onSend chain *)
(* starts with idempotency's hook and whose body may fail, two with a      *)
(* deadline, one of them with another onSend hook in front.                *)
(***************************************************************************)
EXTENDS Idempotency

CONSTANTS r1, r2, r3, k1, k2, p1, p2

MCInputsOf ==
    [r \in {r1, r2, r3} |-> IF r = r3 THEN {<<k1, p2>>, <<k2, p1>>} ELSE {<<k1, p1>>}]
=============================================================================
