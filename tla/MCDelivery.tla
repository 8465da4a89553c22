------------------------------ MODULE MCDelivery ------------------------------
(***************************************************************************)
(* Two deliveries, one of them retried within its attempts, and a fetch.   *)
(***************************************************************************)
EXTENDS Delivery

CONSTANTS d1, d2, f1
=============================================================================
