---------------------------- MODULE InsertionOrder ----------------------------
(***************************************************************************)
(* A JavaScript Map as the sequence of its entries in insertion order: the *)
(* in-memory stores iterate and evict in that order.                       *)
(***************************************************************************)
EXTENDS Integers, Sequences, FiniteSets

Elements(s) == {s[i] : i \in DOMAIN s}

\* What is left when the entries at all positions but I are deleted.
Kept(s, I) ==
    LET n == Cardinality(I)
        f == CHOOSE f \in [1..n -> I] : \A a, b \in 1..n : a < b => f[a] < f[b]
    IN  IF I = DOMAIN s THEN s ELSE [a \in 1..n |-> s[f[a]]]

\* What is left when the oldest entries are deleted until there are n at most.
Newest(s, n) == IF Len(s) <= n THEN s ELSE SubSeq(s, Len(s) - n + 1, Len(s))
=============================================================================
