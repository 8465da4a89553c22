------------------------- MODULE InsertionOrderProofs -------------------------
(***************************************************************************)
(* What deletions and evictions leave of a map, for any map.               *)
(***************************************************************************)
EXTENDS InsertionOrder, FiniteSetTheorems, SequenceTheorems, WellFoundedInduction, TLAPS

\* The least-number principle, for sets.
LEMMA LeastNat ==
    ASSUME NEW S \in SUBSET Nat, S # {}
    PROVE  \E n \in S : \A m \in S : n <= m
<1> DEFINE R == {ss \in Nat \X Nat : ss[1] < ss[2]}
<1>1. IsWellFoundedOn(R, Nat)
  BY NatLessThanWellFounded DEF OpToRel
<1> HIDE DEF R
<1>2. PICK n \in S : \A m \in S : <<m, n>> \notin R
  BY <1>1, WFMin, S \in SUBSET Nat, S # {}
<1>3. \A m \in S : ~(m < n)
  BY <1>2 DEF R
<1> QED
  BY <1>3

Increasing(f, n) == \A a, b \in 1..n : a < b => f[a] < f[b]

Enumerable(I, n) == \E f \in Bijection(1..n, I) : Increasing(f, n)

\* The least of n + 1 positions, and then the n others in order.
LEMMA EnumerateOneMore ==
    ASSUME NEW I \in SUBSET Nat, NEW n \in Nat, NEW m \in I, \A i \in I : m <= i,
           Enumerable(I \ {m}, n)
    PROVE  Enumerable(I, n + 1)
<1>1. PICK g \in Bijection(1..n, I \ {m}) : Increasing(g, n)
  BY DEF Enumerable
<1> DEFINE f == [a \in 1..n + 1 |-> IF a = 1 THEN m ELSE g[a - 1]]
<1>2. /\ g \in [1..n -> I \ {m}]
      /\ \A a, b \in 1..n : g[a] = g[b] => a = b
      /\ \A i \in I \ {m} : \E a \in 1..n : g[a] = i
  BY <1>1 DEF Bijection, Injection, Surjection, IsInjective
<1>3. \A a \in 1..n + 1 : a # 1 => a - 1 \in 1..n
  OBVIOUS
<1>4. f \in [1..n + 1 -> I]
  BY <1>2, <1>3
<1>5. \A a, b \in 1..n + 1 : a < b => f[a] < f[b]
  <2> TAKE a, b \in 1..n + 1
  <2> HAVE a < b
  <2>1. b # 1 /\ b - 1 \in 1..n /\ f[b] = g[b - 1] /\ g[b - 1] \in I \ {m}
    BY <1>2, <1>3
  <2>2. CASE a = 1
    <3>1. f[a] = m /\ m \in Nat /\ g[b - 1] \in Nat /\ m <= g[b - 1] /\ m # g[b - 1]
      BY <2>1, <2>2
    <3> QED
      BY <2>1, <3>1
  <2>3. CASE a # 1
    <3>1. a - 1 \in 1..n /\ f[a] = g[a - 1] /\ a - 1 < b - 1
      BY <1>3, <2>3
    <3> QED
      BY <1>1, <2>1, <3>1 DEF Increasing
  <2> QED
    BY <2>2, <2>3
<1>6. \A a, b \in 1..n + 1 : f[a] = f[b] => a = b
  <2> TAKE a, b \in 1..n + 1
  <2>1. f[a] \in Nat /\ f[b] \in Nat
    BY <1>4
  <2> HIDE DEF f
  <2> QED
    BY <1>5, <2>1
<1>7. \A i \in I : \E a \in 1..n + 1 : f[a] = i
  <2> TAKE i \in I
  <2>1. CASE i = m
    <3>1. 1 \in 1..n + 1 /\ f[1] = i
      BY <2>1
    <3> QED
      BY <3>1
  <2>2. CASE i # m
    <3>1. PICK a \in 1..n : g[a] = i
      BY <1>2, <2>2
    <3>2. a + 1 \in 1..n + 1 /\ f[a + 1] = i
      BY <3>1
    <3> QED
      BY <3>2
  <2> QED
    BY <2>1, <2>2
<1> HIDE DEF f
<1>8. f \in Bijection(1..n + 1, I)
  BY <1>4, <1>6, <1>7 DEF Bijection, Injection, Surjection, IsInjective
<1> QED
  BY <1>5, <1>8 DEF Enumerable, Increasing

\* Every finite set of positions can be put in order.
LEMMA Enumerate ==
    ASSUME NEW I \in SUBSET Nat, IsFiniteSet(I)
    PROVE  Enumerable(I, Cardinality(I))
<1> DEFINE Bad == {n \in Nat : \E J \in SUBSET Nat :
                      IsFiniteSet(J) /\ Cardinality(J) = n /\ ~Enumerable(J, n)}
<1>1. Cardinality(I) \in Nat
  BY FS_CardinalityType
<1>2. SUFFICES Bad = {}
  BY <1>1
<1>3. SUFFICES ASSUME Bad # {} PROVE FALSE
  OBVIOUS
<1>4. PICK n \in Bad : \A k \in Bad : n <= k
  BY <1>3, LeastNat
<1>5. PICK J \in SUBSET Nat : IsFiniteSet(J) /\ Cardinality(J) = n /\ ~Enumerable(J, n)
  BY <1>4
<1>6. n \in Nat
  BY <1>4
<1>7. CASE J = {}
  <2>1. n = 0
    BY <1>5, <1>7, FS_EmptySet
  <2>2. <<>> \in [1..0 -> {}]
    OBVIOUS
  <2>3. <<>> \in Bijection(1..0, {})
    BY <2>2 DEF Bijection, Injection, Surjection, IsInjective
  <2>4. Increasing(<<>>, 0)
    BY DEF Increasing
  <2> QED
    BY <1>5, <1>7, <2>1, <2>3, <2>4 DEF Enumerable
<1>8. CASE J # {}
  <2>1. PICK m \in J : \A i \in J : m <= i
    BY <1>8, LeastNat
  <2>2. IsFiniteSet(J \ {m}) /\ Cardinality(J \ {m}) = n - 1
    BY <1>5, FS_RemoveElement
  <2>3. n # 0
    BY <1>5, <2>1, FS_EmptySet
  <2>4. n - 1 \in Nat /\ ~(n <= n - 1) /\ (n - 1) + 1 = n
    BY <1>6, <2>3
  <2>5. n - 1 \notin Bad
    BY <1>4, <2>4
  <2>6. Enumerable(J \ {m}, n - 1)
    BY <2>2, <2>4, <2>5
  <2>7. Enumerable(J, (n - 1) + 1)
    BY <2>1, <2>4, <2>6, EnumerateOneMore
  <2> QED
    BY <1>5, <2>4, <2>7
<1> QED
  BY <1>7, <1>8

\* t is made of entries of s, in their order and each once.
Within(t, s) ==
    \E f \in [DOMAIN t -> DOMAIN s] :
        /\ \A a, b \in DOMAIN t : a < b => f[a] < f[b]
        /\ \A a \in DOMAIN t : t[a] = s[f[a]]

LEMMA WithinItself ==
    ASSUME NEW s PROVE Within(s, s)
<1> DEFINE f == [a \in DOMAIN s |-> a]
<1>1. f \in [DOMAIN s -> DOMAIN s] /\ \A a \in DOMAIN s : f[a] = a
  OBVIOUS
<1> HIDE DEF f
<1> QED
  BY <1>1 DEF Within

\* Deletion keeps the other entries, and their order.
LEMMA KeptOK ==
    ASSUME NEW R, NEW s \in Seq(R), NEW I \in SUBSET DOMAIN s
    PROVE  /\ Kept(s, I) \in Seq(R) /\ Len(Kept(s, I)) <= Len(s)
           /\ Elements(Kept(s, I)) = {s[i] : i \in I}
           /\ Within(Kept(s, I), s)
<1> DEFINE n == Cardinality(I)
           f == CHOOSE f \in [1..n -> I] : \A a, b \in 1..n : a < b => f[a] < f[b]
           t == Kept(s, I)
<1>1. CASE I = DOMAIN s
  BY <1>1, WithinItself DEF Kept, Elements
<1>2. Len(s) \in Nat /\ DOMAIN s = 1..Len(s)
  OBVIOUS
<1>3. IsFiniteSet(1..Len(s)) /\ Cardinality(1..Len(s)) = Len(s)
  <2>1. Cardinality(1..Len(s)) = IF 1 > Len(s) THEN 0 ELSE Len(s) - 1 + 1
    BY <1>2, FS_Interval
  <2>2. IsFiniteSet(1..Len(s))
    BY <1>2, FS_Interval
  <2> QED
    BY <1>2, <2>1, <2>2
<1>4. IsFiniteSet(I) /\ n <= Len(s) /\ n \in Nat /\ I \in SUBSET Nat
  BY <1>2, <1>3, FS_Subset, FS_CardinalityType
<1>5. Enumerable(I, n)
  BY <1>4, Enumerate
<1>6. f \in [1..n -> I] /\ \A a, b \in 1..n : a < b => f[a] < f[b]
  BY <1>5 DEF Enumerable, Increasing, Bijection, Injection
<1>7. SUFFICES ASSUME I # DOMAIN s
               PROVE  /\ t \in Seq(R) /\ Len(t) <= Len(s)
                      /\ Elements(t) = {s[i] : i \in I} /\ Within(t, s)
  BY <1>1
<1>8. t = [a \in 1..n |-> s[f[a]]]
  BY <1>7 DEF Kept
<1> HIDE DEF f, t, n
<1>9. \A i \in I : \E a \in 1..n : f[a] = i
  <2>1. \A a, b \in 1..n : f[a] = f[b] => a = b
    BY <1>4, <1>6
  <2>2. f \in Injection(1..n, I)
    BY <1>6, <2>1 DEF Injection, IsInjective
  <2>3. Cardinality(1..n) = IF 1 > n THEN 0 ELSE n - 1 + 1
    BY <1>4, FS_Interval
  <2>4. Cardinality(1..n) = n
    BY <1>4, <2>3
  <2>5. f \in Surjection(1..n, I)
    BY <1>4, <2>2, <2>4, FS_Injection DEF n
  <2> QED
    BY <2>5 DEF Surjection
<1>10. \A a \in 1..n : s[f[a]] \in R
  BY <1>2, <1>6
<1>11. t \in Seq(R) /\ Len(t) = n /\ DOMAIN t = 1..n
  BY <1>4, <1>8, <1>10, IsASeq
<1>12. Elements(t) = {s[i] : i \in I}
  BY <1>6, <1>8, <1>9, <1>11 DEF Elements
<1>13. Within(t, s)
  BY <1>2, <1>6, <1>8, <1>11 DEF Within
<1> QED
  BY <1>4, <1>11, <1>12, <1>13

\* Eviction keeps the newest entries.
LEMMA NewestOK ==
    ASSUME NEW R, NEW s \in Seq(R), NEW n \in Nat
    PROVE  /\ Newest(s, n) \in Seq(R) /\ Len(Newest(s, n)) <= n /\ Len(Newest(s, n)) <= Len(s)
           /\ Within(Newest(s, n), s)
<1>1. Len(s) \in Nat /\ DOMAIN s = 1..Len(s)
  OBVIOUS
<1>2. CASE Len(s) <= n
  <2>1. Newest(s, n) = s
    BY <1>2 DEF Newest
  <2>2. Within(s, s)
    BY WithinItself
  <2> QED
    BY <1>1, <1>2, <2>1, <2>2
<1>3. CASE ~(Len(s) <= n)
  <2> DEFINE m == Len(s) - n + 1
             t == SubSeq(s, m, Len(s))
  <2>1. Newest(s, n) = t
    BY <1>3 DEF Newest
  <2>2. m \in Nat /\ m \in 1..Len(s) + 1 /\ Len(s) - m + 1 = n
    BY <1>1, <1>3
  <2>3. \A i \in m..Len(s) : s[i] \in R
    BY <1>1, <2>2
  <2> HIDE DEF m
  <2>4. /\ t \in Seq(R) /\ Len(t) = IF m <= Len(s) THEN Len(s) - m + 1 ELSE 0
        /\ \A i \in 1..Len(s) - m + 1 : t[i] = s[m + i - 1]
    BY <1>1, <2>2, <2>3, SubSeqProperties
  <2> HIDE DEF t
  <2>5. Len(t) = n /\ DOMAIN t = 1..n
    BY <1>1, <2>2, <2>4
  <2>6. Within(t, s)
    <3> DEFINE f == [a \in 1..n |-> m + a - 1]
    <3>1. \A a \in 1..n : m + a - 1 \in 1..Len(s)
      BY <1>1, <2>2
    <3>2. f \in [1..n -> 1..Len(s)] /\ \A a \in 1..n : f[a] = m + a - 1
      BY <3>1
    <3> HIDE DEF f
    <3>3. \A a, b \in 1..n : a < b => f[a] < f[b]
      BY <2>2, <3>2
    <3>4. \A a \in 1..n : t[a] = s[f[a]]
      BY <2>2, <2>4, <3>2
    <3> QED
      BY <1>1, <2>5, <3>2, <3>3, <3>4 DEF Within
  <2> QED
    BY <1>1, <1>3, <2>1, <2>4, <2>5, <2>6
<1> QED
  BY <1>2, <1>3

\* What is within a map has no other entries, and none of them twice.
LEMMA WithinOK ==
    ASSUME NEW R, NEW s \in Seq(R), NEW t \in Seq(R), Within(t, s)
    PROVE  /\ Elements(t) \subseteq Elements(s)
           /\ \A a, b \in DOMAIN t : a # b =>
                 \E i, j \in DOMAIN s : i # j /\ t[a] = s[i] /\ t[b] = s[j]
<1>1. PICK f \in [DOMAIN t -> DOMAIN s] :
         /\ \A a, b \in DOMAIN t : a < b => f[a] < f[b]
         /\ \A a \in DOMAIN t : t[a] = s[f[a]]
  BY DEF Within
<1>2. Elements(t) \subseteq Elements(s)
  BY <1>1 DEF Elements
<1>3. ASSUME NEW a \in DOMAIN t, NEW b \in DOMAIN t, a # b
      PROVE  \E i, j \in DOMAIN s : i # j /\ t[a] = s[i] /\ t[b] = s[j]
  <2>1. a \in Nat /\ b \in Nat /\ f[a] \in DOMAIN s /\ f[b] \in DOMAIN s
        /\ f[a] \in Nat /\ f[b] \in Nat
    BY <1>1
  <2>2. f[a] # f[b]
    BY <1>1, <1>3, <2>1
  <2> QED
    BY <1>1, <2>1, <2>2
<1> QED
  BY <1>2, <1>3

LEMMA WithinTransitive ==
    ASSUME NEW s, NEW t, NEW u, Within(u, t), Within(t, s)
    PROVE  Within(u, s)
<1>1. PICK f \in [DOMAIN u -> DOMAIN t] :
         /\ \A a, b \in DOMAIN u : a < b => f[a] < f[b]
         /\ \A a \in DOMAIN u : u[a] = t[f[a]]
  BY DEF Within
<1>2. PICK g \in [DOMAIN t -> DOMAIN s] :
         /\ \A a, b \in DOMAIN t : a < b => g[a] < g[b]
         /\ \A a \in DOMAIN t : t[a] = s[g[a]]
  BY DEF Within
<1> DEFINE h == [a \in DOMAIN u |-> g[f[a]]]
<1>3. h \in [DOMAIN u -> DOMAIN s] /\ \A a \in DOMAIN u : h[a] = g[f[a]]
  BY <1>1, <1>2
<1> HIDE DEF h
<1>4. \A a, b \in DOMAIN u : a < b => h[a] < h[b]
  BY <1>1, <1>2, <1>3
<1>5. \A a \in DOMAIN u : u[a] = s[h[a]]
  BY <1>1, <1>2, <1>3
<1> QED
  BY <1>3, <1>4, <1>5 DEF Within

\* If nothing is missing, everything was kept.
LEMMA KeptAll ==
    ASSUME NEW R, NEW s \in Seq(R), NEW I \in SUBSET DOMAIN s, Len(Kept(s, I)) = Len(s)
    PROVE  Kept(s, I) = s
<1> SUFFICES ASSUME I # DOMAIN s PROVE FALSE
  BY DEF Kept
<1> DEFINE n == Cardinality(I)
           f == CHOOSE f \in [1..n -> I] : \A a, b \in 1..n : a < b => f[a] < f[b]
<1>1. Len(s) \in Nat /\ DOMAIN s = 1..Len(s)
  OBVIOUS
<1>2. IsFiniteSet(1..Len(s)) /\ Cardinality(1..Len(s)) = Len(s)
  <2>1. \A l \in Nat : 1 \in Int /\ l \in Int /\ (IF 1 > l THEN 0 ELSE l - 1 + 1) = l
    OBVIOUS
  <2>2. Len(s) \in Int /\ 1 \in Int /\ (IF 1 > Len(s) THEN 0 ELSE Len(s) - 1 + 1) = Len(s)
    BY <1>1, <2>1
  <2>3. IsFiniteSet(1..Len(s))
    BY <2>2, FS_Interval
  <2>4. Cardinality(1..Len(s)) = IF 1 > Len(s) THEN 0 ELSE Len(s) - 1 + 1
    BY <2>2, FS_Interval
  <2> QED
    BY <2>2, <2>3, <2>4
<1>3. n \in Nat /\ n < Len(s)
  <2>1. I \in SUBSET (1..Len(s)) /\ I # 1..Len(s)
    BY <1>1
  <2>2. IsFiniteSet(I) /\ n <= Len(s) /\ n # Len(s)
    BY <1>2, <2>1, FS_Subset
  <2>3. n \in Nat
    BY <2>2, FS_CardinalityType
  <2> HIDE DEF n
  <2> QED
    BY <1>1, <2>2, <2>3
<1>4. Kept(s, I) = [a \in 1..n |-> s[f[a]]]
  BY DEF Kept
<1> HIDE DEF n, f
<1>5. Len(Kept(s, I)) = n
  BY <1>3, <1>4
<1> QED
  BY <1>1, <1>3, <1>5

\* Of one entry too many, the first goes.
LEMMA NewestDrops ==
    ASSUME NEW R, NEW s \in Seq(R), NEW n \in Nat, Len(s) <= n + 1, NEW e \in Elements(s)
    PROVE  e \in Elements(Newest(s, n)) \/ (e = s[1] /\ Len(s) = n + 1)
<1>1. Len(s) \in Nat /\ DOMAIN s = 1..Len(s)
  OBVIOUS
<1>2. CASE Len(s) <= n
  BY <1>2 DEF Newest
<1>3. CASE ~(Len(s) <= n)
  <2>1. Len(s) = n + 1
    <3>1. \A l \in Nat : l <= n + 1 /\ ~(l <= n) => l = n + 1
      OBVIOUS
    <3> QED
      BY <1>1, <1>3, <3>1
  <2> DEFINE t == SubSeq(s, 2, Len(s))
  <2>2. Newest(s, n) = t
    <3>1. Len(s) - n + 1 = 2
      BY <1>1, <2>1
    <3> QED
      BY <1>3, <3>1 DEF Newest
  <2>3. PICK i \in 1..Len(s) : e = s[i]
    BY <1>1 DEF Elements
  <2>4. CASE i = 1
    BY <2>1, <2>3, <2>4
  <2>5. CASE i # 1
    <3>1. \A j \in 2..Len(s) : s[j] \in R
      BY <1>1
    <3>2. /\ t \in Seq(R) /\ Len(t) = IF 2 <= Len(s) THEN Len(s) - 2 + 1 ELSE 0
          /\ \A j \in 1..Len(s) - 2 + 1 : t[j] = s[2 + j - 1]
      BY <1>1, <3>1, SubSeqProperties
    <3> HIDE DEF t
    <3>3. i - 1 \in 1..Len(s) - 2 + 1 /\ 2 + (i - 1) - 1 = i /\ 2 <= Len(s)
      BY <1>1, <2>5
    <3>4. t[i - 1] = e /\ i - 1 \in DOMAIN t
      BY <1>1, <2>3, <3>2, <3>3
    <3> QED
      BY <2>2, <3>4 DEF Elements
  <2> QED
    BY <2>4, <2>5
<1> QED
  BY <1>2, <1>3
=============================================================================
