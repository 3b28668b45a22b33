------------------------- MODULE ConfigDiscoveryProofs -------------------------
(***************************************************************************)
(* Lemmas about ConfigDiscovery, for any resources and any order in which  *)
(* the cache lists them: what filtering and sorting a list return, and     *)
(* what is found, reported and mounted as sets.  An induction is stated as *)
(* the absence of a least counterexample.                                  *)
(***************************************************************************)
EXTENDS ConfigDiscovery, WellFoundedInduction, FiniteSetTheorems, TLAPS

LEMMA LeastNat ==
    ASSUME NEW T, T \subseteq Nat, T # {}
    PROVE  \E x \in T : \A y \in T : x <= y
<1> DEFINE R == {ss \in Nat \X Nat : ss[1] < ss[2]}
<1>1. IsWellFoundedOn(R, Nat)
  BY NatLessThanWellFounded DEF OpToRel
<1> HIDE DEF R
<1>2. \E x \in T : \A y \in T : ~(<<y, x>> \in R)
  BY <1>1, WFMin
<1>3. \A x, y \in T : ~(<<y, x>> \in R) => x <= y
  BY DEF R
<1> QED BY <1>2, <1>3

\* Induction up to n, on a set of numbers.
LEMMA Inductive ==
    ASSUME NEW n \in Nat, NEW T, 0 \in T, \A i \in 1..n : i - 1 \in T => i \in T
    PROVE  \A i \in 0..n : i \in T
<1> SUFFICES ASSUME NEW j \in 0..n, j \notin T PROVE FALSE
  OBVIOUS
<1> DEFINE C == {i \in 0..n : i \notin T}
<1>1. C \subseteq Nat /\ C # {}
  OBVIOUS
<1>2. PICK x \in C : \A y \in C : x <= y
  BY <1>1, LeastNat
<1>3. x \in 1..n /\ x - 1 \in 0..n /\ x - 1 \notin C
  BY <1>2
<1> QED BY <1>2, <1>3

Recursive(f, n, X, a, G) ==
    f \in [0..n -> X] /\ f[0] = a /\ \A i \in 1..n : f[i] = G[<<f[i - 1], i>>]

\* A function is defined by recursion on the numbers up to n.
LEMMA Recursion ==
    ASSUME NEW n \in Nat, NEW X, NEW a \in X,
           NEW G, \A x \in X : \A i \in 1..n : G[<<x, i>>] \in X
    PROVE  \E f : Recursive(f, n, X, a, G)
<1> DEFINE Defined(f, m) == f[0] = a /\ \A i \in 1..m : f[i] = G[<<f[i - 1], i>>]
           T == {m \in 0..n : \E f \in [0..m -> X] : Defined(f, m)}
<1>1. 0 \in T
  <2>1. [i \in 0..0 |-> a] \in [0..0 -> X] /\ Defined([i \in 0..0 |-> a], 0)
    OBVIOUS
  <2>2. 0 \in 0..n
    OBVIOUS
  <2> HIDE DEF Defined
  <2> QED BY <2>1, <2>2
<1>2. ASSUME NEW m \in 1..n, m - 1 \in T PROVE m \in T
  <2>1. PICK f \in [0..(m - 1) -> X] : Defined(f, m - 1)
    BY <1>2
  <2> DEFINE g == [i \in 0..m |-> IF i = m THEN G[<<f[m - 1], m>>] ELSE f[i]]
  <2>2. f[m - 1] \in X /\ <<f[m - 1], m>> \in X \X (1..n)
    BY <2>1
  <2>3. g \in [0..m -> X]
    <3>1. \A i \in 0..m : i # m => i \in 0..(m - 1)
      OBVIOUS
    <3> QED BY <2>2, <3>1
  <2>4. Defined(g, m)
    <3>1. g[0] = a
      BY <2>1
    <3>2. \A i \in 1..(m - 1) : g[i] = G[<<g[i - 1], i>>]
      BY <2>1
    <3>3. g[m] = G[<<g[m - 1], m>>]
      <4>1. m - 1 \in 0..m /\ m - 1 # m /\ m \in 0..m
        OBVIOUS
      <4> QED BY <4>1
    <3>4. \A i \in 1..m : i = m \/ i \in 1..(m - 1)
      OBVIOUS
    <3> HIDE DEF g
    <3> QED BY <3>1, <3>2, <3>3, <3>4
  <2> HIDE DEF g, Defined
  <2> QED BY <2>3, <2>4
<1> HIDE DEF T
<1>3. n \in T
  BY <1>1, <1>2, Inductive
<1>4. PICK f \in [0..n -> X] : Defined(f, n)
  BY <1>3 DEF T
<1>5. Recursive(f, n, X, a, G)
  BY <1>4 DEF Recursive
<1> QED BY <1>5

-----------------------------------------------------------------------------
(* Keep: what is in the set, each as often as in the list. *)

\* What is kept of the first elements.
KeptSoFar(list, S, i, s) ==
    /\ Range(s) = {list[j] : j \in 1..i} \cap S
    /\ IsInjective(list) => IsInjective(s)

LEMMA KeptNext ==
    ASSUME NEW D, NEW list \in Seq(D), NEW S, NEW i \in 1..Len(list),
           NEW s \in Seq(D), KeptSoFar(list, S, i - 1, s), list[i] \in S
    PROVE  KeptSoFar(list, S, i, Append(s, list[i]))
<1> DEFINE t == Append(s, list[i])
<1>0. list[i] \in D /\ DOMAIN list = 1..Len(list) /\ DOMAIN s = 1..Len(s) /\ Len(s) \in Nat
  OBVIOUS
<1>1. /\ DOMAIN t = 1..(Len(s) + 1)
      /\ \A k \in DOMAIN t : t[k] = IF k = Len(s) + 1 THEN list[i] ELSE s[k]
  BY <1>0
<1> HIDE DEF t
<1>2. Range(t) = Range(s) \cup {list[i]}
  BY <1>0, <1>1 DEF Range
<1>3. {list[j] : j \in 1..i} = {list[j] : j \in 1..(i - 1)} \cup {list[i]}
  <2>1. \A j \in 1..i : j = i \/ j \in 1..(i - 1)
    OBVIOUS
  <2>2. 1..(i - 1) \subseteq 1..i /\ i \in 1..i
    OBVIOUS
  <2> QED BY <2>1, <2>2
<1>4. Range(t) = {list[j] : j \in 1..i} \cap S
  BY <1>2, <1>3 DEF KeptSoFar
<1>5. ASSUME IsInjective(list) PROVE IsInjective(t)
  <2>1. list[i] \notin Range(s)
    <3>1. \A j \in 1..(i - 1) : list[j] # list[i]
      BY <1>0, <1>5 DEF IsInjective
    <3> QED BY <3>1 DEF KeptSoFar
  <2>2. \A k \in DOMAIN s : s[k] # list[i]
    BY <2>1 DEF Range
  <2> QED BY <1>0, <1>1, <1>5, <2>2 DEF IsInjective, KeptSoFar
<1> QED BY <1>4, <1>5 DEF KeptSoFar, t

LEMMA KeepIs ==
    ASSUME NEW D, NEW list \in Seq(D), NEW S
    PROVE  /\ Keep(list, S) \in Seq(D)
           /\ Range(Keep(list, S)) = Range(list) \cap S
           /\ IsInjective(list) => IsInjective(Keep(list, S))
<1> DEFINE n == Len(list)
           X == Seq(D)
           none == <<>>
           G == [p \in X \X (1..n) |->
                   IF list[p[2]] \in S THEN Append(p[1], list[p[2]]) ELSE p[1]]
           Eq(k) == k = [i \in 0..n |->
                           IF i = 0 THEN none
                           ELSE IF list[i] \in S THEN Append(k[i - 1], list[i]) ELSE k[i - 1]]
           kept == CHOOSE k : Eq(k)
<1>1. n \in Nat /\ none \in X /\ DOMAIN list = 1..n /\ \A i \in 1..n : list[i] \in D
  OBVIOUS
<1>2. \A x \in X : \A i \in 1..n : G[<<x, i>>] \in X
  BY <1>1
<1>3. PICK f : Recursive(f, n, X, none, G)
  <2>1. n \in Nat /\ none \in X
    BY <1>1
  <2> HIDE DEF n, G, X, none
  <2> QED BY <1>2, <2>1, Recursion
<1>4. Eq(f)
  <2>1. \A i \in 1..n : f[i - 1] \in X
    BY <1>1, <1>3 DEF Recursive
  <2>2. \A i \in 1..n : f[i] = IF list[i] \in S THEN Append(f[i - 1], list[i]) ELSE f[i - 1]
    BY <1>3, <2>1 DEF Recursive
  <2> HIDE DEF n, G, X, none
  <2>3. \A i \in 0..n : i = 0 \/ i \in 1..n
    BY <1>1
  <2> QED BY <1>3, <2>2, <2>3 DEF Recursive
<1>5. Eq(kept)
  <2> HIDE DEF Eq
  <2> QED BY <1>4
<1>6. /\ kept[0] = none
      /\ \A i \in 1..n : kept[i] = IF list[i] \in S THEN Append(kept[i - 1], list[i]) ELSE kept[i - 1]
      /\ Keep(list, S) = kept[n]
  <2>1. Keep(list, S) = kept[n]
    BY DEF Keep
  <2> HIDE DEF kept
  <2>2. 0 \in 0..n /\ \A i \in 1..n : i \in 0..n /\ i # 0
    BY <1>1
  <2> QED BY <1>5, <2>1, <2>2
<1> HIDE DEF kept, Eq, G
<1> DEFINE T == {i \in 0..n : kept[i] \in X /\ KeptSoFar(list, S, i, kept[i])}
<1>7. 0 \in T
  <2>1. KeptSoFar(list, S, 0, none)
    BY DEF KeptSoFar, Range, IsInjective
  <2> HIDE DEF n, X, none
  <2> QED BY <1>1, <1>6, <2>1
<1>8. ASSUME NEW i \in 1..n, i - 1 \in T PROVE i \in T
  <2>1. kept[i - 1] \in X /\ KeptSoFar(list, S, i - 1, kept[i - 1])
    BY <1>8
  <2>2. CASE list[i] \in S
    <3>1. kept[i] = Append(kept[i - 1], list[i])
      BY <1>6, <2>2
    <3>2. kept[i] \in X
      BY <1>1, <2>1, <3>1
    <3>3. KeptSoFar(list, S, i, Append(kept[i - 1], list[i]))
      BY <2>1, <2>2, KeptNext
    <3>4. i \in 0..n
      OBVIOUS
    <3> QED BY <3>1, <3>2, <3>3, <3>4
  <2>3. CASE list[i] \notin S
    <3>1. kept[i] = kept[i - 1]
      BY <1>6, <2>3
    <3>2. {list[j] : j \in 1..i} \cap S = {list[j] : j \in 1..(i - 1)} \cap S
      <4>1. \A j \in 1..i : j = i \/ j \in 1..(i - 1)
        OBVIOUS
      <4>2. 1..(i - 1) \subseteq 1..i
        OBVIOUS
      <4> QED BY <2>3, <4>1, <4>2
    <3> QED BY <2>1, <3>1, <3>2 DEF KeptSoFar
  <2> QED BY <2>2, <2>3
<1>9. n \in T
  <2>1. n \in Nat
    BY <1>1
  <2> HIDE DEF T, n
  <2>2. \A i \in 0..n : i \in T
    BY <1>7, <1>8, <2>1, Inductive
  <2> QED BY <2>1, <2>2
<1>10. {list[j] : j \in 1..n} = Range(list)
  BY <1>1 DEF Range
<1> QED BY <1>6, <1>9, <1>10 DEF T, KeptSoFar
-----------------------------------------------------------------------------
(* Sorted: the same resources, and one order whatever the order of the     *)
(* list, as long as names or their number leave no choice.                 *)

LEMMA BeforeIsStrict ==
    /\ \A r \in Resources : ~Before(r, r)
    /\ \A r, s, t \in Resources : Before(r, s) /\ Before(s, t) => Before(r, t)
    /\ \A r, s \in Resources : r # s => Before(r, s) \/ Before(s, r)
BY DiscoveryAssumption DEF Before, Resources

LEMMA ListIsBijective ==
    ASSUME NEW D, NEW list \in Seq(D), IsInjective(list)
    PROVE  IsFiniteSet(Range(list)) /\ DOMAIN list = 1..Cardinality(Range(list))
<1> DEFINE n == Len(list)
           R == Range(list)
<1>1. n \in Nat /\ DOMAIN list = 1..n
  OBVIOUS
<1>2. list \in Bijection(1..n, R)
  <2>1. list \in [1..n -> R]
    BY <1>1 DEF Range
  <2>2. \A r \in R : \E i \in 1..n : list[i] = r
    BY <1>1 DEF Range
  <2> QED BY <1>1, <2>1, <2>2 DEF Bijection, Injection, Surjection, IsInjective
<1>3. ExistsBijection(1..n, R)
  BY <1>2 DEF ExistsBijection
<1> HIDE DEF n, R
<1>4. IsFiniteSet(1..n) /\ Cardinality(1..n) = n
  BY <1>1, FS_Interval
<1>5. IsFiniteSet(R) /\ Cardinality(R) = n
  BY <1>3, <1>4, FS_Bijection
<1> QED BY <1>1, <1>5 DEF R

\* How many of R come before r.
Rank(R, r) == Cardinality({q \in R : Before(q, r)})

LEMMA RankRises ==
    ASSUME NEW R \in SUBSET Resources, IsFiniteSet(R), NEW r \in R, NEW s \in R, Before(r, s)
    PROVE  Rank(R, r) < Rank(R, s)
<1> DEFINE A == {q \in R : Before(q, r)}
           B == {q \in R : Before(q, s)}
<1>1. A \subseteq B /\ r \in B /\ r \notin A /\ B \subseteq R
  BY BeforeIsStrict
<1>2. IsFiniteSet(B) /\ IsFiniteSet(A)
  BY <1>1, FS_Subset
<1> HIDE DEF A, B
<1>3. Cardinality(A) \in Nat /\ Cardinality(B) \in Nat
  BY <1>2, FS_CardinalityType
<1>4. Cardinality(A) <= Cardinality(B) /\ Cardinality(A) # Cardinality(B)
  BY <1>1, <1>2, FS_Subset
<1> QED BY <1>3, <1>4 DEF Rank, A, B

LEMMA RankIsBounded ==
    ASSUME NEW R \in SUBSET Resources, IsFiniteSet(R), NEW r \in R
    PROVE  Rank(R, r) \in Nat /\ Rank(R, r) < Cardinality(R)
<1> DEFINE A == {q \in R : Before(q, r)}
<1>1. A \subseteq R /\ r \notin A
  BY BeforeIsStrict
<1>2. IsFiniteSet(A)
  BY <1>1, FS_Subset
<1> HIDE DEF A
<1>3. Cardinality(A) \in Nat /\ Cardinality(R) \in Nat
  BY <1>2, FS_CardinalityType
<1>4. Cardinality(A) <= Cardinality(R) /\ Cardinality(A) # Cardinality(R)
  BY <1>1, FS_Subset
<1> QED BY <1>3, <1>4 DEF Rank, A

Arranged(s, R) == Range(s) = R /\ \A i, j \in DOMAIN s : i < j => Before(s[i], s[j])

LEMMA Arrangement ==
    ASSUME NEW R \in SUBSET Resources, IsFiniteSet(R)
    PROVE  \E s \in [1..Cardinality(R) -> R] : Arranged(s, R)
<1> DEFINE n == Cardinality(R)
           f == [r \in R |-> Rank(R, r) + 1]
           s == [i \in 1..n |-> CHOOSE r \in R : f[r] = i]
<1>1. n \in Nat
  BY FS_CardinalityType
<1>2. f \in [R -> 1..n]
  <2>1. ASSUME NEW r \in R PROVE f[r] \in 1..n
    <3>1. Rank(R, r) \in Nat /\ Rank(R, r) < n
      BY RankIsBounded
    <3> QED BY <1>1, <3>1
  <2> QED BY <2>1
<1>3. \A q, r \in R : Before(q, r) => f[q] < f[r]
  <2> TAKE q, r \in R
  <2> HAVE Before(q, r)
  <2>1. Rank(R, q) < Rank(R, r) /\ Rank(R, q) \in Nat /\ Rank(R, r) \in Nat
    BY RankRises, RankIsBounded
  <2> QED BY <2>1
<1>4. \A q, r \in R : f[q] = f[r] => q = r
  <2> TAKE q, r \in R
  <2>1. f[q] \in Nat /\ f[r] \in Nat
    BY <1>1, <1>2
  <2> HIDE DEF f
  <2> QED BY <1>3, <2>1, BeforeIsStrict
<1>5. f \in Injection(R, 1..n)
  BY <1>2, <1>4 DEF Injection, IsInjective
<1> HIDE DEF f
<1>6. f \in Surjection(R, 1..n)
  <2>1. IsFiniteSet(1..n) /\ Cardinality(1..n) = n
    BY <1>1, FS_Interval
  <2> QED BY <1>5, <2>1, FS_Injection
<1>7. \A i \in 1..n : \E r \in R : f[r] = i
  BY <1>6 DEF Surjection
<1>8. s \in [1..n -> R] /\ \A i \in 1..n : f[s[i]] = i
  BY <1>7
<1>9. Range(s) = R
  <2>1. \A r \in R : f[r] \in 1..n /\ s[f[r]] \in R /\ f[s[f[r]]] = f[r]
    BY <1>2, <1>8
  <2> HIDE DEF s
  <2>2. \A r \in R : f[r] \in 1..n /\ s[f[r]] = r
    BY <1>4, <2>1
  <2> QED BY <1>8, <2>2 DEF Range
<1>10. \A i, j \in 1..n : i < j => Before(s[i], s[j])
  <2> HIDE DEF s
  <2> TAKE i, j \in 1..n
  <2> HAVE i < j
  <2>1. s[i] \in R /\ s[j] \in R /\ f[s[i]] = i /\ f[s[j]] = j
    BY <1>8
  <2>2. ~Before(s[j], s[i]) /\ s[i] # s[j]
    BY <1>1, <1>3, <2>1
  <2> QED BY <2>1, <2>2, BeforeIsStrict
<1> HIDE DEF s
<1> QED BY <1>8, <1>9, <1>10 DEF Arranged

LEMMA SortedIs ==
    ASSUME NEW list \in Seq(Resources), IsInjective(list)
    PROVE  /\ Sorted(list) # {}
           /\ \A s \in Sorted(list) : s \in [DOMAIN list -> Range(list)] /\ Range(s) = Range(list)
<1> DEFINE R == Range(list)
<1>1. R \in SUBSET Resources
  BY DEF Range
<1>2. IsFiniteSet(R) /\ DOMAIN list = 1..Cardinality(R) /\ Cardinality(R) \in Nat
  BY ListIsBijective, FS_CardinalityType
<1> HIDE DEF R
<1>3. PICK s \in [DOMAIN list -> R] : Arranged(s, R)
  BY <1>1, <1>2, Arrangement
<1>4. \A i \in DOMAIN list : s[i] \in Resources
  BY <1>1
<1>5. IsInjective(s)
  <2>1. \A i, j \in DOMAIN list : i < j => s[i] # s[j]
    BY <1>3, <1>4, BeforeIsStrict DEF Arranged
  <2>2. \A i, j \in DOMAIN list : i = j \/ i < j \/ j < i
    BY <1>2
  <2> QED BY <2>1, <2>2 DEF IsInjective
<1>6. \A r, q \in Resources : Before(r, q) => NameOf[r] <= NameOf[q]
  BY DiscoveryAssumption DEF Before
<1>7. \A i, j \in DOMAIN s : i < j =>
        IF Cardinality(R) <= StableUpTo THEN Before(s[i], s[j]) ELSE NameOf[s[i]] <= NameOf[s[j]]
  BY <1>3, <1>4, <1>6 DEF Arranged
<1>8. s \in Sorted(list)
  BY <1>3, <1>5, <1>7 DEF Sorted, Arranged, R
<1> QED BY <1>8 DEF Sorted

LEMMA SortedIsArranged ==
    ASSUME NEW list \in Seq(Resources), IsInjective(list), NEW s \in Sorted(list),
           \/ Cardinality(Range(list)) <= StableUpTo
           \/ \A q, r \in Range(list) : NameOf[q] = NameOf[r] => q = r
    PROVE  Arranged(s, Range(list))
<1> DEFINE R == Range(list)
<1>1. /\ R \in SUBSET Resources /\ s \in [DOMAIN list -> R]
      /\ IsInjective(s) /\ Range(s) = R
  <2>1. R \in SUBSET Resources
    BY DEF Range
  <2> QED BY <2>1 DEF Sorted
<1>2. CASE Cardinality(R) <= StableUpTo
  BY <1>1, <1>2 DEF Sorted, Arranged
<1>3. CASE ~(Cardinality(R) <= StableUpTo)
  <2>1. \A i, j \in DOMAIN s : i < j => NameOf[s[i]] <= NameOf[s[j]]
    BY <1>3 DEF Sorted
  <2>2. \A q, r \in R : NameOf[q] = NameOf[r] => q = r
    BY <1>3
  <2>3. \A i \in DOMAIN s : s[i] \in R /\ NameOf[s[i]] \in Nat
    BY <1>1, DiscoveryAssumption
  <2>4. \A i, j \in DOMAIN s : s[i] = s[j] => i = j
    BY <1>1 DEF IsInjective
  <2>5. DOMAIN s \subseteq Nat
    BY <1>1
  <2> HIDE DEF R
  <2>6. ASSUME NEW i \in DOMAIN s, NEW j \in DOMAIN s, i < j PROVE Before(s[i], s[j])
    <3>1. s[i] # s[j]
      BY <2>4, <2>5, <2>6
    <3>2. NameOf[s[i]] # NameOf[s[j]]
      BY <2>2, <2>3, <3>1
    <3> QED BY <2>1, <2>3, <2>6, <3>2 DEF Before
  <2> QED BY <1>1, <2>6 DEF Arranged, R
<1> QED BY <1>2, <1>3

\* There is one arrangement: where two differ first, each has what the other
\* has there further on, and so after it.
LEMMA OneArrangement ==
    ASSUME NEW R \in SUBSET Resources, NEW n \in Nat, NEW s \in [1..n -> R], NEW t \in [1..n -> R],
           Arranged(s, R), Arranged(t, R)
    PROVE  s = t
<1> DEFINE D == {i \in 1..n : s[i] # t[i]}
<1>1. SUFFICES ASSUME D # {} PROVE FALSE
  BY DEF D
<1>2. PICK i \in D : \A k \in D : i <= k
  <2>1. D \subseteq Nat
    OBVIOUS
  <2> HIDE DEF D
  <2> QED BY <1>1, <2>1, LeastNat
<1>3. i \in 1..n /\ s[i] # t[i] /\ s[i] \in R /\ t[i] \in R
  OBVIOUS
<1>4. ASSUME NEW a \in [1..n -> R], NEW b \in [1..n -> R], Arranged(a, R), Arranged(b, R),
             a[i] # b[i], \A k \in 1..n : k < i => a[k] = b[k]
      PROVE  Before(a[i], b[i])
  <2>1. PICK j \in 1..n : a[j] = b[i]
    BY <1>3, <1>4 DEF Arranged, Range
  <2>2. CASE j < i
    <3>1. b[j] = b[i] /\ Before(b[j], b[i]) /\ b[i] \in Resources
      BY <1>3, <1>4, <2>1, <2>2 DEF Arranged
    <3> QED BY <3>1, BeforeIsStrict
  <2>3. CASE i < j
    BY <1>3, <1>4, <2>1, <2>3 DEF Arranged
  <2>4. j # i
    BY <1>4, <2>1
  <2> QED BY <1>3, <2>1, <2>2, <2>3, <2>4
<1>5. \A k \in 1..n : k < i => s[k] = t[k]
  <2> TAKE k \in 1..n
  <2> HAVE k < i
  <2>1. k \notin D
    BY <1>2, <1>3
  <2> QED BY <2>1
<1>6. Before(s[i], t[i])
  BY <1>3, <1>4, <1>5
<1>7. Before(t[i], s[i])
  BY <1>3, <1>4, <1>5
<1> QED BY <1>3, <1>6, <1>7, BeforeIsStrict

LEMMA SortedSame ==
    ASSUME NEW list \in Seq(Resources), IsInjective(list), NEW s \in Sorted(list),
           NEW other \in Seq(Resources), IsInjective(other), NEW t \in Sorted(other),
           Range(list) = Range(other),
           \/ Cardinality(Range(list)) <= StableUpTo
           \/ \A q, r \in Range(list) : NameOf[q] = NameOf[r] => q = r
    PROVE  s = t
<1> DEFINE R == Range(list)
           n == Cardinality(R)
<1>1. /\ DOMAIN list = 1..n /\ DOMAIN other = 1..n /\ n \in Nat
  BY ListIsBijective, FS_CardinalityType
<1>2. Arranged(s, R) /\ Arranged(t, R)
  BY SortedIsArranged
<1>3. R \in SUBSET Resources
  BY DEF Range
<1>4. s \in [1..n -> R] /\ t \in [1..n -> R]
  BY <1>1, SortedIs
<1> HIDE DEF R, n
<1> QED BY <1>1, <1>2, <1>3, <1>4, OneArrangement
-----------------------------------------------------------------------------
(* What is found, reported and mounted. *)

\* The cache lists every resource, once, in some order.
Complete(listings) ==
    /\ listings # {}
    /\ \A l \in listings : l \in Seq(Resources) /\ IsInjective(l) /\ Range(l) = Resources

\* The configs of the resources in scope.
Scoped(objs, c) == {Config(r, objs[r]) : r \in Mountable(objs, c)}

LEMMA ListedIs ==
    ASSUME NEW objs, NEW c, NEW listings, Complete(listings), NEW list \in Listed(objs, c, listings)
    PROVE  list \in Seq(Resources) /\ IsInjective(list) /\ Range(list) = Mountable(objs, c)
<1>1. PICK listing \in listings : list = Keep(listing, Mountable(objs, c))
  BY DEF Listed
<1>2. Mountable(objs, c) \subseteq Resources
  BY DEF Mountable, InScope
<1>3. listing \in Seq(Resources) /\ IsInjective(listing) /\ Range(listing) = Resources
  BY DEF Complete
<1>4. Range(list) = Resources \cap Mountable(objs, c)
  BY <1>1, <1>3, KeepIs
<1>5. list \in Seq(Resources) /\ IsInjective(list)
  BY <1>1, <1>3, KeepIs
<1> QED BY <1>2, <1>4, <1>5

LEMMA FoundIs ==
    ASSUME NEW objs, NEW c, NEW listings, Complete(listings),
           NEW found \in discoverManagedResources(objs, c, listings)
    PROVE  found \in Seq(Scoped(objs, c)) /\ Range(found) = Scoped(objs, c)
<1>1. PICK list \in Listed(objs, c, listings) : \E s \in Sorted(list) : found = Configs(objs, s)
  BY DEF discoverManagedResources
<1>0. PICK s \in Sorted(list) : found = Configs(objs, s)
  BY <1>1
<1>2. list \in Seq(Resources) /\ Range(list) = Mountable(objs, c)
  BY ListedIs
<1>3. s \in [DOMAIN list -> Mountable(objs, c)] /\ Range(s) = Mountable(objs, c)
  BY <1>2, ListedIs, SortedIs
<1>4. DOMAIN list = 1..Len(list) /\ Len(list) \in Nat
  BY <1>2
<1>5. /\ DOMAIN found = 1..Len(list)
      /\ \A i \in 1..Len(list) : found[i] = Config(s[i], objs[s[i]])
  BY <1>0, <1>3, <1>4 DEF Configs
<1>6. \A i \in 1..Len(list) : found[i] \in Scoped(objs, c)
  BY <1>3, <1>4, <1>5 DEF Scoped
<1>7. found = [i \in 1..Len(list) |-> found[i]]
  BY <1>0, <1>3, <1>4, <1>5 DEF Configs
<1>8. found \in Seq(Scoped(objs, c))
  BY <1>4, <1>6, <1>7
<1>9. Range(found) = Scoped(objs, c)
  <2>1. \A r \in Mountable(objs, c) : \E i \in 1..Len(list) : s[i] = r
    BY <1>3, <1>4 DEF Range
  <2>2. \A cfg \in Scoped(objs, c) : \E i \in 1..Len(list) : found[i] = cfg
    BY <1>5, <2>1 DEF Scoped
  <2> QED BY <1>5, <1>6, <2>2 DEF Range
<1> QED BY <1>8, <1>9

\* However the cache lists: if at most twelve objects are mountable, or no
\* ConfigMap and Secret of one name, sorting makes one result of all orders, so
\* that the two controllers and two reconciles of one discover, report and hash
\* the same (discoverManagedResources, "sorted by name for deterministic
\* ordering"; sort.Slice, which is not stable beyond that).
THEOREM FoundOnce ==
    ASSUME NEW objs, NEW c, NEW listings, Complete(listings), OneOrder(objs, c),
           NEW found \in discoverManagedResources(objs, c, listings)
    PROVE  discoverManagedResources(objs, c, listings) = {found}
<1>1. SUFFICES ASSUME NEW other \in discoverManagedResources(objs, c, listings)
              PROVE  other = found
  OBVIOUS
<1>2. PICK list \in Listed(objs, c, listings) : \E s \in Sorted(list) : found = Configs(objs, s)
  BY DEF discoverManagedResources
<1>3. PICK list2 \in Listed(objs, c, listings) : \E s \in Sorted(list2) : other = Configs(objs, s)
  BY <1>1 DEF discoverManagedResources
<1>4. PICK s \in Sorted(list) : found = Configs(objs, s)
  BY <1>2
<1>5. PICK t \in Sorted(list2) : other = Configs(objs, t)
  BY <1>3
<1>6. /\ list \in Seq(Resources) /\ IsInjective(list) /\ Range(list) = Mountable(objs, c)
      /\ list2 \in Seq(Resources) /\ IsInjective(list2) /\ Range(list2) = Mountable(objs, c)
  BY ListedIs
<1>7. \/ Cardinality(Range(list)) <= StableUpTo
      \/ \A q, r \in Range(list) : NameOf[q] = NameOf[r] => q = r
  BY <1>6 DEF OneOrder
<1>8. s = t
  BY <1>6, <1>7, SortedSame
<1> QED BY <1>4, <1>5, <1>8

LEMMA FoundSomething ==
    ASSUME NEW objs, NEW c, NEW listings, Complete(listings)
    PROVE  discoverManagedResources(objs, c, listings) # {}
<1>1. PICK list \in Listed(objs, c, listings) : TRUE
  BY DEF Complete, Listed
<1>2. Sorted(list) # {}
  BY ListedIs, SortedIs
<1> QED BY <1>1, <1>2 DEF discoverManagedResources

\* A resource that is in scope neither before nor after a change is not seen.
LEMMA OutOfScope ==
    ASSUME NEW c, NEW listings, Complete(listings), NEW os, NEW new, NEW r \in Resources,
           \A q \in Resources : new[q] = IF q = r THEN new[r] ELSE os[q],
           ~Managed(os[r], c), ~Managed(new[r], c)
    PROVE  /\ discoverManagedResources(new, c, listings) = discoverManagedResources(os, c, listings)
           /\ skippedResources(new, c) = skippedResources(os, c)
<1>1. InScope(new, c) = InScope(os, c) /\ \A q \in InScope(os, c) : new[q] = os[q]
  BY DEF InScope
<1>2. skippedResources(new, c) = skippedResources(os, c)
  BY <1>1 DEF skippedResources
<1>3. Mountable(new, c) = Mountable(os, c) /\ \A q \in Mountable(os, c) : new[q] = os[q]
  BY <1>1, <1>2 DEF Mountable
<1>4. Listed(new, c, listings) = Listed(os, c, listings)
  BY <1>3 DEF Listed
<1>5. ASSUME NEW list \in Listed(os, c, listings), NEW s \in Sorted(list)
      PROVE  Configs(new, s) = Configs(os, s)
  <2>1. s \in [DOMAIN list -> Mountable(os, c)]
    BY ListedIs, SortedIs
  <2> QED BY <1>3, <2>1 DEF Configs
<1> QED BY <1>2, <1>4, <1>5 DEF discoverManagedResources

Accepted(objs, c) == applyLoggingValidations(Scoped(objs, c)).configs

LEMMA MountedIs ==
    ASSUME NEW objs, NEW c, NEW listings, Complete(listings), NEW nodeType, NEW adminExists,
           NEW found \in discoverManagedResources(objs, c, listings)
    PROVE  Range(mountedConfigs(found, nodeType, adminExists))
             = {<<cfg.res, cfg.type, cfg.data>> :
                  cfg \in {a \in Accepted(objs, c) : shouldMountConfig(nodeType, adminExists, a.type)}}
<1> DEFINE M == {a \in Accepted(objs, c) : shouldMountConfig(nodeType, adminExists, a.type)}
           kept == Keep(found, M)
<1>1. mountedConfigs(found, nodeType, adminExists) = computeConfigHash(kept)
  BY FoundIs DEF mountedConfigs, Accepted
<1>2. M \subseteq Scoped(objs, c)
  BY DEF Accepted, applyLoggingValidations
<1>3. Range(kept) = M
  BY <1>2, FoundIs, KeepIs
<1> HIDE DEF M, kept
<1>4. Range(computeConfigHash(kept)) = {<<cfg.res, cfg.type, cfg.data>> : cfg \in Range(kept)}
  BY DEF computeConfigHash, Range
<1> QED BY <1>1, <1>3, <1>4 DEF M

LEMMA ScopedAre ==
    ASSUME NEW objs, NEW c, NEW cfg \in Scoped(objs, c)
    PROVE  /\ cfg.res \in Mountable(objs, c) /\ cfg = Config(cfg.res, objs[cfg.res])
           /\ cfg.type = resolveConfigType(objs[cfg.res]) /\ cfg.type \in ConfigTypes
<1>1. PICK r \in Mountable(objs, c) : cfg = Config(r, objs[r])
  BY DEF Scoped
<1>2. cfg.res = r /\ cfg.type = resolveConfigType(objs[r])
  BY <1>1 DEF Config
<1>3. resolveConfigType(objs[r]) # "unknown"
  BY DEF Mountable, skippedResources
<1>4. resolveConfigType(objs[r]) \in ConfigTypes
  BY <1>3 DEF resolveConfigType, ConfigTypes
<1> QED BY <1>1, <1>2, <1>4

LEMMA IssuesAreOfResources ==
    ASSUME NEW objs, NEW c,
           NEW i \in managedResourceIssues(Scoped(objs, c), skippedResources(objs, c))
    PROVE  i.res \in Resources
<1> DEFINE C == Scoped(objs, c)
<1>1. \A cfg \in C : cfg.res \in Resources
  BY ScopedAre DEF Mountable, InScope
<1>2. skippedResources(objs, c) \subseteq Resources
  BY DEF skippedResources, InScope
<1> HIDE DEF C
<1>3. detectDuplicateKeys(C) \subseteq Resources
  BY <1>1 DEF detectDuplicateKeys
<1>4. detectDuplicateLoggingConfigs(C \ Invalid(C)) \subseteq Resources
  BY <1>1 DEF detectDuplicateLoggingConfigs
<1>5. \A j \in applyLoggingValidations(C).issues : j.res \in Resources
  <2>1. applyLoggingValidations(C).issues
          = LoggingIssues(Invalid(C), detectDuplicateLoggingConfigs(C \ Invalid(C)))
    BY DEF applyLoggingValidations
  <2>2. Invalid(C) \subseteq C
    BY DEF Invalid
  <2> QED BY <1>1, <1>4, <2>1, <2>2 DEF LoggingIssues, Issue
<1> QED BY <1>2, <1>3, <1>5 DEF managedResourceIssues, Issue, C

\* A resource in scope is reported as dropped exactly if it is not accepted for
\* mounting, whatever the objects: nothing vanishes unreported, nothing is both
\* reported as dropped and mounted (applyLoggingValidations, skippedResources).
THEOREM DroppedIs ==
    ASSUME NEW objs, NEW c, NEW r \in InScope(objs, c)
    PROVE  r \in Dropped(managedResourceIssues(Scoped(objs, c), skippedResources(objs, c)))
             <=> \A cfg \in Accepted(objs, c) : cfg.res # r
<1> DEFINE C == Scoped(objs, c)
           skipped == skippedResources(objs, c)
           dups == detectDuplicateLoggingConfigs(C \ Invalid(C))
<1>1. r \in Dropped(managedResourceIssues(C, skipped))
        <=> r \in skipped \/ (\E cfg \in Invalid(C) : cfg.res = r) \/ r \in dups
  <2> HIDE DEF C, skipped, dups
  <2>1. managedResourceIssues(C, skipped)
          = {Issue(q, "UnknownConfigType") : q \in skipped}
            \cup {Issue(q, "DuplicateConfigKey") : q \in detectDuplicateKeys(C)}
            \cup {Issue(cfg.res, "LoggingConfigInvalid") : cfg \in Invalid(C)}
            \cup {Issue(q, "DuplicateLoggingConfig") : q \in dups}
    BY DEF managedResourceIssues, applyLoggingValidations, LoggingIssues, dups
  <2>2. \A q, s : Issue(q, s).res = q /\ Issue(q, s).reason = s
    BY DEF Issue
  <2> DEFINE I == managedResourceIssues(C, skipped)
  <2>3. \A q \in skipped : Issue(q, "UnknownConfigType") \in I
    BY <2>1
  <2>4. \A cfg \in Invalid(C) : Issue(cfg.res, "LoggingConfigInvalid") \in I
    BY <2>1
  <2>5. \A q \in dups : Issue(q, "DuplicateLoggingConfig") \in I
    BY <2>1
  <2>6. \A i \in I : i.reason # "DuplicateConfigKey" =>
          i.res \in skipped \/ (\E cfg \in Invalid(C) : cfg.res = i.res) \/ i.res \in dups
    BY <2>1, <2>2
  <2> HIDE DEF I
  <2>7. ASSUME NEW i \in I, i.reason # "DuplicateConfigKey" PROVE i.res \in Dropped(I)
    BY <2>7 DEF Dropped
  <2>8. r \in Dropped(I) => \E i \in I : i.reason # "DuplicateConfigKey" /\ i.res = r
    BY DEF Dropped
  <2>9. r \in skipped => r \in Dropped(I)
    BY <2>2, <2>3, <2>7
  <2>10. (\E cfg \in Invalid(C) : cfg.res = r) => r \in Dropped(I)
    BY <2>2, <2>4, <2>7
  <2>11. r \in dups => r \in Dropped(I)
    BY <2>2, <2>5, <2>7
  <2> QED BY <2>6, <2>8, <2>9, <2>10, <2>11 DEF I
<1>2. Accepted(objs, c) = {cfg \in C \ Invalid(C) : cfg.res \notin dups}
  BY DEF Accepted, applyLoggingValidations
<1>3. \A cfg \in C : cfg.res \notin skipped
  BY ScopedAre DEF Mountable
<1>4. \A a, b \in C : a.res = b.res => a = b
  BY ScopedAre
<1>5. r \notin skipped => \E cfg \in C : cfg.res = r
  <2> HAVE r \notin skipped
  <2>1. r \in Mountable(objs, c)
    BY DEF Mountable
  <2>2. Config(r, objs[r]) \in C /\ Config(r, objs[r]).res = r
    BY <2>1 DEF Scoped, Config
  <2> QED BY <2>2
<1>6. Invalid(C) \subseteq C /\ \A q \in dups : \E cfg \in C \ Invalid(C) : cfg.res = q
  BY DEF Invalid, detectDuplicateLoggingConfigs
<1> HIDE DEF C, skipped, dups
<1>7. r \in Dropped(managedResourceIssues(C, skipped)) <=> \A cfg \in Accepted(objs, c) : cfg.res # r
  BY <1>1, <1>2, <1>3, <1>4, <1>5, <1>6
<1> QED BY <1>7 DEF C, skipped
=============================================================================
