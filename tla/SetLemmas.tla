------------------------------ MODULE SetLemmas ------------------------------
(***************************************************************************)
(* Facts about least and greatest elements and about the sizes of finite   *)
(* sets that the proofs of several modules use.                            *)
(***************************************************************************)
EXTENDS Integers, FiniteSetsExt, FiniteSetTheorems, WellFoundedInduction, TLAPS

(* A set of naturals has a least element. *)
LEMMA MinOfNaturals ==
  ASSUME NEW S \in SUBSET Nat, S # {}
  PROVE  Min(S) \in S /\ \A y \in S : Min(S) <= y
<1> DEFINE less == OpToRel(<, Nat)
<1>1. IsWellFoundedOn(less, Nat)
  BY NatLessThanWellFounded, Zenon
<1>2. \A x, y \in Nat : y < x => <<y, x>> \in less
  BY DEF OpToRel
<1> HIDE DEF less
<1>3. PICK x \in S : \A y \in S : ~ (<<y, x>> \in less)
  BY <1>1, WFMin
<1>4. ASSUME NEW y \in S PROVE x <= y
  <2>1. x \in Nat /\ y \in Nat
    OBVIOUS
  <2>2. ~ (y < x)
    BY <1>2, <1>3, <2>1
  <2> QED BY <2>1, <2>2
<1> QED BY <1>3, <1>4 DEF Min

(* A set of indices has a greatest element. *)
LEMMA MaxOfIndices ==
  ASSUME NEW n \in Nat, NEW S \in SUBSET (1..n), S # {}
  PROVE  Max(S) \in S
<1> DEFINE less == OpToRel(<, Nat)
           up == {n - j : j \in S}
<1>1. IsWellFoundedOn(less, Nat)
  BY NatLessThanWellFounded, Zenon
<1>2. \A x, y \in Nat : y < x => <<y, x>> \in less
  BY DEF OpToRel
<1> HIDE DEF less
<1>3. up \in SUBSET Nat /\ up # {}
  <2>1. ASSUME NEW j \in S PROVE n - j \in Nat
    <3>1. j \in 1..n
      OBVIOUS
    <3> QED BY <3>1
  <2> QED BY <2>1
<1>4. PICK x \in up : \A y \in up : ~ (<<y, x>> \in less)
  BY <1>1, <1>3, WFMin
<1>5. PICK i \in S : x = n - i
  BY <1>4
<1>6. ASSUME NEW j \in S PROVE i >= j
  <2>1. n - j \in up /\ n - j \in Nat /\ n - i \in Nat
    BY <1>3
  <2>2. ~ (n - j < n - i)
    BY <2>1, <1>2, <1>4, <1>5
  <2> QED BY <2>2
<1> QED BY <1>6 DEF Max

(* One more element. *)
LEMMA AddOne ==
  ASSUME NEW S, IsFiniteSet(S), NEW x
  PROVE  /\ IsFiniteSet(S \cup {x}) /\ Cardinality(S \cup {x}) \in Nat
         /\ Cardinality(S \cup {x}) <= Cardinality(S) + 1
<1>1. Cardinality(S) \in Nat
  BY FS_CardinalityType
<1>2. /\ IsFiniteSet(S \cup {x})
      /\ Cardinality(S \cup {x}) = IF x \in S THEN Cardinality(S) ELSE Cardinality(S) + 1
  BY FS_AddElement
<1>3. Cardinality(S \cup {x}) \in {Cardinality(S), Cardinality(S) + 1}
  BY <1>2
<1> QED BY <1>1, <1>2, <1>3

(* A subset is no larger. *)
LEMMA SubsetCount ==
  ASSUME NEW S, IsFiniteSet(S), NEW T \in SUBSET S
  PROVE  /\ Cardinality(T) <= Cardinality(S)
         /\ Cardinality(T) \in Nat /\ Cardinality(S) \in Nat
<1>1. IsFiniteSet(T) /\ Cardinality(T) <= Cardinality(S)
  BY FS_Subset
<1> QED BY <1>1, FS_CardinalityType

LEMMA DisjointCount ==
  ASSUME NEW S, IsFiniteSet(S), NEW T, IsFiniteSet(T), S \cap T = {}
  PROVE  Cardinality(S \cup T) = Cardinality(S) + Cardinality(T)
<1>1. Cardinality(S \cap T) = 0
  BY FS_EmptySet
<1>2. Cardinality(S) \in Nat /\ Cardinality(T) \in Nat
  BY FS_CardinalityType
<1>3. Cardinality(S \cup T) = Cardinality(S) + Cardinality(T) - Cardinality(S \cap T)
  BY FS_Union
<1> QED BY <1>1, <1>2, <1>3

(* Induction up to a bound: S is the set of the numbers that have the      *)
(* property.                                                               *)
LEMMA UpTo ==
  ASSUME NEW N \in Nat, NEW S, 0 \in S, \A n \in 0..N : n < N /\ n \in S => n + 1 \in S
  PROVE  0..N \subseteq S
<1> SUFFICES ASSUME (0..N) \ S # {} PROVE FALSE
  OBVIOUS
<1> DEFINE rest == (0..N) \ S
           m == Min(rest)
<1>1. m \in rest /\ \A y \in rest : m <= y
  <2>1. rest \in SUBSET Nat /\ rest # {}
    OBVIOUS
  <2> QED BY <2>1, MinOfNaturals
<1> HIDE DEF m
<1>2. m - 1 \in 0..N /\ m - 1 < N
  BY <1>1
<1>3. m - 1 \in S
  <2> SUFFICES ASSUME m - 1 \in rest PROVE FALSE
    BY <1>2
  <2>1. m <= m - 1
    BY <1>1
  <2> QED BY <1>1, <2>1
<1>4. (m - 1) + 1 \in S
  BY <1>2, <1>3
<1> QED BY <1>1, <1>4

(* A function is given by its first value and the step to each next one.   *)
Unfolds(h, N, a, g) == h[0] = a /\ \A n \in 1..N : h[n] = g[<<h[n - 1], n>>]

LEMMA Recursion ==
  ASSUME NEW N \in Nat, NEW V, NEW a \in V, NEW g \in [V \X (1..N) -> V]
  PROVE  \E h \in [0..N -> V] : Unfolds(h, N, a, g)
<1> DEFINE Good(m) ==
             \E h \in [0..m -> V] : h[0] = a /\ \A n \in 1..m : h[n] = g[<<h[n - 1], n>>]
           S == {m \in 0..N : Good(m)}
<1>1. Good(0)
  <2>1. [n \in 0..0 |-> a] \in [0..0 -> V] /\ [n \in 0..0 |-> a][0] = a /\ 1..0 = {}
    OBVIOUS
  <2> QED BY <2>1
<1>2. ASSUME NEW m \in 0..N, m < N, Good(m) PROVE Good(m + 1)
  <2>1. PICK h \in [0..m -> V] : h[0] = a /\ \A n \in 1..m : h[n] = g[<<h[n - 1], n>>]
    BY <1>2
  <2> DEFINE k == [n \in 0..(m + 1) |-> IF n = m + 1 THEN g[<<h[m], m + 1>>] ELSE h[n]]
  <2>2. m + 1 \in 1..N /\ h[m] \in V /\ g[<<h[m], m + 1>>] \in V
    <3>1. m + 1 \in 1..N /\ h[m] \in V
      BY <1>2, <2>1
    <3> QED BY <3>1
  <2>3. k \in [0..(m + 1) -> V]
    <3>1. ASSUME NEW n \in 0..(m + 1), n # m + 1 PROVE n \in 0..m
      BY <3>1
    <3> QED BY <2>1, <2>2, <3>1
  <2>4. k[0] = a
    BY <2>1
  <2>5. ASSUME NEW n \in 1..(m + 1) PROVE k[n] = g[<<k[n - 1], n>>]
    <3>1. CASE n = m + 1
      <4>1. k[n - 1] = h[m] /\ k[n] = g[<<h[m], m + 1>>]
        BY <3>1
      <4> QED BY <3>1, <4>1
    <3>2. CASE n # m + 1
      <4>1. n \in 1..m /\ n - 1 \in 0..m /\ n - 1 # m + 1
        BY <3>2
      <4>2. k[n] = h[n] /\ k[n - 1] = h[n - 1]
        BY <4>1
      <4> QED BY <2>1, <4>1, <4>2
    <3> QED BY <3>1, <3>2
  <2> HIDE DEF k
  <2> QED BY <2>3, <2>4, <2>5
<1>3. 0..N \subseteq S
  <2> HIDE DEF Good
  <2>1. 0 \in S
    BY <1>1
  <2>2. \A n \in 0..N : n < N /\ n \in S => n + 1 \in S
    BY <1>2
  <2> HIDE DEF S
  <2> QED BY <2>1, <2>2, UpTo
<1>4. Good(N)
  <2>1. N \in 0..N
    OBVIOUS
  <2> HIDE DEF Good
  <2> QED BY <1>3, <2>1
<1> QED BY <1>4 DEF Unfolds

(* A finite set has an element with the greatest value. *)
LEMMA GreatestValue ==
  ASSUME NEW S, IsFiniteSet(S), S # {}, NEW v, \A x \in S : v[x] \in Int
  PROVE  \E x \in S : \A y \in S : v[y] <= v[x]
<1> DEFINE N == Cardinality(S)
           Has(T) == \E x \in T : \A y \in T : v[y] <= v[x]
           G == {n \in 0..N : \A T \in SUBSET S : Cardinality(T) = n /\ T # {} => Has(T)}
<1>1. N \in Nat
  BY FS_CardinalityType
<1>2. 0 \in G
  <2>1. \A T \in SUBSET S : Cardinality(T) = 0 => T = {}
    BY FS_EmptySet, FS_Subset
  <2> QED BY <1>1, <2>1
<1>3. ASSUME NEW n \in 0..N, n < N, n \in G PROVE n + 1 \in G
  <2> SUFFICES ASSUME NEW T \in SUBSET S, Cardinality(T) = n + 1, T # {} PROVE Has(T)
    BY <1>1, <1>3
  <2>1. PICK x \in T : TRUE
    OBVIOUS
  <2> DEFINE U == T \ {x}
  <2>2. IsFiniteSet(T) /\ Cardinality(U) = n /\ U \in SUBSET S
    <3>1. IsFiniteSet(T)
      BY FS_Subset
    <3>2. Cardinality(T \ {x}) = Cardinality(T) - 1
      BY <3>1, FS_RemoveElement
    <3> QED BY <3>1, <3>2
  <2>3. CASE U = {}
    <3>1. \A y \in T : y = x
      BY <2>3
    <3>2. v[x] <= v[x]
      OBVIOUS
    <3> QED BY <3>1, <3>2
  <2>4. CASE U # {}
    <3>1. Has(U)
      BY <1>3, <2>2, <2>4
    <3>2. PICK z \in U : \A y \in U : v[y] <= v[z]
      BY <3>1
    <3>3. v[x] \in Int /\ v[z] \in Int /\ \A y \in T : v[y] \in Int /\ (y = x \/ y \in U)
      BY <2>1, <2>2
    <3>4. CASE v[x] <= v[z]
      <4>1. \A y \in T : v[y] <= v[z]
        BY <3>2, <3>3, <3>4
      <4> QED BY <4>1
    <3>5. CASE v[z] <= v[x]
      <4>1. \A y \in T : v[y] <= v[x]
        BY <3>2, <3>3, <3>5
      <4> QED BY <2>1, <4>1
    <3> QED BY <3>3, <3>4, <3>5
  <2> QED BY <2>3, <2>4
<1>4. N \in G
  <2> HIDE DEF G
  <2>1. 0..N \subseteq G
    BY <1>1, <1>2, <1>3, UpTo
  <2> QED BY <1>1, <2>1
<1> QED BY <1>4

(* In the order p the values rise. *)
Ascends(p, v, n) == \A k \in 1..n - 1 : v[p[k]] <= v[p[k + 1]]

LEMMA Bijective ==
  ASSUME NEW S, NEW T
  PROVE  \A p : p \in Bijection(S, T) <=>
           /\ p \in [S -> T] /\ \A a, b \in S : p[a] = p[b] => a = b
           /\ \A t \in T : \E x \in S : p[x] = t
BY DEF Bijection, Injection, Surjection, IsInjective

(* The elements of a finite set can be put in the order of their values.   *)
LEMMA OrderExists ==
  ASSUME NEW S, IsFiniteSet(S), NEW v, \A x \in S : v[x] \in Int
  PROVE  \E p \in Bijection(1..Cardinality(S), S) : Ascends(p, v, Cardinality(S))
<1> DEFINE N == Cardinality(S)
           Has(T, n) == \E p \in Bijection(1..n, T) : Ascends(p, v, n)
           G == {n \in 0..N : \A T \in SUBSET S : Cardinality(T) = n => Has(T, n)}
<1>1. N \in Nat
  BY FS_CardinalityType
<1>2. 0 \in G
  <2>1. \A T \in SUBSET S : Cardinality(T) = 0 => T = {}
    BY FS_EmptySet, FS_Subset
  <2> DEFINE e == [k \in 1..0 |-> k]
  <2>2. e \in [1..0 -> {}] /\ 1..0 = {} /\ 1..0 - 1 = {}
    OBVIOUS
  <2> HIDE DEF e
  <2>3. e \in Bijection(1..0, {})
    <3>1. /\ \A a, b \in 1..0 : e[a] = e[b] => a = b
          /\ \A t \in {} : \E x \in 1..0 : e[x] = t
      BY <2>2
    <3> QED BY <2>2, <3>1, Bijective
  <2>4. Has({}, 0)
    BY <2>2, <2>3 DEF Ascends
  <2>5. 0 \in 0..N /\ \A T \in SUBSET S : Cardinality(T) = 0 => Has(T, 0)
    BY <1>1, <2>1, <2>4
  <2> QED BY <2>5
<1>3. ASSUME NEW n \in 0..N, n < N, n \in G PROVE n + 1 \in G
  <2> SUFFICES ASSUME NEW T \in SUBSET S, Cardinality(T) = n + 1 PROVE Has(T, n + 1)
    <3>1. n + 1 \in 0..N
      BY <1>1, <1>3
    <3> HIDE DEF Has, N
    <3> QED BY <3>1
  <2>1. IsFiniteSet(T) /\ T # {} /\ \A x \in T : v[x] \in Int
    BY FS_Subset, FS_EmptySet
  <2>2. PICK x \in T : \A y \in T : v[y] <= v[x]
    BY <2>1, GreatestValue
  <2> DEFINE U == T \ {x}
  <2>3. Cardinality(U) = n /\ U \in SUBSET S
    <3>1. Cardinality(T \ {x}) = Cardinality(T) - 1
      BY <2>1, <2>2, FS_RemoveElement
    <3> QED BY <1>1, <3>1
  <2>4. PICK q \in Bijection(1..n, U) : Ascends(q, v, n)
    BY <1>3, <2>3
  <2> DEFINE p == [k \in 1..n + 1 |-> IF k = n + 1 THEN x ELSE q[k]]
  <2>5. n \in Nat /\ \A k \in 1..n + 1 : k # n + 1 => k \in 1..n /\ q[k] \in U
    <3>1. q \in [1..n -> U]
      BY <2>4, Bijective
    <3> QED BY <1>1, <3>1
  <2>6. p \in [1..n + 1 -> T]
    BY <2>2, <2>5
  <2>7. \A a, b \in 1..n + 1 : p[a] = p[b] => a = b
    <3>1. \A a, b \in 1..n : q[a] = q[b] => a = b
      BY <2>4, Bijective
    <3> QED BY <2>5, <3>1
  <2>8. \A y \in T : \E k \in 1..n + 1 : p[k] = y
    <3>1. \A y \in U : \E k \in 1..n : q[k] = y
      <4> HIDE DEF U
      <4> QED BY <2>4, Bijective
    <3>2. n + 1 \in 1..n + 1 /\ \A k \in 1..n : k \in 1..n + 1 /\ k # n + 1
      BY <2>5
    <3> QED BY <3>1, <3>2
  <2>9. ASSUME NEW k \in 1..(n + 1) - 1 PROVE v[p[k]] <= v[p[k + 1]]
    <3>1. k \in 1..n /\ k # n + 1 /\ k \in 1..n + 1 /\ p[k] = q[k] /\ q[k] \in T
      BY <2>5
    <3>2. CASE k = n
      <4>1. p[k + 1] = x
        BY <2>5, <3>2
      <4> QED BY <2>2, <3>1, <4>1
    <3>3. CASE k # n
      <4>1. k \in 1..n - 1 /\ p[k + 1] = q[k + 1]
        BY <2>5, <3>1, <3>3
      <4> QED BY <2>4, <3>1, <4>1 DEF Ascends
    <3> QED BY <3>2, <3>3
  <2> HIDE DEF p
  <2>10. p \in Bijection(1..n + 1, T)
    BY <2>6, <2>7, <2>8, Bijective
  <2> QED BY <2>9, <2>10 DEF Ascends
<1>4. N \in G
  <2> HIDE DEF G
  <2>1. 0..N \subseteq G
    BY <1>1, <1>2, <1>3, UpTo
  <2> QED BY <1>1, <2>1
<1> QED BY <1>4

(* What comes later in such an order has no smaller a value.               *)
LEMMA LaterIsMore ==
  ASSUME NEW n \in Nat, NEW S, NEW p \in [1..n -> S], NEW v, \A x \in S : v[x] \in Int,
         Ascends(p, v, n), NEW a \in 1..n, NEW b \in 1..n, a <= b
  PROVE  v[p[a]] <= v[p[b]]
<1> DEFINE G == {d \in 0..n : a + d <= n => v[p[a]] <= v[p[a + d]]}
<1>1. 0 \in G
  <2>1. v[p[a]] \in Int /\ a + 0 = a
    OBVIOUS
  <2> QED BY <2>1
<1>2. ASSUME NEW d \in 0..n, d < n, d \in G PROVE d + 1 \in G
  <2> SUFFICES ASSUME a + (d + 1) <= n PROVE v[p[a]] <= v[p[a + (d + 1)]]
    BY <1>2
  <2>1. a + d \in 1..n - 1 /\ a + d \in 1..n /\ (a + d) + 1 \in 1..n /\ a + (d + 1) = (a + d) + 1
    OBVIOUS
  <2>2. v[p[a]] <= v[p[a + d]] /\ v[p[a + d]] <= v[p[(a + d) + 1]]
    BY <1>2, <2>1 DEF Ascends
  <2>3. v[p[a]] \in Int /\ v[p[a + d]] \in Int /\ v[p[(a + d) + 1]] \in Int
    BY <2>1
  <2> QED BY <2>1, <2>2, <2>3
<1>3. b - a \in 0..n /\ a + (b - a) = b
  OBVIOUS
<1>4. b - a \in G
  <2> HIDE DEF G
  <2>1. 0..n \subseteq G
    BY <1>1, <1>2, UpTo
  <2> QED BY <1>3, <2>1
<1> QED BY <1>3, <1>4

(* A set that holds what stands from a to b has at least that many.        *)
LEMMA AtLeastAsMany ==
  ASSUME NEW n \in Nat, NEW S, NEW p \in Injection(1..n, S), NEW Q, IsFiniteSet(Q),
         NEW a \in 1..n, NEW b \in 1..n, a <= b, \A k \in a..b : p[k] \in Q
  PROVE  Cardinality(Q) \in Nat /\ b - a + 1 <= Cardinality(Q)
<1> DEFINE f == [k \in a..b |-> p[k]]
<1>1. f \in Injection(a..b, Q)
  BY DEF Injection, IsInjective
<1>2. Cardinality(a..b) = b - a + 1
  BY FS_Interval
<1> QED BY <1>1, <1>2, FS_Injection, FS_CardinalityType

(* The elements of a finite set can be numbered, within any bound on how   *)
(* many they are.                                                          *)
LEMMA NumberedUpTo ==
  ASSUME NEW S, IsFiniteSet(S), NEW n \in Nat, Cardinality(S) <= n
  PROVE  \E f : f \in Injection(S, 1..n)
<1> DEFINE N == Cardinality(S)
<1>1. N \in Nat
  BY FS_CardinalityType
<1>2. PICK p : p \in Bijection(1..N, S)
  BY FS_CardinalityType DEF ExistsBijection
<1> HIDE DEF N
<1>3. /\ p \in [1..N -> S]
      /\ \A t \in S : \E x \in 1..N : p[x] = t
  BY <1>2 DEF Bijection, Injection, Surjection
<1> DEFINE f == [t \in S |-> CHOOSE x \in 1..N : p[x] = t]
<1>4. \A t \in S : f[t] \in 1..N /\ p[f[t]] = t
  BY <1>3
<1>5. 1..N \subseteq 1..n
  BY <1>1 DEF N
<1> HIDE DEF f
<1>6. \A t \in S : f[t] \in 1..n
  BY <1>4, <1>5
<1>7. f \in Injection(S, 1..n)
  BY <1>4, <1>6 DEF f, Injection, IsInjective
<1> QED BY <1>7

LEMMA UnionBounded ==
  ASSUME NEW S, IsFiniteSet(S), NEW T, IsFiniteSet(T)
  PROVE  Cardinality(S \cup T) <= Cardinality(S) + Cardinality(T)
<1>1. Cardinality(S \cup T) = Cardinality(S) + Cardinality(T) - Cardinality(S \cap T)
  BY FS_Union
<1>2. Cardinality(S \cap T) \in Nat
  BY FS_Intersection, FS_CardinalityType
<1>3. Cardinality(S) \in Nat /\ Cardinality(T) \in Nat
  BY FS_CardinalityType
<1> QED BY <1>1, <1>2, <1>3
=============================================================================
