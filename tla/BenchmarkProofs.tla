--------------------------- MODULE BenchmarkProofs ---------------------------
(***************************************************************************)
(* Proofs about the benchmark: for any tokenizer and any length of text,   *)
(* any list of points, and any stream of any number of repeats.            *)
(***************************************************************************)
EXTENDS Benchmark, SetLemmas

(* The cut behind the best one is too long, if there is one. *)
Tight == best = len \/ count[best + 1] > target

FitInv ==
  /\ TypeOK
  /\ count[best] <= target
  /\ pc = "grow" => best = 0
  /\ pc = "search" =>
       /\ lo <= hi + 1
       /\ best = lo - 1 \/ (lo = 0 /\ best = 0)
       /\ hi = len \/ count[hi + 1] > target
  /\ pc \in {"forward", "fitted", "done", "raised"} =>
       closest = best /\ cut = best + 1 /\ Tight

LEMMA CountsAreNat ==
  ASSUME NEW c \in Counts
  PROVE  c[0] = 0 /\ \A n \in 0..MaxText : c[n] \in Nat
BY FitAssumption

LEMMA FitInit == Init => FitInv
<1> SUFFICES ASSUME Init PROVE FitInv
  OBVIOUS
<1>1. count \in Counts /\ target \in Nat /\ count[0] = 0 /\ MaxText \in Nat /\ Prefix \in 0..MaxText
  BY CountsAreNat, FitAssumption DEF Init
<1> QED BY <1>1 DEF Init, FitInv, TypeOK, Tight

LEMMA FitStep == FitInv /\ [Next]_vars => FitInv'
<1> SUFFICES ASSUME FitInv, [Next]_vars PROVE FitInv'
  OBVIOUS
<1> USE DEF FitInv, TypeOK, Tight
<1>0. /\ MaxText \in Nat /\ Filler \in Nat /\ target \in Nat /\ count[0] = 0
      /\ \A n \in 0..MaxText : count[n] \in Nat
  BY CountsAreNat, FitAssumption
<1>1. CASE Grow
  <2>1. /\ len \in Nat /\ len' \in 0..MaxText /\ len' = len + Filler
        /\ UNCHANGED <<count, target, lo, hi, best, bestN, closest, cut, pc>>
    BY <1>0, <1>1 DEF Grow, input
  <2>2. pc = "grow"
    BY <1>1 DEF Grow
  <2>3. TypeOK'
    <3>1. len \in Nat /\ len' \in Nat
      BY <1>0, <2>1
    <3>2. lo' \in 0..len' + 1 /\ hi' \in -1..len' /\ best' \in 0..len'
      BY <1>0, <2>1, <3>1
    <3>3. closest' \in 0..len' /\ cut' \in 0..len' + 1
      BY <1>0, <2>1, <3>1
    <3> QED BY <2>1, <3>2, <3>3
  <2> QED BY <2>1, <2>2, <2>3
<1>2. CASE Grown
  BY <1>0, <1>2 DEF Grown, input
<1>3. CASE Search
  <2>1. Mid \in lo..hi /\ Mid \in 0..len
    BY <1>3 DEF Search, Mid
  <2>2. CASE count[Mid] <= target
    BY <1>0, <1>3, <2>1, <2>2 DEF Search, input
  <2>3. CASE ~(count[Mid] <= target)
    <3>1. count[Mid] > target
      BY <1>0, <2>1, <2>3
    <3>2. hi' = Mid - 1 /\ count[hi' + 1] > target /\ hi' \in -1..len
      BY <1>3, <2>1, <2>3, <3>1 DEF Search
    <3> QED BY <1>0, <1>3, <2>1, <2>3, <3>2 DEF Search, input
  <2> QED BY <2>2, <2>3
<1>4. CASE Searched
  <2>1. lo = hi + 1 /\ lo # 0
    BY <1>0, <1>4 DEF Searched
  <2>2. best = hi
    BY <1>4, <2>1 DEF Searched
  <2> QED BY <1>0, <1>4, <2>1, <2>2 DEF Searched, input
<1>5. CASE Forward
  <2>1. cut > len \/ count[cut] > target
    BY <1>5 DEF Forward
  <2> QED BY <1>5, <2>1 DEF Forward, input
<1>6. CASE Return
  BY <1>6 DEF Return, input
<1>7. CASE UNCHANGED vars
  BY <1>7 DEF vars
<1> QED BY <1>1, <1>2, <1>3, <1>4, <1>5, <1>6, <1>7 DEF Next

(* The best cut always fits, and the search encloses it. *)
THEOREM FitInvariant == Spec => []FitInv
<1> QED BY FitInit, FitStep, PTL DEF Spec

(* Type correctness. *)
THEOREM FitTyped == Spec => []TypeOK
<1>1. FitInv => TypeOK
  BY DEF FitInv
<1> QED BY <1>1, FitInvariant, PTL

(* The loop that steps forward never takes a step. *)
THEOREM FitNoStep == Spec => []NoStepForward
<1>1. FitInv => NoStepForward
  BY DEF FitInv, NoStepForward
<1> QED BY <1>1, FitInvariant, PTL

(* No prompt has more tokens than asked for, and with a monotone tokenizer *)
(* it is the longest prefix that fits (_fit_token_length).                 *)
THEOREM FitCutIsRight == Spec => []CutIsRight
<1>1. FitInv => NeverOver
  BY DEF FitInv, NeverOver, Returned
<1>2. FitInv => MonotoneLongest
  <2> SUFFICES ASSUME FitInv, Returned, Monotone,
                      NEW n \in 0..len, count[n] <= target, n > closest
               PROVE  FALSE
    BY DEF MonotoneLongest, FitInv, TypeOK
  <2>1. closest = best /\ Tight /\ best \in 0..len /\ len \in 0..MaxText
    BY DEF FitInv, TypeOK, Returned
  <2>2. count[best + 1] > target /\ best + 1 <= n /\ best + 1 \in 0..MaxText /\ n \in 0..MaxText
    BY <2>1, FitAssumption DEF Tight
  <2>3. count[best + 1] <= count[n]
    BY <2>2 DEF Monotone
  <2>4. count[n] \in Nat /\ count[best + 1] \in Nat /\ target \in Nat
    BY <2>2, CountsAreNat, FitAssumption DEF FitInv, TypeOK
  <2> QED BY <2>2, <2>3, <2>4
<1>3. FitInv => CutIsRight
  BY <1>1, <1>2 DEF CutIsRight
<1> QED BY <1>3, FitInvariant, PTL

-----------------------------------------------------------------------------
(***************************************************************************)
(* pareto.py                                                               *)
(***************************************************************************)
ParetoTyped ==
  /\ points \in Seq(P!Point)
  /\ i \in 1..Len(points) + 1 /\ j \in 1..Len(points) + 1
  /\ kept \in Seq(P!Numbers) /\ dominated \in BOOLEAN

(* What the loops know when the point i has been compared with those       *)
(* before j.                                                               *)
Compared ==
  i <= Len(points) =>
    /\ dominated => P!Dominated(i)
    /\ ~dominated => \A m \in P!Numbers : m < j => ~P!Better(points[m], points[i])

(* The frontier is the points that stay, each once and in order. *)
Arranged(order) ==
  /\ order \in Bijection(1..Len(kept), 1..Len(kept))
  /\ frontier = [n \in 1..Len(kept) |-> points[kept[order[n]]]]
  /\ \A n \in 1..Len(kept) - 1 : ~P!Before(frontier[n + 1], frontier[n])

Ordered == state = "done" => i > Len(points) /\ \E order : Arranged(order)

ParetoInv == ParetoTyped /\ Compared /\ P!KeptExact /\ Ordered

LEMMA NoneBetterThanItself ==
  ASSUME NEW p \in P!Point PROVE ~P!Better(p, p)
BY DEF P!Better, P!Point

LEMMA ParetoInit == P!Init => ParetoInv
<1> SUFFICES ASSUME P!Init PROVE ParetoInv
  OBVIOUS
<1>1. points \in Seq(P!Point) /\ Len(points) \in Nat
  BY ParetoAssumption DEF P!Init
<1>2. P!KeptExact
  BY <1>1 DEF P!Init, P!KeptExact, P!Numbers
<1>3. ParetoTyped
  <2>1. i \in 1..Len(points) + 1 /\ j \in 1..Len(points) + 1
    BY <1>1 DEF P!Init
  <2>2. kept = <<>> /\ dominated = FALSE
    BY DEF P!Init
  <2>3. <<>> \in Seq(P!Numbers)
    OBVIOUS
  <2> QED BY <1>1, <2>1, <2>2, <2>3 DEF ParetoTyped
<1>4. Compared
  BY <1>1 DEF P!Init, Compared, P!Numbers
<1>5. Ordered
  BY DEF P!Init, Ordered
<1> QED BY <1>2, <1>3, <1>4, <1>5 DEF ParetoInv

LEMMA OrderedStep == Ordered /\ [P!Next]_P!vars => Ordered'
<1> SUFFICES ASSUME Ordered, [P!Next]_P!vars, state' = "done"
             PROVE  i' > Len(points') /\ \E order : Arranged(order)'
  BY DEF Ordered
<1>1. CASE P!Sort
  <2>1. /\ i > Len(points) /\ UNCHANGED <<points, i, kept>>
        /\ \A n \in 1..Len(kept) - 1 : ~P!Before(frontier'[n + 1], frontier'[n])
    BY <1>1 DEF P!Sort
  <2>2. PICK order \in Bijection(1..Len(kept), 1..Len(kept)) :
          frontier' = [n \in 1..Len(kept) |-> points[kept[order[n]]]]
    BY <1>1 DEF P!Sort, P!Bijection, P!Injection, P!IsInjective, P!Surjection,
       Bijection, Injection, IsInjective, Surjection
  <2>3. Arranged(order)'
    BY <2>1, <2>2 DEF Arranged, P!Before
  <2> QED BY <2>1, <2>3
<1>2. CASE UNCHANGED P!vars
  <2>1. UNCHANGED <<points, i, kept, frontier, state>>
    BY <1>2 DEF P!vars
  <2>2. PICK order : Arranged(order)
    BY <2>1 DEF Ordered
  <2>3. Arranged(order)'
    BY <2>1, <2>2 DEF Arranged, P!Before
  <2> QED BY <2>1, <2>3 DEF Ordered
<1>3. ~P!Compare /\ ~P!Judge
  BY DEF P!Compare, P!Judge
<1> QED BY <1>1, <1>2, <1>3 DEF P!Next

LEMMA ParetoStep == ParetoInv /\ [P!Next]_P!vars => ParetoInv'
<1> SUFFICES ASSUME ParetoInv, [P!Next]_P!vars PROVE ParetoInv'
  OBVIOUS
<1>0. /\ Len(points) \in Nat /\ i \in Nat \ {0} /\ j \in Nat \ {0}
      /\ \A n \in P!Numbers : points[n] \in P!Point
  <2>1. Len(points) \in Nat /\ \A n \in 1..Len(points) : points[n] \in P!Point
    <3>1. points \in Seq(P!Point)
      BY DEF ParetoInv, ParetoTyped
    <3> QED BY <3>1
  <2>2. i \in 1..Len(points) + 1 /\ j \in 1..Len(points) + 1
    BY DEF ParetoInv, ParetoTyped
  <2> QED BY <2>1, <2>2 DEF P!Numbers
<1>01. Ordered'
  BY OrderedStep DEF ParetoInv
<1>1. CASE P!Compare
  <2>1. /\ i \in P!Numbers /\ j \in P!Numbers /\ ~dominated
        /\ UNCHANGED <<points, i, kept>>
    BY <1>0, <1>1 DEF P!Compare, P!Numbers
  <2>2. P!KeptExact'
    BY <2>1 DEF ParetoInv, P!KeptExact, P!Numbers, P!Dominated, P!Better
  <2>3. CASE j # i /\ P!Better(points[j], points[i])
    <3>1. dominated' = TRUE /\ j' = j
      BY <1>1, <2>3 DEF P!Compare
    <3>2. P!Dominated(i)'
      BY <2>1, <2>3 DEF P!Dominated, P!Better, P!Numbers
    <3>3. ParetoTyped' /\ Compared'
      BY <2>1, <3>1, <3>2 DEF ParetoInv, ParetoTyped, Compared, P!Numbers
    <3> QED BY <1>01, <2>2, <3>3 DEF ParetoInv
  <2>4. CASE ~(j # i /\ P!Better(points[j], points[i]))
    <3>1. dominated' = FALSE /\ j' = j + 1
      BY <1>1, <2>4 DEF P!Compare
    <3>2. ~P!Better(points[j], points[i])
      BY <1>0, <2>1, <2>4, NoneBetterThanItself
    <3>3. \A m \in P!Numbers : m < j + 1 => ~P!Better(points[m], points[i])
      <4> SUFFICES ASSUME NEW m \in P!Numbers, m < j + 1 PROVE ~P!Better(points[m], points[i])
        OBVIOUS
      <4>1. m < j \/ m = j
        BY <1>0 DEF P!Numbers
      <4> QED BY <1>0, <2>1, <3>2, <4>1 DEF ParetoInv, Compared, P!Numbers
    <3>4. (\A m \in P!Numbers : m < j => ~P!Better(points[m], points[i]))'
      BY <2>1, <3>1, <3>3 DEF P!Better, P!Numbers
    <3>5. ParetoTyped'
      <4>1. points' = points /\ i' = i /\ kept' = kept /\ P!Numbers' = P!Numbers
        BY <2>1 DEF P!Numbers
      <4>2. j' \in 1..Len(points) + 1
        <5>1. j \in Nat /\ 1 <= j /\ j <= Len(points) /\ j' = j + 1
          BY <1>0, <2>1, <3>1 DEF P!Numbers
        <5> QED BY <1>0, <5>1
      <4>3. dominated' \in BOOLEAN
        BY <3>1
      <4> QED BY <4>1, <4>2, <4>3 DEF ParetoInv, ParetoTyped
    <3>6. Compared'
      BY <3>1, <3>4 DEF Compared
    <3> QED BY <1>01, <2>2, <3>5, <3>6 DEF ParetoInv
  <2> QED BY <2>3, <2>4
<1>2. CASE P!Judge
  <2>1. /\ i \in P!Numbers /\ i' = i + 1 /\ j' = 1 /\ dominated' = FALSE
        /\ UNCHANGED points
    BY <1>0, <1>2 DEF P!Judge, P!Numbers, ParetoInv, ParetoTyped
  <2>2. dominated <=> P!Dominated(i)
    <3>1. CASE dominated
      BY <1>0, <2>1, <3>1 DEF ParetoInv, Compared, P!Numbers
    <3>2. CASE ~dominated
      <4>1. j = Len(points) + 1
        BY <1>0, <1>2, <3>2 DEF P!Judge, ParetoInv, ParetoTyped
      <4>2. \A m \in P!Numbers : m < j
        BY <1>0, <4>1 DEF P!Numbers
      <4> QED BY <1>0, <2>1, <3>2, <4>2 DEF ParetoInv, Compared, P!Dominated, P!Numbers
    <3> QED BY <3>1, <3>2
  <2>3. kept' = IF dominated THEN kept ELSE Append(kept, i)
    BY <1>2 DEF P!Judge
  <2>4. kept' \in Seq(P!Numbers) /\ kept \in Seq(P!Numbers)
    BY <2>1, <2>3 DEF ParetoInv, ParetoTyped
  <2>5. \A n \in P!Numbers :
          (\E k \in 1..Len(kept') : kept'[k] = n)
            <=> (\E k \in 1..Len(kept) : kept[k] = n) \/ (n = i /\ ~dominated)
    <3>1. CASE dominated
      BY <2>3, <3>1
    <3>2. CASE ~dominated
      <4>1. /\ Len(kept') = Len(kept) + 1 /\ Len(kept) \in Nat /\ kept'[Len(kept) + 1] = i
            /\ \A k \in 1..Len(kept) : kept'[k] = kept[k]
        BY <2>1, <2>3, <2>4, <3>2
      <4>2. \A k \in 1..Len(kept') : k \in 1..Len(kept) \/ k = Len(kept) + 1
        BY <4>1
      <4>3. Len(kept) + 1 \in 1..Len(kept') /\ \A k \in 1..Len(kept) : k \in 1..Len(kept')
        BY <4>1
      <4> QED BY <3>2, <4>1, <4>2, <4>3
    <3> QED BY <3>1, <3>2
  <2>6. \A n \in P!Numbers : n < i + 1 <=> (n < i \/ n = i)
    BY <1>0 DEF P!Numbers
  <2>7. \A n \in P!Numbers :
          (\E k \in 1..Len(kept') : kept'[k] = n) <=> (n < i + 1 /\ ~P!Dominated(n))
    <3> SUFFICES ASSUME NEW n \in P!Numbers
                 PROVE (\E k \in 1..Len(kept') : kept'[k] = n) <=> (n < i + 1 /\ ~P!Dominated(n))
      OBVIOUS
    <3>1. (\E k \in 1..Len(kept) : kept[k] = n) <=> (n < i /\ ~P!Dominated(n))
      BY DEF ParetoInv, P!KeptExact
    <3>2. n = i => (dominated <=> P!Dominated(n))
      BY <2>2
    <3> QED BY <2>5, <2>6, <3>1, <3>2
  <2>8. P!KeptExact'
    BY <2>1, <2>7 DEF P!KeptExact, P!Numbers, P!Dominated, P!Better
  <2>9. (\A m \in P!Numbers : m < j => ~P!Better(points[m], points[i]))'
    BY <2>1, <1>0 DEF P!Numbers
  <2>10. ParetoTyped'
    <3>1. points' = points /\ P!Numbers' = P!Numbers /\ dominated' \in BOOLEAN
      BY <2>1 DEF P!Numbers
    <3>2. i' \in 1..Len(points) + 1 /\ j' \in 1..Len(points) + 1
      BY <1>0, <2>1 DEF P!Numbers
    <3> QED BY <2>4, <3>1, <3>2 DEF ParetoInv, ParetoTyped
  <2>11. Compared'
    BY <2>1, <2>9 DEF Compared
  <2> QED BY <1>01, <2>8, <2>10, <2>11 DEF ParetoInv
<1>3. CASE P!Sort
  BY <1>01, <1>3 DEF P!Sort, ParetoInv, ParetoTyped, Compared, P!KeptExact, P!Numbers, P!Dominated, P!Better
<1>4. CASE UNCHANGED P!vars
  BY <1>01, <1>4 DEF P!vars, ParetoInv, ParetoTyped, Compared, P!KeptExact, P!Numbers, P!Dominated, P!Better
<1> QED BY <1>1, <1>2, <1>3, <1>4 DEF P!Next

(* Every point has one at least as good that no point is better than.      *)
LEMMA SomeNotDominated ==
  ASSUME ParetoTyped, NEW n \in P!Numbers
  PROVE  \E m \in P!Numbers :
           ~P!Dominated(m) /\ (m = n \/ P!Better(points[m], points[n]))
<1> DEFINE S == {m \in P!Numbers : m = n \/ P!Better(points[m], points[n])}
           v == [m \in P!Numbers |-> points[m].speed + points[m].score]
<1>1. \A m \in P!Numbers : points[m] \in P!Point
  <2>1. points \in Seq(P!Point)
    BY DEF ParetoTyped
  <2> QED BY <2>1 DEF P!Numbers
<1>2. \A m \in P!Numbers : points[m].speed \in Int /\ points[m].score \in Int
  BY <1>1 DEF P!Point
<1>3. IsFiniteSet(S)
  <2>1. Len(points) \in Nat
    BY DEF ParetoTyped
  <2>2. IsFiniteSet(P!Numbers)
    BY <2>1, FS_Interval DEF P!Numbers
  <2> QED BY <2>2, FS_Subset
<1>4. n \in S /\ \A m \in S : v[m] \in Int
  BY <1>2
<1>5. PICK m \in S : \A k \in S : v[k] <= v[m]
  <2> HIDE DEF S, v
  <2> QED BY <1>3, <1>4, GreatestValue
<1>6. ASSUME NEW k \in P!Numbers, P!Better(points[k], points[m]) PROVE FALSE
  <2>1. k \in S
    BY <1>2, <1>5, <1>6 DEF P!Better
  <2>2. v[k] > v[m]
    BY <1>2, <1>5, <1>6 DEF P!Better
  <2>3. v[k] <= v[m] /\ v[k] \in Int /\ v[m] \in Int
    BY <1>4, <1>5, <2>1
  <2> HIDE DEF v
  <2> QED BY <2>2, <2>3
<1> QED BY <1>5, <1>6 DEF P!Dominated

LEMMA ArrangedCovers ==
  ASSUME ParetoTyped, NEW order, Arranged(order)
  PROVE  /\ Len(kept) \in Nat /\ Len(frontier) = Len(kept) /\ DOMAIN frontier = 1..Len(kept)
         /\ \A n \in 1..Len(kept) : order[n] \in 1..Len(kept) /\ kept[n] \in P!Numbers
                                   /\ frontier[n] = points[kept[order[n]]]
         /\ \A k \in 1..Len(kept) : \E n \in 1..Len(kept) : frontier[n] = points[kept[k]]
<1>1. Len(kept) \in Nat /\ \A n \in 1..Len(kept) : kept[n] \in P!Numbers
  <2>1. kept \in Seq(P!Numbers)
    BY DEF ParetoTyped
  <2> QED BY <2>1
<1>2. frontier = [n \in 1..Len(kept) |-> points[kept[order[n]]]]
  BY DEF Arranged
<1>3. Len(frontier) = Len(kept)
  BY <1>1, <1>2
<1>4. /\ order \in [1..Len(kept) -> 1..Len(kept)]
      /\ \A k \in 1..Len(kept) : \E n \in 1..Len(kept) : order[n] = k
  <2> DEFINE N == 1..Len(kept)
  <2>1. order \in Bijection(N, N)
    BY DEF Arranged
  <2> HIDE DEF N
  <2>2. order \in [N -> N] /\ \A k \in N : \E n \in N : order[n] = k
    BY <2>1, Bijective
  <2> QED BY <2>2 DEF N
<1> QED BY <1>1, <1>2, <1>3, <1>4

LEMMA FrontierInOrder == ParetoInv => P!FrontierFalls
<1> SUFFICES ASSUME ParetoInv, state = "done"
             PROVE  /\ Len(frontier) = Len(kept)
                    /\ {frontier[k] : k \in 1..Len(frontier)}
                         = {points[kept[k]] : k \in 1..Len(kept)}
                    /\ \A k \in 1..Len(frontier) - 1 :
                         \/ frontier[k] = frontier[k + 1]
                         \/ /\ frontier[k].speed < frontier[k + 1].speed
                            /\ frontier[k].score > frontier[k + 1].score
  BY DEF P!FrontierFalls
<1>1. PICK order : Arranged(order)
  BY DEF ParetoInv, Ordered
<1>2. /\ Len(kept) \in Nat /\ Len(frontier) = Len(kept)
      /\ \A n \in 1..Len(kept) : order[n] \in 1..Len(kept) /\ kept[n] \in P!Numbers
                                /\ frontier[n] = points[kept[order[n]]]
      /\ \A k \in 1..Len(kept) : \E n \in 1..Len(kept) : frontier[n] = points[kept[k]]
  BY <1>1, ArrangedCovers DEF ParetoInv
<1>3. {frontier[k] : k \in 1..Len(frontier)} = {points[kept[k]] : k \in 1..Len(kept)}
  <2>1. \A n \in 1..Len(kept) : \E k \in 1..Len(kept) : frontier[n] = points[kept[k]]
    BY <1>2
  <2>2. \A k \in 1..Len(kept) : \E n \in 1..Len(kept) : frontier[n] = points[kept[k]]
    BY <1>2
  <2>3. Len(frontier) = Len(kept)
    BY <1>2
  <2>4. ASSUME NEW k \in 1..Len(frontier)
        PROVE  frontier[k] \in {points[kept[m]] : m \in 1..Len(kept)}
    <3>1. k \in 1..Len(kept)
      BY <2>3
    <3> QED BY <2>1, <3>1
  <2>5. ASSUME NEW k \in 1..Len(kept)
        PROVE  points[kept[k]] \in {frontier[m] : m \in 1..Len(frontier)}
    <3>1. PICK n \in 1..Len(kept) : frontier[n] = points[kept[k]]
      BY <2>2
    <3> QED BY <2>3, <3>1
  <2> QED BY <2>4, <2>5
<1>4. \A n \in 1..Len(kept) : /\ frontier[n] \in P!Point
                              /\ \A m \in P!Numbers : ~P!Better(points[m], frontier[n])
  <2> SUFFICES ASSUME NEW n \in 1..Len(kept)
               PROVE  /\ frontier[n] \in P!Point
                      /\ \A m \in P!Numbers : ~P!Better(points[m], frontier[n])
    OBVIOUS
  <2> DEFINE at == kept[order[n]]
  <2>1. at \in P!Numbers /\ frontier[n] = points[at] /\ \E k \in 1..Len(kept) : kept[k] = at
    BY <1>2
  <2>2. ~P!Dominated(at)
    BY <2>1 DEF ParetoInv, P!KeptExact
  <2>3. points[at] \in P!Point
    <3>1. points \in Seq(P!Point)
      BY DEF ParetoInv, ParetoTyped
    <3> QED BY <2>1, <3>1 DEF P!Numbers
  <2> QED BY <2>1, <2>2, <2>3 DEF P!Dominated
<1>5. ASSUME NEW k \in 1..Len(frontier) - 1
      PROVE  \/ frontier[k] = frontier[k + 1]
             \/ /\ frontier[k].speed < frontier[k + 1].speed
                /\ frontier[k].score > frontier[k + 1].score
  <2>1. k \in 1..Len(kept) /\ k + 1 \in 1..Len(kept)
    BY <1>2
  <2> DEFINE p == frontier[k]
             q == frontier[k + 1]
  <2>2. p \in P!Point /\ q \in P!Point
    BY <1>4, <2>1
  <2>3. ~P!Before(q, p)
    BY <1>1, <1>2 DEF Arranged
  <2>4. ~P!Better(q, p)
    <3>1. q = points[kept[order[k + 1]]] /\ kept[order[k + 1]] \in P!Numbers
      BY <1>2, <2>1
    <3> QED BY <1>4, <2>1, <3>1
  <2> HIDE DEF p, q
  <2>5. p.speed \in Int /\ p.score \in Int /\ q.speed \in Int /\ q.score \in Int
    BY <2>2 DEF P!Point
  <2>6. \/ p.speed = q.speed /\ p.score = q.score
        \/ p.speed < q.speed /\ p.score > q.score
    BY <2>3, <2>4, <2>5 DEF P!Before, P!Better
  <2>7. p.speed = q.speed /\ p.score = q.score => p = q
    BY <2>2 DEF P!Point
  <2> QED BY <2>6, <2>7 DEF p, q
<1> QED BY <1>2, <1>3, <1>5

LEMMA FrontierForAll == ParetoInv => P!FrontierCovers
<1> SUFFICES ASSUME ParetoInv, state = "done", NEW n \in P!Numbers
             PROVE  \E k \in 1..Len(frontier) :
                      frontier[k] = points[n] \/ P!Better(frontier[k], points[n])
  BY DEF P!FrontierCovers
<1>1. PICK order : Arranged(order) /\ i > Len(points)
  BY DEF ParetoInv, Ordered
<1>2. /\ Len(kept) \in Nat /\ Len(frontier) = Len(kept)
      /\ \A k \in 1..Len(kept) : \E m \in 1..Len(kept) : frontier[m] = points[kept[k]]
  BY <1>1, ArrangedCovers DEF ParetoInv
<1>3. PICK m \in P!Numbers : ~P!Dominated(m) /\ (m = n \/ P!Better(points[m], points[n]))
  BY SomeNotDominated DEF ParetoInv
<1>4. m < i
  BY <1>1 DEF ParetoInv, ParetoTyped, P!Numbers
<1>5. PICK k \in 1..Len(kept) : kept[k] = m
  BY <1>3, <1>4 DEF ParetoInv, P!KeptExact
<1> QED BY <1>2, <1>3, <1>5

(* The two loops keep exactly the points that no point is better than, and *)
(* the sort puts them in an order that falls.                              *)
THEOREM ParetoInvariant == P!Spec => []ParetoInv
BY ParetoInit, ParetoStep, PTL DEF P!Spec

(* The frontier has every point that no point is better than, trades speed *)
(* for score along its line, and makes up for what it leaves out           *)
(* (pareto.pareto_frontier).                                               *)
THEOREM ParetoFrontier == P!Spec => []FrontierExact
<1>1. ParetoInv => FrontierExact
  BY FrontierInOrder, FrontierForAll DEF ParetoInv, FrontierExact, P!FrontierExact
<1> QED BY <1>1, ParetoInvariant, PTL

-----------------------------------------------------------------------------
(***************************************************************************)
(* metrics.py.  The values in order, and what stands in their middle.      *)
(***************************************************************************)
LEMMA SameSize == \A S : R!Cardinality(S) = Cardinality(S)
BY DEF R!Cardinality, Cardinality

LEMMA SameBijections == \A S, T : R!Bijection(S, T) = Bijection(S, T)
BY DEF R!Bijection, R!Injection, R!IsInjective, R!Surjection, Bijection, Injection, IsInjective,
   Surjection

(* xs has the values of v on S, in the order p of their places. *)
InOrder(xs, p, v, S) ==
  /\ p \in Bijection(1..Cardinality(S), S) /\ Ascends(p, v, Cardinality(S))
  /\ xs = [k \in 1..Cardinality(S) |-> v[p[k]]]

LEMMA SortedInOrder ==
  ASSUME NEW S, IsFiniteSet(S), NEW v \in [S -> Int]
  PROVE  \E p : InOrder(R!Sorted(v), p, v, S)
<1> DEFINE m == Cardinality(S)
           Good(p) == \A k \in 1..m - 1 : v[p[k]] <= v[p[k + 1]]
           B == Bijection(1..m, S)
<1>1. \E p \in B : Good(p)
  <2>1. \A x \in S : v[x] \in Int
    OBVIOUS
  <2> QED BY <2>1, OrderExists DEF Ascends
<1> DEFINE D == DOMAIN v
           c == R!Cardinality(D)
           Fine(p) == \A k \in 1..c - 1 : v[p[k]] <= v[p[k + 1]]
           q == CHOOSE p \in R!Bijection(1..c, D) : Fine(p)
<1>2. D = S /\ c = m /\ R!Bijection(1..c, D) = B /\ \A p : Fine(p) <=> Good(p)
  <2>1. D = S
    OBVIOUS
  <2> HIDE DEF D
  <2>2. c = m
    BY <2>1, SameSize
  <2> HIDE DEF c, m
  <2> QED BY <2>1, <2>2, SameBijections
<1>3. R!Sorted(v) = [k \in 1..c |-> v[q[k]]]
  BY DEF R!Sorted
<1>4. q \in R!Bijection(1..c, D) /\ Fine(q)
  <2>1. \E p \in R!Bijection(1..c, D) : Fine(p)
    <3> HIDE DEF B, Good, Fine, c, D
    <3> QED BY <1>1, <1>2
  <2> HIDE DEF Fine, c, D
  <2> QED BY <2>1
<1>5. R!Sorted(v) = [k \in 1..m |-> v[q[k]]] /\ q \in B /\ Good(q)
  <2> HIDE DEF q, B, Good, Fine, c, D, m
  <2> QED BY <1>2, <1>3, <1>4
<1> HIDE DEF q
<1> QED BY <1>5 DEF InOrder, Ascends

LEMMA OrderedValues ==
  ASSUME NEW S, IsFiniteSet(S), NEW v \in [S -> Int], NEW p, NEW xs, InOrder(xs, p, v, S)
  PROVE  /\ Cardinality(S) \in Nat /\ Len(xs) = Cardinality(S)
         /\ p \in Injection(1..Len(xs), S)
         /\ \A k \in 1..Len(xs) : p[k] \in S /\ xs[k] = v[p[k]] /\ xs[k] \in Int
         /\ \A x \in S : \E k \in 1..Len(xs) : p[k] = x
         /\ \A a, b \in 1..Len(xs) : a <= b => xs[a] <= xs[b]
<1> DEFINE m == Cardinality(S)
<1>1. m \in Nat /\ xs = [k \in 1..m |-> v[p[k]]] /\ p \in Bijection(1..m, S)
  BY FS_CardinalityType DEF InOrder
<1>2. Len(xs) = m
  <2> HIDE DEF m
  <2> QED BY <1>1
<1>3. p \in [1..m -> S] /\ \A x \in S : \E k \in 1..m : p[k] = x
  <2> DEFINE D == 1..m
  <2>1. p \in Bijection(D, S)
    BY <1>1
  <2> HIDE DEF D
  <2>2. p \in [D -> S] /\ \A x \in S : \E k \in D : p[k] = x
    BY <2>1, Bijective
  <2> QED BY <2>2 DEF D
<1>4. p \in Injection(1..m, S)
  BY <1>1 DEF Bijection
<1>5. \A k \in 1..m : xs[k] = v[p[k]] /\ xs[k] \in Int
  BY <1>1, <1>3
<1>6. ASSUME NEW a \in 1..m, NEW b \in 1..m, a <= b PROVE xs[a] <= xs[b]
  <2>1. Ascends(p, v, m) /\ \A x \in S : v[x] \in Int
    BY DEF InOrder
  <2>2. v[p[a]] <= v[p[b]]
    <3> HIDE DEF m
    <3> QED BY <1>1, <1>3, <1>6, <2>1, LaterIsMore
  <2> QED BY <1>5, <2>2
<1> QED BY <1>1, <1>2, <1>3, <1>4, <1>5, <1>6

(* What median takes, in halves, has at least half of the values on each   *)
(* side.                                                                   *)
LEMMA MedianInTheMiddle ==
  ASSUME NEW S, IsFiniteSet(S), NEW v \in [S -> Int]
  PROVE  R!InTheMiddle(R!Median(v), S, v)
<1> DEFINE xs == R!Sorted(v)
           m == R!Median(v)
           mid == Len(xs) \div 2
<1>1. PICK p : InOrder(xs, p, v, S)
  BY SortedInOrder
<1>2. /\ Cardinality(S) \in Nat /\ Len(xs) = Cardinality(S) /\ p \in Injection(1..Len(xs), S)
      /\ \A k \in 1..Len(xs) : p[k] \in S /\ xs[k] = v[p[k]] /\ xs[k] \in Int
      /\ \A a, b \in 1..Len(xs) : a <= b => xs[a] <= xs[b]
  BY <1>1, OrderedValues
<1>3. m = IF Len(xs) = 0 THEN None
          ELSE IF Len(xs) % 2 = 1 THEN 2 * xs[mid + 1] ELSE xs[mid] + xs[mid + 1]
  BY DEF R!Median
<1> HIDE DEF xs, m
<1>4. CASE S = {}
  <2>1. Cardinality(S) = 0
    BY <1>4, FS_EmptySet
  <2> QED BY <1>2, <1>3, <1>4, <2>1 DEF R!InTheMiddle, m
<1>5. CASE S # {}
  <2>1. Len(xs) \in Nat \ {0}
    <3>1. Cardinality(S) # 0
      BY <1>5, FS_EmptySet
    <3> QED BY <1>2, <3>1
  <2> DEFINE Low == {n \in S : 2 * v[n] <= m}
             High == {n \in S : 2 * v[n] >= m}
  <2>2. IsFiniteSet(Low) /\ IsFiniteSet(High)
    BY FS_Subset
  <2>3. ASSUME NEW a \in 1..Len(xs), 2 * xs[a] <= m
        PROVE  Cardinality(Low) \in Nat /\ a <= Cardinality(Low)
    <3>1. \A k \in 1..a : p[k] \in Low
      <4> SUFFICES ASSUME NEW k \in 1..a PROVE p[k] \in S /\ 2 * v[p[k]] <= m
        OBVIOUS
      <4>1. k \in 1..Len(xs) /\ k <= a
        BY <2>1
      <4>2. xs[k] <= xs[a] /\ xs[k] \in Int /\ xs[a] \in Int /\ xs[k] = v[p[k]] /\ p[k] \in S
        BY <1>2, <4>1
      <4>3. m \in Int
        <5>1. mid \in Nat /\ mid + 1 \in 1..Len(xs) /\ (Len(xs) % 2 # 1 => mid \in 1..Len(xs))
          BY <2>1
        <5> QED BY <1>2, <1>3, <2>1, <5>1
      <4> QED BY <2>3, <4>2, <4>3
    <3>2. 1 \in 1..Len(xs) /\ 1 <= a /\ a - 1 + 1 = a /\ Len(xs) \in Nat
      BY <2>1
    <3> HIDE DEF Low
    <3>3. Cardinality(Low) \in Nat /\ a - 1 + 1 <= Cardinality(Low)
      BY <1>2, <2>2, <3>1, <3>2, AtLeastAsMany
    <3> QED BY <3>2, <3>3
  <2>4. ASSUME NEW a \in 1..Len(xs), 2 * xs[a] >= m
        PROVE  Cardinality(High) \in Nat /\ Len(xs) - a + 1 <= Cardinality(High)
    <3>1. \A k \in a..Len(xs) : p[k] \in High
      <4> SUFFICES ASSUME NEW k \in a..Len(xs) PROVE p[k] \in S /\ 2 * v[p[k]] >= m
        OBVIOUS
      <4>1. k \in 1..Len(xs) /\ a <= k
        BY <2>1
      <4>2. xs[a] <= xs[k] /\ xs[k] \in Int /\ xs[a] \in Int /\ xs[k] = v[p[k]] /\ p[k] \in S
        BY <1>2, <4>1
      <4>3. m \in Int
        <5>1. mid \in Nat /\ mid + 1 \in 1..Len(xs) /\ (Len(xs) % 2 # 1 => mid \in 1..Len(xs))
          BY <2>1
        <5> QED BY <1>2, <1>3, <2>1, <5>1
      <4> QED BY <2>4, <4>2, <4>3
    <3>2. Len(xs) \in 1..Len(xs) /\ a <= Len(xs)
      BY <2>1
    <3> HIDE DEF High
    <3> QED BY <1>2, <2>1, <2>2, <3>1, <3>2, AtLeastAsMany
  <2>5. 2 * Cardinality(Low) >= Len(xs) /\ 2 * Cardinality(High) >= Len(xs)
    <3>1. CASE Len(xs) % 2 = 1
      <4>1. mid + 1 \in 1..Len(xs) /\ 2 * mid + 1 = Len(xs) /\ m = 2 * xs[mid + 1] /\ mid \in Nat
        BY <1>3, <2>1, <3>1
      <4>2. 2 * xs[mid + 1] <= m /\ 2 * xs[mid + 1] >= m
        BY <1>2, <4>1
      <4>3. Cardinality(Low) \in Nat /\ mid + 1 <= Cardinality(Low)
        BY <2>3, <4>1, <4>2
      <4>4. Cardinality(High) \in Nat /\ Len(xs) - (mid + 1) + 1 <= Cardinality(High)
        BY <2>4, <4>1, <4>2
      <4> HIDE DEF mid, Low, High
      <4> QED BY <2>1, <4>1, <4>3, <4>4
    <3>2. CASE Len(xs) % 2 # 1
      <4>1. /\ mid \in 1..Len(xs) /\ mid + 1 \in 1..Len(xs) /\ 2 * mid = Len(xs)
            /\ m = xs[mid] + xs[mid + 1] /\ mid \in Nat
        BY <1>3, <2>1, <3>2
      <4>2. xs[mid] \in Int /\ xs[mid + 1] \in Int /\ xs[mid] <= xs[mid + 1]
        BY <1>2, <4>1
      <4>3. 2 * xs[mid] <= m /\ 2 * xs[mid + 1] >= m
        BY <4>1, <4>2
      <4>4. Cardinality(Low) \in Nat /\ mid <= Cardinality(Low)
        BY <2>3, <4>1, <4>3
      <4>5. Cardinality(High) \in Nat /\ Len(xs) - (mid + 1) + 1 <= Cardinality(High)
        BY <2>4, <4>1, <4>3
      <4> HIDE DEF mid, Low, High
      <4> QED BY <2>1, <4>1, <4>4, <4>5
    <3> QED BY <3>1, <3>2
  <2> QED BY <1>2, <1>5, <2>5, SameSize DEF R!InTheMiddle, m
<1> QED BY <1>4, <1>5

(* A hundredth part of the way from a to b, w times. *)
Mix(a, b, w) == a * (100 - w) + b * w

LEMMA MixBetween ==
  ASSUME NEW a \in Int, NEW b \in Int, a <= b
  PROVE  \A w \in 0..100 :
           /\ Mix(a, b, w) \in Int /\ 100 * a <= Mix(a, b, w) /\ Mix(a, b, w) <= 100 * b
           /\ \A u \in 0..100 : w <= u => Mix(a, b, w) <= Mix(a, b, u)
<1> SUFFICES ASSUME NEW w \in 0..100
             PROVE  /\ Mix(a, b, w) \in Int /\ 100 * a <= Mix(a, b, w) /\ Mix(a, b, w) <= 100 * b
                    /\ \A u \in 0..100 : w <= u => Mix(a, b, w) <= Mix(a, b, u)
  OBVIOUS
<1> DEFINE d == b - a
<1>1. d \in Nat /\ b = a + d
  OBVIOUS
<1>2. \A x, y \in Nat : x * y \in Nat
  OBVIOUS
<1> HIDE DEF d
<1>3. \A u \in 0..100 : Mix(a, b, u) = 100 * a + d * u
  BY <1>1 DEF Mix
<1>4. d * w \in Nat /\ d * (100 - w) \in Nat /\ d * (100 - w) = 100 * d - d * w
  BY <1>1, <1>2
<1>5. ASSUME NEW u \in 0..100, w <= u PROVE d * w <= d * u /\ d * u \in Nat
  <2>1. d * (u - w) \in Nat /\ d * u \in Nat /\ d * (u - w) = d * u - d * w
    BY <1>1, <1>2, <1>5
  <2> QED BY <1>4, <2>1
<1>6. Mix(a, b, w) = 100 * a + d * w
  BY <1>3
<1>7. \A u \in 0..100 : w <= u => Mix(a, b, w) <= Mix(a, b, u)
  <2> SUFFICES ASSUME NEW u \in 0..100, w <= u PROVE Mix(a, b, w) <= Mix(a, b, u)
    OBVIOUS
  <2>1. Mix(a, b, u) = 100 * a + d * u
    BY <1>3
  <2> QED BY <1>4, <1>5, <1>6, <2>1
<1> QED BY <1>1, <1>4, <1>6, <1>7

(* Where a percentile lies: k hundredths of a place behind the first.      *)
Part(xs, k) ==
  IF k \div 100 = (k + 99) \div 100 THEN 100 * xs[(k \div 100) + 1]
  ELSE Mix(xs[(k \div 100) + 1], xs[(k \div 100) + 2], k - 100 * (k \div 100))

(* A list of numbers in order. *)
Rising(xs, N) ==
  /\ \A a \in 1..N : xs[a] \in Int
  /\ \A a, b \in 1..N : a <= b => xs[a] <= xs[b]

LEMMA PartBetween ==
  ASSUME NEW N \in Nat \ {0}, NEW xs, Rising(xs, N), NEW k \in 0..100 * (N - 1)
  PROVE  /\ k \div 100 \in 0..N - 1 /\ (k + 99) \div 100 \in 0..N - 1
         /\ (k + 99) \div 100 \in {k \div 100, (k \div 100) + 1}
         /\ Part(xs, k) \in Int
         /\ 100 * xs[(k \div 100) + 1] <= Part(xs, k)
         /\ Part(xs, k) <= 100 * xs[((k + 99) \div 100) + 1]
<1> DEFINE l == k \div 100
           h == (k + 99) \div 100
           w == k - 100 * l
<1>1. l \in 0..N - 1 /\ h \in 0..N - 1 /\ h \in {l, l + 1} /\ w \in 0..100
  OBVIOUS
<1>2. /\ Part(xs, k) = IF l = h THEN 100 * xs[l + 1] ELSE Mix(xs[l + 1], xs[l + 2], w)
  BY DEF Part
<1> HIDE DEF l, h, w
<1>3. CASE l = h
  <2>1. l + 1 \in 1..N
    BY <1>1
  <2>2. xs[l + 1] \in Int
    BY <2>1 DEF Rising
  <2> QED BY <1>1, <1>2, <1>3, <2>2 DEF l, h
<1>4. CASE l # h
  <2>1. h = l + 1 /\ l + 1 \in 1..N /\ l + 2 \in 1..N /\ l + 1 <= l + 2 /\ h + 1 = l + 2
    BY <1>1, <1>4
  <2>2. xs[l + 1] \in Int /\ xs[l + 2] \in Int /\ xs[l + 1] <= xs[l + 2]
    BY <2>1 DEF Rising
  <2>3. /\ Mix(xs[l + 1], xs[l + 2], w) \in Int
        /\ 100 * xs[l + 1] <= Mix(xs[l + 1], xs[l + 2], w)
        /\ Mix(xs[l + 1], xs[l + 2], w) <= 100 * xs[l + 2]
    BY <1>1, <2>2, MixBetween
  <2> QED BY <1>1, <1>2, <1>4, <2>1, <2>3 DEF l, h
<1> QED BY <1>3, <1>4

LEMMA PartRises ==
  ASSUME NEW N \in Nat \ {0}, NEW xs, Rising(xs, N),
         NEW k \in 0..100 * (N - 1), NEW g \in 0..100 * (N - 1), k <= g
  PROVE  Part(xs, k) <= Part(xs, g)
<1> DEFINE l == k \div 100
           h == (k + 99) \div 100
           a == g \div 100
           b == (g + 99) \div 100
<1>1. /\ l \in 0..N - 1 /\ h \in 0..N - 1 /\ h \in {l, l + 1} /\ Part(xs, k) \in Int
      /\ 100 * xs[l + 1] <= Part(xs, k) /\ Part(xs, k) <= 100 * xs[h + 1]
  BY PartBetween
<1>2. /\ a \in 0..N - 1 /\ b \in 0..N - 1 /\ b \in {a, a + 1} /\ Part(xs, g) \in Int
      /\ 100 * xs[a + 1] <= Part(xs, g) /\ Part(xs, g) <= 100 * xs[b + 1]
  BY PartBetween
<1>3. CASE h <= a
  <2>1. h + 1 \in 1..N /\ a + 1 \in 1..N /\ h + 1 <= a + 1
    BY <1>1, <1>2, <1>3
  <2> HIDE DEF h, a
  <2>2. xs[h + 1] <= xs[a + 1] /\ xs[h + 1] \in Int /\ xs[a + 1] \in Int
    BY <2>1 DEF Rising
  <2> QED BY <1>1, <1>2, <2>2
<1>4. CASE a < h
  <2>1. a = l /\ h = l + 1
    BY <1>1, <1>4
  <2>2. CASE k = g
    BY <1>1, <2>2
  <2>3. CASE k < g
    <3>1. b = a + 1
      BY <2>1, <2>3
    <3>2. /\ k - 100 * l \in 0..100 /\ g - 100 * a \in 0..100 /\ k - 100 * l <= g - 100 * a
      BY <1>1, <1>2, <2>1
    <3>3. /\ Part(xs, k) = Mix(xs[l + 1], xs[l + 2], k - 100 * l)
          /\ Part(xs, g) = Mix(xs[l + 1], xs[l + 2], g - 100 * a)
      BY <2>1, <3>1 DEF Part
    <3> DEFINE w == k - 100 * l
               u == g - 100 * a
    <3>4. xs[l + 1] \in Int /\ xs[l + 2] \in Int /\ xs[l + 1] <= xs[l + 2]
      <4>1. l + 1 \in 1..N /\ l + 2 \in 1..N /\ l + 1 <= l + 2
        BY <1>1, <2>1
      <4> HIDE DEF l
      <4> QED BY <4>1 DEF Rising
    <3>5. w \in 0..100 /\ u \in 0..100 /\ w <= u
      BY <3>2
    <3> HIDE DEF l, w, u
    <3>6. Mix(xs[l + 1], xs[l + 2], w) <= Mix(xs[l + 1], xs[l + 2], u)
      BY <3>4, <3>5, MixBetween
    <3> QED BY <3>3, <3>6 DEF w, u
  <2> QED BY <2>2, <2>3
<1> QED BY <1>1, <1>2, <1>3, <1>4

LEMMA SortedRises ==
  ASSUME NEW N \in Nat \ {0}, NEW v \in [1..N -> Int]
  PROVE  /\ Len(R!Sorted(v)) = N /\ Rising(R!Sorted(v), N)
         /\ \A k \in 1..N : \E n \in 1..N : R!Sorted(v)[k] = v[n]
<1> DEFINE xs == R!Sorted(v)
<1>1. IsFiniteSet(1..N) /\ Cardinality(1..N) = N
  BY FS_Interval
<1>2. PICK p : InOrder(xs, p, v, 1..N)
  BY <1>1, SortedInOrder
<1> HIDE DEF xs
<1>3. /\ Len(xs) = N
      /\ \A k \in 1..N : p[k] \in 1..N /\ xs[k] = v[p[k]] /\ xs[k] \in Int
      /\ \A a, b \in 1..N : a <= b => xs[a] <= xs[b]
  <2> DEFINE D == 1..N
  <2>1. IsFiniteSet(D) /\ Cardinality(D) = N /\ v \in [D -> Int] /\ InOrder(xs, p, v, D)
    BY <1>1, <1>2
  <2> HIDE DEF D
  <2>2. /\ Len(xs) = N
        /\ \A k \in 1..Len(xs) : p[k] \in D /\ xs[k] = v[p[k]] /\ xs[k] \in Int
        /\ \A a, b \in 1..Len(xs) : a <= b => xs[a] <= xs[b]
    BY <2>1, OrderedValues
  <2> QED BY <2>2 DEF D
<1> QED BY <1>3 DEF Rising, xs

LEMMA PercentileIsPart ==
  ASSUME NEW N \in Nat \ {0}, NEW v \in [1..N -> Int], NEW c \in {50, 95}
  PROVE  /\ R!Percentile(v, c) = Part(R!Sorted(v), (N - 1) * c)
         /\ (N - 1) * c \in 0..100 * (N - 1)
<1> DEFINE xs == R!Sorted(v)
           k == (N - 1) * c
           l == k \div 100
           h == (k + 99) \div 100
<1>1. k \in 0..100 * (N - 1)
  OBVIOUS
<1>2. Len(xs) = N /\ v # <<>>
  <2>1. 1 \in DOMAIN v
    OBVIOUS
  <2> QED BY <2>1, SortedRises
<1>3. R!Percentile(v, c) = IF l = h THEN 100 * xs[l + 1]
                           ELSE xs[l + 1] * (100 * h - k) + xs[h + 1] * (k - 100 * l)
  <2> HIDE DEF xs
  <2> QED BY <1>2 DEF R!Percentile, xs
<1> HIDE DEF xs, k
<1>4. CASE l = h
  BY <1>1, <1>3, <1>4 DEF Part, k, xs
<1>5. CASE l # h
  <2>1. h = l + 1 /\ h + 1 = l + 2 /\ 100 * h - k = 100 - (k - 100 * l)
    BY <1>1, <1>5
  <2>2. Part(xs, k) = Mix(xs[l + 1], xs[l + 2], k - 100 * l)
    BY <1>5 DEF Part
  <2> HIDE DEF l, h
  <2>3. R!Percentile(v, c) = xs[l + 1] * (100 - (k - 100 * l)) + xs[l + 2] * (k - 100 * l)
    BY <1>3, <1>5, <2>1
  <2> QED BY <1>1, <2>2, <2>3 DEF Mix, k, xs
<1> QED BY <1>4, <1>5

(* The percentile of half is the median, that of 95 is not below it, and   *)
(* none is above the largest value.                                        *)
LEMMA PercentilesFit ==
  ASSUME NEW N \in Nat \ {0}, NEW v \in [1..N -> Int]
  PROVE  /\ R!Percentile(v, 50) = 50 * R!Median(v)
         /\ R!Percentile(v, 95) >= R!Percentile(v, 50)
         /\ \E n \in 1..N : R!Percentile(v, 95) <= 100 * v[n]
<1> DEFINE xs == R!Sorted(v)
           k == (N - 1) * 50
           g == (N - 1) * 95
<1>1. /\ Len(xs) = N /\ Rising(xs, N) /\ \A a \in 1..N : \E n \in 1..N : xs[a] = v[n]
  BY SortedRises
<1>2. R!Percentile(v, 50) = Part(xs, k) /\ R!Percentile(v, 95) = Part(xs, g)
  BY PercentileIsPart
<1>3. R!Median(v) = IF N % 2 = 1 THEN 2 * xs[(N \div 2) + 1] ELSE xs[N \div 2] + xs[(N \div 2) + 1]
  BY <1>1 DEF R!Median
<1> HIDE DEF xs
<1>4. k \in 0..100 * (N - 1) /\ g \in 0..100 * (N - 1) /\ k <= g
  OBVIOUS
<1>5. Part(xs, k) = 50 * R!Median(v)
  <2>1. CASE N % 2 = 1
    <3>1. k \div 100 = N \div 2 /\ (k + 99) \div 100 = N \div 2 /\ (N \div 2) + 1 \in 1..N
      BY <2>1
    <3>2. xs[(N \div 2) + 1] \in Int
      BY <1>1, <3>1 DEF Rising
    <3> QED BY <1>3, <2>1, <3>1, <3>2 DEF Part
  <2>2. CASE N % 2 # 1
    <3> DEFINE mid == N \div 2
    <3>1. /\ k \div 100 = mid - 1 /\ (k + 99) \div 100 = mid /\ k - 100 * (mid - 1) = 50
          /\ mid \in 1..N /\ mid + 1 \in 1..N /\ (mid - 1) + 1 = mid /\ (mid - 1) + 2 = mid + 1
          /\ mid - 1 # mid
      BY <2>2
    <3>2. xs[mid] \in Int /\ xs[mid + 1] \in Int
      BY <1>1, <3>1 DEF Rising
    <3>3. R!Median(v) = xs[mid] + xs[mid + 1]
      BY <1>3, <2>2
    <3> HIDE DEF mid
    <3>4. Part(xs, k) = Mix(xs[mid], xs[mid + 1], 50)
      BY <3>1 DEF Part
    <3> QED BY <3>2, <3>3, <3>4 DEF Mix
  <2> QED BY <2>1, <2>2
<1>6. Part(xs, k) <= Part(xs, g) /\ Part(xs, k) \in Int /\ Part(xs, g) \in Int
  BY <1>1, <1>4, PartRises, PartBetween
<1>7. \E n \in 1..N : Part(xs, g) <= 100 * v[n]
  <2>1. (g + 99) \div 100 \in 0..N - 1 /\ Part(xs, g) <= 100 * xs[((g + 99) \div 100) + 1]
    BY <1>1, <1>4, PartBetween
  <2>2. ((g + 99) \div 100) + 1 \in 1..N
    BY <2>1
  <2> QED BY <1>1, <2>1, <2>2
<1> QED BY <1>2, <1>5, <1>6, <1>7

-----------------------------------------------------------------------------
(* The lines of a stream, and those of them with text. *)
Chunk == [t : Nat, queued : BOOLEAN, tokens : Nat]

TextsOf(s) ==
  CHOOSE f : f = [n \in 0..Len(s) |->
    IF n = 0 THEN <<>> ELSE IF R!HasText(s[n]) THEN Append(f[n - 1], s[n]) ELSE f[n - 1]]

LEMMA TextsAreThese == \A s : R!Texts(s) = TextsOf(s)[Len(s)]
BY DEF R!Texts, TextsOf

LEMMA TextsUnfold ==
  ASSUME NEW s \in Seq(Chunk)
  PROVE  /\ TextsOf(s)[0] = <<>>
         /\ \A n \in 1..Len(s) :
              TextsOf(s)[n] = IF R!HasText(s[n]) THEN Append(TextsOf(s)[n - 1], s[n])
                              ELSE TextsOf(s)[n - 1]
         /\ \A n \in 0..Len(s) : TextsOf(s)[n] \in Seq(Chunk)
<1> DEFINE N == Len(s)
           V == Seq(Chunk)
           g == [p \in V \X (1..N) |->
                   IF R!HasText(s[p[2]]) THEN Append(p[1], s[p[2]]) ELSE p[1]]
           Body(f) == [n \in 0..N |->
                         IF n = 0 THEN <<>>
                         ELSE IF R!HasText(s[n]) THEN Append(f[n - 1], s[n]) ELSE f[n - 1]]
<1>1. N \in Nat /\ <<>> \in V /\ \A n \in 1..N : s[n] \in Chunk
  OBVIOUS
<1>2. g \in [V \X (1..N) -> V]
  <2>1. ASSUME NEW p \in V \X (1..N)
        PROVE  (IF R!HasText(s[p[2]]) THEN Append(p[1], s[p[2]]) ELSE p[1]) \in V
    <3>1. p[1] \in V /\ p[2] \in 1..N
      OBVIOUS
    <3>2. s[p[2]] \in Chunk
      BY <1>1, <3>1
    <3>3. Append(p[1], s[p[2]]) \in V
      BY <3>1, <3>2
    <3> QED BY <3>1, <3>3
  <2> QED BY <2>1
<1>3. PICK h \in [0..N -> V] : Unfolds(h, N, <<>>, g)
  <2> HIDE DEF g, N, V
  <2> QED BY <1>1, <1>2, Recursion
<1>4. h[0] = <<>> /\ \A n \in 1..N : h[n] = g[<<h[n - 1], n>>]
  BY <1>3 DEF Unfolds
<1>5. h = Body(h)
  <2>1. \A n \in 1..N : h[n] = IF R!HasText(s[n]) THEN Append(h[n - 1], s[n]) ELSE h[n - 1]
    <3> SUFFICES ASSUME NEW n \in 1..N
                 PROVE  h[n] = IF R!HasText(s[n]) THEN Append(h[n - 1], s[n]) ELSE h[n - 1]
      OBVIOUS
    <3>1. <<h[n - 1], n>> \in V \X (1..N)
      <4>1. n - 1 \in 0..N
        BY <1>1
      <4> HIDE DEF V
      <4> QED BY <4>1
    <3> HIDE DEF N, V
    <3> QED BY <1>4, <3>1
  <2>2. \A n \in 0..N : n # 0 => n \in 1..N
    BY <1>1
  <2> HIDE DEF N, V
  <2> QED BY <1>4, <2>1, <2>2
<1>6. TextsOf(s) = CHOOSE f : f = Body(f)
  BY DEF TextsOf
<1>7. TextsOf(s) = Body(TextsOf(s))
  <2> HIDE DEF Body
  <2> QED BY <1>5, <1>6
<1>8. 0 \in 0..N /\ \A n \in 1..N : n \in 0..N /\ n # 0
  BY <1>1
<1>9. /\ TextsOf(s)[0] = <<>>
      /\ \A n \in 1..N : TextsOf(s)[n] = IF R!HasText(s[n]) THEN Append(TextsOf(s)[n - 1], s[n])
                                         ELSE TextsOf(s)[n - 1]
  <2> HIDE DEF N
  <2> QED BY <1>7, <1>8
<1>10. 0..N \subseteq {n \in 0..N : TextsOf(s)[n] \in V}
  <2> DEFINE S == {n \in 0..N : TextsOf(s)[n] \in V}
  <2>1. 0 \in S
    BY <1>1, <1>8, <1>9
  <2>2. ASSUME NEW n \in 0..N, n < N, n \in S PROVE n + 1 \in S
    <3>1. n + 1 \in 1..N /\ (n + 1) - 1 = n /\ n + 1 \in 0..N
      BY <1>1, <2>2
    <3>2. TextsOf(s)[n + 1] \in {Append(TextsOf(s)[n], s[n + 1]), TextsOf(s)[n]}
      BY <1>9, <3>1
    <3>3. TextsOf(s)[n] \in V /\ s[n + 1] \in Chunk
      BY <1>1, <2>2, <3>1
    <3>4. Append(TextsOf(s)[n], s[n + 1]) \in V
      BY <3>3
    <3> QED BY <3>1, <3>2, <3>3, <3>4
  <2> HIDE DEF S
  <2>3. 0..N \subseteq S
    BY <1>1, <2>1, <2>2, UpTo
  <2> QED BY <2>3 DEF S
<1> QED BY <1>9, <1>10

LEMMA NoTexts == R!Texts(<<>>) = <<>>
<1>1. <<>> \in Seq(Chunk) /\ Len(<<>>) = 0
  OBVIOUS
<1> QED BY <1>1, TextsAreThese, TextsUnfold

(* A line with text comes behind the others, any other changes nothing.    *)
LEMMA OneMoreLine ==
  ASSUME NEW s \in Seq(Chunk), NEW c \in Chunk
  PROVE  /\ R!Texts(s) \in Seq(Chunk)
         /\ R!Texts(Append(s, c)) = IF c.tokens > 0 THEN Append(R!Texts(s), c) ELSE R!Texts(s)
<1> DEFINE u == Append(s, c)
           N == Len(s)
           S == {n \in 0..N : TextsOf(u)[n] = TextsOf(s)[n]}
<1>1. /\ u \in Seq(Chunk) /\ Len(u) = N + 1 /\ N \in Nat /\ u[N + 1] = c
      /\ \A n \in 1..N : u[n] = s[n]
  OBVIOUS
<1> HIDE DEF u
<1>2. 0 \in S
  BY <1>1, TextsUnfold
<1>3. ASSUME NEW n \in 0..N, n < N, n \in S PROVE n + 1 \in S
  <2>1. n + 1 \in 1..N /\ n + 1 \in 1..Len(u) /\ (n + 1) - 1 = n /\ u[n + 1] = s[n + 1]
        /\ n + 1 \in 0..N
    BY <1>1, <1>3
  <2>2. TextsOf(u)[n] = TextsOf(s)[n]
    BY <1>3
  <2>3. TextsOf(u)[n + 1] = IF R!HasText(s[n + 1]) THEN Append(TextsOf(s)[n], s[n + 1])
                            ELSE TextsOf(s)[n]
    BY <1>1, <2>1, <2>2, TextsUnfold
  <2>4. TextsOf(s)[n + 1] = IF R!HasText(s[n + 1]) THEN Append(TextsOf(s)[n], s[n + 1])
                            ELSE TextsOf(s)[n]
    BY <2>1, TextsUnfold
  <2> QED BY <2>1, <2>3, <2>4
<1>4. TextsOf(u)[N] = TextsOf(s)[N]
  <2> HIDE DEF S
  <2>1. 0..N \subseteq S
    BY <1>1, <1>2, <1>3, UpTo
  <2>2. N \in 0..N
    BY <1>1
  <2> QED BY <2>1, <2>2 DEF S
<1>5. TextsOf(u)[N + 1] = IF R!HasText(c) THEN Append(TextsOf(u)[N], c) ELSE TextsOf(u)[N]
  <2>1. N + 1 \in 1..Len(u) /\ (N + 1) - 1 = N
    BY <1>1
  <2> QED BY <1>1, <2>1, TextsUnfold
<1>6. R!Texts(u) = TextsOf(u)[N + 1] /\ R!Texts(s) = TextsOf(s)[N] /\ TextsOf(s)[N] \in Seq(Chunk)
  <2>1. N \in 0..N
    BY <1>1
  <2> QED BY <1>1, <2>1, TextsAreThese, TextsUnfold
<1> QED BY <1>4, <1>5, <1>6 DEF u, R!HasText

(* The tokens behind the first chunk. *)
TokensOf(s) ==
  CHOOSE f : f = [n \in 0..Len(s) - 1 |-> IF n = 0 THEN 0 ELSE f[n - 1] + s[n + 1].tokens]

LEMMA TokensAreThese == \A s : R!TokensAfter(s) = TokensOf(s)[Len(s) - 1]
BY DEF R!TokensAfter, TokensOf

LEMMA TokensUnfold ==
  ASSUME NEW s \in Seq(Chunk), s # <<>>
  PROVE  /\ TokensOf(s)[0] = 0
         /\ \A n \in 1..Len(s) - 1 : TokensOf(s)[n] = TokensOf(s)[n - 1] + s[n + 1].tokens
         /\ \A n \in 0..Len(s) - 1 : TokensOf(s)[n] \in Nat
<1> DEFINE N == Len(s) - 1
           g == [p \in Nat \X (1..N) |-> p[1] + s[p[2] + 1].tokens]
           Body(f) == [n \in 0..N |-> IF n = 0 THEN 0 ELSE f[n - 1] + s[n + 1].tokens]
<1>1. N \in Nat /\ \A n \in 1..N : s[n + 1].tokens \in Nat
  <2>1. Len(s) \in Nat \ {0} /\ \A n \in 1..Len(s) : s[n] \in Chunk
    OBVIOUS
  <2>2. \A n \in 1..Len(s) - 1 : n + 1 \in 1..Len(s)
    BY <2>1
  <2> QED BY <2>1, <2>2 DEF Chunk
<1>2. g \in [Nat \X (1..N) -> Nat]
  <2>1. ASSUME NEW p \in Nat \X (1..N) PROVE p[1] + s[p[2] + 1].tokens \in Nat
    <3>1. p[1] \in Nat /\ p[2] \in 1..N
      OBVIOUS
    <3>2. s[p[2] + 1].tokens \in Nat
      BY <1>1, <3>1
    <3> QED BY <3>1, <3>2
  <2> QED BY <2>1
<1>3. PICK h \in [0..N -> Nat] : Unfolds(h, N, 0, g)
  <2> HIDE DEF g, N
  <2> QED BY <1>1, <1>2, Recursion
<1>4. h[0] = 0 /\ \A n \in 1..N : h[n] = g[<<h[n - 1], n>>]
  BY <1>3 DEF Unfolds
<1>5. h = Body(h)
  <2>1. \A n \in 1..N : h[n] = h[n - 1] + s[n + 1].tokens
    <3> SUFFICES ASSUME NEW n \in 1..N PROVE h[n] = h[n - 1] + s[n + 1].tokens
      OBVIOUS
    <3>1. <<h[n - 1], n>> \in Nat \X (1..N)
      <4>1. n - 1 \in 0..N
        BY <1>1
      <4> QED BY <4>1
    <3> HIDE DEF N
    <3> QED BY <1>4, <3>1
  <2>2. \A n \in 0..N : n # 0 => n \in 1..N
    BY <1>1
  <2> HIDE DEF N
  <2> QED BY <1>4, <2>1, <2>2
<1>6. TokensOf(s) = CHOOSE f : f = Body(f)
  BY DEF TokensOf
<1>7. TokensOf(s) = Body(TokensOf(s))
  <2> HIDE DEF Body
  <2> QED BY <1>5, <1>6
<1>8. 0 \in 0..N /\ \A n \in 1..N : n \in 0..N /\ n # 0
  BY <1>1
<1>9. /\ TokensOf(s)[0] = 0
      /\ \A n \in 1..N : TokensOf(s)[n] = TokensOf(s)[n - 1] + s[n + 1].tokens
  <2> HIDE DEF N
  <2> QED BY <1>7, <1>8
<1>10. 0..N \subseteq {n \in 0..N : TokensOf(s)[n] \in Nat}
  <2> DEFINE S == {n \in 0..N : TokensOf(s)[n] \in Nat}
  <2>1. 0 \in S
    BY <1>8, <1>9
  <2>2. ASSUME NEW n \in 0..N, n < N, n \in S PROVE n + 1 \in S
    <3>1. n + 1 \in 1..N /\ (n + 1) - 1 = n /\ n + 1 \in 0..N
      BY <1>1, <2>2
    <3>2. TokensOf(s)[n + 1] = TokensOf(s)[n] + s[(n + 1) + 1].tokens
      BY <1>9, <3>1
    <3>3. TokensOf(s)[n] \in Nat /\ s[(n + 1) + 1].tokens \in Nat
      BY <1>1, <2>2, <3>1
    <3> QED BY <3>1, <3>2, <3>3
  <2> HIDE DEF S
  <2>3. 0..N \subseteq S
    BY <1>1, <2>1, <2>2, UpTo
  <2> QED BY <2>3 DEF S
<1> QED BY <1>9, <1>10

(* The first chunk counts nothing, every other one its tokens. *)
LEMMA OneMoreText ==
  ASSUME NEW s \in Seq(Chunk), NEW c \in Chunk
  PROVE  /\ s # <<>> => R!TokensAfter(s) \in Nat
         /\ R!TokensAfter(Append(s, c))
              = IF s = <<>> THEN 0 ELSE R!TokensAfter(s) + c.tokens
<1> DEFINE u == Append(s, c)
           N == Len(s)
<1>1. /\ u \in Seq(Chunk) /\ u # <<>> /\ Len(u) = N + 1 /\ N \in Nat /\ u[N + 1] = c
      /\ \A n \in 1..N : u[n] = s[n]
      /\ s = <<>> <=> N = 0
  OBVIOUS
<1> HIDE DEF u
<1>2. R!TokensAfter(u) = TokensOf(u)[N] /\ R!TokensAfter(s) = TokensOf(s)[N - 1]
  <2>1. R!TokensAfter(u) = TokensOf(u)[Len(u) - 1] /\ R!TokensAfter(s) = TokensOf(s)[Len(s) - 1]
    BY TokensAreThese
  <2>2. Len(u) - 1 = N
    BY <1>1
  <2> QED BY <2>1, <2>2
<1>3. CASE s = <<>>
  <2>1. N = 0 /\ TokensOf(u)[0] = 0
    BY <1>1, <1>3, TokensUnfold
  <2> QED BY <1>2, <1>3, <2>1 DEF u
<1>4. CASE s # <<>>
  <2> DEFINE S == {n \in 0..N - 1 : TokensOf(u)[n] = TokensOf(s)[n]}
  <2>1. N - 1 \in Nat /\ N \in 1..Len(u) - 1 /\ (N + 1) - 1 = N /\ N - 1 \in 0..N - 1
    BY <1>1, <1>4
  <2>2. 0 \in S
    <3>1. 0 \in 0..N - 1
      BY <2>1
    <3> QED BY <1>1, <1>4, <3>1, TokensUnfold
  <2>3. ASSUME NEW n \in 0..N - 1, n < N - 1, n \in S PROVE n + 1 \in S
    <3>1. /\ n + 1 \in 1..N - 1 /\ n + 1 \in 1..Len(u) - 1 /\ (n + 1) - 1 = n
          /\ (n + 1) + 1 \in 1..N /\ n + 1 \in 0..N - 1
      BY <1>1, <2>3
    <3>2. TokensOf(u)[n] = TokensOf(s)[n] /\ u[(n + 1) + 1] = s[(n + 1) + 1]
      BY <1>1, <2>3, <3>1
    <3>3. TokensOf(u)[n + 1] = TokensOf(s)[n] + s[(n + 1) + 1].tokens
      BY <1>1, <3>1, <3>2, TokensUnfold
    <3>4. TokensOf(s)[n + 1] = TokensOf(s)[n] + s[(n + 1) + 1].tokens
      BY <1>4, <3>1, TokensUnfold
    <3> QED BY <3>1, <3>3, <3>4
  <2>4. TokensOf(u)[N - 1] = TokensOf(s)[N - 1]
    <3> HIDE DEF S
    <3>1. 0..N - 1 \subseteq S
      BY <2>1, <2>2, <2>3, UpTo
    <3> QED BY <2>1, <3>1 DEF S
  <2>5. TokensOf(u)[N] = TokensOf(u)[N - 1] + u[N + 1].tokens
    BY <1>1, <2>1, TokensUnfold
  <2>6. TokensOf(s)[N - 1] \in Nat
    BY <1>4, <2>1, TokensUnfold
  <2> QED BY <1>1, <1>2, <1>4, <2>4, <2>5, <2>6 DEF u
<1> QED BY <1>3, <1>4

-----------------------------------------------------------------------------
(***************************************************************************)
(* runner.py.  What became of a stream, and what is measured of it.        *)
(***************************************************************************)
Times == Nat \cup {None}
Truths ==
  [long : BOOLEAN, raised : BOOLEAN, failed : BOOLEAN, first : Times, last : Times, after : Nat]
Samples == [queued : BOOLEAN, error : BOOLEAN, ttft : Int \cup {None}, speed : Int \cup {None}]

(* The lines that were read tell what became of the request. *)
Told(lines, h) ==
  /\ h.long <=> \E n \in 1..Len(lines) : lines[n].queued
  /\ IF R!Texts(lines) = <<>> THEN h.first = None /\ h.last = None
     ELSE /\ h.first = R!Texts(lines)[1].t
          /\ h.last = R!Texts(lines)[Len(R!Texts(lines))].t
          /\ h.after = R!TokensAfter(R!Texts(lines))
          /\ h.first <= h.last
          /\ Len(R!Texts(lines)) > 1 => h.after > 0

SpeedOf(h) ==
  IF h.first # None /\ h.last > h.first
  THEN (h.after * Scale) \div (h.last - h.first) ELSE None

Measured(h) == [queued |-> h.long, error |-> FALSE, ttft |-> h.first, speed |-> SpeedOf(h)]

LEMMA SpeedTyped ==
  ASSUME NEW h \in Truths, h.first # None => h.last # None
  PROVE  /\ SpeedOf(h) \in Int \cup {None}
         /\ SpeedOf(h) # None <=> h.first # None /\ h.last > h.first
<1>1. h.first \in Times /\ h.last \in Times /\ h.after \in Nat
  BY DEF Truths
<1>2. CASE h.first # None /\ h.last > h.first
  <2> DEFINE d == h.last - h.first
             e == h.after * Scale
  <2>1. d \in Nat \ {0}
    BY <1>1, <1>2 DEF Times
  <2>2. e \in Nat
    BY <1>1, RunnerAssumption
  <2>3. SpeedOf(h) = e \div d
    BY <1>2 DEF SpeedOf
  <2> HIDE DEF d, e
  <2>4. e \div d \in Int
    BY <2>1, <2>2
  <2> QED BY <1>2, <2>3, <2>4, RunnerAssumption
<1>3. CASE ~(h.first # None /\ h.last > h.first)
  BY <1>3 DEF SpeedOf
<1> QED BY <1>2, <1>3

LEMMA MeasureTold ==
  ASSUME NEW lines \in Seq(Chunk), NEW h \in Truths, Told(lines, h)
  PROVE  R!Measure(lines) = Measured(h)
<1> DEFINE texts == R!Texts(lines)
           long == \E n \in 1..Len(lines) : lines[n].queued
<1>1. R!Measure(lines) =
        [queued |-> long, error |-> FALSE,
         ttft |-> IF texts = <<>> THEN None ELSE texts[1].t,
         speed |-> IF texts = <<>> THEN None ELSE R!Speed(texts)]
  BY DEF R!Measure
<1>2. long = h.long
  <2>1. h.long \in BOOLEAN
    BY DEF Truths
  <2> QED BY <2>1 DEF Told
<1>3. texts \in Seq(Chunk)
  <2>1. [t |-> 0, queued |-> FALSE, tokens |-> 0] \in Chunk
    BY DEF Chunk
  <2> QED BY <2>1, OneMoreLine
<1> HIDE DEF long
<1>4. CASE texts = <<>>
  <2>1. h.first = None
    BY <1>4 DEF Told
  <2> QED BY <1>1, <1>2, <1>4, <2>1 DEF Measured, SpeedOf
<1>5. CASE texts # <<>>
  <2>1. /\ h.first = texts[1].t /\ h.last = texts[Len(texts)].t /\ h.after = R!TokensAfter(texts)
        /\ Len(texts) > 1 => h.after > 0
    BY <1>5 DEF Told
  <2>2. texts[1] \in Chunk /\ texts[Len(texts)] \in Chunk /\ Len(texts) \in Nat \ {0}
    <3> HIDE DEF texts
    <3> QED BY <1>3, <1>5
  <2>3. h.first \in Nat /\ h.last \in Nat /\ h.first # None /\ h.after \in Nat
    BY <2>1, <2>2, RunnerAssumption DEF Chunk, Truths
  <2>4. R!Speed(texts) = SpeedOf(h)
    <3>1. R!Speed(texts) = IF R!TokensAfter(texts) > 0 /\ texts[Len(texts)].t - texts[1].t > 0
                           THEN (R!TokensAfter(texts) * Scale) \div (texts[Len(texts)].t - texts[1].t)
                           ELSE None
      BY DEF R!Speed
    <3> HIDE DEF texts
    <3>2. CASE h.last > h.first
      <4>1. Len(texts) > 1
        BY <2>1, <2>2, <2>3, <3>2
      <4> QED BY <2>1, <2>3, <3>1, <3>2, <4>1 DEF SpeedOf
    <3>3. CASE ~(h.last > h.first)
      BY <2>1, <2>3, <3>1, <3>3 DEF SpeedOf
    <3> QED BY <3>2, <3>3
  <2> QED BY <1>1, <1>2, <1>5, <2>1, <2>4 DEF Measured
<1> QED BY <1>4, <1>5

(* One more line, without text. *)
LEMMA ToldSilent ==
  ASSUME NEW lines \in Seq(Chunk), NEW h \in Truths, Told(lines, h),
         NEW c \in Chunk, c.tokens = 0, NEW e \in Truths,
         e.long <=> h.long \/ c.queued,
         e.first = h.first, e.last = h.last, e.after = h.after
  PROVE  Told(Append(lines, c), e)
<1>1. R!Texts(Append(lines, c)) = R!Texts(lines)
  <2>1. ~(c.tokens > 0)
    OBVIOUS
  <2> QED BY <2>1, OneMoreLine
<1>2. e.long <=> \E n \in 1..Len(Append(lines, c)) : Append(lines, c)[n].queued
  <2>1. /\ Len(Append(lines, c)) = Len(lines) + 1 /\ Len(lines) \in Nat
        /\ Append(lines, c)[Len(lines) + 1] = c
        /\ \A n \in 1..Len(lines) : Append(lines, c)[n] = lines[n]
    OBVIOUS
  <2>2. \A n \in 1..Len(lines) + 1 : n \in 1..Len(lines) \/ n = Len(lines) + 1
    BY <2>1
  <2>3. Len(lines) + 1 \in 1..Len(lines) + 1 /\ 1..Len(lines) \subseteq 1..Len(lines) + 1
    BY <2>1
  <2> QED BY <2>1, <2>2, <2>3 DEF Told
<1> QED BY <1>1, <1>2 DEF Told

(* One more line, with text. *)
LEMMA ToldText ==
  ASSUME NEW lines \in Seq(Chunk), NEW h \in Truths, Told(lines, h),
         NEW c \in Chunk, c.tokens > 0, ~c.queued, h.last # None => h.last <= c.t,
         NEW e \in Truths, e.long = h.long,
         e.first = IF h.first = None THEN c.t ELSE h.first,
         e.last = c.t,
         h.first # None => e.after = h.after + c.tokens,
         h.first = None => e.after = 0
  PROVE  Told(Append(lines, c), e)
<1> DEFINE texts == R!Texts(lines)
           more == Append(texts, c)
<1>1. R!Texts(Append(lines, c)) = more /\ texts \in Seq(Chunk)
  BY OneMoreLine
<1>2. e.long <=> \E n \in 1..Len(Append(lines, c)) : Append(lines, c)[n].queued
  <2>1. /\ Len(Append(lines, c)) = Len(lines) + 1 /\ Len(lines) \in Nat
        /\ Append(lines, c)[Len(lines) + 1] = c
        /\ \A n \in 1..Len(lines) : Append(lines, c)[n] = lines[n]
    OBVIOUS
  <2>2. \A n \in 1..Len(lines) + 1 : n \in 1..Len(lines) \/ n = Len(lines) + 1
    BY <2>1
  <2>3. Len(lines) + 1 \in 1..Len(lines) + 1 /\ 1..Len(lines) \subseteq 1..Len(lines) + 1
    BY <2>1
  <2> QED BY <2>1, <2>2, <2>3 DEF Told
<1>3. /\ texts = <<>> => h.first = None
      /\ texts # <<>> => /\ h.first = texts[1].t /\ h.last = texts[Len(texts)].t
                         /\ h.after = R!TokensAfter(texts)
  BY DEF Told
<1>4. R!TokensAfter(more) = IF texts = <<>> THEN 0 ELSE R!TokensAfter(texts) + c.tokens
  BY <1>1, OneMoreText
<1> HIDE DEF texts
<1>5. /\ more # <<>> /\ Len(more) = Len(texts) + 1 /\ more[Len(more)] = c /\ Len(texts) \in Nat
      /\ texts = <<>> => more[1] = c /\ Len(more) = 1
      /\ texts # <<>> => more[1] = texts[1]
  BY <1>1
<1> HIDE DEF more
<1>6. c.t \in Nat /\ c.tokens \in Nat /\ c.t # None
  BY RunnerAssumption DEF Chunk
<1>7. CASE texts = <<>>
  <2>1. e.first = c.t /\ e.last = c.t /\ e.after = 0
    BY <1>3, <1>7
  <2>2. /\ e.first = more[1].t /\ e.last = more[Len(more)].t /\ e.after = R!TokensAfter(more)
        /\ e.first <= e.last /\ ~(Len(more) > 1)
    BY <1>4, <1>5, <1>6, <1>7, <2>1
  <2> QED BY <1>1, <1>2, <1>5, <2>2 DEF Told
<1>8. CASE texts # <<>>
  <2>1. texts[1] \in Chunk /\ texts[Len(texts)] \in Chunk
    BY <1>1, <1>8
  <2>2. h.first \in Nat /\ h.last \in Nat /\ h.first # None /\ h.last # None /\ h.after \in Nat
    BY <1>3, <1>8, <2>1, RunnerAssumption DEF Chunk, Truths
  <2>3. h.first <= h.last
    BY <1>8 DEF Told, texts
  <2>4. e.first = h.first /\ e.last = c.t /\ e.after = h.after + c.tokens /\ h.last <= c.t
    BY <2>2
  <2>5. /\ e.first = more[1].t /\ e.last = more[Len(more)].t /\ e.after = R!TokensAfter(more)
    BY <1>3, <1>4, <1>5, <1>8, <2>4
  <2>6. e.first <= e.last /\ e.after > 0
    BY <1>6, <2>2, <2>3, <2>4
  <2> QED BY <1>1, <1>2, <1>5, <2>5, <2>6 DEF Told
<1> QED BY <1>7, <1>8

Streaming ==
  /\ chunks \in Seq(Chunk) /\ truth \in Truths /\ ~truth.raised /\ clock \in Nat
  /\ Told(chunks, truth)
  /\ truth.last # None => truth.last <= clock
  /\ truth.first = None => truth.last = None /\ truth.after = 0
  /\ truth.first # None => truth.last # None

(* A sample that raised is an error and nothing else; of any other stream  *)
(* it is what was measured.                                                *)
Matches(s, h) ==
  /\ IF h.raised THEN s.error /\ ~s.queued ELSE s = Measured(h)
  /\ h.first # None => h.last # None

Sampled ==
  /\ samples \in Seq(Samples) /\ happened \in Seq(Truths)
  /\ Len(samples) = Len(happened) /\ Len(samples) <= Repeats
  /\ gate # "idle" => Len(samples) < Repeats
  /\ \A n \in 1..Len(samples) : Matches(samples[n], happened[n])

RunnerInv ==
  /\ Streaming /\ Sampled
  /\ row # None => gate = "idle" /\ Len(samples) = Repeats
  /\ R!MedianHonest

LEMMA ToldAtFirst ==
  /\ R!Asked \in Truths /\ Told(<<>>, R!Asked) /\ ~R!Asked.raised
  /\ R!Asked.first = None /\ R!Asked.last = None /\ R!Asked.after = 0
<1>1. /\ R!Asked \in Truths /\ ~R!Asked.raised /\ R!Asked.last = None /\ R!Asked.after = 0
  BY DEF R!Asked, Truths, Times
<1>2. R!Asked.first = None /\ R!Asked.long = FALSE
  BY DEF R!Asked
<1>3. ~\E n \in 1..Len(<<>>) : <<>>[n].queued
  OBVIOUS
<1> QED BY <1>1, <1>2, <1>3, NoTexts DEF Told

LEMMA RunnerInit == R!Init => RunnerInv
<1> SUFFICES ASSUME R!Init PROVE RunnerInv
  OBVIOUS
<1>1. /\ gate = "idle" /\ clock = 0 /\ chunks = <<>> /\ truth = R!Asked
      /\ samples = <<>> /\ happened = <<>> /\ row = None
  BY DEF R!Init
<1>2. Streaming
  <2>1. <<>> \in Seq(Chunk)
    OBVIOUS
  <2> QED BY <1>1, <2>1, ToldAtFirst DEF Streaming
<1>3. Sampled
  <2>1. <<>> \in Seq(Samples) /\ <<>> \in Seq(Truths) /\ Len(<<>>) = 0 /\ 1..0 = {}
    OBVIOUS
  <2> QED BY <1>1, <2>1, RunnerAssumption DEF Sampled
<1> QED BY <1>1, <1>2, <1>3 DEF RunnerInv, R!MedianHonest

LEMMA LineIsChunk ==
  ASSUME NEW t \in Nat, NEW q \in BOOLEAN, NEW m \in Nat
  PROVE  /\ R!Line(t, q, m) \in Chunk
         /\ R!Line(t, q, m).t = t /\ R!Line(t, q, m).queued = q /\ R!Line(t, q, m).tokens = m
BY DEF R!Line, Chunk

(* The stream goes on. *)
LEMMA StreamKeeps ==
  ASSUME Streaming, R!Ask \/ R!Keepalive \/ R!TakeSlot \/ R!Text \/ R!StreamEnds
  PROVE  Streaming'
<1>0. /\ chunks \in Seq(Chunk) /\ truth \in Truths /\ ~truth.raised /\ clock \in Nat
      /\ Told(chunks, truth)
      /\ truth.last # None => truth.last <= clock
      /\ truth.first = None => truth.last = None /\ truth.after = 0
      /\ truth.first # None => truth.last # None
  BY DEF Streaming
<1>00. \A c \in Chunk : Append(chunks, c) \in Seq(Chunk)
  BY <1>0
<1>1. CASE R!Ask \/ R!TakeSlot
  <2>1. UNCHANGED <<clock, chunks, truth>>
    BY <1>1 DEF R!Ask, R!TakeSlot
  <2> QED BY <1>0, <2>1 DEF Streaming, Told
<1>2. CASE R!Keepalive
  <2> DEFINE c == R!Line(clock + 1, TRUE, 0)
             e == [truth EXCEPT !.long = TRUE]
  <2>1. clock' = clock + 1 /\ chunks' = Append(chunks, c) /\ truth' = e
    BY <1>2 DEF R!Keepalive
  <2>2. c \in Chunk /\ c.queued = TRUE /\ c.tokens = 0
    <3>1. clock + 1 \in Nat /\ 0 \in Nat
      BY <1>0
    <3> QED BY <3>1 DEF R!Line, Chunk
  <2>3. /\ e \in Truths /\ e.long = TRUE /\ e.first = truth.first /\ e.last = truth.last
        /\ e.after = truth.after /\ e.raised = truth.raised
    BY <1>0 DEF Truths
  <2> HIDE DEF c, e
  <2>4. Told(Append(chunks, c), e)
    BY <1>0, <2>2, <2>3, ToldSilent
  <2>5. e.last # None => e.last <= clock + 1
    BY <1>0, <2>3 DEF Truths, Times
  <2>6. (Told(chunks, truth))' = Told(chunks', truth')
    BY DEF Told
  <2> QED BY <1>0, <1>00, <2>1, <2>2, <2>3, <2>4, <2>5, <2>6 DEF Streaming
<1>3. CASE R!Text
  <2>1. PICK m \in Tokens :
          /\ chunks' = Append(chunks, R!Line(clock', FALSE, m))
          /\ truth' = IF truth.first = None
                      THEN [truth EXCEPT !.first = clock', !.last = clock']
                      ELSE [truth EXCEPT !.last = clock', !.after = @ + m]
    BY <1>3 DEF R!Text
  <2>2. clock' \in Nat /\ clock <= clock' /\ m \in Nat \ {0}
    <3>1. clock' \in clock..MaxTime
      BY <1>3 DEF R!Text
    <3>2. clock' \in Nat /\ clock <= clock'
      BY <1>0, <3>1, RunnerAssumption
    <3>3. Tokens \subseteq Nat \ {0}
      BY RunnerAssumption
    <3> QED BY <3>2, <3>3
  <2> DEFINE c == R!Line(clock', FALSE, m)
             e == truth'
  <2>3. c \in Chunk /\ c.queued = FALSE /\ c.tokens = m /\ c.t = clock'
    BY <2>2, LineIsChunk
  <2>4. truth.first \in Times /\ truth.last \in Times /\ truth.after \in Nat
    BY <1>0 DEF Truths
  <2>5. /\ e \in Truths /\ e.long = truth.long /\ e.raised = truth.raised
        /\ e.first = IF truth.first = None THEN clock' ELSE truth.first
        /\ e.last = clock'
        /\ e.after = IF truth.first = None THEN truth.after ELSE truth.after + m
    <3>1. CASE truth.first = None
      <4>1. e = [truth EXCEPT !.first = clock', !.last = clock']
        BY <2>1, <3>1
      <4> QED BY <1>0, <2>2, <3>1, <4>1 DEF Truths, Times
    <3>2. CASE truth.first # None
      <4>1. e = [truth EXCEPT !.last = clock', !.after = @ + m]
        BY <2>1, <3>2
      <4>2. truth.after + m \in Nat
        BY <2>2, <2>4
      <4> QED BY <1>0, <2>2, <3>2, <4>1, <4>2 DEF Truths, Times
    <3> QED BY <3>1, <3>2
  <2>6. chunks' = Append(chunks, c)
    BY <2>1
  <2> HIDE DEF c
  <2>7. truth.last # None => truth.last <= clock'
    BY <1>0, <2>2, <2>4 DEF Times
  <2>8. Told(Append(chunks, c), e)
    <3> HIDE DEF e
    <3> QED BY <1>0, <2>2, <2>3, <2>5, <2>7, ToldText
  <2>9. (Told(chunks, truth))' = Told(chunks', truth')
    BY DEF Told
  <2>10. e.first # None /\ e.last # None /\ e.last <= clock'
    BY <2>2, <2>5, RunnerAssumption
  <2> QED BY <1>0, <1>00, <2>2, <2>3, <2>5, <2>6, <2>8, <2>9, <2>10 DEF Streaming
<1>4. CASE R!StreamEnds
  <2> DEFINE c == R!Line(clock, FALSE, 0)
             e == truth'
  <2>1. /\ chunks' = Append(chunks, c) /\ clock' = clock
        /\ e \in {truth, [truth EXCEPT !.failed = TRUE]}
    BY <1>4 DEF R!StreamEnds
  <2>2. c \in Chunk /\ c.queued = FALSE /\ c.tokens = 0
    BY <1>0 DEF R!Line, Chunk
  <2>3. /\ e \in Truths /\ e.long = truth.long /\ e.first = truth.first /\ e.last = truth.last
        /\ e.after = truth.after /\ e.raised = truth.raised
    BY <1>0, <2>1 DEF Truths
  <2> HIDE DEF c
  <2>4. Told(Append(chunks, c), e)
    <3> HIDE DEF e
    <3> QED BY <1>0, <2>2, <2>3, ToldSilent
  <2>5. (Told(chunks, truth))' = Told(chunks', truth')
    BY DEF Told
  <2> QED BY <1>0, <1>00, <2>1, <2>2, <2>3, <2>4, <2>5 DEF Streaming
<1> QED BY <1>1, <1>2, <1>3, <1>4

(* A repeat that is over is written down, and the next one starts anew. *)
LEMMA SampleKeeps ==
  ASSUME Sampled, gate # "idle", NEW s \in Samples, NEW h \in Truths, Matches(s, h),
         R!Sampled(s, h)
  PROVE  Streaming' /\ Sampled' /\ row' = row
<1>1. /\ samples' = Append(samples, s) /\ happened' = Append(happened, h)
      /\ gate' = "idle" /\ clock' = 0 /\ chunks' = <<>> /\ truth' = R!Asked /\ row' = row
  BY DEF R!Sampled
<1>2. Streaming'
  <2>1. <<>> \in Seq(Chunk) /\ 0 \in Nat
    OBVIOUS
  <2>2. (Told(chunks, truth))' = Told(chunks', truth')
    BY DEF Told
  <2> QED BY <1>1, <2>1, <2>2, ToldAtFirst DEF Streaming
<1>3. Sampled'
  <2>1. /\ samples \in Seq(Samples) /\ happened \in Seq(Truths)
        /\ Len(samples) = Len(happened) /\ Len(samples) < Repeats
        /\ \A n \in 1..Len(samples) : Matches(samples[n], happened[n])
    BY DEF Sampled
  <2>2. /\ samples' \in Seq(Samples) /\ Len(samples') = Len(samples) + 1
        /\ samples'[Len(samples) + 1] = s /\ \A n \in 1..Len(samples) : samples'[n] = samples[n]
    BY <1>1, <2>1
  <2>3. /\ happened' \in Seq(Truths) /\ Len(happened') = Len(happened) + 1
        /\ happened'[Len(happened) + 1] = h
        /\ \A n \in 1..Len(happened) : happened'[n] = happened[n]
    BY <1>1, <2>1
  <2>4. Len(samples) \in Nat
    BY <2>1
  <2>5. ASSUME NEW n \in 1..Len(samples') PROVE Matches(samples'[n], happened'[n])
    <3>1. n \in 1..Len(samples) \/ n = Len(samples) + 1
      BY <2>2, <2>4
    <3> QED BY <2>1, <2>2, <2>3, <3>1
  <2>6. (\A n \in 1..Len(samples) : Matches(samples[n], happened[n]))'
    BY <2>5 DEF Matches
  <2>7. Len(samples') <= Repeats
    BY <2>1, <2>2, <2>4, RunnerAssumption
  <2> QED BY <1>1, <2>1, <2>2, <2>3, <2>6, <2>7 DEF Sampled
<1> QED BY <1>1, <1>2, <1>3

LEMMA RecordKeeps ==
  ASSUME Streaming, Sampled, R!Record
  PROVE  Streaming' /\ Sampled' /\ row' = row
<1>1. gate = "over" /\ R!Sampled(R!Measure(chunks), truth)
  BY DEF R!Record
<1>2. R!Measure(chunks) = Measured(truth)
  BY MeasureTold DEF Streaming
<1>3. SpeedOf(truth) \in Int \cup {None}
  BY SpeedTyped DEF Streaming
<1>4. truth \in Truths /\ ~truth.raised /\ (truth.first # None => truth.last # None)
  BY DEF Streaming
<1>5. Measured(truth) \in Samples
  BY <1>3, <1>4 DEF Measured, Samples, Truths, Times
<1>6. Matches(Measured(truth), truth)
  BY <1>4 DEF Matches
<1> QED BY <1>1, <1>2, <1>4, <1>5, <1>6, SampleKeeps

LEMMA RaiseKeeps ==
  ASSUME Streaming, Sampled, R!Raise
  PROVE  Streaming' /\ Sampled' /\ row' = row
<1> DEFINE s == [queued |-> FALSE, error |-> TRUE, ttft |-> None, speed |-> None]
           h == [truth EXCEPT !.raised = TRUE]
<1>1. gate # "idle" /\ R!Sampled(s, h)
  BY DEF R!Raise
<1>2. s \in Samples /\ s.error /\ ~s.queued
  BY DEF Samples
<1>3. h \in Truths /\ h.raised /\ h.first = truth.first /\ h.last = truth.last
  BY DEF Streaming, Truths
<1>4. Matches(s, h)
  BY <1>2, <1>3 DEF Matches, Streaming
<1> HIDE DEF s, h
<1> QED BY <1>1, <1>2, <1>3, <1>4, SampleKeeps

(* What is made of all the repeats.  A repeat is used if it neither raised *)
(* nor sat out a keepalive, and what was measured of it is the truth.      *)
LEMMA AggregateHonest ==
  ASSUME Sampled, R!Aggregate
  PROVE  R!MedianHonest'
<1> DEFINE each == 1..Repeats
           used == {n \in each : ~happened[n].raised /\ ~happened[n].long}
           spoke == {n \in used : happened[n].first # None}
           went == {n \in spoke : happened[n].last > happened[n].first}
           waited == {n \in each : samples[n].queued}
           wrong == {n \in each : samples[n].error}
           firsts == [n \in spoke |-> happened[n].first]
           speeds == [n \in went |->
                        (happened[n].after * Scale) \div (happened[n].last - happened[n].first)]
<1>1. /\ Len(samples) = Repeats /\ samples' = samples /\ happened' = happened
      /\ row' = [status |-> IF R!Usable # {} THEN "measured" ELSE "error",
                 used |-> R!Cardinality(R!Usable),
                 excluded_queue |-> R!Cardinality({n \in R!Repeated : samples[n].queued}),
                 errors |-> R!Cardinality({n \in R!Repeated : samples[n].error}),
                 ttft |-> R!MedianOf("ttft"),
                 speed |-> R!MedianOf("speed")]
  BY DEF R!Aggregate
<1>2. R!Repeated = each
  BY <1>1 DEF R!Repeated
<1>3. \A n \in each : /\ samples[n] \in Samples /\ happened[n] \in Truths
                      /\ Matches(samples[n], happened[n])
  <2>1. \A n \in 1..Len(samples) : samples[n] \in Samples /\ happened[n] \in Truths
    <3>1. samples \in Seq(Samples) /\ happened \in Seq(Truths) /\ Len(samples) = Len(happened)
      BY DEF Sampled
    <3> QED BY <3>1
  <2> QED BY <1>1, <2>1 DEF Sampled
<1>4. \A n \in each :
        /\ samples[n].queued \in BOOLEAN /\ samples[n].error \in BOOLEAN
        /\ ~(samples[n].queued /\ samples[n].error)
        /\ (~samples[n].queued /\ ~samples[n].error)
             <=> (~happened[n].raised /\ ~happened[n].long)
        /\ ~happened[n].raised => /\ samples[n].ttft = happened[n].first
                                  /\ samples[n].speed = SpeedOf(happened[n])
  <2> SUFFICES ASSUME NEW n \in each
               PROVE  /\ samples[n].queued \in BOOLEAN /\ samples[n].error \in BOOLEAN
                      /\ ~(samples[n].queued /\ samples[n].error)
                      /\ (~samples[n].queued /\ ~samples[n].error)
                           <=> (~happened[n].raised /\ ~happened[n].long)
                      /\ ~happened[n].raised => /\ samples[n].ttft = happened[n].first
                                                /\ samples[n].speed = SpeedOf(happened[n])
    OBVIOUS
  <2> DEFINE s == samples[n]
             h == happened[n]
  <2>1. s \in Samples /\ h \in Truths /\ Matches(s, h)
    BY <1>3
  <2> HIDE DEF s, h
  <2>2. s.queued \in BOOLEAN /\ s.error \in BOOLEAN /\ h.raised \in BOOLEAN /\ h.long \in BOOLEAN
    BY <2>1 DEF Samples, Truths
  <2>3. CASE h.raised
    <3>1. s.error /\ ~s.queued
      BY <2>1, <2>3 DEF Matches
    <3> QED BY <2>2, <2>3, <3>1 DEF s, h
  <2>4. CASE ~h.raised
    <3>1. s = Measured(h)
      BY <2>1, <2>4 DEF Matches
    <3>2. s.queued = h.long /\ s.error = FALSE /\ s.ttft = h.first /\ s.speed = SpeedOf(h)
      BY <3>1 DEF Measured
    <3> QED BY <2>2, <2>4, <3>2 DEF s, h
  <2> QED BY <2>3, <2>4
<1>5. R!Usable = used
  BY <1>2, <1>4 DEF R!Usable
<1>6. IsFiniteSet(each) /\ Cardinality(each) = Repeats
  BY RunnerAssumption, FS_Interval
<1>7. /\ IsFiniteSet(used) /\ IsFiniteSet(waited) /\ IsFiniteSet(wrong)
      /\ IsFiniteSet(spoke) /\ IsFiniteSet(went)
  <2>1. /\ used \subseteq each /\ waited \subseteq each /\ wrong \subseteq each
        /\ spoke \subseteq each /\ went \subseteq each
    OBVIOUS
  <2> HIDE DEF each, used, waited, wrong, spoke, went
  <2> QED BY <1>6, <2>1, FS_Subset
<1>8. Cardinality(used) + Cardinality(waited) + Cardinality(wrong) = Repeats
  <2>1. /\ used \cap waited = {} /\ (used \cup waited) \cap wrong = {}
        /\ (used \cup waited) \cup wrong = each
    BY <1>4
  <2> HIDE DEF each, used, waited, wrong
  <2>2. IsFiniteSet(used \cup waited)
    BY <1>7, FS_Union
  <2>3. Cardinality(used \cup waited) = Cardinality(used) + Cardinality(waited)
    BY <1>7, <2>1, DisjointCount
  <2>4. Cardinality(each) = Cardinality(used \cup waited) + Cardinality(wrong)
    BY <1>7, <2>1, <2>2, DisjointCount
  <2> QED BY <1>6, <2>3, <2>4
<1>9. \A n \in used : /\ samples[n].ttft = happened[n].first
                      /\ samples[n].speed = SpeedOf(happened[n])
                      /\ happened[n] \in Truths
                      /\ happened[n].first # None => happened[n].last # None
  BY <1>3, <1>4 DEF Matches
<1>10. /\ firsts \in [spoke -> Int]
       /\ R!MedianOf("ttft") = R!Median(firsts)
  <2>1. \A n \in spoke : happened[n].first \in Int
    BY <1>9 DEF Truths, Times
  <2>2. {u \in R!Usable : samples[u]["ttft"] # None} = spoke
    BY <1>5, <1>9
  <2>3. [n \in spoke |-> samples[n]["ttft"]] = firsts
    BY <1>9
  <2>4. R!MedianOf("ttft") = R!Median([n \in {u \in R!Usable : samples[u]["ttft"] # None} |->
                                         samples[n]["ttft"]])
    BY DEF R!MedianOf
  <2> HIDE DEF spoke, firsts
  <2>5. R!MedianOf("ttft") = R!Median(firsts)
    BY <2>2, <2>3, <2>4
  <2> QED BY <2>1, <2>5 DEF firsts
<1>11. /\ speeds \in [went -> Int]
       /\ R!MedianOf("speed") = R!Median(speeds)
  <2>1. \A n \in used : /\ SpeedOf(happened[n]) \in Int \cup {None}
                        /\ SpeedOf(happened[n]) # None
                             <=> happened[n].first # None /\ happened[n].last > happened[n].first
    BY <1>9, SpeedTyped
  <2>2. {u \in R!Usable : samples[u]["speed"] # None} = went
    BY <1>5, <1>9, <2>1
  <2>3. \A n \in went : /\ SpeedOf(happened[n]) \in Int
                        /\ samples[n].speed = speeds[n] /\ speeds[n] = SpeedOf(happened[n])
    BY <1>9, <2>1 DEF SpeedOf
  <2>4. [n \in went |-> samples[n]["speed"]] = speeds
    BY <2>3
  <2>5. R!MedianOf("speed") = R!Median([n \in {u \in R!Usable : samples[u]["speed"] # None} |->
                                          samples[n]["speed"]])
    BY DEF R!MedianOf
  <2>6. speeds \in [went -> Int]
    BY <2>3
  <2> HIDE DEF went, speeds
  <2> QED BY <2>2, <2>4, <2>5, <2>6
<1>12. /\ R!InTheMiddle(R!MedianOf("ttft"), spoke, firsts)
       /\ R!InTheMiddle(R!MedianOf("speed"), went, speeds)
  <2> HIDE DEF spoke, went, firsts, speeds
  <2> QED BY <1>7, <1>10, <1>11, MedianInTheMiddle
<1>13. /\ row'.used = R!Cardinality(used)
       /\ row'.used + row'.excluded_queue + row'.errors = Repeats
       /\ row'.status = "measured" <=> used # {}
       /\ R!InTheMiddle(row'.ttft, spoke, firsts)
       /\ R!InTheMiddle(row'.speed, went, speeds)
  <2>1. /\ row'.status = IF used # {} THEN "measured" ELSE "error"
        /\ row'.used = R!Cardinality(used)
        /\ row'.excluded_queue = R!Cardinality(waited) /\ row'.errors = R!Cardinality(wrong)
        /\ row'.ttft = R!MedianOf("ttft") /\ row'.speed = R!MedianOf("speed")
    <3> HIDE DEF used
    <3> QED BY <1>1, <1>2, <1>5
  <2> HIDE DEF each, used, spoke, went, waited, wrong, firsts, speeds
  <2>2. row'.used + row'.excluded_queue + row'.errors = Repeats
    BY <1>8, <2>1, SameSize
  <2> QED BY <1>12, <2>1, <2>2
<1> QED BY <1>1, <1>13 DEF R!MedianHonest

LEMMA RunnerStep == RunnerInv /\ [R!Next]_R!vars => RunnerInv'
<1> SUFFICES ASSUME RunnerInv, [R!Next]_R!vars PROVE RunnerInv'
  OBVIOUS
<1>1. /\ Streaming /\ Sampled /\ R!MedianHonest
      /\ row # None => gate = "idle" /\ Len(samples) = Repeats
  BY DEF RunnerInv
<1>2. CASE R!Ask \/ R!Keepalive \/ R!TakeSlot \/ R!Text \/ R!StreamEnds
  <2>1. Streaming'
    BY <1>1, <1>2, StreamKeeps
  <2>2. UNCHANGED <<samples, happened, row>> /\ gate' # "idle"
    BY <1>2 DEF R!Ask, R!Keepalive, R!TakeSlot, R!Text, R!StreamEnds, R!rows
  <2>3. Len(samples) < Repeats
    <3>1. CASE R!Ask
      BY <3>1 DEF R!Ask
    <3>2. CASE R!Keepalive \/ R!TakeSlot \/ R!Text \/ R!StreamEnds
      BY <1>1, <3>2 DEF R!Keepalive, R!TakeSlot, R!Text, R!StreamEnds, Sampled
    <3> QED BY <1>2, <3>1, <3>2
  <2>4. Len(samples) # Repeats
    <3>1. Len(samples) \in Nat
      BY <1>1 DEF Sampled
    <3> QED BY <2>3, <3>1, RunnerAssumption
  <2>5. row' = None
    BY <1>1, <2>2, <2>4
  <2>6. Sampled'
    BY <1>1, <2>2, <2>3 DEF Sampled, Matches
  <2> QED BY <2>1, <2>5, <2>6 DEF RunnerInv, R!MedianHonest
<1>3. CASE R!Record \/ R!Raise
  <2>1. Streaming' /\ Sampled' /\ row' = row
    BY <1>1, <1>3, RecordKeeps, RaiseKeeps
  <2>2. gate # "idle"
    BY <1>3 DEF R!Record, R!Raise
  <2>3. row' = None
    BY <1>1, <2>1, <2>2
  <2> QED BY <2>1, <2>3 DEF RunnerInv, R!MedianHonest
<1>4. CASE R!Aggregate
  <2>1. UNCHANGED <<gate, clock, chunks, truth, samples, happened>>
        /\ gate = "idle" /\ Len(samples) = Repeats
    BY <1>4 DEF R!Aggregate
  <2>2. Streaming' /\ Sampled'
    BY <1>1, <2>1 DEF Streaming, Told, Sampled, Matches
  <2>3. R!MedianHonest'
    BY <1>1, <1>4, AggregateHonest
  <2> QED BY <2>1, <2>2, <2>3 DEF RunnerInv
<1>5. CASE UNCHANGED R!vars
  <2>1. UNCHANGED <<gate, clock, chunks, truth, samples, happened, row>>
    BY <1>5 DEF R!vars
  <2>2. Streaming' /\ Sampled'
    BY <1>1, <2>1 DEF Streaming, Told, Sampled, Matches
  <2>3. R!MedianHonest'
    BY <1>1, <2>1 DEF R!MedianHonest
  <2> QED BY <1>1, <2>1, <2>2, <2>3 DEF RunnerInv
<1> QED BY <1>2, <1>3, <1>4, <1>5 DEF R!Next

(* The lines that were read of a stream tell what became of its request;   *)
(* what was measured of each repeat is the truth about it, or that it      *)
(* raised; and nothing is written about the workload before all of its     *)
(* repeats are over (measure, run_benchmark).                              *)
THEOREM RunnerInvariant == R!Spec => []RunnerInv
BY RunnerInit, RunnerStep, PTL DEF R!Spec

LEMMA GapsAgree == Streaming => R!PercentilesAgree
<1> DEFINE texts == R!Texts(chunks)
           gaps == R!Gaps(texts)
           N == Len(texts) - 1
<1> SUFFICES ASSUME Streaming, gaps # <<>>
             PROVE  /\ R!Percentile(gaps, 50) = 50 * R!Median(gaps)
                    /\ R!Percentile(gaps, 95) >= R!Percentile(gaps, 50)
                    /\ \E n \in 1..Len(gaps) : R!Percentile(gaps, 95) <= 100 * gaps[n]
  BY DEF R!PercentilesAgree
<1>1. texts \in Seq(Chunk)
  <2>1. [t |-> 0, queued |-> FALSE, tokens |-> 0] \in Chunk
    BY DEF Chunk
  <2>2. chunks \in Seq(Chunk)
    BY DEF Streaming
  <2> QED BY <2>1, <2>2, OneMoreLine
<1>2. gaps = [n \in 1..N |-> texts[n + 1].t - texts[n].t]
  BY DEF R!Gaps
<1> HIDE DEF texts, gaps
<1>3. Len(texts) \in Nat /\ \A n \in 1..Len(texts) : texts[n] \in Chunk
  BY <1>1
<1>4. N >= 1
  <2> SUFFICES ASSUME ~(N >= 1) PROVE FALSE
    OBVIOUS
  <2>1. 1..N = {}
    BY <1>3
  <2> HIDE DEF N
  <2> QED BY <1>2, <2>1
<1>5. \A n \in 1..N : texts[n + 1].t - texts[n].t \in Int
  <2>1. \A n \in 1..N : n \in 1..Len(texts) /\ n + 1 \in 1..Len(texts)
    BY <1>3
  <2> QED BY <1>3, <2>1 DEF Chunk
<1>6. gaps \in [1..N -> Int] /\ N \in Nat \ {0}
  BY <1>2, <1>3, <1>4, <1>5
<1>7. Len(gaps) = N
  <2> HIDE DEF N
  <2> QED BY <1>2, <1>6
<1> HIDE DEF N
<1> QED BY <1>6, <1>7, PercentilesFit

(* The medians that are written about a workload are in the middle of what *)
(* its repeats really took, of those that neither raised nor sat out a     *)
(* keepalive, each repeat is counted once, and the percentiles of the gaps *)
(* of any stream agree with their median (metrics.py, aggregate).          *)
THEOREM RunnerMeasuresRight == R!Spec => []MeasuresRight
<1>1. RunnerInv => MeasuresRight
  BY GapsAgree DEF RunnerInv, MeasuresRight, R!MeasuresRight
<1> QED BY <1>1, RunnerInvariant, PTL

-----------------------------------------------------------------------------
(* Each part runs as it would alone. *)
LEMMA BenchmarkRunsEach == BenchmarkSpec => Spec /\ P!Spec /\ R!Spec
<1>1. AllInit => Init /\ P!Init /\ R!Init
  BY DEF AllInit, NoPrompt, NoPoints
<1>2. ASSUME [AllNext]_all
      PROVE  /\ [Next]_vars
             /\ [P!Next]_P!vars
             /\ [R!Next]_R!vars
  <2>1. pareto = P!vars /\ pareto' = P!vars'
    BY DEF pareto, P!vars
  <2>2. runner = R!vars /\ runner' = R!vars'
    BY DEF runner, R!vars
  <2> QED BY <1>2, <2>1, <2>2 DEF AllNext, all
<1> QED BY <1>1, <1>2, PTL DEF BenchmarkSpec, Spec, P!Spec, R!Spec

(* The prompt is cut where it fits best, the frontier has the points no    *)
(* other one dominates, and the rows say what the repeats took             *)
(* (workloads.py, pareto.py, runner.py).                                   *)
THEOREM BenchmarkRight == BenchmarkSpec => [](CutIsRight /\ FrontierExact /\ MeasuresRight)
BY BenchmarkRunsEach, FitCutIsRight, ParetoFrontier, RunnerMeasuresRight, PTL
=============================================================================
