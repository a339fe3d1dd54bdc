------------------------- MODULE AdmissionLaneProofs -------------------------
(***************************************************************************)
(* Proofs about AdmissionLane, for any finite set of requests and any      *)
(* limits.  Lemmas about the semaphore come first, then the inductive      *)
(* invariant, its consequences, and the refinement of BoundedLine.         *)
(***************************************************************************)
EXTENDS AdmissionLane, FiniteSetTheorems, SequenceTheorems, TLAPS

Holders(a) == {r \in Requests : a[r] \in {"granted", "taken"}}

(* The queue q holds the requests whose acquire task is pending in a, each *)
(* of them once.                                                           *)
Lists(q, a) ==
  /\ \A i, j \in 1..Len(q) : q[i] = q[j] => i = j
  /\ \A r \in Requests : a[r] = "pending" <=> \E i \in 1..Len(q) : q[i] = r

(* An acquire task that waits has a place in the queue and nobody else's.  *)
PendingListed == Lists(pending, acq)

(* A request in the line, past the start of its body, has an acquire task. *)
WaiterAcquires ==
  \A r \in Requests : pc[r] \in Queued \ {"entered"} => acq[r] # "none"

(* Where the connections to the orchestrator are. *)
UpstreamPlaces ==
  /\ \A r \in upstream :
       \/ pc[r] \in {"upstream", "send"}
       \/ pc[r] \in {"lostslot", "finished"} /\ r \in gone
  /\ \A r \in Requests : pc[r] \in {"lostslot", "lostqueue"} => r \in gone

SemInv == PendingListed /\ SlotsConserved /\ NoLostWakeup

IInv ==
  /\ TypeOK
  /\ SemInv
  /\ SlotOwnership
  /\ WaiterAcquires
  /\ CountsExact
  /\ Occupancy <= Capacity
  /\ UpstreamPlaces

-----------------------------------------------------------------------------
(* The semaphore. *)

(* Dropping an element of a queue moves the later ones up by one. *)
LEMMA RemoveAtEffect ==
  ASSUME NEW q \in Seq(Requests), NEW i \in 1..Len(q)
  PROVE  /\ RemoveAt(q, i) \in Seq(Requests)
         /\ Len(RemoveAt(q, i)) = Len(q) - 1
         /\ \A j \in 1..(Len(q) - 1) :
              RemoveAt(q, i)[j] = IF j < i THEN q[j] ELSE q[j + 1]
<1> DEFINE front == SubSeq(q, 1, i - 1)
           back == SubSeq(q, i + 1, Len(q))
<1>1. /\ front \in Seq(Requests) /\ Len(front) = i - 1
      /\ \A j \in 1..(i - 1) : front[j] = q[j]
  BY SubSeqProperties
<1>2. /\ back \in Seq(Requests) /\ Len(back) = Len(q) - i
      /\ \A j \in 1..(Len(q) - i) : back[j] = q[i + j]
  BY SubSeqProperties
<1>3. RemoveAt(q, i) = front \o back
  BY DEF RemoveAt
<1> HIDE DEF front, back
<1>4. /\ front \o back \in Seq(Requests)
      /\ Len(front \o back) = Len(front) + Len(back)
      /\ \A j \in 1..(Len(front) + Len(back)) :
           (front \o back)[j] = IF j <= Len(front) THEN front[j]
                                ELSE back[j - Len(front)]
  BY <1>1, <1>2, ConcatProperties
<1>5. ASSUME NEW j \in 1..(Len(q) - 1)
      PROVE  (front \o back)[j] = IF j < i THEN q[j] ELSE q[j + 1]
  <2>1. CASE j < i
    BY <2>1, <1>1, <1>2, <1>4
  <2>2. CASE ~(j < i)
    <3>0. j >= i
      BY <2>2, LenProperties
    <3>1. /\ (front \o back)[j] = back[j - (i - 1)]
          /\ j - (i - 1) \in 1..(Len(q) - i)
          /\ i + (j - (i - 1)) = j + 1
      BY <3>0, <1>1, <1>2, <1>4
    <3>2. back[j - (i - 1)] = q[i + (j - (i - 1))]
      BY <3>1, <1>2
    <3> QED BY <3>1, <3>2, <2>2
  <2> QED BY <2>1, <2>2
<1> QED BY <1>1, <1>2, <1>3, <1>4, <1>5

(* A waiter that is removed is no longer listed; the others are. *)
LEMMA RemovalLists ==
  ASSUME NEW q \in Seq(Requests), NEW a \in [Requests -> AcquireStates],
         Lists(q, a), NEW i \in 1..Len(q)
  PROVE  Lists(RemoveAt(q, i), [a EXCEPT ![q[i]] = "none"])
<1> DEFINE p == RemoveAt(q, i)
           b == [a EXCEPT ![q[i]] = "none"]
<1>1. /\ p \in Seq(Requests) /\ Len(p) = Len(q) - 1
      /\ \A j \in 1..(Len(q) - 1) : p[j] = IF j < i THEN q[j] ELSE q[j + 1]
  BY RemoveAtEffect
<1>2. q[i] \in Requests
  BY ElementOfSeq
<1> HIDE DEF p
<1>3. \A j, k \in 1..Len(p) : p[j] = p[k] => j = k
  BY <1>1 DEF Lists
<1>4. ASSUME NEW r \in Requests
      PROVE  b[r] = "pending" <=> \E j \in 1..Len(p) : p[j] = r
  <2>1. CASE r = q[i]
    BY <2>1, <1>1, <1>2 DEF Lists
  <2>2. CASE r # q[i]
    <3>1. b[r] = a[r]
      BY <2>2, <1>2
    <3>2. ASSUME NEW j \in 1..Len(q), q[j] = r
          PROVE  \E k \in 1..Len(p) : p[k] = r
      <4>1. CASE j < i
        BY <4>1, <3>2, <1>1
      <4>2. CASE j > i
        <5>1. j - 1 \in 1..Len(p) /\ p[j - 1] = q[j]
          BY <4>2, <1>1
        <5> QED BY <5>1, <3>2
      <4> QED BY <4>1, <4>2, <3>2, <2>2
    <3>3. (\E k \in 1..Len(p) : p[k] = r) => \E j \in 1..Len(q) : q[j] = r
      BY <1>1
    <3> QED BY <3>1, <3>2, <3>3 DEF Lists
  <2> QED BY <2>1, <2>2
<1> QED BY <1>3, <1>4 DEF Lists, p

(* What a round of wake-ups does to the queue and to the tasks. *)
LEMMA WakeEffect ==
  ASSUME NEW n \in Nat, NEW v \in Nat, NEW q \in Seq(Requests),
         NEW a \in [Requests -> AcquireStates], Lists(q, a), Wake(n, v, q, a),
         n = v \/ n > 0
  PROVE  /\ value' \in Nat
         /\ pending' \in Seq(Requests)
         /\ acq' \in [Requests -> AcquireStates]
         /\ Lists(pending', acq')
         /\ value' + Cardinality(Holders(acq')) = v + Cardinality(Holders(a))
         /\ \A r \in Requests : \/ acq'[r] = a[r]
                                \/ a[r] = "pending" /\ acq'[r] = "granted"
         /\ \/ pending' = <<>> \/ value' = 0
            \/ \E r \in Requests : acq'[r] = "granted"
<1>1. PICK k \in 0..Len(q) :
        /\ k <= n /\ k <= v
        /\ k = n \/ k = v \/ k = Len(q)
        /\ value' = v - k
        /\ pending' = SubSeq(q, k + 1, Len(q))
        /\ acq' = [r \in Requests |->
                     IF \E i \in 1..k : q[i] = r THEN "granted" ELSE a[r]]
  BY DEF Wake
<1>2. /\ pending' \in Seq(Requests) /\ Len(pending') = Len(q) - k
      /\ \A i \in 1..(Len(q) - k) : pending'[i] = q[k + i]
  BY <1>1, SubSeqProperties
<1>3. value' \in Nat /\ acq' \in [Requests -> AcquireStates]
  BY <1>1 DEF AcquireStates
<1>4. \A i \in 1..Len(q) : q[i] \in Requests /\ a[q[i]] = "pending"
  BY ElementOfSeq DEF Lists
<1>5. \A r \in Requests : \/ acq'[r] = a[r]
                          \/ a[r] = "pending" /\ acq'[r] = "granted"
  BY <1>1, <1>4
<1>6. Lists(pending', acq')
  <2>1. \A i, j \in 1..Len(pending') : pending'[i] = pending'[j] => i = j
    BY <1>2 DEF Lists
  <2>2. ASSUME NEW r \in Requests
        PROVE  acq'[r] = "pending" <=> \E i \in 1..Len(pending') : pending'[i] = r
    <3>1. CASE \E i \in 1..k : q[i] = r
      <4>1. PICK i \in 1..k : q[i] = r
        BY <3>1
      <4>2. acq'[r] = "granted"
        BY <3>1, <1>1
      <4>3. \A j \in 1..Len(pending') : pending'[j] # r
        BY <4>1, <1>2 DEF Lists
      <4> QED BY <4>2, <4>3
    <3>2. CASE \A i \in 1..k : q[i] # r
      <4>1. acq'[r] = a[r]
        BY <3>2, <1>1
      <4>2. ASSUME NEW i \in 1..Len(q), q[i] = r
            PROVE  \E j \in 1..Len(pending') : pending'[j] = r
        <5>1. i - k \in 1..Len(pending') /\ pending'[i - k] = q[i]
          BY <4>2, <3>2, <1>2
        <5> QED BY <5>1, <4>2
      <4>3. (\E j \in 1..Len(pending') : pending'[j] = r) => \E i \in 1..Len(q) : q[i] = r
        BY <1>2
      <4> QED BY <4>1, <4>2, <4>3 DEF Lists
    <3> QED BY <3>1, <3>2
  <2> QED BY <2>1, <2>2 DEF Lists
<1>7. value' + Cardinality(Holders(acq')) = v + Cardinality(Holders(a))
  <2> DEFINE W == {q[i] : i \in 1..k}
             f == [i \in 1..k |-> q[i]]
  <2>1. f \in Bijection(1..k, W)
    <3>1. f \in [1..k -> W]
      OBVIOUS
    <3>2. \A i, j \in 1..k : f[i] = f[j] => i = j
      BY DEF Lists
    <3>3. \A w \in W : \E i \in 1..k : f[i] = w
      OBVIOUS
    <3> QED BY <3>1, <3>2, <3>3 DEF Bijection, Injection, Surjection, IsInjective
  <2>2. IsFiniteSet(1..k) /\ Cardinality(1..k) = k
    BY FS_Interval
  <2>3. IsFiniteSet(W) /\ Cardinality(W) = k
    BY <2>1, <2>2, FS_Bijection DEF ExistsBijection
  <2>4. Holders(acq') = Holders(a) \cup W
    BY <1>1, <1>4 DEF Holders
  <2>5. Holders(a) \cap W = {}
    BY <1>4 DEF Holders
  <2>6. IsFiniteSet(Holders(a)) /\ Cardinality(Holders(a)) \in Nat
    BY LaneAssumption, FS_Subset, FS_CardinalityType DEF Holders
  <2> HIDE DEF W, f
  <2>7. Cardinality(Holders(a) \cup W) = Cardinality(Holders(a)) + k
    <3>1. Cardinality(Holders(a) \cap W) = 0
      BY <2>5, FS_EmptySet
    <3>2. Cardinality(Holders(a) \cup W)
            = Cardinality(Holders(a)) + Cardinality(W) - Cardinality(Holders(a) \cap W)
      BY <2>3, <2>6, FS_Union
    <3> QED BY <3>1, <3>2, <2>3, <2>6
  <2> QED BY <2>4, <2>6, <2>7, <1>1
<1>8. \/ pending' = <<>> \/ value' = 0
      \/ \E r \in Requests : acq'[r] = "granted"
  <2>1. CASE k = Len(q)
    BY <2>1, <1>2, EmptySeq
  <2>2. CASE k = v
    BY <2>2, <1>1
  <2>3. CASE k = n /\ n > 0
    BY <2>3, <1>1, <1>4
  <2>4. CASE k = n /\ n = 0
    BY <2>4, <1>1
  <2> QED BY <1>1, <2>1, <2>2, <2>3, <2>4
<1> QED BY <1>2, <1>3, <1>5, <1>6, <1>7, <1>8
-----------------------------------------------------------------------------
SemTyped ==
  /\ value \in Nat
  /\ pending \in Seq(Requests)
  /\ acq \in [Requests -> AcquireStates]

(* To the acquire tasks of the others a step only hands slots. *)
OthersOnlyGranted(r) ==
  \A x \in Requests \ {r} :
    acq'[x] = acq[x] \/ (acq[x] = "pending" /\ acq'[x] = "granted")

LEMMA HoldersFinite ==
  ASSUME NEW a
  PROVE  IsFiniteSet(Holders(a)) /\ Cardinality(Holders(a)) \in Nat
BY LaneAssumption, FS_Subset, FS_CardinalityType DEF Holders

(* A round of wake-ups that starts with as many free and held slots as     *)
(* there are keeps the semaphore consistent.                               *)
LEMMA WakeKeepsSemInv ==
  ASSUME NEW n \in Nat, NEW v \in Nat, NEW q \in Seq(Requests),
         NEW a \in [Requests -> AcquireStates], Lists(q, a), Wake(n, v, q, a),
         n = v \/ n > 0,
         v + Cardinality(Holders(a)) = InflightLimit
  PROVE  SemTyped' /\ SemInv'
<1>1. /\ SemTyped'
      /\ Lists(pending', acq')
      /\ value' + Cardinality(Holders(acq')) = v + Cardinality(Holders(a))
      /\ \/ pending' = <<>> \/ value' = 0
         \/ \E r \in Requests : acq'[r] = "granted"
  BY WakeEffect DEF SemTyped
<1>2. SlotHolders' = Holders(acq')
  BY DEF SlotHolders, Holders
<1> QED BY <1>1, <1>2 DEF SemInv, PendingListed, SlotsConserved, NoLostWakeup

LEMMA SemAcquireEffect ==
  ASSUME SemTyped, SemInv, NEW r \in Requests, acq[r] = "none", SemAcquire(r)
  PROVE  /\ SemTyped' /\ SemInv' /\ OthersOnlyGranted(r)
         /\ acq'[r] \in {"pending", "taken"}
<1>1. /\ value \in Nat /\ pending \in Seq(Requests)
      /\ acq \in [Requests -> AcquireStates]
      /\ Lists(pending, acq)
      /\ value + Cardinality(Holders(acq)) = InflightLimit
      /\ NoLostWakeup
  BY DEF SemTyped, SemInv, PendingListed, SlotsConserved, SlotHolders, Holders
<1>2. CASE value > 0 /\ \A q \in Requests : acq[q] \notin {"pending", "granted"}
  <2>1. /\ value' = value - 1 /\ pending' = pending
        /\ acq' = [acq EXCEPT ![r] = "taken"]
    BY <1>2 DEF SemAcquire
  <2>2. pending = <<>>
    <3>1. Len(pending) = 0
      <4> SUFFICES ASSUME Len(pending) # 0
                   PROVE  FALSE
        OBVIOUS
      <4>1. 1 \in 1..Len(pending) /\ pending[1] \in Requests
        BY <1>1, ElementOfSeq, LenProperties
      <4> QED BY <4>1, <1>1, <1>2 DEF Lists
    <3> QED BY <3>1, <1>1, EmptySeq
  <2>3. Holders(acq') = Holders(acq) \cup {r} /\ r \notin Holders(acq)
    BY <2>1, <1>1 DEF Holders
  <2>4. Cardinality(Holders(acq')) = Cardinality(Holders(acq)) + 1
    BY <2>3, HoldersFinite, FS_AddElement
  <2>5. SlotsConserved'
    <3>1. SlotHolders' = Holders(acq')
      BY DEF SlotHolders, Holders
    <3>2. Cardinality(Holders(acq)) \in Nat
      BY HoldersFinite
    <3> QED BY <2>1, <2>4, <1>1, <3>1, <3>2 DEF SlotsConserved
  <2>6. PendingListed'
    BY <2>1, <2>2, <1>1, <1>2 DEF PendingListed, Lists
  <2>7. NoLostWakeup'
    BY <2>1, <2>2 DEF NoLostWakeup
  <2>8. SemTyped' /\ OthersOnlyGranted(r) /\ acq'[r] = "taken"
    BY <2>1, <1>1, <1>2 DEF SemTyped, AcquireStates, OthersOnlyGranted
  <2> QED BY <2>5, <2>6, <2>7, <2>8 DEF SemInv
<1>3. CASE ~(value > 0 /\ \A q \in Requests : acq[q] \notin {"pending", "granted"})
  <2>1. /\ value' = value /\ pending' = Append(pending, r)
        /\ acq' = [acq EXCEPT ![r] = "pending"]
    BY <1>3 DEF SemAcquire
  <2>2. /\ pending' \in Seq(Requests) /\ Len(pending') = Len(pending) + 1
        /\ \A i \in 1..Len(pending) : pending'[i] = pending[i]
        /\ pending'[Len(pending) + 1] = r
    BY <2>1, <1>1, AppendProperties
  <2>3. \A i \in 1..Len(pending) : pending[i] # r
    BY <1>1 DEF Lists
  <2>4. PendingListed'
    <3>1. \A i, j \in 1..Len(pending') : pending'[i] = pending'[j] => i = j
      BY <2>2, <2>3, <1>1, LenProperties DEF Lists
    <3>2. ASSUME NEW x \in Requests
          PROVE  acq'[x] = "pending" <=> \E i \in 1..Len(pending') : pending'[i] = x
      <4>1. CASE x = r
        BY <4>1, <2>1, <2>2, <1>1, LenProperties
      <4>2. CASE x # r
        <5>1. acq'[x] = acq[x]
          BY <4>2, <2>1, <1>1
        <5>2. (\E i \in 1..Len(pending') : pending'[i] = x)
                <=> \E i \in 1..Len(pending) : pending[i] = x
          BY <4>2, <2>2, <1>1, LenProperties
        <5> QED BY <5>1, <5>2, <1>1 DEF Lists
      <4> QED BY <4>1, <4>2
    <3> QED BY <3>1, <3>2 DEF PendingListed, Lists
  <2>5. SlotsConserved'
    <3>1. Holders(acq') = Holders(acq)
      BY <2>1, <1>1 DEF Holders
    <3> QED BY <3>1, <2>1, <1>1 DEF SlotsConserved, SlotHolders, Holders
  <2>6. NoLostWakeup'
    <3> SUFFICES ASSUME value' > 0
                 PROVE  \E x \in Requests : acq'[x] = "granted"
      BY DEF NoLostWakeup
    <3>1. PICK x \in Requests : acq[x] \in {"pending", "granted"}
      BY <1>3, <2>1
    <3>2. CASE acq[x] = "granted"
      BY <3>2, <2>1, <1>1
    <3>3. CASE acq[x] = "pending"
      <4>1. pending # <<>>
        BY <3>3, <1>1, EmptySeq DEF Lists
      <4>2. PICK y \in Requests : acq[y] = "granted"
        BY <4>1, <1>1, <2>1 DEF NoLostWakeup
      <4> QED BY <4>2, <2>1, <1>1
    <3> QED BY <3>1, <3>2, <3>3
  <2>7. SemTyped' /\ OthersOnlyGranted(r) /\ acq'[r] = "pending"
    BY <2>1, <2>2, <1>1 DEF SemTyped, AcquireStates, OthersOnlyGranted
  <2> QED BY <2>4, <2>5, <2>6, <2>7 DEF SemInv
<1> QED BY <1>2, <1>3

LEMMA SemReleaseEffect ==
  ASSUME SemTyped, SemInv, NEW r \in Requests, acq[r] = "taken", SemRelease(r)
  PROVE  /\ SemTyped' /\ SemInv' /\ OthersOnlyGranted(r)
         /\ acq'[r] = "none"
<1> DEFINE a == [acq EXCEPT ![r] = "none"]
<1>1. /\ value \in Nat /\ pending \in Seq(Requests)
      /\ acq \in [Requests -> AcquireStates]
      /\ Lists(pending, acq)
      /\ value + Cardinality(Holders(acq)) = InflightLimit
  BY DEF SemTyped, SemInv, PendingListed, SlotsConserved, SlotHolders, Holders
<1>2. /\ a \in [Requests -> AcquireStates]
      /\ a[r] = "none" /\ \A x \in Requests \ {r} : a[x] = acq[x]
  BY <1>1 DEF AcquireStates
<1>3. Wake(1, value + 1, pending, a)
  BY DEF SemRelease
<1>4. Lists(pending, a)
  BY <1>1, <1>2 DEF Lists
<1>5. Holders(a) = Holders(acq) \ {r} /\ r \in Holders(acq)
  BY <1>1, <1>2 DEF Holders
<1>6. (value + 1) + Cardinality(Holders(a)) = InflightLimit
  <2>1. Cardinality(Holders(acq) \ {r}) = Cardinality(Holders(acq)) - 1
    BY <1>5, HoldersFinite, FS_RemoveElement
  <2>2. Cardinality(Holders(acq)) \in Nat
    BY HoldersFinite
  <2> HIDE DEF a
  <2> QED BY <1>1, <1>5, <2>1, <2>2
<1> HIDE DEF a
<1>7. SemTyped' /\ SemInv'
  BY <1>1, <1>2, <1>3, <1>4, <1>6, WakeKeepsSemInv
<1>8. \A x \in Requests : \/ acq'[x] = a[x]
                          \/ a[x] = "pending" /\ acq'[x] = "granted"
  BY <1>1, <1>2, <1>3, <1>4, WakeEffect
<1> QED BY <1>2, <1>7, <1>8 DEF OthersOnlyGranted

LEMMA SemResumeEffect ==
  ASSUME SemTyped, SemInv, NEW r \in Requests, acq[r] = "granted", SemResume(r)
  PROVE  /\ SemTyped' /\ SemInv' /\ OthersOnlyGranted(r)
         /\ acq'[r] = "taken"
<1> DEFINE a == [acq EXCEPT ![r] = "taken"]
<1>1. /\ value \in Nat /\ pending \in Seq(Requests)
      /\ acq \in [Requests -> AcquireStates]
      /\ Lists(pending, acq)
      /\ value + Cardinality(Holders(acq)) = InflightLimit
  BY DEF SemTyped, SemInv, PendingListed, SlotsConserved, SlotHolders, Holders
<1>2. /\ a \in [Requests -> AcquireStates]
      /\ a[r] = "taken" /\ \A x \in Requests \ {r} : a[x] = acq[x]
  BY <1>1 DEF AcquireStates
<1>3. Wake(value, value, pending, a)
  BY DEF SemResume
<1>4. Lists(pending, a)
  BY <1>1, <1>2 DEF Lists
<1>5. Holders(a) = Holders(acq)
  BY <1>1, <1>2 DEF Holders
<1> HIDE DEF a
<1>7. SemTyped' /\ SemInv'
  BY <1>1, <1>2, <1>3, <1>4, <1>5, WakeKeepsSemInv
<1>8. \A x \in Requests : \/ acq'[x] = a[x]
                          \/ a[x] = "pending" /\ acq'[x] = "granted"
  BY <1>1, <1>2, <1>3, <1>4, WakeEffect
<1> QED BY <1>2, <1>7, <1>8 DEF OthersOnlyGranted

LEMMA SemCancelEffect ==
  ASSUME SemTyped, SemInv, NEW r \in Requests,
         acq[r] \in {"pending", "granted"}, SemCancel(r)
  PROVE  /\ SemTyped' /\ SemInv' /\ OthersOnlyGranted(r)
         /\ acq'[r] = "none"
<1> DEFINE a == [acq EXCEPT ![r] = "none"]
<1>1. /\ value \in Nat /\ pending \in Seq(Requests)
      /\ acq \in [Requests -> AcquireStates]
      /\ Lists(pending, acq)
      /\ value + Cardinality(Holders(acq)) = InflightLimit
  BY DEF SemTyped, SemInv, PendingListed, SlotsConserved, SlotHolders, Holders
<1>2. /\ a \in [Requests -> AcquireStates]
      /\ a[r] = "none" /\ \A x \in Requests \ {r} : a[x] = acq[x]
  BY <1>1 DEF AcquireStates
<1>3. CASE acq[r] = "granted"
  <2>1. Wake(value + 1, value + 1, pending, a)
    BY <1>3 DEF SemCancel
  <2>2. Lists(pending, a)
    BY <1>1, <1>2, <1>3 DEF Lists
  <2>3. Holders(a) = Holders(acq) \ {r} /\ r \in Holders(acq)
    BY <1>1, <1>2, <1>3 DEF Holders
  <2>4. (value + 1) + Cardinality(Holders(a)) = InflightLimit
    <3>1. Cardinality(Holders(acq) \ {r}) = Cardinality(Holders(acq)) - 1
      BY <2>3, HoldersFinite, FS_RemoveElement
    <3>2. Cardinality(Holders(acq)) \in Nat
      BY HoldersFinite
    <3> HIDE DEF a
    <3> QED BY <1>1, <2>3, <3>1, <3>2
  <2> HIDE DEF a
  <2>5. SemTyped' /\ SemInv'
    BY <1>1, <1>2, <2>1, <2>2, <2>4, WakeKeepsSemInv
  <2>6. \A x \in Requests : \/ acq'[x] = a[x]
                            \/ a[x] = "pending" /\ acq'[x] = "granted"
    BY <1>1, <1>2, <2>1, <2>2, WakeEffect
  <2> QED BY <1>2, <2>5, <2>6 DEF OthersOnlyGranted
<1>4. CASE acq[r] = "pending"
  <2>1. PICK i \in 1..Len(pending) :
          pending[i] = r /\ Wake(value, value, RemoveAt(pending, i), a)
    BY <1>4 DEF SemCancel
  <2>2. RemoveAt(pending, i) \in Seq(Requests)
    BY <1>1, RemoveAtEffect
  <2>3. Lists(RemoveAt(pending, i), a)
    BY <1>1, <2>1, RemovalLists
  <2>4. Holders(a) = Holders(acq)
    BY <1>1, <1>2, <1>4 DEF Holders
  <2> HIDE DEF a
  <2>5. SemTyped' /\ SemInv'
    BY <1>1, <1>2, <2>1, <2>2, <2>3, <2>4, WakeKeepsSemInv
  <2>6. \A x \in Requests : \/ acq'[x] = a[x]
                            \/ a[x] = "pending" /\ acq'[x] = "granted"
    BY <1>1, <1>2, <2>1, <2>2, <2>3, WakeEffect
  <2> QED BY <1>2, <2>5, <2>6 DEF OthersOnlyGranted
<1> QED BY <1>3, <1>4

-----------------------------------------------------------------------------
(* The lane. *)

PcStates == {"new"} \cup Queued \cup Holding \cup Ended

Bit(b) == IF b THEN 1 ELSE 0

(* How many requests are in the states of C changes by those of the one    *)
(* request that moves.                                                     *)
LEMMA CountAfterMove ==
  ASSUME NEW f \in [Requests -> PcStates], NEW r \in Requests,
         NEW p \in PcStates, NEW C
  PROVE  LET Members(g) == {x \in Requests : g[x] \in C}
         IN  /\ Cardinality(Members(f)) \in Nat
             /\ Cardinality(Members([f EXCEPT ![r] = p]))
                  = Cardinality(Members(f)) + Bit(p \in C) - Bit(f[r] \in C)
<1> DEFINE Members(g) == {x \in Requests : g[x] \in C}
           M == Members(f)
           N == Members([f EXCEPT ![r] = p])
<1>1. IsFiniteSet(M) /\ Cardinality(M) \in Nat
  BY LaneAssumption, FS_Subset, FS_CardinalityType
<1>2. r \in M <=> f[r] \in C
  OBVIOUS
<1>3. N = IF p \in C THEN M \cup {r} ELSE M \ {r}
  OBVIOUS
<1> HIDE DEF M, N
<1>4. /\ Cardinality(M \cup {r}) = IF r \in M THEN Cardinality(M) ELSE Cardinality(M) + 1
      /\ Cardinality(M \ {r}) = IF r \in M THEN Cardinality(M) - 1 ELSE Cardinality(M)
  BY <1>1, FS_AddElement, FS_RemoveElement
<1>5. Cardinality(N) = Cardinality(M) + Bit(p \in C) - Bit(f[r] \in C)
  BY <1>1, <1>2, <1>3, <1>4 DEF Bit
<1> QED BY <1>1, <1>5 DEF M, N

(* One request moves to p: what the step has to show so that the invariant *)
(* is kept.                                                                *)
LEMMA MoveKeepsIInv ==
  ASSUME IInv, NEW r \in Requests, NEW p \in PcStates,
         pc' = [pc EXCEPT ![r] = p],
         SemTyped', SemInv', OthersOnlyGranted(r),
         p \in {"new", "entered"} \cup Ended => acq'[r] = "none",
         p \in Holding => acq'[r] = "taken",
         p \in Queued \ {"entered"} => acq'[r] # "none",
         waiting' = waiting + Bit(p \in Queued) - Bit(pc[r] \in Queued),
         inFlight' = inFlight + Bit(p \in Holding) - Bit(pc[r] \in Holding),
         Occupancy' <= Capacity,
         gone \subseteq gone', gone' \subseteq Requests,
         upstream' \subseteq upstream \cup {r},
         r \in upstream' => \/ p \in {"upstream", "send"}
                            \/ p \in {"lostslot", "finished"} /\ r \in gone',
         p \in {"lostslot", "lostqueue"} => r \in gone'
  PROVE  IInv'
<1>1. /\ pc \in [Requests -> PcStates] /\ TypeOK /\ SlotOwnership
      /\ WaiterAcquires /\ CountsExact /\ UpstreamPlaces
  BY DEF IInv, TypeOK, PcStates
<1>2. /\ pc'[r] = p /\ \A x \in Requests \ {r} : pc'[x] = pc[x]
      /\ pc' \in [Requests -> PcStates]
  BY <1>1
<1>3. CountsExact'
  <2>1. /\ Cardinality({x \in Requests : pc[x] \in Queued}) \in Nat
        /\ Cardinality({x \in Requests : pc'[x] \in Queued})
             = Cardinality({x \in Requests : pc[x] \in Queued})
                 + Bit(p \in Queued) - Bit(pc[r] \in Queued)
    BY <1>1, CountAfterMove
  <2>2. /\ Cardinality({x \in Requests : pc[x] \in Holding}) \in Nat
        /\ Cardinality({x \in Requests : pc'[x] \in Holding})
             = Cardinality({x \in Requests : pc[x] \in Holding})
                 + Bit(p \in Holding) - Bit(pc[r] \in Holding)
    BY <1>1, CountAfterMove
  <2>3. waiting' = Cardinality({x \in Requests : pc'[x] \in Queued})
    BY <2>1, <1>1 DEF CountsExact
  <2>4. inFlight' = Cardinality({x \in Requests : pc'[x] \in Holding})
    BY <2>2, <1>1 DEF CountsExact
  <2>5. Queued' = Queued /\ Holding' = Holding
    BY DEF Queued, Holding
  <2> QED BY <2>3, <2>4 DEF CountsExact, Queued, Holding
<1>4. TypeOK'
  <2>1. waiting' \in Nat /\ inFlight' \in Nat
    <3>1. IsFiniteSet({x \in Requests : pc'[x] \in Queued})
      BY LaneAssumption, FS_Subset
    <3>2. IsFiniteSet({x \in Requests : pc'[x] \in Holding})
      BY LaneAssumption, FS_Subset
    <3> QED BY <3>1, <3>2, <1>3, FS_CardinalityType DEF CountsExact, Queued, Holding
  <2> QED BY <2>1, <1>1, <1>2
          DEF TypeOK, SemTyped, PcStates, Queued, Holding, Ended, AcquireStates
<1>5. SlotOwnership'
  <2> SUFFICES ASSUME NEW x \in Requests
               PROVE  /\ pc'[x] \in {"new", "entered"} \cup Ended => acq'[x] = "none"
                      /\ pc'[x] \in Holding => acq'[x] = "taken"
    BY DEF SlotOwnership, Holding, Ended
  <2>1. CASE x = r
    BY <2>1, <1>2
  <2>2. CASE x # r
    BY <2>2, <1>1, <1>2 DEF SlotOwnership, OthersOnlyGranted
  <2> QED BY <2>1, <2>2
<1>6. WaiterAcquires'
  <2> SUFFICES ASSUME NEW x \in Requests, pc'[x] \in Queued \ {"entered"}
               PROVE  acq'[x] # "none"
    BY DEF WaiterAcquires, Queued
  <2>1. CASE x = r
    BY <2>1, <1>2
  <2>2. CASE x # r
    BY <2>2, <1>1, <1>2 DEF WaiterAcquires, OthersOnlyGranted
  <2> QED BY <2>1, <2>2
<1>7. UpstreamPlaces'
  BY <1>1, <1>2 DEF UpstreamPlaces, TypeOK
<1>8. (Occupancy <= Capacity)'
  BY DEF Capacity
<1> QED BY <1>3, <1>4, <1>5, <1>6, <1>7, <1>8 DEF IInv
(* The semaphore is left alone. *)
LEMMA SemUnchanged ==
  ASSUME IInv, UNCHANGED sem, NEW r \in Requests
  PROVE  SemTyped' /\ SemInv' /\ OthersOnlyGranted(r) /\ acq'[r] = acq[r]
BY DEF IInv, TypeOK, SemTyped, SemInv, PendingListed, Lists, SlotsConserved,
       SlotHolders, NoLostWakeup, OthersOnlyGranted, sem

(* The parts of the invariant the steps of one request use. *)
LEMMA IInvFacts ==
  ASSUME IInv, NEW r \in Requests
  PROVE  /\ SemTyped /\ SemInv
         /\ pc \in [Requests -> PcStates] /\ pc[r] \in PcStates
         /\ acq[r] \in AcquireStates
         /\ waiting \in Nat /\ inFlight \in Nat /\ Occupancy <= Capacity
         /\ InflightLimit \in Nat /\ MaxWaiters \in Nat
         /\ gone \subseteq Requests /\ upstream \subseteq Requests
         /\ pc[r] \in Queued => waiting > 0
         /\ pc[r] \in Holding => inFlight > 0 /\ acq[r] = "taken"
         /\ pc[r] \in {"new", "entered"} \cup Ended => acq[r] = "none"
         /\ pc[r] \in Queued \ {"entered"} => acq[r] # "none"
         /\ r \in upstream => \/ pc[r] \in {"upstream", "send"}
                              \/ pc[r] \in {"lostslot", "finished"} /\ r \in gone
         /\ pc[r] \in {"lostslot", "lostqueue"} => r \in gone
<1>1. /\ TypeOK /\ SlotOwnership /\ WaiterAcquires /\ CountsExact /\ UpstreamPlaces
      /\ SemInv /\ Occupancy <= Capacity
  BY DEF IInv
<1>2. pc[r] \in Queued => waiting > 0
  <2> DEFINE Q == {x \in Requests : pc[x] \in Queued}
  <2>1. IsFiniteSet(Q) /\ Cardinality(Q) \in Nat
    BY LaneAssumption, FS_Subset, FS_CardinalityType
  <2>2. pc[r] \in Queued => Q # {}
    OBVIOUS
  <2> HIDE DEF Q
  <2>3. pc[r] \in Queued => Cardinality(Q) # 0
    BY <2>1, <2>2, FS_EmptySet
  <2> QED BY <2>1, <2>3, <1>1 DEF CountsExact, Q
<1>3. pc[r] \in Holding => inFlight > 0
  <2> DEFINE H == {x \in Requests : pc[x] \in Holding}
  <2>1. IsFiniteSet(H) /\ Cardinality(H) \in Nat
    BY LaneAssumption, FS_Subset, FS_CardinalityType
  <2>2. pc[r] \in Holding => H # {}
    OBVIOUS
  <2> HIDE DEF H
  <2>3. pc[r] \in Holding => Cardinality(H) # 0
    BY <2>1, <2>2, FS_EmptySet
  <2> QED BY <2>1, <2>3, <1>1 DEF CountsExact, H
<1>4. /\ SemTyped /\ pc \in [Requests -> PcStates] /\ acq[r] \in AcquireStates
      /\ waiting \in Nat /\ inFlight \in Nat
      /\ gone \subseteq Requests /\ upstream \subseteq Requests
  BY <1>1 DEF TypeOK, SemTyped, PcStates
<1> QED BY <1>1, <1>2, <1>3, <1>4, LaneAssumption
        DEF SlotOwnership, WaiterAcquires, UpstreamPlaces

(* Leaving the line without a slot keeps the invariant. *)
LEMMA DropKeepsIInv ==
  ASSUME IInv, NEW r \in Requests, pc[r] \in Queued \ {"entered"}, Drop(r)
  PROVE  IInv'
<1>1. /\ CancelAcquire(r) /\ LeaveLine /\ pc' = [pc EXCEPT ![r] = "left"]
      /\ UNCHANGED <<gone, inFlight, upstream>>
  BY DEF Drop
<1>2. SemTyped' /\ SemInv' /\ OthersOnlyGranted(r) /\ acq'[r] = "none"
  <2>1. CASE acq[r] = "taken"
    BY <2>1, <1>1, IInvFacts, SemReleaseEffect DEF CancelAcquire
  <2>2. CASE acq[r] # "taken"
    <3>1. acq[r] \in {"pending", "granted"}
      BY <2>2, IInvFacts DEF AcquireStates
    <3> QED BY <3>1, <2>2, <1>1, IInvFacts, SemCancelEffect DEF CancelAcquire
  <2> QED BY <2>1, <2>2
<1>3. "left" \in PcStates /\ "left" \notin Queued /\ "left" \notin Holding
      /\ pc[r] \notin Holding
  BY DEF PcStates, Queued, Holding, Ended
<1>4. waiting' = waiting - 1 /\ waiting > 0 /\ inFlight' = inFlight
  BY <1>1, IInvFacts DEF LeaveLine
<1>5. Occupancy' <= Capacity
  BY <1>4, IInvFacts DEF Occupancy, Capacity
<1>6. r \notin upstream
  BY IInvFacts DEF Queued
<1>7. /\ waiting' = waiting + Bit("left" \in Queued) - Bit(pc[r] \in Queued)
      /\ inFlight' = inFlight + Bit("left" \in Holding) - Bit(pc[r] \in Holding)
  BY <1>3, <1>4, IInvFacts DEF Bit
<1>8. /\ "left" \in Ended
      /\ gone \subseteq gone' /\ gone' \subseteq Requests
      /\ upstream' \subseteq upstream \cup {r} /\ r \notin upstream'
  BY <1>1, <1>6, IInvFacts DEF Ended
<1> QED BY <1>1, <1>2, <1>3, <1>5, <1>7, <1>8, MoveKeepsIInv

(* Returning the slot keeps the invariant, if the connection upstream is   *)
(* closed or its client is gone.                                           *)
LEMMA ReleaseKeepsIInv ==
  ASSUME IInv, NEW r \in Requests, pc[r] \in Holding, Release(r),
         upstream' \subseteq upstream, r \in upstream' => r \in gone
  PROVE  IInv'
<1>1. /\ inFlight' = inFlight - 1 /\ inFlight > 0
      /\ SemRelease(r) /\ pc' = [pc EXCEPT ![r] = "finished"]
      /\ UNCHANGED <<gone, waiting>>
  BY IInvFacts DEF Release
<1>2. SemTyped' /\ SemInv' /\ OthersOnlyGranted(r) /\ acq'[r] = "none"
  BY <1>1, IInvFacts, SemReleaseEffect
<1>3. "finished" \in PcStates /\ "finished" \notin Queued /\ "finished" \notin Holding
      /\ pc[r] \notin Queued
  BY DEF PcStates, Queued, Holding, Ended
<1>4. Occupancy' <= Capacity
  BY <1>1, IInvFacts DEF Occupancy, Capacity
<1>5. /\ waiting' = waiting + Bit("finished" \in Queued) - Bit(pc[r] \in Queued)
      /\ inFlight' = inFlight + Bit("finished" \in Holding) - Bit(pc[r] \in Holding)
  BY <1>1, <1>3, IInvFacts DEF Bit
<1>6. /\ "finished" \in Ended
      /\ gone \subseteq gone' /\ gone' \subseteq Requests
      /\ upstream' \subseteq upstream \cup {r}
      /\ r \in upstream' => r \in gone'
  BY <1>1, IInvFacts DEF Ended
<1> QED BY <1>1, <1>2, <1>3, <1>4, <1>5, <1>6, MoveKeepsIInv
(* A request moves without touching the counters or the semaphore. *)
LEMMA QuietMoveKeepsIInv ==
  ASSUME IInv, NEW r \in Requests, NEW p \in PcStates,
         pc' = [pc EXCEPT ![r] = p],
         UNCHANGED <<waiting, inFlight, sem>>,
         p \in Queued <=> pc[r] \in Queued,
         p \in Holding <=> pc[r] \in Holding,
         p \in {"new", "entered"} \cup Ended => acq[r] = "none",
         p \in Queued \ {"entered"} => acq[r] # "none",
         gone \subseteq gone', gone' \subseteq Requests,
         upstream' \subseteq upstream,
         r \in upstream' => \/ p \in {"upstream", "send"}
                            \/ p \in {"lostslot", "finished"} /\ r \in gone',
         p \in {"lostslot", "lostqueue"} => r \in gone'
  PROVE  IInv'
<1>1. SemTyped' /\ SemInv' /\ OthersOnlyGranted(r) /\ acq'[r] = acq[r]
  BY SemUnchanged
<1>2. p \in Holding => acq'[r] = "taken"
  BY <1>1, IInvFacts
<1>3. /\ waiting' = waiting + Bit(p \in Queued) - Bit(pc[r] \in Queued)
      /\ inFlight' = inFlight + Bit(p \in Holding) - Bit(pc[r] \in Holding)
  BY IInvFacts DEF Bit
<1>4. Occupancy' <= Capacity
  BY IInvFacts DEF Occupancy
<1> QED BY <1>1, <1>2, <1>3, <1>4, MoveKeepsIInv

LEMMA InitIInv == Init => IInv
<1> SUFFICES ASSUME Init
             PROVE  IInv
  OBVIOUS
<1> USE DEF Init
<1>1. TypeOK /\ SlotOwnership /\ WaiterAcquires /\ UpstreamPlaces
  BY LaneAssumption
  DEF TypeOK, SlotOwnership, WaiterAcquires, UpstreamPlaces, AcquireStates,
      Queued, Holding, Ended
<1>2. SemInv
  <2>1. SlotHolders = {}
    BY DEF SlotHolders
  <2>2. SlotsConserved
    BY <2>1, FS_EmptySet, LaneAssumption DEF SlotsConserved
  <2> QED BY <2>2 DEF SemInv, PendingListed, Lists, NoLostWakeup
<1>3. CountsExact
  <2>1. /\ {r \in Requests : pc[r] \in Queued} = {}
        /\ {r \in Requests : pc[r] \in Holding} = {}
    BY DEF Queued, Holding
  <2> QED BY <2>1, FS_EmptySet DEF CountsExact
<1>4. Occupancy <= Capacity
  BY LaneAssumption DEF Occupancy, Capacity
<1> QED BY <1>1, <1>2, <1>3, <1>4 DEF IInv

(* Every step of the waiting line. *)
LEMMA WaitKeepsIInv ==
  ASSUME IInv, NEW r \in Requests, Wait(r)
  PROVE  IInv'
<1>1. CASE StartBody(r)
  <2>1. /\ pc[r] = "entered" /\ SemAcquire(r) /\ pc' = [pc EXCEPT ![r] = "check"]
        /\ UNCHANGED <<gone, waiting, inFlight, upstream>>
    BY <1>1 DEF StartBody
  <2>2. SemTyped' /\ SemInv' /\ OthersOnlyGranted(r) /\ acq'[r] \in {"pending", "taken"}
    BY <2>1, IInvFacts, SemAcquireEffect
  <2>3. /\ waiting' = waiting + Bit("check" \in Queued) - Bit(pc[r] \in Queued)
        /\ inFlight' = inFlight + Bit("check" \in Holding) - Bit(pc[r] \in Holding)
        /\ Occupancy' <= Capacity
    BY <2>1, IInvFacts DEF Bit, Queued, Holding, Occupancy
  <2>4. "check" \in PcStates /\ "check" \notin Ended \cup Holding /\ r \notin upstream
    BY <2>1, IInvFacts DEF PcStates, Queued, Holding, Ended
  <2> QED BY <2>1, <2>2, <2>3, <2>4, IInvFacts, MoveKeepsIInv
<1>2. CASE PollGone(r)
  BY <1>2, DropKeepsIInv DEF PollGone, Queued
<1>3. CASE PollConnected(r)
  BY <1>3, IInvFacts, QuietMoveKeepsIInv
  DEF PollConnected, PcStates, Queued, Holding, Ended
<1>4. CASE KeepaliveTimeout(r)
  <2>1. PICK p \in {"keepalive", "check"} : pc' = [pc EXCEPT ![r] = p]
    BY <1>4 DEF KeepaliveTimeout
  <2> QED BY <1>4, <2>1, IInvFacts, QuietMoveKeepsIInv
          DEF KeepaliveTimeout, PcStates, Queued, Holding, Ended
<1>5. CASE KeepaliveSent(r)
  BY <1>5, IInvFacts, QuietMoveKeepsIInv
  DEF KeepaliveSent, PcStates, Queued, Holding, Ended
<1>6. CASE ResumeAcquire(r)
  <2>1. /\ acq[r] = "granted" /\ SemResume(r)
        /\ UNCHANGED <<pc, gone, waiting, inFlight, upstream>>
    BY <1>6 DEF ResumeAcquire
  <2>2. SemTyped' /\ SemInv' /\ OthersOnlyGranted(r) /\ acq'[r] = "taken"
    BY <2>1, IInvFacts, SemResumeEffect
  <2>3. pc[r] \notin {"new", "entered"} \cup Ended /\ pc' = [pc EXCEPT ![r] = pc[r]]
    BY <2>1, IInvFacts
  <2>4. /\ waiting' = waiting + Bit(pc[r] \in Queued) - Bit(pc[r] \in Queued)
        /\ inFlight' = inFlight + Bit(pc[r] \in Holding) - Bit(pc[r] \in Holding)
        /\ Occupancy' <= Capacity
    BY <2>1, IInvFacts DEF Bit, Occupancy
  <2> QED BY <2>1, <2>2, <2>3, <2>4, IInvFacts, MoveKeepsIInv
<1>7. CASE MarkInFlight(r)
  <2>1. /\ pc[r] \in {"wait", "keepalive"} /\ acq[r] = "taken"
        /\ inFlight' = inFlight + 1 /\ waiting' = waiting - 1
        /\ pc' = [pc EXCEPT ![r] = "upstream"]
        /\ upstream' = upstream \cup {r}
        /\ gone' = gone /\ UNCHANGED sem
    BY <1>7, IInvFacts DEF MarkInFlight, LeaveLine, Queued
  <2>2. SemTyped' /\ SemInv' /\ OthersOnlyGranted(r) /\ acq'[r] = "taken"
    BY <2>1, SemUnchanged
  <2>3. /\ waiting' = waiting + Bit("upstream" \in Queued) - Bit(pc[r] \in Queued)
        /\ inFlight' = inFlight + Bit("upstream" \in Holding) - Bit(pc[r] \in Holding)
        /\ Occupancy' <= Capacity
    BY <2>1, IInvFacts DEF Bit, Queued, Holding, Occupancy
  <2>4. "upstream" \in PcStates /\ "upstream" \notin Ended
    BY DEF PcStates, Holding, Ended
  <2> QED BY <2>1, <2>2, <2>3, <2>4, IInvFacts, MoveKeepsIInv
<1>8. CASE CancelQueued(r)
  BY <1>8, DropKeepsIInv DEF CancelQueued, Queued
<1>9. CASE AbandonQueued(r)
  BY <1>9, IInvFacts, QuietMoveKeepsIInv
  DEF AbandonQueued, PcStates, Queued, Holding, Ended
<1>10. CASE CloseQueued(r)
  BY <1>10, DropKeepsIInv DEF CloseQueued, Queued
<1> QED BY <1>1, <1>2, <1>3, <1>4, <1>5, <1>6, <1>7, <1>8, <1>9, <1>10 DEF Wait

(* Every step of a request that is upstream. *)
LEMMA ServeKeepsIInv ==
  ASSUME IInv, NEW r \in Requests, Serve(r)
  PROVE  IInv'
<1>1. CASE UpstreamEnds(r)
  BY <1>1, ReleaseKeepsIInv DEF UpstreamEnds, Holding
<1>2. CASE StreamFails(r)
  BY <1>2, IInvFacts, QuietMoveKeepsIInv
  DEF StreamFails, PcStates, Queued, Holding, Ended
<1>3. CASE ErrorSent(r)
  <2>1. pc[r] = "errsend" /\ Release(r) /\ upstream' = upstream
    BY <1>3 DEF ErrorSent
  <2>2. r \notin upstream
    BY <2>1, IInvFacts
  <2> QED BY <2>1, <2>2, ReleaseKeepsIInv DEF Holding
<1>4. CASE ForwardChunk(r)
  BY <1>4, IInvFacts, QuietMoveKeepsIInv
  DEF ForwardChunk, PcStates, Queued, Holding, Ended
<1>5. CASE ChunkSent(r)
  BY <1>5, IInvFacts, QuietMoveKeepsIInv
  DEF ChunkSent, PcStates, Queued, Holding, Ended
<1>6. CASE BreakOnChunk(r)
  BY <1>6, ReleaseKeepsIInv DEF BreakOnChunk, Holding
<1>7. CASE CancelProxy(r)
  BY <1>7, ReleaseKeepsIInv DEF CancelProxy, Holding
<1>8. CASE AbandonHolding(r)
  BY <1>8, IInvFacts, QuietMoveKeepsIInv
  DEF AbandonHolding, PcStates, Queued, Holding, Ended
<1>9. CASE CloseHolding(r)
  <2>1. pc[r] = "lostslot" /\ Release(r) /\ upstream' = upstream
    BY <1>9 DEF CloseHolding
  <2> QED BY <2>1, IInvFacts, ReleaseKeepsIInv DEF Holding
<1>10. CASE CloseOrphan(r)
  <2>1. pc' = [pc EXCEPT ![r] = "finished"]
    BY <1>10, IInvFacts DEF CloseOrphan
  <2> QED BY <1>10, <2>1, IInvFacts, QuietMoveKeepsIInv
          DEF CloseOrphan, PcStates, Queued, Holding, Ended
<1> QED BY <1>1, <1>2, <1>3, <1>4, <1>5, <1>6, <1>7, <1>8, <1>9, <1>10 DEF Serve

(* Admission and its refusal. *)
LEMMA AdmitKeepsIInv ==
  ASSUME IInv, NEW r \in Requests, Admit(r)
  PROVE  IInv'
<1>1. CASE Refuse(r)
  BY <1>1, IInvFacts, QuietMoveKeepsIInv
  DEF Refuse, PcStates, Queued, Holding, Ended
<1>2. ASSUME NEW p \in {"check", "entered"}, pc[r] = "new", ~LineFull,
             pc' = [pc EXCEPT ![r] = p], waiting' = waiting + 1,
             UNCHANGED <<gone, inFlight, upstream>>
      PROVE  /\ p \in PcStates /\ p \notin Holding \cup Ended
             /\ waiting' = waiting + Bit(p \in Queued) - Bit(pc[r] \in Queued)
             /\ inFlight' = inFlight + Bit(p \in Holding) - Bit(pc[r] \in Holding)
             /\ Occupancy' <= Capacity
             /\ gone' = gone /\ upstream' = upstream /\ r \notin upstream
  <2>1. Occupancy < Capacity
    BY <1>2, IInvFacts DEF LineFull, Occupancy, Capacity
  <2> QED BY <1>2, <2>1, IInvFacts
          DEF Bit, PcStates, Queued, Holding, Ended, Occupancy, Capacity
<1>3. CASE AdmitBlocking(r)
  <2>1. /\ pc[r] = "new" /\ ~LineFull /\ SemAcquire(r)
        /\ pc' = [pc EXCEPT ![r] = "check"] /\ waiting' = waiting + 1
        /\ UNCHANGED <<gone, inFlight, upstream>>
    BY <1>3 DEF AdmitBlocking
  <2>2. SemTyped' /\ SemInv' /\ OthersOnlyGranted(r) /\ acq'[r] \in {"pending", "taken"}
    BY <2>1, IInvFacts, SemAcquireEffect
  <2> QED BY <2>1, <2>2, <1>2, IInvFacts, MoveKeepsIInv
<1>4. CASE AdmitStreaming(r)
  <2>1. /\ pc[r] = "new" /\ ~LineFull /\ UNCHANGED sem
        /\ pc' = [pc EXCEPT ![r] = "entered"] /\ waiting' = waiting + 1
        /\ UNCHANGED <<gone, inFlight, upstream>>
    BY <1>4 DEF AdmitStreaming
  <2>2. SemTyped' /\ SemInv' /\ OthersOnlyGranted(r) /\ acq'[r] = "none"
    BY <2>1, IInvFacts, SemUnchanged
  <2> QED BY <2>1, <2>2, <1>2, IInvFacts, MoveKeepsIInv
<1> QED BY <1>1, <1>3, <1>4 DEF Admit

LEMMA DisconnectKeepsIInv ==
  ASSUME IInv, NEW r \in Requests, Disconnect(r)
  PROVE  IInv'
<1>1. pc' = [pc EXCEPT ![r] = pc[r]]
  BY IInvFacts DEF Disconnect
<1> QED BY <1>1, IInvFacts, QuietMoveKeepsIInv DEF Disconnect, Queued

LEMMA StutterKeepsIInv == IInv /\ UNCHANGED vars => IInv'
BY DEF vars, IInv, TypeOK, SemInv, PendingListed, Lists, SlotsConserved,
       SlotHolders, NoLostWakeup, SlotOwnership, WaiterAcquires, CountsExact,
       Occupancy, Capacity, UpstreamPlaces

(* The inductive invariant of the lane. *)
THEOREM LaneInvariant == Spec => []IInv
<1>1. IInv /\ [Next]_vars => IInv'
  <2> SUFFICES ASSUME IInv, Next
               PROVE  IInv'
    BY StutterKeepsIInv
  <2> QED BY AdmitKeepsIInv, WaitKeepsIInv, ServeKeepsIInv, DisconnectKeepsIInv DEF Next
<1> QED BY InitIInv, <1>1, PTL DEF Spec
-----------------------------------------------------------------------------
(* What the invariant says. *)

(* Every variable of the lane keeps its type. *)
THEOREM LaneTyped == Spec => []TypeOK
<1>1. IInv => TypeOK
  BY DEF IInv
<1> QED BY <1>1, LaneInvariant, PTL

(* No path through the handlers loses a slot of the semaphore or makes one. *)
THEOREM LaneSlotsConserved == Spec => []SlotsConserved
<1>1. IInv => SlotsConserved
  BY DEF IInv, SemInv
<1> QED BY <1>1, LaneInvariant, PTL

(* The counters that decide on a 429 count every admitted request once. *)
THEOREM LaneCountsExact == Spec => []CountsExact
<1>1. IInv => CountsExact
  BY DEF IInv
<1> QED BY <1>1, LaneInvariant, PTL

(* A free slot never sits beside a waiter that nobody is about to wake. *)
THEOREM LaneNoLostWakeup == Spec => []NoLostWakeup
<1>1. IInv => NoLostWakeup
  BY DEF IInv, SemInv
<1> QED BY <1>1, LaneInvariant, PTL

(* Who is outside the line owns no slot; who is in flight owns one. *)
THEOREM LaneSlotOwnership == Spec => []SlotOwnership
<1>1. IInv => SlotOwnership
  BY DEF IInv
<1> QED BY <1>1, LaneInvariant, PTL

LEMMA BoundedByIInv == IInv => LaneBounded
<1> SUFFICES ASSUME IInv
             PROVE  LaneBounded
  OBVIOUS
<1> DEFINE H == {r \in Requests : pc[r] \in Holding}
<1>1. H \subseteq SlotHolders
  BY DEF IInv, SlotOwnership, SlotHolders
<1>2. IsFiniteSet(SlotHolders) /\ Cardinality(SlotHolders) \in Nat
  BY LaneAssumption, FS_Subset, FS_CardinalityType DEF SlotHolders
<1>3. Cardinality(H) <= Cardinality(SlotHolders)
  BY <1>1, <1>2, FS_Subset
<1>4. inFlight = Cardinality(H)
  BY DEF IInv, CountsExact
<1>5. value + Cardinality(SlotHolders) = InflightLimit /\ value \in Nat /\ inFlight \in Nat
  BY DEF IInv, SemInv, SlotsConserved, TypeOK
<1> HIDE DEF H
<1>6. inFlight <= InflightLimit
  BY <1>2, <1>3, <1>4, <1>5, LaneAssumption
<1> QED BY <1>6 DEF LaneBounded, IInv

(* Never more than InflightLimit requests are in flight, and never more    *)
(* than MaxWaiters others are counted besides.                             *)
THEOREM LaneIsBounded == Spec => []LaneBounded
BY BoundedByIInv, LaneInvariant, PTL

(* Clients that are still there never have more completions open at the    *)
(* orchestrator than the lane has slots.                                   *)
THEOREM LaneConnectedWork == Spec => []ConnectedWorkBounded
<1>1. ASSUME IInv
      PROVE  ConnectedWorkBounded
  <2> DEFINE H == {r \in Requests : pc[r] \in Holding}
  <2>1. upstream \ gone \subseteq H
    BY <1>1 DEF IInv, TypeOK, UpstreamPlaces, Holding
  <2>2. IsFiniteSet(H)
    BY LaneAssumption, FS_Subset
  <2>3. /\ Cardinality(upstream \ gone) <= Cardinality(H)
        /\ Cardinality(upstream \ gone) \in Nat /\ Cardinality(H) \in Nat
    BY <2>1, <2>2, FS_Subset, FS_CardinalityType
  <2>4. Cardinality(H) = inFlight
    BY <1>1 DEF IInv, CountsExact
  <2>5. inFlight <= InflightLimit
    BY <1>1, BoundedByIInv DEF LaneBounded
  <2> HIDE DEF H
  <2> QED BY <2>3, <2>4, <2>5, LaneAssumption DEF ConnectedWorkBounded
<1> QED BY <1>1, LaneInvariant, PTL

-----------------------------------------------------------------------------
(* The order of the waiters. *)

(* In b, the waiters of q that still wait are behind nobody in q2 they     *)
(* were ahead of in q, unless the other one has left.                      *)
OrderKept(q, b, q2) ==
  \A i, j \in 1..Len(q) :
    i < j /\ b[q[i]] = "pending" =>
      \/ b[q[j]] = "none"
      \/ \E k, l \in 1..Len(q2) : k < l /\ q2[k] = q[i] /\ q2[l] = q[j]

LEMMA WakeKeepsOrder ==
  ASSUME NEW n, NEW v, NEW q \in Seq(Requests), NEW a, Wake(n, v, q, a)
  PROVE  \A i, j \in 1..Len(q) :
           i < j /\ acq'[q[i]] = "pending" =>
             \E k, l \in 1..Len(pending') :
               k < l /\ pending'[k] = q[i] /\ pending'[l] = q[j]
<1>1. PICK m \in 0..Len(q) :
        /\ pending' = SubSeq(q, m + 1, Len(q))
        /\ acq' = [r \in Requests |->
                     IF \E i \in 1..m : q[i] = r THEN "granted" ELSE a[r]]
  BY DEF Wake
<1>2. /\ Len(pending') = Len(q) - m
      /\ \A i \in 1..(Len(q) - m) : pending'[i] = q[m + i]
  BY <1>1, SubSeqProperties
<1> SUFFICES ASSUME NEW i \in 1..Len(q), NEW j \in 1..Len(q),
                    i < j, acq'[q[i]] = "pending"
             PROVE  \E k, l \in 1..Len(pending') :
                      k < l /\ pending'[k] = q[i] /\ pending'[l] = q[j]
  OBVIOUS
<1>3. q[i] \in Requests
  BY ElementOfSeq
<1>4. i > m
  BY <1>1, <1>3
<1>5. /\ i - m \in 1..Len(pending') /\ j - m \in 1..Len(pending') /\ i - m < j - m
      /\ pending'[i - m] = q[i] /\ pending'[j - m] = q[j]
  BY <1>2, <1>4
<1> QED BY <1>5

LEMMA AcquireKeepsOrder ==
  ASSUME SemTyped, NEW r \in Requests, SemAcquire(r)
  PROVE  OrderKept(pending, acq', pending')
<1>1. /\ Len(pending') >= Len(pending) /\ Len(pending) \in Nat /\ Len(pending') \in Nat
      /\ \A i \in 1..Len(pending) : pending'[i] = pending[i]
  BY AppendProperties, LenProperties DEF SemAcquire, SemTyped
<1> QED BY <1>1 DEF OrderKept

LEMMA CancelKeepsOrder ==
  ASSUME SemTyped, SemInv, NEW r \in Requests,
         acq[r] \in {"pending", "granted"}, SemCancel(r)
  PROVE  OrderKept(pending, acq', pending')
<1>1. pending \in Seq(Requests) /\ acq'[r] = "none"
  BY SemCancelEffect DEF SemTyped
<1>2. CASE acq[r] = "granted"
  <2>1. Wake(value + 1, value + 1, pending, [acq EXCEPT ![r] = "none"])
    BY <1>2 DEF SemCancel
  <2> QED BY <1>1, <2>1, WakeKeepsOrder DEF OrderKept
<1>3. CASE acq[r] = "pending"
  <2>1. PICK m \in 1..Len(pending) :
          /\ pending[m] = r
          /\ Wake(value, value, RemoveAt(pending, m), [acq EXCEPT ![r] = "none"])
    BY <1>3 DEF SemCancel
  <2> DEFINE q == RemoveAt(pending, m)
  <2>2. /\ q \in Seq(Requests) /\ Len(q) = Len(pending) - 1
        /\ \A i \in 1..(Len(pending) - 1) :
             q[i] = IF i < m THEN pending[i] ELSE pending[i + 1]
    BY <1>1, RemoveAtEffect
  <2>3. \A i, j \in 1..Len(q) :
          i < j /\ acq'[q[i]] = "pending" =>
            \E k, l \in 1..Len(pending') :
              k < l /\ pending'[k] = q[i] /\ pending'[l] = q[j]
    BY <2>1, <2>2, WakeKeepsOrder
  <2> HIDE DEF q
  <2> SUFFICES ASSUME NEW i \in 1..Len(pending), NEW j \in 1..Len(pending), i < j,
                      acq'[pending[i]] = "pending", acq'[pending[j]] # "none"
               PROVE  \E k, l \in 1..Len(pending') :
                        /\ k < l /\ pending'[k] = pending[i]
                        /\ pending'[l] = pending[j]
    BY DEF OrderKept
  <2>4. i # m /\ j # m
    BY <2>1, <1>1
  <2> DEFINE place(x) == IF x < m THEN x ELSE x - 1
  <2>5. Len(pending) \in Nat /\ m \in Int /\ i \in Int /\ j \in Int
    BY <1>1, LenProperties
  <2>6. ASSUME NEW x \in 1..Len(pending), x # m
        PROVE  place(x) \in 1..Len(q) /\ q[place(x)] = pending[x]
    <3>1. CASE x < m
      BY <3>1, <2>2, <2>5
    <3>2. CASE x > m
      <4>1. x - 1 \in 1..(Len(pending) - 1) /\ ~(x - 1 < m) /\ (x - 1) + 1 = x
        BY <3>2, <2>5
      <4>2. q[x - 1] = pending[(x - 1) + 1]
        BY <4>1, <2>2
      <4> QED BY <4>1, <4>2, <3>2, <2>2, <2>5
    <3> QED BY <3>1, <3>2, <2>6, <2>5
  <2>7. place(i) < place(j)
    BY <2>4, <2>5
  <2>8. /\ place(i) \in 1..Len(q) /\ q[place(i)] = pending[i]
        /\ place(j) \in 1..Len(q) /\ q[place(j)] = pending[j]
    BY <2>4, <2>6
  <2> HIDE DEF place
  <2> QED BY <2>3, <2>7, <2>8
<1> QED BY <1>2, <1>3

(* The waiters keep their order: no keepalive, poll or departure sends a   *)
(* waiter behind a later one, and nobody is granted a slot before him.     *)
THEOREM LaneKeepsPlace == Spec => KeepsPlace
<1>1. ASSUME IInv, Next
      PROVE  KeepsPlaceStep
  <2>1. PICK r \in Requests : Admit(r) \/ Wait(r) \/ Serve(r) \/ Disconnect(r)
    BY <1>1 DEF Next
  <2>2. SemTyped /\ SemInv /\ pending \in Seq(Requests)
    BY <1>1, <2>1, IInvFacts DEF SemTyped
  <2>3. CASE SemAcquire(r)
    BY <2>2, <2>3, AcquireKeepsOrder DEF OrderKept, KeepsPlaceStep
  <2>4. CASE SemRelease(r)
    BY <2>2, <2>4, WakeKeepsOrder DEF SemRelease, KeepsPlaceStep
  <2>5. CASE SemResume(r)
    BY <2>2, <2>5, WakeKeepsOrder DEF SemResume, KeepsPlaceStep
  <2>6. CASE acq[r] \in {"pending", "granted"} /\ SemCancel(r)
    BY <2>2, <2>6, CancelKeepsOrder DEF OrderKept, KeepsPlaceStep
  <2>7. CASE UNCHANGED sem
    BY <2>2, <2>7, LenProperties DEF sem, KeepsPlaceStep
  <2>8. CASE Drop(r) /\ pc[r] \in Queued \ {"entered"}
    <3>1. \/ SemRelease(r)
          \/ acq[r] \in {"pending", "granted"} /\ SemCancel(r)
      BY <1>1, <2>8, IInvFacts DEF Drop, CancelAcquire, AcquireStates
    <3> QED BY <3>1, <2>4, <2>6
  <2>9. CASE Release(r)
    BY <2>9, <2>4 DEF Release
  <2>10. CASE Admit(r)
    BY <2>10, <2>3, <2>7 DEF Admit, Refuse, AdmitBlocking, AdmitStreaming
  <2>11. CASE Wait(r)
    BY <2>11, <2>3, <2>5, <2>7, <2>8
    DEF Wait, StartBody, PollGone, PollConnected, KeepaliveTimeout, KeepaliveSent,
        ResumeAcquire, MarkInFlight, CancelQueued, AbandonQueued, CloseQueued, Queued
  <2>12. CASE Serve(r)
    BY <2>12, <2>7, <2>9
    DEF Serve, UpstreamEnds, StreamFails, ErrorSent, ForwardChunk, ChunkSent,
        BreakOnChunk, CancelProxy, AbandonHolding, CloseHolding, CloseOrphan
  <2>13. CASE Disconnect(r)
    BY <2>13, <2>7 DEF Disconnect
  <2> QED BY <2>1, <2>10, <2>11, <2>12, <2>13
<1> QED BY <1>1, LaneInvariant, PTL DEF Spec, KeepsPlace
-----------------------------------------------------------------------------
(* The lane implements BoundedLine. *)

Seen == [r \in Requests |-> Outcome(pc[r])]

LEMMA OutcomeOf ==
  ASSUME NEW p \in PcStates
  PROVE  /\ Outcome(p) = "outside" <=> p = "new"
         /\ Outcome(p) = "refused" <=> p = "refused"
         /\ Outcome(p) = "queued" <=> p \in Queued
         /\ Outcome(p) = "serving" <=> p \in Holding
         /\ Outcome(p) = "left" <=> p = "left"
         /\ Outcome(p) = "served" <=> p = "finished"
BY DEF Outcome, PcStates, Queued, Holding, Ended

(* Both modules count with the same operator. *)
LEMMA SameCardinality == \A S : Line!Cardinality(S) = Cardinality(S)
BY DEF Line!Cardinality, Cardinality

(* The abstract counts are the counters of the lane. *)
LEMMA SeenCounts ==
  ASSUME IInv
  PROVE  /\ Line!Cardinality(Line!In("queued")) = waiting
         /\ Line!Cardinality(Line!In("serving")) = inFlight
         /\ Line!Full <=> LineFull
<1>1. \A r \in Requests : pc[r] \in PcStates
  BY DEF IInv, TypeOK, PcStates
<1>2. /\ Line!In("queued") = {r \in Requests : pc[r] \in Queued}
      /\ Line!In("serving") = {r \in Requests : pc[r] \in Holding}
  BY <1>1, OutcomeOf DEF Line!In
<1>3. /\ Line!Cardinality(Line!In("queued")) = waiting
      /\ Line!Cardinality(Line!In("serving")) = inFlight
  BY <1>2, SameCardinality DEF IInv, CountsExact
<1> QED BY <1>3 DEF Line!Full, LineFull, Occupancy, Capacity

(* A move of one request is a move of its outcome. *)
LEMMA SeenMove ==
  ASSUME IInv, NEW r \in Requests, NEW p \in PcStates, pc' = [pc EXCEPT ![r] = p]
  PROVE  Seen' = [Seen EXCEPT ![r] = Outcome(p)] /\ Seen[r] = Outcome(pc[r])
BY DEF Seen, IInv, TypeOK

LEMMA StepImplementsLine ==
  ASSUME IInv, Next
  PROVE  Line!Next \/ UNCHANGED Seen
<1>1. PICK r \in Requests : Admit(r) \/ Wait(r) \/ Serve(r) \/ Disconnect(r)
  BY DEF Next
<1>2. pc[r] \in PcStates /\ inFlight \in Nat /\ waiting \in Nat
  BY <1>1, IInvFacts
<1>3. ASSUME NEW p \in PcStates, pc' = [pc EXCEPT ![r] = p],
             Outcome(p) = Outcome(pc[r])
      PROVE  UNCHANGED Seen
  BY <1>2, <1>3, SeenMove DEF Seen
<1>4. ASSUME NEW p \in PcStates, pc' = [pc EXCEPT ![r] = p],
             NEW from, NEW to, Outcome(pc[r]) = from, Outcome(p) = to
      PROVE  Line!Move(r, from, to)
  BY <1>4, SeenMove DEF Line!Move, Seen
<1>5. CASE Refuse(r)
  <2>1. LineFull /\ pc[r] = "new" /\ pc' = [pc EXCEPT ![r] = "refused"]
    BY <1>5 DEF Refuse
  <2>2. Line!Move(r, "outside", "refused")
    <3>1. "refused" \in PcStates /\ Outcome("refused") = "refused"
      BY OutcomeOf DEF PcStates, Ended
    <3>2. Outcome(pc[r]) = "outside"
      BY <2>1, <1>2, OutcomeOf
    <3> QED BY <2>1, <3>1, <3>2, <1>4
  <2> QED BY <2>1, <2>2, SeenCounts DEF Line!Next, Line!Refuse
<1>6. CASE AdmitBlocking(r) \/ AdmitStreaming(r)
  <2>1. PICK p \in {"check", "entered"} : pc' = [pc EXCEPT ![r] = p]
    BY <1>6 DEF AdmitBlocking, AdmitStreaming
  <2>2. ~LineFull /\ pc[r] = "new"
    BY <1>6 DEF AdmitBlocking, AdmitStreaming
  <2>3. Line!Move(r, "outside", "queued")
    <3>1. p \in PcStates /\ Outcome(p) = "queued"
      BY OutcomeOf DEF PcStates, Queued
    <3>2. Outcome(pc[r]) = "outside"
      BY <2>2, <1>2, OutcomeOf
    <3> QED BY <2>1, <3>1, <3>2, <1>4
  <2> QED BY <2>2, <2>3, SeenCounts DEF Line!Next, Line!Enter
<1>7. CASE MarkInFlight(r)
  <2>1. /\ pc[r] \in {"wait", "keepalive"} /\ inFlight' = inFlight + 1
        /\ pc' = [pc EXCEPT ![r] = "upstream"]
    BY <1>7 DEF MarkInFlight
  <2>2. IInv'
    BY <1>7, WaitKeepsIInv DEF Wait
  <2>3. inFlight' <= InflightLimit
    <3>1. (IInv => LaneBounded)'
      BY BoundedByIInv, PTL
    <3> QED BY <2>2, <3>1 DEF LaneBounded
  <2>4. Line!Cardinality(Line!In("serving")) < InflightLimit
    BY <2>1, <2>3, <1>2, SeenCounts, LaneAssumption
  <2>5. Line!Move(r, "queued", "serving")
    <3>1. "upstream" \in PcStates /\ Outcome("upstream") = "serving"
      BY OutcomeOf DEF PcStates, Holding
    <3>2. Outcome(pc[r]) = "queued"
      BY <2>1, <1>2, OutcomeOf DEF Queued
    <3> QED BY <2>1, <3>1, <3>2, <1>4
  <2> QED BY <2>4, <2>5 DEF Line!Next, Line!Start
<1>8. CASE Drop(r) /\ pc[r] \in Queued
  <2>1. pc' = [pc EXCEPT ![r] = "left"]
    BY <1>8 DEF Drop
  <2>2. Line!Move(r, "queued", "left")
    <3>1. "left" \in PcStates /\ Outcome("left") = "left"
      BY OutcomeOf DEF PcStates, Ended
    <3>2. Outcome(pc[r]) = "queued"
      BY <1>8, <1>2, OutcomeOf
    <3> QED BY <2>1, <3>1, <3>2, <1>4
  <2> QED BY <2>2 DEF Line!Next, Line!Leave
<1>9. CASE Release(r) /\ pc[r] \in Holding
  <2>1. pc' = [pc EXCEPT ![r] = "finished"]
    BY <1>9 DEF Release
  <2>2. Line!Move(r, "serving", "served")
    <3>1. "finished" \in PcStates /\ Outcome("finished") = "served"
      BY OutcomeOf DEF PcStates, Ended
    <3>2. Outcome(pc[r]) = "serving"
      BY <1>9, <1>2, OutcomeOf
    <3> QED BY <2>1, <3>1, <3>2, <1>4
  <2> QED BY <2>2 DEF Line!Next, Line!Finish
<1>10. ASSUME NEW p \in PcStates, pc' = [pc EXCEPT ![r] = p],
              \/ p \in Queued /\ pc[r] \in Queued
              \/ p \in Holding /\ pc[r] \in Holding
       PROVE  UNCHANGED Seen
  BY <1>2, <1>3, <1>10, OutcomeOf
<1>11. CASE UNCHANGED pc
  BY <1>11 DEF Seen
<1>12. CASE Wait(r)
  <2>1. CASE StartBody(r) \/ PollConnected(r) \/ KeepaliveTimeout(r)
             \/ KeepaliveSent(r) \/ AbandonQueued(r)
    <3>1. PICK p \in {"check", "wait", "keepalive", "lostqueue"} :
            pc' = [pc EXCEPT ![r] = p]
      BY <2>1 DEF StartBody, PollConnected, KeepaliveTimeout, KeepaliveSent, AbandonQueued
    <3>2. pc[r] \in Queued
      BY <2>1 DEF StartBody, PollConnected, KeepaliveTimeout, KeepaliveSent,
                  AbandonQueued, Queued
    <3> QED BY <3>1, <3>2, <1>10 DEF PcStates, Queued
  <2>2. CASE PollGone(r) \/ CancelQueued(r) \/ CloseQueued(r)
    BY <2>2, <1>8 DEF PollGone, CancelQueued, CloseQueued, Queued
  <2>3. CASE ResumeAcquire(r)
    BY <2>3, <1>11 DEF ResumeAcquire
  <2> QED BY <1>12, <1>7, <2>1, <2>2, <2>3 DEF Wait
<1>13. CASE Serve(r)
  <2>1. CASE StreamFails(r) \/ ForwardChunk(r) \/ ChunkSent(r) \/ AbandonHolding(r)
    <3>1. PICK p \in Holding : pc' = [pc EXCEPT ![r] = p]
      BY <2>1 DEF StreamFails, ForwardChunk, ChunkSent, AbandonHolding, Holding
    <3>2. pc[r] \in Holding
      BY <2>1 DEF StreamFails, ForwardChunk, ChunkSent, AbandonHolding, Holding
    <3> QED BY <3>1, <3>2, <1>10 DEF PcStates
  <2>2. CASE UpstreamEnds(r) \/ ErrorSent(r) \/ BreakOnChunk(r) \/ CancelProxy(r)
             \/ CloseHolding(r)
    BY <2>2, <1>9
    DEF UpstreamEnds, ErrorSent, BreakOnChunk, CancelProxy, CloseHolding, Holding
  <2>3. CASE CloseOrphan(r)
    BY <2>3, <1>11 DEF CloseOrphan
  <2> QED BY <1>13, <2>1, <2>2, <2>3 DEF Serve
<1> QED BY <1>1, <1>5, <1>6, <1>11, <1>12, <1>13 DEF Admit, Disconnect

(* Every behaviour of the lane is, seen from outside, one of a bounded     *)
(* line: it refuses exactly when it is full and serves at most             *)
(* InflightLimit requests at a time.                                       *)
THEOREM LaneImplementsLine == Spec => ImplementsLine
<1>1. Init => Line!Init
  BY OutcomeOf DEF Init, Line!Init, PcStates, Outcome
<1>2. IInv /\ [Next]_vars => [Line!Next]_Seen
  <2>1. UNCHANGED vars => UNCHANGED Seen
    BY DEF vars, Seen
  <2> QED BY <2>1, StepImplementsLine
<1>3. IInv /\ [Next]_vars => [Line!Next]_([r \in Requests |-> Outcome(pc[r])])
  BY <1>2 DEF Seen
<1> QED BY <1>1, <1>3, LaneInvariant, PTL DEF Spec, ImplementsLine, Line!Spec
=============================================================================
