---------------------------- MODULE GatewayProofs ----------------------------
(***************************************************************************)
(* Proofs about Gateway, for any finite sets of requests, any settings and *)
(* any number of connections.                                              *)
(***************************************************************************)
EXTENDS Gateway, SetLemmas

Waiting == {"queued"} \cup Serving

LineBounded(a) ==
  /\ Cardinality(In(a, Serving)) <= Limit(a)
  /\ Occupancy(a) <= Capacity(a)

(* The bounds of each line are inductive together: a slot is taken only by *)
(* a request that has a place already.                                     *)
GInv ==
  /\ TypeOK
  /\ \A a \in Aliases : LineBounded(a)
  /\ ConnectionsOwned

(* The last group of an alias is its setting. *)
LEMMA SettingIsLast ==
  ASSUME NEW i \in 1..Len(Groups),
         \A j \in i+1..Len(Groups) : Groups[j].alias # Groups[i].alias
  PROVE  Setting(Groups[i].alias) = Groups[i]
<1> DEFINE same == {j \in 1..Len(Groups) : Groups[j].alias = Groups[i].alias}
<1>1. Len(Groups) \in Nat
  BY GatewayAssumption
<1>2. i \in same /\ \A j \in same : j \in Int /\ i >= j
  <2>1. ASSUME NEW j \in same PROVE j \in Int /\ i >= j
    <3>1. j \in 1..Len(Groups) /\ j \notin i+1..Len(Groups)
      OBVIOUS
    <3> QED BY <3>1, <1>1
  <2> QED BY <2>1
<1>3. \A j \in same : (\A k \in same : j >= k) => j = i
  <2>1. ASSUME NEW j \in same, j >= i PROVE j = i
    <3>1. i >= j /\ j \in Int /\ i \in Int
      BY <1>1, <1>2
    <3> QED BY <2>1, <3>1
  <2> QED BY <1>2, <2>1
<1>4. Max(same) = i
  BY <1>2, <1>3 DEF Max
<1> QED BY <1>4 DEF Setting

(* Each alias has a setting, with a natural limit. *)
LEMMA LimitTyped ==
  ASSUME NEW a \in Aliases
  PROVE  Limit(a) \in Nat
<1> DEFINE same == {j \in 1..Len(Groups) : Groups[j].alias = a}
<1>1. Len(Groups) \in Nat
  BY GatewayAssumption
<1>2. same # {} /\ same \in SUBSET (1..Len(Groups))
  BY DEF Aliases
<1>3. Max(same) \in same
  BY <1>1, <1>2, MaxOfIndices
<1> QED BY <1>3, GatewayAssumption DEF Limit, Setting

LEMMA InFinite ==
  ASSUME NEW a, NEW places
  PROVE  IsFiniteSet(In(a, places)) /\ Cardinality(In(a, places)) \in Nat
<1>1. In(a, places) \subseteq Completions
  BY DEF In, For
<1> QED BY <1>1, FS_Subset, FS_CardinalityType, GatewayAssumption

(* A request that moves within a set of places or out of it. *)
LEMMA KeepsCount ==
  ASSUME TypeOK, NEW r \in Requests, NEW to, pc' = [pc EXCEPT ![r] = to],
         NEW a, NEW places,
         to \in places => pc[r] \in places \/ r \notin For(a)
  PROVE  Cardinality(In(a, places)') <= Cardinality(In(a, places))
<1>1. In(a, places)' \subseteq In(a, places)
  BY DEF In, For, TypeOK, Requests
<1> QED BY <1>1, InFinite, FS_Subset

(* A request that moves into it. *)
LEMMA GrowsByOne ==
  ASSUME TypeOK, NEW r \in Requests, NEW to, pc' = [pc EXCEPT ![r] = to],
         NEW a, NEW places
  PROVE  Cardinality(In(a, places)') <= Cardinality(In(a, places)) + 1
<1>1. In(a, places)' \subseteq In(a, places) \cup {r}
  BY DEF In, For, TypeOK, Requests
<1>2. IsFiniteSet(In(a, places))
  BY InFinite
<1>3. /\ IsFiniteSet(In(a, places) \cup {r})
      /\ Cardinality(In(a, places) \cup {r}) <= Cardinality(In(a, places)) + 1
  BY <1>2, AddOne
<1>4. /\ Cardinality(In(a, places)') <= Cardinality(In(a, places) \cup {r})
      /\ Cardinality(In(a, places)') \in Nat
      /\ Cardinality(In(a, places) \cup {r}) \in Nat
  BY <1>1, <1>3, SubsetCount
<1> QED BY <1>3, <1>4, InFinite
-----------------------------------------------------------------------------
(* The steps. *)

Places ==
  {"new", "queued"} \cup Serving \cup Listing \cup Ended \cup ListEnded

LEMMA InitInvariant == Init => GInv
<1> SUFFICES ASSUME Init PROVE GInv
  OBVIOUS
<1>1. TypeOK
  BY DEF Init, TypeOK, Requests
<1>2. ASSUME NEW a \in Aliases PROVE LineBounded(a)
  <2>1. In(a, Serving) = {} /\ In(a, {"queued"} \cup Serving) = {}
    BY DEF Init, In, For, Serving, Requests
  <2>2. Cardinality(In(a, Serving)) = 0 /\ Occupancy(a) = 0
    BY <2>1, FS_EmptySet DEF Occupancy
  <2>3. Limit(a) \in Nat /\ MaxWaiters \in Nat
    BY LimitTyped, GatewayAssumption
  <2> QED BY <2>2, <2>3 DEF LineBounded, Capacity
<1>3. ConnectionsOwned
  BY FS_EmptySet, GatewayAssumption DEF Init, ConnectionsOwned
<1> QED BY <1>1, <1>2, <1>3 DEF GInv

(* What the actions have in common: one request moves, into a place of its *)
(* kind; it comes into a line only where there is room, and is served only *)
(* where a slot is free.                                                   *)
Advances(r, to) ==
  /\ pc' = [pc EXCEPT ![r] = to]
  /\ to \in IF r \in Completions THEN Waiting \cup Ended
                                 ELSE Listing \cup ListEnded
  /\ to \in Waiting => pc[r] \in Waiting \/ ~Full(Model[r])
  /\ to \in Serving => pc[r] \in Serving \/ (pc[r] = "queued" /\ SlotFree(Model[r]))

(* Its connection: given back, not had, left to a generator, or taken.     *)
Holds(r, to) ==
  \/ conns' = conns \ {r}
  \/ conns' = conns /\ pc[r] \notin {"upstream", "rig1", "rig2", "served"}
  \/ conns' = conns /\ r \in Streaming /\ to = "served"
  \/ /\ conns' = conns \cup {r} /\ Cardinality(conns) < MaxConnections
     /\ to \in {"upstream", "rig1", "rig2"}

LEMMA LinesKept ==
  ASSUME GInv, NEW r \in Requests, NEW to, Advances(r, to), NEW a \in Aliases
  PROVE  LineBounded(a)'
<1>1. TypeOK /\ LineBounded(a) /\ Limit(a) \in Nat /\ Capacity(a) \in Nat
  <2>1. Limit(a) \in Nat
    BY LimitTyped
  <2> QED BY <2>1, GatewayAssumption DEF GInv, Capacity
<1>2. /\ Cardinality(In(a, Serving)) \in Nat /\ Cardinality(In(a, Serving)') \in Nat
      /\ Occupancy(a) \in Nat /\ Occupancy(a)' \in Nat
  <2>1. \A S : In(a, S)' \subseteq Completions
    BY DEF In, For
  <2>2. \A S : Cardinality(In(a, S)') \in Nat
    BY <2>1, FS_Subset, FS_CardinalityType, GatewayAssumption
  <2> QED BY <2>2, InFinite DEF Occupancy
<1>3. Cardinality(In(a, Serving)') <= Limit(a)
  <2>1. CASE to \in Serving => pc[r] \in Serving \/ r \notin For(a)
    <3>1. Cardinality(In(a, Serving)') <= Cardinality(In(a, Serving))
      BY <1>1, <2>1, KeepsCount DEF Advances
    <3> QED BY <1>1, <1>2, <3>1 DEF LineBounded
  <2>2. CASE to \in Serving /\ r \in For(a) /\ SlotFree(Model[r])
    <3>1. Cardinality(In(a, Serving)') <= Cardinality(In(a, Serving)) + 1
      BY <1>1, GrowsByOne DEF Advances
    <3>2. Cardinality(In(a, Serving)) < Limit(a)
      BY <2>2 DEF SlotFree, For
    <3> QED BY <1>1, <1>2, <3>1, <3>2
  <2> QED BY <2>1, <2>2 DEF Advances
<1>4. Occupancy(a)' <= Capacity(a)
  <2>1. CASE to \in Waiting => pc[r] \in Waiting \/ r \notin For(a)
    <3>1. Occupancy(a)' <= Occupancy(a)
      BY <1>1, <2>1, KeepsCount DEF Advances, Occupancy, Waiting
    <3> QED BY <1>1, <1>2, <3>1 DEF LineBounded
  <2>2. CASE to \in Waiting /\ r \in For(a) /\ ~Full(Model[r])
    <3>1. Occupancy(a)' <= Occupancy(a) + 1
      BY <1>1, GrowsByOne DEF Advances, Occupancy
    <3>2. ~ (Occupancy(a) >= Capacity(a))
      BY <2>2 DEF Full, For
    <3> QED BY <1>1, <1>2, <3>1, <3>2
  <2> QED BY <2>1, <2>2 DEF Advances
<1> QED BY <1>3, <1>4 DEF LineBounded, Capacity, Limit

LEMMA OwnersKept ==
  ASSUME GInv, NEW r \in Requests, NEW to, Advances(r, to), Holds(r, to)
  PROVE  ConnectionsOwned' /\ conns' \subseteq Requests
<1>1. conns \subseteq Requests /\ pc \in [Requests -> Places]
  BY DEF GInv, TypeOK, Places
<1>2. IsFiniteSet(conns) /\ Cardinality(conns) \in Nat
  <2>1. IsFiniteSet(Requests)
    BY FS_Union, GatewayAssumption DEF Requests
  <2> QED BY <1>1, <2>1, FS_Subset, FS_CardinalityType
<1>3. Cardinality(conns') <= MaxConnections
  <2>1. Cardinality(conns) <= MaxConnections
    BY DEF GInv, ConnectionsOwned
  <2>2. /\ Cardinality(conns \ {r}) <= Cardinality(conns)
        /\ Cardinality(conns \ {r}) \in Nat
    BY <1>2, SubsetCount
  <2>3. /\ Cardinality(conns \cup {r}) <= Cardinality(conns) + 1
        /\ Cardinality(conns \cup {r}) \in Nat
    BY <1>2, AddOne
  <2>4. CASE conns' = conns \ {r}
    BY <1>2, <2>1, <2>2, <2>4, GatewayAssumption
  <2>5. CASE conns' = conns
    BY <2>1, <2>5
  <2>6. CASE conns' = conns \cup {r} /\ Cardinality(conns) < MaxConnections
    BY <1>2, <2>3, <2>6, GatewayAssumption
  <2> QED BY <2>4, <2>5, <2>6 DEF Holds
<1>4. ASSUME NEW q \in conns'
      PROVE  \/ pc'[q] \in {"upstream", "rig1", "rig2"}
             \/ q \in Streaming /\ pc'[q] = "served"
  <2>1. CASE q = r
    BY <2>1, <1>1, <1>4 DEF GInv, ConnectionsOwned, Advances, Holds
  <2>2. CASE q # r
    BY <2>2, <1>1, <1>4 DEF GInv, ConnectionsOwned, Advances, Holds
  <2> QED BY <2>1, <2>2
<1>5. conns' \subseteq Requests
  BY <1>1 DEF Holds
<1> QED BY <1>3, <1>4, <1>5 DEF ConnectionsOwned


LEMMA MoveKeeps ==
  ASSUME GInv, NEW r \in Requests, NEW to, Advances(r, to), Holds(r, to)
  PROVE  GInv'
<1>1. TypeOK'
  BY OwnersKept, GatewayAssumption DEF GInv, TypeOK, Advances, Waiting, Requests
<1> QED BY <1>1, LinesKept, OwnersKept DEF GInv

LEMMA StillKeeps ==
  ASSUME GInv, UNCHANGED pc, conns' = conns \/ \E r \in Requests : conns' = conns \ {r}
  PROVE  GInv'
<1>1. conns' \subseteq conns
  OBVIOUS
<1>2. IsFiniteSet(conns)
  BY FS_Union, FS_Subset, GatewayAssumption DEF GInv, TypeOK, Requests
<1>3. /\ Cardinality(conns') <= Cardinality(conns)
      /\ Cardinality(conns') \in Nat /\ Cardinality(conns) \in Nat
  BY <1>1, <1>2, SubsetCount
<1>4. Cardinality(conns') <= MaxConnections
  BY <1>3, GatewayAssumption DEF GInv, ConnectionsOwned
<1>5. TypeOK' /\ ConnectionsOwned'
  BY <1>1, <1>4 DEF GInv, TypeOK, ConnectionsOwned
<1>6. ASSUME NEW a \in Aliases PROVE LineBounded(a)'
  BY DEF GInv, LineBounded, In, Occupancy
<1> QED BY <1>5, <1>6 DEF GInv

(* Every action but CloseOrphan is such a move. *)
LEMMA StepAdvances ==
  ASSUME GInv, NEW r \in Requests,
         \/ RefuseKey(r) \/ RefuseUnknown(r) \/ RefuseFull(r) \/ Enter(r)
         \/ Leave(r) \/ Start(r) \/ Connect(r) \/ PoolTimeout(r)
         \/ UpstreamEnds(r) \/ Abandon(r) \/ AskList(r) \/ Rig1Ends(r) \/ Rig2Ends(r)
  PROVE  \E to : Advances(r, to) /\ Holds(r, to)
<1>1. /\ r \in Completions => pc[r] \in {"new", "queued"} \cup Serving \cup Ended
      /\ r \notin Completions => pc[r] \in {"new"} \cup Listing \cup ListEnded
      /\ r \in Completions \/ r \in Lists
  BY DEF GInv, TypeOK, Requests
<1> USE DEF Advances, Holds, Move, Waiting, Serving, Listing, Ended, ListEnded
<1>2. CASE RefuseKey(r) \/ RefuseUnknown(r) \/ RefuseFull(r)
  BY <1>1, <1>2 DEF RefuseKey, RefuseUnknown, RefuseFull
<1>3. CASE Enter(r) \/ Leave(r)
  BY <1>1, <1>3 DEF Enter, Leave
<1>4. CASE Start(r)
  BY <1>1, <1>4 DEF Start
<1>5. CASE Connect(r)
  <2>1. CASE Move(r, "pool", "upstream")
    <3>1. Advances(r, "upstream") /\ Holds(r, "upstream")
      BY <1>1, <1>5, <2>1 DEF Connect
    <3> QED BY <3>1
  <2>2. CASE Move(r, "pool1", "rig1")
    <3>1. Advances(r, "rig1") /\ Holds(r, "rig1")
      BY <1>1, <1>5, <2>2 DEF Connect
    <3> QED BY <3>1
  <2>3. CASE Move(r, "pool2", "rig2")
    <3>1. Advances(r, "rig2") /\ Holds(r, "rig2")
      BY <1>1, <1>5, <2>3 DEF Connect
    <3> QED BY <3>1
  <2> QED BY <1>5, <2>1, <2>2, <2>3 DEF Connect
<1>6. CASE PoolTimeout(r)
  BY <1>1, <1>6 DEF PoolTimeout
<1>7. CASE UpstreamEnds(r)
  BY <1>1, <1>7 DEF UpstreamEnds, Disconnected
<1>8. CASE Abandon(r)
  BY <1>1, <1>8, GatewayAssumption DEF Abandon
<1>9. CASE AskList(r)
  BY <1>1, <1>9, GatewayAssumption DEF AskList
<1>10. CASE Rig1Ends(r) \/ Rig2Ends(r)
  BY <1>1, <1>10 DEF Rig1Ends, Rig2Ends, Disconnected
<1> QED BY <1>2, <1>3, <1>4, <1>5, <1>6, <1>7, <1>8, <1>9, <1>10

LEMMA NextKeeps == GInv /\ [Next]_vars => GInv'
<1>1. ASSUME GInv, NEW r \in Requests, CloseOrphan(r) PROVE GInv'
  BY <1>1, StillKeeps DEF CloseOrphan, Disconnected
<1>2. ASSUME GInv, UNCHANGED vars PROVE GInv'
  BY <1>2, StillKeeps DEF vars
<1>3. ASSUME GInv, NEW r \in Requests, NEW to, Advances(r, to), Holds(r, to)
      PROVE GInv'
  BY <1>3, MoveKeeps
<1> QED BY <1>1, <1>2, <1>3, StepAdvances DEF Next

(* The bounds of all lines, the connections and the types are invariant. *)
THEOREM GatewayInvariant == Spec => []GInv
BY InitInvariant, NextKeeps, PTL DEF Spec

(* Completions and lists never enter each other's places. *)
THEOREM GatewayTyped == Spec => []TypeOK
<1>1. GInv => TypeOK
  BY DEF GInv
<1> QED BY <1>1, GatewayInvariant, PTL

(* Whatever the table of settings, the last group of an alias is the one   *)
(* whose limit bounds its model.                                           *)
THEOREM GatewayLanesBounded == Spec => []LanesBounded
<1>1. GInv => LanesBounded
  <2> SUFFICES ASSUME GInv, NEW i \in 1..Len(Groups), Groups[i].alias # Unset,
                      \A j \in i+1..Len(Groups) : Groups[j].alias # Groups[i].alias
               PROVE  /\ Cardinality(In(Groups[i].alias, Serving)) <= Groups[i].inflight
                      /\ Occupancy(Groups[i].alias) <= Groups[i].inflight + MaxWaiters
    BY DEF LanesBounded
  <2>1. Groups[i].alias \in Aliases
    BY DEF Aliases
  <2>2. Limit(Groups[i].alias) = Groups[i].inflight
    BY SettingIsLast DEF Limit
  <2> QED BY <2>1, <2>2 DEF GInv, LineBounded, Capacity
<1> QED BY <1>1, GatewayInvariant, PTL

(* No connection is lost and none is used twice. *)
THEOREM GatewayConnections == Spec => []ConnectionsOwned
<1>1. GInv => ConnectionsOwned
  BY DEF GInv
<1> QED BY <1>1, GatewayInvariant, PTL

-----------------------------------------------------------------------------
(* The lines of the models implement bounded lines, side by side. *)

LEMMA OutcomeOf ==
  ASSUME NEW p \in {"new", "queued"} \cup Serving \cup Ended
  PROVE  /\ Outcome(p) = "outside" <=> p \in {"new", "unauthorized", "unknown"}
         /\ Outcome(p) = "refused" <=> p = "full"
         /\ Outcome(p) = "queued" <=> p = "queued"
         /\ Outcome(p) = "serving" <=> p \in Serving
         /\ Outcome(p) = "left" <=> p = "left"
         /\ Outcome(p) = "served" <=> p \in {"served", "failed"}
BY DEF Outcome, Serving, Ended

(* Both modules count with the same operator. *)
LEMMA SameCardinality ==
  ASSUME NEW a
  PROVE  \A S : Lane(a)!Cardinality(S) = Cardinality(S)
BY DEF Lane!Cardinality, Cardinality

(* The line of a model is full for both at once, and so is its rig. *)
LEMMA LineCounts ==
  ASSUME TypeOK, NEW a
  PROVE  /\ Lane(a)!Full <=> Full(a)
         /\ Lane(a)!Cardinality(Lane(a)!In("serving")) < Limit(a) <=> SlotFree(a)
<1>1. \A r \in For(a) : pc[r] \in {"new", "queued"} \cup Serving \cup Ended
  BY DEF TypeOK, For
<1>2. /\ Lane(a)!In("queued") = In(a, {"queued"})
      /\ Lane(a)!In("serving") = In(a, Serving)
  BY <1>1, OutcomeOf DEF Lane!In, LineOf, In
<1>3. In(a, {"queued"}) \cap In(a, Serving) = {}
      /\ In(a, {"queued"}) \cup In(a, Serving) = In(a, {"queued"} \cup Serving)
  BY DEF In, Serving
<1>4. /\ IsFiniteSet(In(a, {"queued"})) /\ IsFiniteSet(In(a, Serving))
      /\ Cardinality(In(a, {"queued"})) \in Nat /\ Cardinality(In(a, Serving)) \in Nat
  BY InFinite
<1>5. Occupancy(a) = Cardinality(In(a, {"queued"})) + Cardinality(In(a, Serving))
  <2>1. Cardinality(In(a, {"queued"}) \cap In(a, Serving)) = 0
    BY <1>3, FS_EmptySet
  <2>2. Cardinality(In(a, {"queued"}) \cup In(a, Serving))
          = Cardinality(In(a, {"queued"})) + Cardinality(In(a, Serving))
              - Cardinality(In(a, {"queued"}) \cap In(a, Serving))
    BY <1>4, FS_Union
  <2>3. Occupancy(a) = Cardinality(In(a, {"queued"}) \cup In(a, Serving))
    BY <1>3 DEF Occupancy
  <2> QED BY <1>4, <2>1, <2>2, <2>3
<1> QED BY <1>2, <1>5, SameCardinality DEF Lane!Full, Full, Capacity, SlotFree

(* A move of one request is a move of its outcome in the line of its model *)
(* and of nothing in the other lines.                                      *)
LEMMA OutcomeMoves ==
  ASSUME TypeOK, NEW r \in Requests, NEW to, pc' = [pc EXCEPT ![r] = to], NEW a
  PROVE  /\ r \notin For(a) => LineOf(a)' = LineOf(a)
         /\ r \in For(a) => /\ LineOf(a)[r] = Outcome(pc[r])
                            /\ LineOf(a)' = [LineOf(a) EXCEPT ![r] = Outcome(to)]
BY DEF TypeOK, LineOf, For, Requests

LEMMA StepImplementsLine ==
  ASSUME TypeOK, Next, NEW a \in Aliases
  PROVE  Lane(a)!Next \/ UNCHANGED LineOf(a)
<1>1. PICK r \in Requests :
        \/ RefuseKey(r) \/ RefuseUnknown(r) \/ RefuseFull(r) \/ Enter(r)
        \/ Leave(r) \/ Start(r) \/ Connect(r) \/ PoolTimeout(r)
        \/ UpstreamEnds(r) \/ Abandon(r) \/ CloseOrphan(r)
        \/ AskList(r) \/ Rig1Ends(r) \/ Rig2Ends(r)
  BY DEF Next
<1>2. CASE UNCHANGED pc
  BY <1>2 DEF LineOf
<1>3. CASE r \notin For(a)
  <2>1. UNCHANGED pc \/ \E from, to : Move(r, from, to)
    BY <1>1
    DEF RefuseKey, RefuseUnknown, RefuseFull, Enter, Leave, Start, Connect,
        PoolTimeout, UpstreamEnds, Abandon, CloseOrphan, AskList, Rig1Ends, Rig2Ends
  <2> QED BY <1>2, <1>3, <2>1, OutcomeMoves DEF Move
<1>4. CASE r \in For(a)
  <2>1. /\ r \in Completions /\ Authorized(r) /\ Model[r] = a
        /\ pc[r] \in {"new", "queued"} \cup Serving \cup Ended
        /\ r \notin Lists
    BY <1>4, GatewayAssumption DEF For, TypeOK
  <2>2. ASSUME NEW from, NEW to, Move(r, from, to), Outcome(to) = Outcome(from)
        PROVE  UNCHANGED LineOf(a)
    BY <1>4, <2>2, OutcomeMoves DEF Move, LineOf
  <2>3. ASSUME NEW from, NEW to, Move(r, from, to)
        PROVE  Lane(a)!Move(r, Outcome(from), Outcome(to))
    <3>1. pc[r] = from /\ pc' = [pc EXCEPT ![r] = to]
      BY <2>3 DEF Move
    <3>2. /\ LineOf(a)[r] = Outcome(pc[r])
          /\ LineOf(a)' = [LineOf(a) EXCEPT ![r] = Outcome(to)]
      BY <1>4, <3>1 DEF TypeOK, LineOf, For, Requests
    <3> QED BY <3>1, <3>2 DEF Lane!Move
  <2>4. CASE RefuseFull(r)
    <3>1. Outcome("new") = "outside" /\ Outcome("full") = "refused"
      BY DEF Outcome, Serving
    <3>2. Lane(a)!Move(r, "outside", "refused")
      BY <2>3, <2>4, <3>1 DEF RefuseFull
    <3>3. Lane(a)!Full
      BY <2>1, <2>4, LineCounts DEF RefuseFull
    <3> QED BY <1>4, <3>2, <3>3 DEF Lane!Next, Lane!Refuse
  <2>5. CASE Enter(r)
    <3>1. Outcome("new") = "outside" /\ Outcome("queued") = "queued"
      BY DEF Outcome, Serving
    <3>2. Lane(a)!Move(r, "outside", "queued")
      BY <2>3, <2>5, <3>1 DEF Enter
    <3>3. ~ Lane(a)!Full
      BY <2>1, <2>5, LineCounts DEF Enter
    <3> QED BY <1>4, <3>2, <3>3 DEF Lane!Next, Lane!Enter
  <2>6. CASE Leave(r)
    <3>1. Lane(a)!Move(r, "queued", "left")
      BY <2>3, <2>6 DEF Leave, Outcome, Serving
    <3> QED BY <1>4, <3>1 DEF Lane!Next, Lane!Leave
  <2>7. CASE Start(r)
    <3>1. Outcome("queued") = "queued" /\ Outcome("pool") = "serving"
      BY DEF Outcome, Serving
    <3>2. Lane(a)!Move(r, "queued", "serving")
      BY <2>3, <2>7, <3>1 DEF Start
    <3>3. Lane(a)!Cardinality(Lane(a)!In("serving")) < Limit(a)
      BY <2>1, <2>7, LineCounts DEF Start
    <3> QED BY <1>4, <3>2, <3>3 DEF Lane!Next, Lane!Start
  <2>8. CASE UpstreamEnds(r) \/ Abandon(r)
    <3>1. \A p \in {"served", "failed"} :
            Move(r, "upstream", p) => Lane(a)!Move(r, "serving", "served")
      BY <2>3 DEF Outcome, Serving
    <3>2. Lane(a)!Move(r, "serving", "served")
      BY <2>8, <3>1 DEF UpstreamEnds, Abandon
    <3> QED BY <1>4, <3>2 DEF Lane!Next, Lane!Finish
  <2>9. CASE PoolTimeout(r)
    <3>1. pc[r] = "pool" /\ Move(r, "pool", "failed")
      BY <2>1, <2>9 DEF PoolTimeout, Move, Serving, Ended
    <3>2. Lane(a)!Move(r, "serving", "served")
      BY <2>3, <3>1 DEF Outcome, Serving
    <3> QED BY <1>4, <3>2 DEF Lane!Next, Lane!Finish
  <2>10. CASE Connect(r)
    <3>1. Move(r, "pool", "upstream")
      BY <2>1, <2>10 DEF Connect, Move, Serving, Ended
    <3>2. Outcome("pool") = "serving" /\ Outcome("upstream") = "serving"
      BY DEF Outcome, Serving
    <3> QED BY <2>2, <3>1, <3>2
  <2>11. CASE RefuseKey(r) \/ RefuseUnknown(r) \/ CloseOrphan(r)
    BY <1>2, <2>1, <2>11 DEF RefuseKey, RefuseUnknown, CloseOrphan
  <2>12. CASE AskList(r) \/ Rig1Ends(r) \/ Rig2Ends(r)
    BY <2>1, <2>12 DEF AskList, Rig1Ends, Rig2Ends, Move, Serving, Ended
  <2> QED BY <1>1, <2>4, <2>5, <2>6, <2>7, <2>8, <2>9, <2>10, <2>11, <2>12
<1> QED BY <1>3, <1>4

(* The gateway is, for every model and whatever happens to the others, one *)
(* bounded line.                                                           *)
THEOREM GatewayImplementsLines == Spec => ImplementsLines
<1>1. Init => \A a \in Aliases : Lane(a)!Init
  <2> SUFFICES ASSUME Init, NEW a \in Aliases PROVE Lane(a)!Init
    OBVIOUS
  <2>1. Outcome("new") = "outside"
    BY DEF Outcome, Serving
  <2>2. \A r \in For(a) : pc[r] = "new"
    BY DEF Init, For, Requests
  <2>3. LineOf(a) = [r \in For(a) |-> "outside"]
    BY <2>1, <2>2 DEF LineOf
  <2> QED BY <2>3 DEF Lane!Init
<1>2. ASSUME TypeOK, [Next]_vars, NEW a \in Aliases
      PROVE  [Lane(a)!Next]_(LineOf(a))
  <2>1. UNCHANGED vars => UNCHANGED LineOf(a)
    BY DEF vars, LineOf
  <2> QED BY <1>2, <2>1, StepImplementsLine
<1>3. TypeOK /\ [Next]_vars
        => [\A a \in Aliases : [Lane(a)!Next]_(LineOf(a))]_vars
  BY <1>2
<1> QED BY <1>1, <1>3, GatewayTyped, PTL DEF Spec, ImplementsLines

-----------------------------------------------------------------------------
(* The holders of slots, counted against the slots of all lanes.           *)

(* Only the completions of an alias wait for a slot or hold one. *)
Admitted ==
  \A r \in Completions : pc[r] \in Waiting => Authorized(r) /\ Model[r] \in Aliases

LEMMA AdmittedKept == TypeOK /\ Admitted /\ [Next]_vars => Admitted'
<1> SUFFICES ASSUME TypeOK, Admitted, [Next]_vars,
                    NEW q \in Completions, pc'[q] \in Waiting
             PROVE  Authorized(q) /\ Model[q] \in Aliases
  BY DEF Admitted, Authorized, Aliases
<1>1. CASE UNCHANGED vars
  BY <1>1 DEF Admitted, vars
<1>2. CASE Next
  <2>1. PICK r \in Requests :
          \/ RefuseKey(r) \/ RefuseUnknown(r) \/ RefuseFull(r) \/ Enter(r)
          \/ Leave(r) \/ Start(r) \/ Connect(r) \/ PoolTimeout(r)
          \/ UpstreamEnds(r) \/ Abandon(r) \/ CloseOrphan(r)
          \/ AskList(r) \/ Rig1Ends(r) \/ Rig2Ends(r)
    BY <1>2 DEF Next
  <2>2. /\ q \in Requests /\ pc[q] \in {"new", "queued"} \cup Serving \cup Ended
        /\ pc \in [Requests -> {"new", "queued"} \cup Serving \cup Listing
                                 \cup Ended \cup ListEnded]
    BY DEF TypeOK, Requests
  <2>3. pc[q] \in Waiting \/ (q = r /\ Enter(r))
    <3> USE DEF Move, Waiting, Serving, Listing, Ended, ListEnded
    <3>1. CASE RefuseKey(r) \/ RefuseUnknown(r) \/ RefuseFull(r) \/ Enter(r)
      BY <2>2, <3>1 DEF RefuseKey, RefuseUnknown, RefuseFull, Enter
    <3>2. CASE Leave(r) \/ Start(r) \/ Connect(r) \/ PoolTimeout(r)
      BY <2>2, <3>2 DEF Leave, Start, Connect, PoolTimeout
    <3>3. CASE UpstreamEnds(r) \/ Abandon(r) \/ CloseOrphan(r)
      BY <2>2, <3>3 DEF UpstreamEnds, Abandon, CloseOrphan
    <3>4. CASE AskList(r) \/ Rig1Ends(r) \/ Rig2Ends(r)
      BY <2>2, <3>4 DEF AskList, Rig1Ends, Rig2Ends
    <3> QED BY <2>1, <3>1, <3>2, <3>3, <3>4
  <2> QED BY <2>3 DEF Enter, Admitted
<1> QED BY <1>1, <1>2

LEMMA GatewayAdmits == Spec => []Admitted
<1>1. Init => Admitted
  BY DEF Init, Admitted, Waiting, Serving, Requests
<1> QED BY <1>1, AdmittedKept, GatewayTyped, PTL DEF Spec

LEMMA AllSlotsFinite == IsFiniteSet(AllSlots)
<1> DEFINE I == 1..Len(Groups)
           named == [n \in I |-> Groups[n].alias]
           Lanes == {{a} \X (1..Limit(a)) : a \in Aliases}
           slots == [a \in Aliases |-> {a} \X (1..Limit(a))]
<1>1. IsFiniteSet(I)
  BY GatewayAssumption, FS_Interval
<1>2. named \in Surjection(I, {Groups[n].alias : n \in I})
  BY DEF Surjection
<1>3. IsFiniteSet({Groups[n].alias : n \in I})
  <2> HIDE DEF I, named
  <2> QED BY <1>1, <1>2, FS_Surjection
<1>4. IsFiniteSet(Aliases)
  BY <1>3, FS_Subset DEF Aliases
<1>5. slots \in Surjection(Aliases, Lanes)
  BY DEF Surjection
<1>6. IsFiniteSet(Lanes)
  <2> HIDE DEF Lanes, slots
  <2> QED BY <1>4, <1>5, FS_Surjection
<1>7. ASSUME NEW T \in Lanes PROVE IsFiniteSet(T)
  <2>1. PICK a \in Aliases : T = {a} \X (1..Limit(a))
    OBVIOUS
  <2>2. IsFiniteSet({a}) /\ IsFiniteSet(1..Limit(a))
    <3>1. Limit(a) \in Int
      BY LimitTyped
    <3>2. IsFiniteSet(1..Limit(a))
      BY <3>1, FS_Interval
    <3> QED BY <3>2, FS_Singleton
  <2> QED BY <2>1, <2>2, FS_Product
<1> HIDE DEF Lanes
<1>8. IsFiniteSet(UNION Lanes)
  BY <1>6, <1>7, FS_UNION
<1> QED BY <1>8 DEF AllSlots, Lanes

Holders == {r \in Completions : pc[r] \in Serving}

(* Each holder has a slot of its own. *)
LEMMA HoldersCounted ==
  ASSUME GInv, Admitted
  PROVE  IsFiniteSet(Holders) /\ Cardinality(Holders) <= Cardinality(AllSlots)
<1> DEFINE number == [a \in Aliases |->
                        CHOOSE f : f \in Injection(In(a, Serving), 1..Limit(a))]
           slot == [r \in Holders |-> <<Model[r], number[Model[r]][r]>>]
<1>1. ASSUME NEW a \in Aliases
      PROVE  number[a] \in Injection(In(a, Serving), 1..Limit(a))
  <2>1. \E f : f \in Injection(In(a, Serving), 1..Limit(a))
    BY InFinite, LimitTyped, NumberedUpTo DEF GInv, LineBounded
  <2> QED BY <2>1
<1> HIDE DEF number
<1>2. ASSUME NEW r \in Holders
      PROVE  /\ Model[r] \in Aliases /\ r \in In(Model[r], Serving)
             /\ number[Model[r]][r] \in 1..Limit(Model[r])
  <2>1. Model[r] \in Aliases /\ r \in In(Model[r], Serving)
    BY DEF Holders, Admitted, Waiting, In, For
  <2> QED BY <1>1, <2>1 DEF Injection
<1>3. \A r \in Holders : slot[r] \in AllSlots
  BY <1>2 DEF AllSlots
<1>4. ASSUME NEW q \in Holders, NEW r \in Holders, slot[q] = slot[r] PROVE q = r
  <2>1. Model[q] = Model[r] /\ number[Model[q]][q] = number[Model[r]][r]
    BY <1>4
  <2> QED BY <1>1, <1>2, <2>1 DEF Injection, IsInjective
<1>5. slot \in Injection(Holders, AllSlots)
  BY <1>3, <1>4 DEF Injection, IsInjective
<1> HIDE DEF slot
<1> QED BY <1>5, AllSlotsFinite, FS_Injection

(* For every table of settings and any number of connections: whoever      *)
(* keeps them all from a completion that holds a slot, it is not the slots *)
(* of the lanes alone (proxy.py get_client, config.py).                    *)
THEOREM GatewayStarvedByOthers == Spec => StarvedByOthers
<1>1. ASSUME GInv, Admitted, [Next]_vars,
             NEW q \in Completions, pc[q] = "pool", pc'[q] = "failed"
      PROVE  Cardinality(Others) + Cardinality(AllSlots) > MaxConnections
  <2>1. q \in Requests /\ pc \in [Requests -> {"new", "queued"} \cup Serving \cup Listing
                                                \cup Ended \cup ListEnded]
    BY <1>1 DEF GInv, TypeOK, Requests
  <2>2. Cardinality(conns) >= MaxConnections
    <3>1. Next
      BY <1>1 DEF vars
    <3>2. PICK r \in Requests :
            \/ RefuseKey(r) \/ RefuseUnknown(r) \/ RefuseFull(r) \/ Enter(r)
            \/ Leave(r) \/ Start(r) \/ Connect(r) \/ PoolTimeout(r)
            \/ UpstreamEnds(r) \/ Abandon(r) \/ CloseOrphan(r)
            \/ AskList(r) \/ Rig1Ends(r) \/ Rig2Ends(r)
      BY <3>1 DEF Next
    <3>3. PoolTimeout(r)
      BY <1>1, <2>1, <3>2 DEF RefuseKey, RefuseUnknown, RefuseFull, Enter, Leave, Start, Connect,
         UpstreamEnds, Abandon, CloseOrphan, AskList, Rig1Ends, Rig2Ends, Move
    <3> QED BY <3>3 DEF PoolTimeout
  <2>3. IsFiniteSet(Requests) /\ IsFiniteSet(conns) /\ IsFiniteSet(Others)
    <3>1. IsFiniteSet(Requests)
      BY FS_Union, GatewayAssumption DEF Requests
    <3>2. conns \subseteq Requests /\ Others \subseteq conns
      BY <1>1 DEF GInv, TypeOK, Others
    <3>3. IsFiniteSet(conns)
      BY <3>1, <3>2, FS_Subset
    <3> QED BY <3>1, <3>2, <3>3, FS_Subset
  <2>4. IsFiniteSet(Holders) /\ Cardinality(Holders) <= Cardinality(AllSlots)
    BY <1>1, HoldersCounted
  <2>5. q \in Holders /\ IsFiniteSet(Holders \ {q})
        /\ Cardinality(Holders \ {q}) = Cardinality(Holders) - 1
    <3>1. q \in Holders
      BY <1>1 DEF Holders, Serving
    <3> QED BY <2>4, <3>1, FS_RemoveElement
  <2>6. conns \subseteq Others \cup (Holders \ {q})
    <3> SUFFICES ASSUME NEW r \in conns, r \notin Others PROVE r \in Holders /\ r # q
      OBVIOUS
    <3>1. \/ pc[r] \in {"upstream", "rig1", "rig2"}
          \/ pc[r] = "served"
      BY <1>1 DEF GInv, ConnectionsOwned
    <3>2. r \in Completions /\ pc[r] # "served"
      BY <1>1 DEF Others, GInv, TypeOK, Requests
    <3>3. pc[r] = "upstream"
      BY <1>1, <3>1, <3>2 DEF GInv, TypeOK, Serving, Ended
    <3> QED BY <1>1, <3>2, <3>3 DEF Holders, Serving
  <2>7. Cardinality(conns) <= Cardinality(Others \cup (Holders \ {q}))
    BY <2>3, <2>5, <2>6, FS_Subset, FS_Union
  <2>8. Cardinality(Others \cup (Holders \ {q}))
          <= Cardinality(Others) + Cardinality(Holders \ {q})
    BY <2>3, <2>5, UnionBounded
  <2>9. /\ Cardinality(conns) \in Nat /\ Cardinality(Others) \in Nat
        /\ Cardinality(Holders) \in Nat /\ Cardinality(AllSlots) \in Nat
        /\ Cardinality(Others \cup (Holders \ {q})) \in Nat
    BY <2>3, <2>4, <2>5, AllSlotsFinite, FS_Union, FS_CardinalityType
  <2> QED BY <2>2, <2>4, <2>5, <2>7, <2>8, <2>9, GatewayAssumption
<1>2. GInv /\ Admitted /\ [Next]_vars
        => [\A r \in Completions :
              pc[r] = "pool" /\ pc'[r] = "failed" =>
                Cardinality(Others) + Cardinality(AllSlots) > MaxConnections]_vars
  BY <1>1
<1> QED BY <1>2, GatewayInvariant, GatewayAdmits, PTL DEF Spec, StarvedByOthers
=============================================================================
