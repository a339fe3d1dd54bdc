---------------------------- MODULE InfraProofs ----------------------------
(***************************************************************************)
(* Proofs about NetbirdApply, for every list of groups and policies, any   *)
(* number of runs and of edits, and any overlap of the runs.               *)
(***************************************************************************)
EXTENDS Infra, SetLemmas

Settled == {"policies", "applied"}

(* What a run that has dealt with the groups knows of the account: ids for *)
(* all groups of the list, and what is still to be done for the policies.  *)
Informed(i) ==
  /\ pc[i] \in Settled =>
       /\ NamesOf(AclGroups) \subseteq Known(i)
       /\ \A k \in 1..Len(AclPolicies) :
            AclPolicies[k].name \in NamesOf(policies) \/ k \in todo[i]
  /\ pc[i] = "applied" => todo[i] = {}

DefaultFirst ==
  /\ Len(groups) >= 1
  /\ Len(policies) >= 1
  /\ policies[1] \in BuiltIns

NInv ==
  /\ TypeOK
  /\ DefaultFirst
  /\ \A i \in Runs : Informed(i)
  /\ PoliciesFit

(* The names of groups never change, nor do the names of policies and the  *)
(* groups they are about: what a run has learnt stays true.                *)
Kept ==
  /\ Len(groups') >= Len(groups)
  /\ \A n \in 1..Len(groups) : groups'[n].name = groups[n].name
  /\ Len(policies') >= Len(policies)
  /\ \A n \in 1..Len(policies) :
       /\ policies'[n].name = policies[n].name
       /\ policies'[n].sources = policies[n].sources
       /\ policies'[n].destinations = policies[n].destinations

LEMMA Lengths ==
  ASSUME TypeOK
  PROVE  Len(groups) \in Nat /\ Len(policies) \in Nat
BY DEF TypeOK

LEMMA NamesKept ==
  ASSUME TypeOK, Kept
  PROVE  /\ NamesOf(groups) \subseteq NamesOf(groups')
         /\ NamesOf(policies) \subseteq NamesOf(policies')
<1>1. Len(groups) \in Nat /\ Len(policies) \in Nat
  BY Lengths
<1>2. ASSUME NEW n \in 1..Len(groups) PROVE groups[n].name \in NamesOf(groups')
  BY <1>1 DEF Kept, NamesOf
<1>3. ASSUME NEW n \in 1..Len(policies) PROVE policies[n].name \in NamesOf(policies')
  BY <1>1 DEF Kept, NamesOf
<1> QED BY <1>2, <1>3 DEF NamesOf

(* A run that does not move stays informed. *)
LEMMA InformedKept ==
  ASSUME TypeOK, Kept, NEW i \in Runs, Informed(i),
         pc'[i] = pc[i], ids'[i] = ids[i], todo'[i] = todo[i]
  PROVE  Informed(i)'
<1>1. Known(i)' = Known(i)
  <2>1. \A n \in ids[i] : n \in 1..Len(groups)
    BY DEF TypeOK
  <2>2. \A n \in ids[i] : groups'[n].name = groups[n].name
    BY <2>1 DEF Kept
  <2> QED BY <2>2 DEF Known
<1>2. NamesOf(policies) \subseteq NamesOf(policies')
  BY NamesKept
<1> QED BY <1>1, <1>2 DEF Informed

(* Policies that fit go on fitting. *)
LEMMA FitKept ==
  ASSUME TypeOK, Kept, PoliciesFit,
         \A n \in 1..Len(policies') : n > Len(policies) =>
           \A k \in 1..Len(AclPolicies) :
             policies'[n].name = AclPolicies[k].name =>
               /\ {groups'[m].name : m \in policies'[n].sources} = AclPolicies[k].sources
               /\ {groups'[m].name : m \in policies'[n].destinations}
                    = AclPolicies[k].destinations
  PROVE  PoliciesFit'
<1>1. Len(groups) \in Nat /\ Len(policies) \in Nat
  BY Lengths
<1>2. ASSUME NEW n \in 1..Len(policies')
      PROVE  \A k \in 1..Len(AclPolicies) :
               policies'[n].name = AclPolicies[k].name =>
                 /\ {groups'[m].name : m \in policies'[n].sources} = AclPolicies[k].sources
                 /\ {groups'[m].name : m \in policies'[n].destinations}
                      = AclPolicies[k].destinations
  <2>1. CASE n > Len(policies)
    BY <2>1
  <2>2. CASE n \in 1..Len(policies)
    <3>1. policies[n] \in PolicyRecords
      BY <2>2 DEF TypeOK
    <3>2. \A m \in policies[n].sources \cup policies[n].destinations :
            groups'[m].name = groups[m].name
      BY <3>1 DEF Kept, PolicyRecords
    <3>3. /\ policies'[n].name = policies[n].name
          /\ policies'[n].sources = policies[n].sources
          /\ policies'[n].destinations = policies[n].destinations
      BY <2>2 DEF Kept
    <3>4. /\ {groups'[m].name : m \in policies'[n].sources} = GroupNames(policies[n].sources)
          /\ {groups'[m].name : m \in policies'[n].destinations}
               = GroupNames(policies[n].destinations)
      BY <3>2, <3>3 DEF GroupNames
    <3>5. \A k \in 1..Len(AclPolicies) :
            policies[n].name = AclPolicies[k].name =>
              /\ GroupNames(policies[n].sources) = AclPolicies[k].sources
              /\ GroupNames(policies[n].destinations) = AclPolicies[k].destinations
      BY <2>2 DEF PoliciesFit
    <3> QED BY <3>3, <3>4, <3>5
  <2> QED BY <1>1, <2>1, <2>2
<1> QED BY <1>2 DEF PoliciesFit, GroupNames

-----------------------------------------------------------------------------
LEMMA InitInvariant == Init => NInv
<1> SUFFICES ASSUME Init PROVE NInv
  OBVIOUS
<1>1. /\ groups = <<[name |-> AllPeers, peers |-> {}]>> /\ Len(groups) = 1
      /\ policies = <<BuiltIn(TRUE, 0)>> /\ Len(policies) = 1
  BY DEF Init
<1>2. BuiltIn(TRUE, 0) \in PolicyRecords
  <2>1. {1} \in SUBSET (1..Len(groups)) /\ 0 \in 0..edits
    BY <1>1 DEF Init
  <2> QED BY <2>1 DEF BuiltIn, PolicyRecords
<1>3. TypeOK
  <2>1. [name |-> AllPeers, peers |-> {}] \in GroupRecords
    BY DEF GroupRecords
  <2>2. groups \in Seq(GroupRecords)
    BY <2>1 DEF Init
  <2>3. policies \in Seq(PolicyRecords)
    <3>1. \A S : \A x \in S : <<x>> \in Seq(S)
      OBVIOUS
    <3> QED BY <1>1, <1>2, <3>1
  <2>4. BuiltIn(TRUE, 0) \in BuiltIns
    <3>1. 0 \in 0..edits
      BY DEF Init
    <3> QED BY <3>1 DEF BuiltIn, BuiltIns
  <2> QED BY <2>2, <2>3, <2>4 DEF Init, TypeOK, Going
<1>4. DefaultFirst
  BY <1>1 DEF DefaultFirst, Init, BuiltIn, BuiltIns
<1>5. \A i \in Runs : Informed(i)
  BY DEF Init, Informed, Settled
<1>6. PoliciesFit
  BY <1>1, NetbirdAssumption DEF PoliciesFit, BuiltIn
<1> QED BY <1>3, <1>4, <1>5, <1>6 DEF NInv

(* The account stays as it is. *)
LEMMA StillKept ==
  ASSUME NInv, UNCHANGED account
  PROVE  Kept /\ PoliciesFit'
<1>1. Kept
  BY Lengths DEF NInv, Kept, account
<1>2. PoliciesFit'
  BY DEF NInv, PoliciesFit, GroupNames, account
<1> QED BY <1>1, <1>2

(* An action of the run i, after which the others know what they knew. *)
LEMMA RunKeeps ==
  ASSUME NInv, TypeOK', DefaultFirst', Kept, PoliciesFit', NEW i \in Runs, Informed(i)',
         \A j \in Runs \ {i} : pc'[j] = pc[j] /\ ids'[j] = ids[j] /\ todo'[j] = todo[j]
  PROVE  NInv'
BY InformedKept DEF NInv

(* The steps of a run that only move it, or let it know something. *)
LEMMA QuietKeeps ==
  ASSUME NInv, NEW i \in Runs,
         Begin(i) \/ Fail(i) \/ GetPeers(i) \/ GetGroups(i) \/ GetPolicies(i)
           \/ Finish(i) \/ GetDefault(i)
  PROVE  NInv'
<1>1. UNCHANGED account /\ UNCHANGED edits
  BY DEF Begin, Fail, GetPeers, GetGroups, GetPolicies, Finish, GetDefault
<1>2. Kept /\ PoliciesFit'
  BY <1>1, StillKept
<1>3. DefaultFirst'
  BY <1>1 DEF NInv, DefaultFirst, BuiltIns, account
<1>4. /\ GroupRecords' = GroupRecords /\ PolicyRecords' = PolicyRecords
      /\ groups \in Seq(GroupRecords) /\ policies \in Seq(PolicyRecords)
  BY <1>1 DEF GroupRecords, PolicyRecords, BuiltIns, account, NInv, TypeOK
<1>5. /\ pc' \in [Runs -> {"idle", "failed", "applied", "switched"} \cup Going]
      /\ \A j \in Runs \ {i} : pc'[j] = pc[j]
  BY DEF Begin, Fail, GetPeers, GetGroups, GetPolicies, Finish, GetDefault, Goes,
         NInv, TypeOK, Going
<1>6. /\ found' \in [Runs -> SUBSET AclPeers] /\ peers' = peers
      /\ ids' \in [Runs -> SUBSET (1..Len(groups))]
      /\ todo' \in [Runs -> SUBSET (1..Len(AclPolicies))]
      /\ \A j \in Runs \ {i} : ids'[j] = ids[j] /\ todo'[j] = todo[j]
  BY DEF Begin, Fail, GetPeers, GetGroups, GetPolicies, Finish, GetDefault, Goes,
         NInv, TypeOK, memory
<1>7. old' \in [Runs -> BuiltIns] /\ BuiltIns' = BuiltIns
  <2>1. CASE GetDefault(i)
    BY <1>1, <2>1 DEF GetDefault, NInv, TypeOK, DefaultFirst, BuiltIns
  <2>2. CASE old' = old
    BY <1>1, <2>2 DEF NInv, TypeOK, BuiltIns
  <2> QED BY <2>1, <2>2 DEF Begin, Fail, GetPeers, GetGroups, GetPolicies, Finish, memory
<1>8. TypeOK'
  BY <1>1, <1>4, <1>5, <1>6, <1>7 DEF TypeOK, account, NInv
<1>9. Informed(i)'
  <2>1. CASE Begin(i) \/ Fail(i) \/ GetPeers(i) \/ GetGroups(i) \/ GetDefault(i)
    <3>1. pc'[i] \notin Settled
      BY <2>1 DEF Begin, Fail, GetPeers, GetGroups, GetDefault, Goes, NInv, TypeOK, Settled
    <3> QED BY <3>1 DEF Informed, Settled
  <2>2. CASE GetPolicies(i)
    <3>1. /\ pc'[i] = "policies" /\ ids' = ids /\ groups' = groups
          /\ policies' = policies
          /\ todo'[i] = {k \in 1..Len(AclPolicies) :
                           AclPolicies[k].name \notin NamesOf(policies)}
          /\ Missing(i) = {}
      BY <2>2 DEF GetPolicies, Goes, account, NInv, TypeOK
    <3>2. NamesOf(AclGroups) \subseteq Known(i)
      BY <3>1 DEF Missing, NamesOf
    <3>3. Known(i)' = Known(i) /\ NamesOf(policies)' = NamesOf(policies)
      BY <3>1 DEF Known
    <3> QED BY <3>1, <3>2, <3>3 DEF Informed
  <2>3. CASE Finish(i)
    <3>1. /\ pc[i] = "policies" /\ pc'[i] = "applied" /\ ids' = ids /\ groups' = groups
          /\ policies' = policies /\ todo' = todo /\ todo[i] = {}
      BY <2>3 DEF Finish, Goes, account, memory, NInv, TypeOK
    <3>2. Known(i)' = Known(i) /\ NamesOf(policies)' = NamesOf(policies)
      BY <3>1 DEF Known
    <3> QED BY <3>1, <3>2 DEF Informed, NInv, Settled
  <2> QED BY <2>1, <2>2, <2>3
<1> QED BY <1>2, <1>3, <1>5, <1>6, <1>8, <1>9, RunKeeps

(* A group of the list that a run knows has an id that is in the account   *)
(* and stands for that name.                                               *)
LEMMA IdOfKnown ==
  ASSUME TypeOK, NEW i \in Runs, NEW name \in Known(i)
  PROVE  IdOf(i, name) \in 1..Len(groups) /\ groups[IdOf(i, name)].name = name
<1> DEFINE same == {n \in ids[i] : groups[n].name = name}
<1>1. same \in SUBSET (1..Len(groups)) /\ Len(groups) \in Nat
  BY Lengths DEF TypeOK
<1>2. same # {}
  BY DEF Known
<1>3. Max(same) \in same
  BY <1>1, <1>2, MaxOfIndices
<1> QED BY <1>1, <1>3 DEF IdOf

(* policy_payload turns the names of a policy into ids and diff turns them *)
(* back into the same names.                                               *)
LEMMA PayloadNames ==
  ASSUME TypeOK, NEW i \in Runs, NEW k \in 1..Len(AclPolicies),
         NamesOf(AclGroups) \subseteq Known(i)
  PROVE  LET p == Payload(i, AclPolicies[k]) IN
           /\ p.sources \subseteq 1..Len(groups)
           /\ p.destinations \subseteq 1..Len(groups)
           /\ GroupNames(p.sources) = AclPolicies[k].sources
           /\ GroupNames(p.destinations) = AclPolicies[k].destinations
<1>1. ASSUME NEW S, S \subseteq NamesOf(AclGroups)
      PROVE  /\ {IdOf(i, g) : g \in S} \subseteq 1..Len(groups)
             /\ GroupNames({IdOf(i, g) : g \in S}) = S
  <2>1. \A g \in S : IdOf(i, g) \in 1..Len(groups) /\ groups[IdOf(i, g)].name = g
    BY <1>1, IdOfKnown
  <2> QED BY <2>1 DEF GroupNames
<1>2. /\ AclPolicies[k].sources \subseteq NamesOf(AclGroups)
      /\ AclPolicies[k].destinations \subseteq NamesOf(AclGroups)
  BY NetbirdAssumption
<1> QED BY <1>1, <1>2 DEF Payload

(* The types of what runs remember do not depend on how the account grows. *)
LEMMA MemoryTyped ==
  ASSUME TypeOK, Len(groups') \in Nat, Len(groups') >= Len(groups),
         edits' \in Nat, edits' >= edits
  PROVE  /\ ids \in [Runs -> SUBSET (1..Len(groups'))]
         /\ old \in [Runs -> BuiltIns']
         /\ BuiltIns \subseteq BuiltIns'
         /\ PolicyRecords \subseteq PolicyRecords'
<1>1. 1..Len(groups) \subseteq 1..Len(groups') /\ 0..edits \subseteq 0..edits'
  BY Lengths DEF TypeOK
<1>2. BuiltIns \subseteq BuiltIns'
  BY <1>1 DEF BuiltIns
<1>3. PolicyRecords \subseteq PolicyRecords'
  BY <1>1 DEF PolicyRecords
<1>4. ids \in [Runs -> SUBSET (1..Len(groups'))]
  <2>1. \A i \in Runs : ids[i] \subseteq 1..Len(groups')
    BY <1>1 DEF TypeOK
  <2> QED BY <2>1 DEF TypeOK
<1> QED BY <1>2, <1>3, <1>4 DEF TypeOK

LEMMA CreateGroupKeeps ==
  ASSUME NInv, NEW i \in Runs, CreateGroup(i)
  PROVE  NInv'
<1> DEFINE k == Min(Missing(i))
<1>1. k \in 1..Len(AclGroups)
  <2>1. Missing(i) \in SUBSET Nat /\ Missing(i) # {}
    BY NetbirdAssumption DEF CreateGroup, Missing
  <2>2. k \in Missing(i)
    BY <2>1, MinOfNaturals
  <2> QED BY <2>2 DEF Missing
<1> HIDE DEF k
<1>2. /\ groups' = Append(groups, AclGroups[k]) /\ pc[i] = "groups"
      /\ UNCHANGED <<policies, peers, edits, found, todo, old>>
      /\ \/ ids' = [ids EXCEPT ![i] = @ \cup {Len(groups) + 1}] /\ UNCHANGED pc
         \/ pc' = [pc EXCEPT ![i] = "failed"] /\ UNCHANGED ids
  BY DEF CreateGroup, Goes, k
<1>3. AclGroups[k] \in GroupRecords
  BY <1>1, NetbirdAssumption DEF GroupRecords
<1>4. groups \in Seq(GroupRecords) /\ TypeOK
  BY DEF NInv, TypeOK
<1>5. /\ groups' \in Seq(GroupRecords) /\ Len(groups') = Len(groups) + 1
      /\ \A n \in 1..Len(groups) : groups'[n] = groups[n]
  BY <1>2, <1>3, <1>4
<1>6. /\ ids \in [Runs -> SUBSET (1..Len(groups'))] /\ old \in [Runs -> BuiltIns']
      /\ PolicyRecords \subseteq PolicyRecords' /\ BuiltIns \subseteq BuiltIns'
  BY <1>2, <1>4, <1>5, Lengths, MemoryTyped DEF TypeOK
<1>7. ids' \in [Runs -> SUBSET (1..Len(groups'))]
  <2>1. Len(groups) + 1 \in 1..Len(groups')
    BY <1>4, <1>5, Lengths
  <2> QED BY <1>2, <1>6, <2>1
<1>8. TypeOK'
  <2>1. policies' \in Seq(PolicyRecords')
    BY <1>2, <1>4, <1>6 DEF TypeOK
  <2>2. pc' \in [Runs -> {"idle", "failed", "applied", "switched"} \cup Going]
    BY <1>2, <1>4 DEF TypeOK
  <2>3. GroupRecords' = GroupRecords
    BY DEF GroupRecords
  <2> QED BY <1>2, <1>4, <1>5, <1>6, <1>7, <2>1, <2>2, <2>3 DEF TypeOK
<1>9. Kept
  BY <1>2, <1>4, <1>5, Lengths DEF Kept
<1>10. PoliciesFit'
  <2>1. ~ \E n \in 1..Len(policies') : n > Len(policies)
    BY <1>2, <1>4, Lengths
  <2> QED BY <1>4, <1>9, <2>1, FitKept DEF NInv
<1>11. DefaultFirst'
  BY <1>2, <1>4, <1>5, <1>6, Lengths DEF NInv, DefaultFirst
<1>12. pc'[i] \notin Settled /\ \A j \in Runs \ {i} :
         pc'[j] = pc[j] /\ ids'[j] = ids[j] /\ todo'[j] = todo[j]
  BY <1>2, <1>4 DEF TypeOK, Settled
<1>13. Informed(i)'
  BY <1>12 DEF Informed, Settled
<1> QED BY <1>8, <1>9, <1>10, <1>11, <1>12, <1>13, RunKeeps

LEMMA CreatePolicyKeeps ==
  ASSUME NInv, NEW i \in Runs, CreatePolicy(i)
  PROVE  NInv'
<1> DEFINE k == Min(todo[i])
<1>1. k \in todo[i] /\ k \in 1..Len(AclPolicies)
  <2>1. todo[i] \in SUBSET (1..Len(AclPolicies)) /\ todo[i] # {}
    BY DEF CreatePolicy, NInv, TypeOK
  <2>2. todo[i] \in SUBSET Nat
    BY <2>1, NetbirdAssumption
  <2>3. k \in todo[i]
    BY <2>1, <2>2, MinOfNaturals
  <2> QED BY <2>1, <2>3
<1> HIDE DEF k
<1> DEFINE p == Payload(i, AclPolicies[k])
<1>2. /\ policies' = Append(policies, p) /\ pc[i] = "policies"
      /\ UNCHANGED <<groups, peers, edits, found, ids, old>>
      /\ \/ todo' = [todo EXCEPT ![i] = @ \ {k}] /\ UNCHANGED pc
         \/ pc' = [pc EXCEPT ![i] = "failed"] /\ UNCHANGED todo
  BY DEF CreatePolicy, Goes, k
<1>3. TypeOK /\ policies \in Seq(PolicyRecords) /\ NamesOf(AclGroups) \subseteq Known(i)
  BY <1>2 DEF NInv, TypeOK, Informed, Settled
<1>4. /\ p.sources \subseteq 1..Len(groups) /\ p.destinations \subseteq 1..Len(groups)
      /\ GroupNames(p.sources) = AclPolicies[k].sources
      /\ GroupNames(p.destinations) = AclPolicies[k].destinations
      /\ p.name = AclPolicies[k].name
  BY <1>1, <1>3, PayloadNames DEF Payload
<1>5. p \in PolicyRecords
  <2>1. AclPolicies[k].name \in NamesOf(AclPolicies) /\ 0 \in 0..edits
    BY <1>1, <1>3 DEF NamesOf, TypeOK
  <2> QED BY <1>4, <2>1 DEF Payload, PolicyRecords
<1> HIDE DEF p
<1>6. /\ policies' \in Seq(PolicyRecords) /\ Len(policies') = Len(policies) + 1
      /\ policies'[Len(policies) + 1] = p
      /\ \A n \in 1..Len(policies) : policies'[n] = policies[n]
  BY <1>2, <1>3, <1>5
<1>7. /\ PolicyRecords' = PolicyRecords /\ BuiltIns' = BuiltIns
      /\ GroupRecords' = GroupRecords
  BY <1>2 DEF PolicyRecords, BuiltIns, GroupRecords
<1>8. TypeOK'
  <2>1. pc' \in [Runs -> {"idle", "failed", "applied", "switched"} \cup Going]
    BY <1>2, <1>3 DEF TypeOK
  <2>2. todo' \in [Runs -> SUBSET (1..Len(AclPolicies))]
    BY <1>2, <1>3 DEF TypeOK
  <2> QED BY <1>2, <1>3, <1>6, <1>7, <2>1, <2>2 DEF TypeOK
<1>9. Kept
  BY <1>2, <1>3, <1>6, Lengths DEF Kept
<1>10. PoliciesFit'
  <2>1. ASSUME NEW n \in 1..Len(policies'), n > Len(policies),
               NEW m \in 1..Len(AclPolicies), policies'[n].name = AclPolicies[m].name
        PROVE  /\ {groups'[x].name : x \in policies'[n].sources} = AclPolicies[m].sources
               /\ {groups'[x].name : x \in policies'[n].destinations}
                    = AclPolicies[m].destinations
    <3>1. n = Len(policies) + 1
      BY <1>3, <1>6, <2>1, Lengths
    <3>2. m = k
      BY <1>1, <1>4, <1>6, <2>1, <3>1, NetbirdAssumption
    <3> QED BY <1>2, <1>4, <1>6, <3>1, <3>2 DEF GroupNames
  <2> QED BY <1>3, <1>9, <2>1, FitKept DEF NInv
<1>11. DefaultFirst'
  BY <1>2, <1>3, <1>6, <1>7, Lengths DEF NInv, DefaultFirst
<1>12. \A j \in Runs \ {i} : pc'[j] = pc[j] /\ ids'[j] = ids[j] /\ todo'[j] = todo[j]
  BY <1>2, <1>3 DEF TypeOK
<1>13. Informed(i)'
  <2>1. Known(i)' = Known(i)
    BY <1>2 DEF Known
  <2>2. NamesOf(policies) \subseteq NamesOf(policies')
    BY <1>3, <1>9, NamesKept
  <2>3. AclPolicies[k].name \in NamesOf(policies')
    <3>1. Len(policies) + 1 \in 1..Len(policies')
      BY <1>3, <1>6, Lengths
    <3> QED BY <1>4, <1>6, <3>1 DEF NamesOf
  <2>4. \A m \in 1..Len(AclPolicies) :
          AclPolicies[m].name \in NamesOf(policies) \/ m \in todo[i]
    BY <1>2 DEF NInv, Informed, Settled
  <2>5. pc'[i] # "applied" /\ (pc'[i] \in Settled => todo'[i] = todo[i] \ {k})
    BY <1>2, <1>3 DEF TypeOK, Settled
  <2>6. \A m \in 1..Len(AclPolicies) :
          pc'[i] \in Settled => AclPolicies[m].name \in NamesOf(policies') \/ m \in todo'[i]
    BY <2>2, <2>3, <2>4, <2>5
  <2> QED BY <1>3, <2>1, <2>5, <2>6 DEF Informed
<1> QED BY <1>8, <1>9, <1>10, <1>11, <1>12, <1>13, RunKeeps

(* A policy is written over in its place; its name and its groups stay. *)
LEMMA RewriteKeeps ==
  ASSUME NInv, NEW n \in 1..Len(policies), NEW p \in PolicyRecords',
         p.name = policies[n].name, p.sources = policies[n].sources,
         p.destinations = policies[n].destinations,
         n = 1 => p \in BuiltIns',
         policies' = [policies EXCEPT ![n] = p],
         edits' \in Nat, edits' >= edits,
         UNCHANGED <<groups, peers, found, ids, todo, old>>,
         pc' \in [Runs -> {"idle", "failed", "applied", "switched"} \cup Going],
         \A j \in Runs : pc'[j] = pc[j] \/ pc'[j] \notin Settled
  PROVE  NInv'
<1>1. TypeOK /\ policies \in Seq(PolicyRecords)
  BY DEF NInv, TypeOK
<1>2. /\ PolicyRecords \subseteq PolicyRecords' /\ BuiltIns \subseteq BuiltIns'
      /\ GroupRecords' = GroupRecords
  BY <1>1, Lengths, MemoryTyped DEF GroupRecords
<1>3. policies \in Seq(PolicyRecords')
  BY <1>1, <1>2
<1>4. /\ policies' \in Seq(PolicyRecords') /\ Len(policies') = Len(policies)
      /\ policies'[n] = p /\ \A m \in 1..Len(policies) \ {n} : policies'[m] = policies[m]
  BY <1>3
<1>5. TypeOK'
  BY <1>1, <1>2, <1>4 DEF TypeOK
<1>6. Kept
  BY <1>1, <1>4, Lengths DEF Kept
<1>7. PoliciesFit'
  <2>1. ~ \E m \in 1..Len(policies') : m > Len(policies)
    BY <1>1, <1>4, Lengths
  <2> QED BY <1>1, <1>6, <2>1, FitKept DEF NInv
<1>8. DefaultFirst'
  <2>1. policies'[1] \in BuiltIns'
    <3>1. CASE n = 1
      BY <1>4, <3>1
    <3>2. CASE n # 1
      <4>1. 1 \in 1..Len(policies) \ {n}
        BY <1>1, <3>2, Lengths DEF NInv, DefaultFirst
      <4> QED BY <1>2, <1>4, <4>1 DEF NInv, DefaultFirst
    <3> QED BY <3>1, <3>2
  <2> QED BY <1>4, <2>1 DEF NInv, DefaultFirst
<1>9. ASSUME NEW j \in Runs PROVE Informed(j)'
  <2>1. CASE pc'[j] = pc[j]
    BY <1>1, <1>6, <2>1, InformedKept DEF NInv
  <2>2. CASE pc'[j] \notin Settled
    BY <2>2 DEF Informed, Settled
  <2> QED BY <2>1, <2>2
<1> QED BY <1>5, <1>7, <1>8, <1>9 DEF NInv

LEMMA PutDefaultKeeps ==
  ASSUME NInv, NEW i \in Runs, PutDefault(i)
  PROVE  NInv'
<1> DEFINE p == [old[i] EXCEPT !.enabled = (Command[i] = "on")]
<1>1. 1 \in 1..Len(policies) /\ policies[1] \in BuiltIns /\ old[i] \in BuiltIns
  BY Lengths DEF NInv, DefaultFirst, TypeOK
<1>2. p \in BuiltIns
  <2>1. (Command[i] = "on") \in BOOLEAN
    OBVIOUS
  <2> QED BY <1>1, <2>1 DEF BuiltIns
<1>3. /\ policies' = [policies EXCEPT ![1] = p]
      /\ UNCHANGED <<groups, peers, edits, found, ids, todo, old>>
  BY DEF PutDefault, memory
<1>4. /\ PolicyRecords' = PolicyRecords /\ BuiltIns' = BuiltIns
      /\ edits' \in Nat /\ edits' >= edits
  BY <1>3 DEF PolicyRecords, BuiltIns, NInv, TypeOK
<1>5. /\ p.name = policies[1].name /\ p.sources = policies[1].sources
      /\ p.destinations = policies[1].destinations
  BY <1>1, <1>2 DEF BuiltIns
<1>6. p \in PolicyRecords
  <2>1. {1} \subseteq 1..Len(groups)
    BY Lengths DEF NInv, DefaultFirst
  <2> QED BY <1>2, <2>1 DEF BuiltIns, PolicyRecords
<1>7. /\ pc' \in [Runs -> {"idle", "failed", "applied", "switched"} \cup Going]
      /\ \A j \in Runs : pc'[j] = pc[j] \/ pc'[j] \notin Settled
  BY DEF PutDefault, Goes, NInv, TypeOK, Settled
<1> HIDE DEF p
<1> QED BY <1>1, <1>2, <1>3, <1>4, <1>5, <1>6, <1>7, RewriteKeeps

LEMMA EditPolicyKeeps ==
  ASSUME NInv, NEW n \in 1..Len(policies), EditPolicy(n)
  PROVE  NInv'
<1>1. TypeOK /\ policies[n] \in PolicyRecords /\ (n = 1 => policies[n] \in BuiltIns)
  BY DEF NInv, TypeOK, DefaultFirst
<1>2. /\ edits' = edits + 1 /\ edits' \in Nat /\ edits' >= edits
      /\ UNCHANGED <<groups, peers, pc, found, ids, todo, old>>
  BY <1>1 DEF EditPolicy, Edited, memory, TypeOK
<1>3. PICK p : /\ policies' = [policies EXCEPT ![n] = p]
               /\ \/ p = [policies[n] EXCEPT !.enabled = ~@]
                  \/ p = [policies[n] EXCEPT !.blocked = ~@]
                  \/ p = [policies[n] EXCEPT !.edition = @ + 1]
  BY DEF EditPolicy
<1>4. /\ p.name = policies[n].name /\ p.sources = policies[n].sources
      /\ p.destinations = policies[n].destinations
  BY <1>1, <1>3 DEF PolicyRecords
<1>5. policies[n].edition \in 0..edits' /\ policies[n].edition + 1 \in 0..edits'
  BY <1>1, <1>2 DEF PolicyRecords, TypeOK
<1>6. p \in PolicyRecords' /\ (n = 1 => p \in BuiltIns')
  <2>1. (~ policies[n].enabled) \in BOOLEAN /\ (~ policies[n].blocked) \in BOOLEAN
    OBVIOUS
  <2> QED BY <1>1, <1>2, <1>3, <1>5, <2>1 DEF PolicyRecords, BuiltIns
<1>7. pc' \in [Runs -> {"idle", "failed", "applied", "switched"} \cup Going]
  BY <1>1, <1>2 DEF TypeOK
<1> QED BY <1>2, <1>3, <1>4, <1>6, <1>7, RewriteKeeps

(* Members come and go, peers are enrolled. *)
LEMMA PeopleKeep ==
  ASSUME NInv,
         \/ \E p \in LatePeers : Enroll(p)
         \/ \E n \in 1..Len(groups), members \in SUBSET AclPeers : EditMembers(n, members)
         \/ UNCHANGED vars
  PROVE  NInv'
<1>1. TypeOK /\ groups \in Seq(GroupRecords)
  BY DEF NInv, TypeOK
<1>2. /\ policies' = policies /\ UNCHANGED <<pc, found, ids, todo, old>>
      /\ edits' \in Nat /\ edits' >= edits
  BY <1>1 DEF Enroll, EditMembers, Edited, memory, account, vars, TypeOK
<1>3. /\ groups' \in Seq(GroupRecords) /\ Len(groups') = Len(groups)
      /\ \A n \in 1..Len(groups) : groups'[n].name = groups[n].name
  <2>1. CASE groups' = groups
    BY <1>1, <2>1
  <2>2. ASSUME NEW n \in 1..Len(groups), NEW members \in SUBSET AclPeers,
               groups' = [groups EXCEPT ![n].peers = members]
        PROVE  /\ groups' \in Seq(GroupRecords) /\ Len(groups') = Len(groups)
               /\ \A m \in 1..Len(groups) : groups'[m].name = groups[m].name
    <3>1. groups[n] \in GroupRecords
      BY <1>1
    <3>2. [groups[n] EXCEPT !.peers = members] \in GroupRecords
      BY <3>1 DEF GroupRecords
    <3>3. [groups[n] EXCEPT !.peers = members].name = groups[n].name
      BY <3>1 DEF GroupRecords
    <3> QED BY <1>1, <2>2, <3>2, <3>3
  <2> QED BY <2>1, <2>2 DEF Enroll, EditMembers, account, vars
<1>4. /\ PolicyRecords \subseteq PolicyRecords' /\ old \in [Runs -> BuiltIns']
      /\ ids \in [Runs -> SUBSET (1..Len(groups'))] /\ BuiltIns \subseteq BuiltIns'
  <2>1. Len(groups') \in Nat /\ Len(groups') >= Len(groups)
    BY <1>1, <1>3, Lengths
  <2> QED BY <1>1, <1>2, <2>1, MemoryTyped
<1>5. policies' \in Seq(PolicyRecords')
  BY <1>1, <1>2, <1>4 DEF TypeOK
<1>6. peers' \subseteq AclPeers
  <2>1. CASE peers' = peers
    BY <1>1, <2>1 DEF TypeOK
  <2>2. ASSUME NEW p \in LatePeers, Enroll(p)
        PROVE  peers' \subseteq AclPeers
    BY <1>1, <2>2, NetbirdAssumption DEF TypeOK, Enroll
  <2> QED BY <2>1, <2>2 DEF EditMembers, Edited, vars
<1>7. TypeOK'
  <2>1. GroupRecords' = GroupRecords
    BY DEF GroupRecords
  <2> QED BY <1>1, <1>2, <1>3, <1>4, <1>5, <1>6, <2>1 DEF TypeOK
<1>8. Kept
  BY <1>1, <1>2, <1>3, Lengths DEF Kept
<1>9. PoliciesFit'
  <2>1. ~ \E n \in 1..Len(policies') : n > Len(policies)
    BY <1>1, <1>2, Lengths
  <2> QED BY <1>1, <1>8, <2>1, FitKept DEF NInv
<1>10. DefaultFirst'
  BY <1>2, <1>3, <1>4 DEF NInv, DefaultFirst
<1>11. \A i \in Runs : Informed(i)'
  BY <1>1, <1>2, <1>8, InformedKept DEF NInv
<1> QED BY <1>7, <1>9, <1>10, <1>11 DEF NInv

LEMMA NextKeeps == NInv /\ [Next]_vars => NInv'
BY QuietKeeps, CreateGroupKeeps, CreatePolicyKeeps, PutDefaultKeeps,
   EditPolicyKeeps, PeopleKeep DEF Next, Apply

(* What runs know of the account stays true while others change it. *)
THEOREM NetbirdInvariant == Spec => []NInv
BY InitInvariant, NextKeeps, PTL DEF Spec

(* Groups, policies and what runs remember of them are well formed. *)
THEOREM NetbirdTyped == Spec => []TypeOK
<1>1. NInv => TypeOK
  BY DEF NInv
<1> QED BY <1>1, NetbirdInvariant, PTL

(* A run that ended well left nothing missing, for good. *)
THEOREM NetbirdAppliedIsThere == Spec => []AppliedIsThere
<1>1. NInv => AppliedIsThere
  <2> SUFFICES ASSUME NInv, NEW i \in Runs, pc[i] = "applied"
               PROVE  /\ NamesOf(AclGroups) \subseteq NamesOf(groups)
                      /\ NamesOf(AclPolicies) \subseteq NamesOf(policies)
    BY DEF AppliedIsThere
  <2>1. /\ NamesOf(AclGroups) \subseteq Known(i)
        /\ \A k \in 1..Len(AclPolicies) : AclPolicies[k].name \in NamesOf(policies)
    BY DEF NInv, Informed, Settled
  <2>2. Known(i) \subseteq NamesOf(groups)
    BY DEF NInv, TypeOK, Known, NamesOf
  <2>3. NamesOf(AclPolicies) \subseteq NamesOf(policies)
    BY <2>1 DEF NamesOf
  <2> QED BY <2>1, <2>2, <2>3
<1> QED BY <1>1, NetbirdInvariant, PTL

(* Policies are about the groups that the list names. *)
THEOREM NetbirdPoliciesFit == Spec => []PoliciesFit
<1>1. NInv => PoliciesFit
  BY DEF NInv
<1> QED BY <1>1, NetbirdInvariant, PTL

(* Both together (apply, policy_payload). *)
THEOREM NetbirdAppliedFits == Spec => []AppliedFits
<1>1. AppliedIsThere /\ PoliciesFit => AppliedFits
  BY DEF AppliedFits
<1> QED BY <1>1, NetbirdAppliedIsThere, NetbirdPoliciesFit, PTL

(* No step of a run takes anything away or changes anything but the        *)
(* Default policy.                                                         *)
THEOREM NetbirdOnlyCreates == Spec => OnlyCreates
<1> DEFINE Same == /\ \A n \in 1..Len(groups) : groups'[n] = groups[n]
                   /\ \A n \in 1..Len(policies) :
                        policies[n].name # Default => policies'[n] = policies[n]
<1>1. ASSUME NInv, Next, edits' = edits PROVE Same
  <2>1. groups \in Seq(GroupRecords) /\ policies \in Seq(PolicyRecords) /\ edits \in Nat
    BY <1>1 DEF NInv, TypeOK
  <2>2. CASE UNCHANGED account
    BY <2>2 DEF account
  <2>3. ASSUME NEW i \in Runs, CreateGroup(i) PROVE Same
    BY <2>1, <2>3 DEF CreateGroup
  <2>4. ASSUME NEW i \in Runs, CreatePolicy(i) PROVE Same
    BY <2>1, <2>4 DEF CreatePolicy
  <2>5. ASSUME NEW i \in Runs, PutDefault(i) PROVE Same
    <3>1. policies[1].name = Default
      BY <1>1 DEF NInv, DefaultFirst, BuiltIns
    <3>2. groups' = groups /\ \A n \in 1..Len(policies) \ {1} : policies'[n] = policies[n]
      BY <2>1, <2>5 DEF PutDefault
    <3> QED BY <3>1, <3>2
  <2>6. ~ Edited
    BY <1>1, <2>1 DEF Edited
  <2> QED BY <1>1, <2>2, <2>3, <2>4, <2>5, <2>6
          DEF Next, Apply, Begin, Fail, GetPeers, GetGroups, GetPolicies, Finish,
              GetDefault, Enroll, EditMembers, EditPolicy
<1>2. NInv /\ [Next]_vars =>
        [edits' = edits =>
           /\ \A n \in 1..Len(groups) : groups'[n] = groups[n]
           /\ \A n \in 1..Len(policies) :
                policies[n].name # Default => policies'[n] = policies[n]]_vars
  BY <1>1
<1> QED BY <1>2, NetbirdInvariant, PTL DEF Spec, OnlyCreates

-----------------------------------------------------------------------------
(* Without an edit the account holds what runs have put there, and of the  *)
(* policies only the built-in one is ever changed.                         *)
Fresh ==
  edits = 0 =>
    /\ \A n \in 1..Len(groups), k \in 1..Len(AclGroups) :
         groups[n].name = AclGroups[k].name => groups[n].peers = AclGroups[k].peers
    /\ \A n \in 1..Len(policies) :
         policies[n].name # Default => policies[n].enabled /\ policies[n].edition = 0

LEMMA FreshInit == Init => Fresh
BY NetbirdAssumption DEF Init, Fresh, BuiltIn, NamesOf

LEMMA FreshStep == NInv /\ Fresh /\ [Next]_vars => Fresh'
<1> SUFFICES ASSUME NInv, Fresh, [Next]_vars, edits' = 0
             PROVE  /\ \A n \in 1..Len(groups'), k \in 1..Len(AclGroups) :
                         groups'[n].name = AclGroups[k].name => groups'[n].peers = AclGroups[k].peers
                    /\ \A n \in 1..Len(policies') :
                         policies'[n].name # Default => policies'[n].enabled /\ policies'[n].edition = 0
  BY DEF Fresh
<1>1. groups \in Seq(GroupRecords) /\ policies \in Seq(PolicyRecords) /\ edits \in Nat
  BY DEF NInv, TypeOK
<1>2. ~Edited
  BY <1>1 DEF Edited
<1>3. edits = 0
  BY <1>2 DEF Next, Apply, Begin, Fail, GetPeers, GetGroups, CreateGroup, GetPolicies, CreatePolicy,
              Finish, GetDefault, PutDefault, Enroll, EditMembers, EditPolicy, vars
<1>4. CASE UNCHANGED account
  BY <1>3, <1>4 DEF Fresh, account
<1>5. ASSUME NEW i \in Runs, CreateGroup(i)
      PROVE  \A n \in 1..Len(groups'), k \in 1..Len(AclGroups) :
               groups'[n].name = AclGroups[k].name => groups'[n].peers = AclGroups[k].peers
  <2> DEFINE m == Min(Missing(i))
  <2>1. m \in 1..Len(AclGroups) /\ groups' = Append(groups, AclGroups[m])
    <3>1. Missing(i) \in SUBSET Nat /\ Missing(i) # {}
      BY <1>5, NetbirdAssumption DEF Missing, CreateGroup
    <3>2. m \in Missing(i)
      BY <3>1, MinOfNaturals
    <3> QED BY <1>5, <3>2 DEF Missing, CreateGroup
  <2> HIDE DEF m
  <2>2. ASSUME NEW n \in 1..Len(groups'), NEW k \in 1..Len(AclGroups),
               groups'[n].name = AclGroups[k].name
        PROVE  groups'[n].peers = AclGroups[k].peers
    <3>1. CASE n = Len(groups) + 1
      <4>1. groups'[n] = AclGroups[m]
        BY <1>1, <2>1, <3>1
      <4>2. m = k
        BY <2>1, <2>2, <4>1, NetbirdAssumption
      <4> QED BY <4>1, <4>2
    <3>2. CASE n # Len(groups) + 1
      <4>1. Len(groups) \in Nat /\ Len(groups') = Len(groups) + 1
        BY <1>1, <2>1
      <4>2. n \in 1..Len(groups)
        BY <3>2, <4>1
      <4>3. groups'[n] = groups[n]
        BY <1>1, <2>1, <4>2
      <4> QED BY <1>3, <2>2, <4>2, <4>3 DEF Fresh
    <3> QED BY <3>1, <3>2
  <2> QED BY <2>2
<1>6. ASSUME NEW i \in Runs, CreatePolicy(i)
      PROVE  \A n \in 1..Len(policies') :
               policies'[n].name # Default => policies'[n].enabled /\ policies'[n].edition = 0
  <2>1. PICK p : policies' = Append(policies, p) /\ p.enabled /\ p.edition = 0
    BY <1>6 DEF CreatePolicy, Payload
  <2>2. ASSUME NEW n \in 1..Len(policies') PROVE n \in 1..Len(policies) \/ policies'[n] = p
    <3>1. Len(policies) \in Nat /\ Len(policies') = Len(policies) + 1
          /\ policies'[Len(policies) + 1] = p
      BY <1>1, <2>1
    <3> QED BY <3>1
  <2>3. \A n \in 1..Len(policies) : policies'[n] = policies[n]
    BY <1>1, <2>1
  <2> QED BY <1>3, <2>1, <2>2, <2>3 DEF Fresh
<1>7. ASSUME NEW i \in Runs, PutDefault(i)
      PROVE  \A n \in 1..Len(policies') :
               policies'[n].name # Default => policies'[n].enabled /\ policies'[n].edition = 0
  <2> DEFINE p == [old[i] EXCEPT !.enabled = (Command[i] = "on")]
  <2>1. policies' = [policies EXCEPT ![1] = p] /\ p.name = Default
    BY <1>7 DEF PutDefault, NInv, TypeOK, BuiltIns
  <2> HIDE DEF p
  <2>2. Len(policies') = Len(policies) /\ policies'[1] = p
        /\ \A n \in 1..Len(policies) \ {1} : policies'[n] = policies[n]
    BY <1>1, <2>1, Lengths DEF NInv, DefaultFirst
  <2> QED BY <1>3, <2>1, <2>2 DEF Fresh
<1>8. \/ UNCHANGED account
      \/ \E i \in Runs : CreateGroup(i) /\ policies' = policies
      \/ \E i \in Runs : (CreatePolicy(i) \/ PutDefault(i)) /\ groups' = groups
  BY <1>2 DEF Next, Apply, Begin, Fail, GetPeers, GetGroups, CreateGroup, GetPolicies, CreatePolicy,
              Finish, GetDefault, PutDefault, Enroll, EditMembers, EditPolicy, vars, account
<1>9. /\ groups' = groups => \A n \in 1..Len(groups'), k \in 1..Len(AclGroups) :
                               groups'[n].name = AclGroups[k].name => groups'[n].peers = AclGroups[k].peers
      /\ policies' = policies => \A n \in 1..Len(policies') :
                               policies'[n].name # Default => policies'[n].enabled /\ policies'[n].edition = 0
  BY <1>3 DEF Fresh
<1> QED BY <1>4, <1>5, <1>6, <1>7, <1>8, <1>9

(* What `check` looks up by name is in the list. *)
LEMMA NamedIsThere ==
  ASSUME NEW list, Len(list) \in Nat, NEW name \in NamesOf(list)
  PROVE  \E n \in 1..Len(list) : Named(list, name) = list[n] /\ list[n].name = name
<1> DEFINE same == {n \in 1..Len(list) : list[n].name = name}
<1>1. same \in SUBSET (1..Len(list)) /\ same # {}
  BY DEF NamesOf
<1>2. Max(same) \in same
  BY <1>1, MaxOfIndices
<1>3. Named(list, name) = list[Max(same)]
  BY DEF Named
<1> HIDE DEF same
<1>4. Max(same) \in 1..Len(list) /\ list[Max(same)].name = name
  BY <1>2 DEF same
<1> QED BY <1>3, <1>4

(* If nobody edits the account, `check` has nothing to say of what apply   *)
(* was to create (apply, diff).                                            *)
THEOREM NetbirdAppliedIsClean == Spec => []AppliedIsClean
<1>1. NInv /\ AppliedIsThere /\ Fresh => AppliedIsClean
  <2> SUFFICES ASSUME NInv, Fresh, edits = 0, AppliedIsThere, NEW i \in Runs, pc[i] = "applied"
               PROVE  Diff \subseteq {Default}
    BY DEF AppliedIsClean
  <2>1. /\ NamesOf(AclGroups) \subseteq NamesOf(groups)
        /\ NamesOf(AclPolicies) \subseteq NamesOf(policies)
        /\ Len(groups) \in Nat /\ Len(policies) \in Nat
    BY Lengths DEF AppliedIsThere, NInv
  <2>2. ASSUME NEW k \in 1..Len(AclGroups) PROVE ~GroupDiffers(AclGroups[k])
    <3>1. AclGroups[k].name \in NamesOf(groups)
      BY <2>1 DEF NamesOf
    <3>2. PICK n \in 1..Len(groups) : /\ Named(groups, AclGroups[k].name) = groups[n]
                                      /\ groups[n].name = AclGroups[k].name
      BY <2>1, <3>1, NamedIsThere
    <3> QED BY <3>1, <3>2 DEF GroupDiffers, Fresh
  <2>3. ASSUME NEW k \in 1..Len(AclPolicies) PROVE ~PolicyDiffers(AclPolicies[k])
    <3>1. AclPolicies[k].name \in NamesOf(policies)
      BY <2>1 DEF NamesOf
    <3>2. PICK n \in 1..Len(policies) : /\ Named(policies, AclPolicies[k].name) = policies[n]
                                        /\ policies[n].name = AclPolicies[k].name
      BY <2>1, <3>1, NamedIsThere
    <3>3. policies[n].enabled /\ policies[n].edition = 0
      BY <3>2, NetbirdAssumption DEF Fresh
    <3>4. /\ GroupNames(policies[n].sources) = AclPolicies[k].sources
          /\ GroupNames(policies[n].destinations) = AclPolicies[k].destinations
      BY <3>2 DEF NInv, PoliciesFit
    <3> QED BY <3>1, <3>2, <3>3, <3>4 DEF PolicyDiffers
  <2> QED BY <2>2, <2>3 DEF Diff
<1> QED BY <1>1, FreshInit, FreshStep, NetbirdInvariant, NetbirdAppliedIsThere, PTL DEF Spec

-----------------------------------------------------------------------------
Distinct(list) == \A m, n \in 1..Len(list) : list[m].name = list[n].name => m = n

(* Of runs that do not overlap the one that goes on knows all groups, and  *)
(* what it has still to create is not there yet.                           *)
Once ==
  AtOnce = 1 =>
    /\ \A i, j \in Runs : pc[i] \in Going /\ pc[j] \in Going => i = j
    /\ \A i \in Runs : pc[i] = "groups" => ids[i] = 1..Len(groups)
    /\ \A i \in Runs : pc[i] = "policies" =>
         \A k \in todo[i] : AclPolicies[k].name \notin NamesOf(policies)
    /\ Distinct(groups) /\ Distinct(policies)

LEMMA OnceInit == Init => Once
<1> SUFFICES ASSUME Init PROVE Once
  OBVIOUS
<1>1. Len(groups) = 1 /\ Len(policies) = 1
  BY DEF Init
<1> QED BY <1>1 DEF Init, Once, Distinct, Going

(* One more entry, with a name of its own. *)
LEMMA DistinctAppend ==
  ASSUME NEW S, NEW list \in Seq(S), Distinct(list), NEW e \in S, e.name \notin NamesOf(list)
  PROVE  Distinct(Append(list, e))
<1>1. /\ Len(list) \in Nat /\ Len(Append(list, e)) = Len(list) + 1
      /\ Append(list, e)[Len(list) + 1] = e
      /\ \A n \in 1..Len(list) : Append(list, e)[n] = list[n]
  OBVIOUS
<1>2. \A n \in 1..Len(Append(list, e)) : n \in 1..Len(list) \/ n = Len(list) + 1
  BY <1>1
<1> QED BY <1>1, <1>2 DEF Distinct, NamesOf

(* The names of the entries stay. *)
LEMMA DistinctStays ==
  ASSUME NEW list, NEW later, Len(later) = Len(list),
         \A n \in 1..Len(list) : later[n].name = list[n].name
  PROVE  Distinct(list) => Distinct(later)
BY DEF Distinct

(* A run begins alone, and only one that goes on moves. *)
LEMMA OneGoesOn ==
  ASSUME NInv, Once, AtOnce = 1, [Next]_vars
  PROVE  \A i, j \in Runs : pc'[i] \in Going /\ pc'[j] \in Going => i = j
<1>1. pc \in [Runs -> {"idle", "failed", "applied", "switched"} \cup Going]
  BY DEF NInv, TypeOK
<1>2. ASSUME NEW i \in Runs, Begin(i) PROVE \A j \in Runs : pc[j] \notin Going
  <2> DEFINE going == {j \in Runs : pc[j] \in Going}
  <2>1. IsFiniteSet(going) /\ Cardinality(going) < 1
    <3>1. IsFiniteSet(going)
      BY NetbirdAssumption, FS_Subset
    <3> QED BY <1>2, <3>1 DEF Once, Begin
  <2>2. going = {}
    BY <2>1, FS_EmptySet, FS_CardinalityType
  <2> QED BY <2>2
<1>3. ASSUME NEW i \in Runs, Begin(i)
      PROVE  \A k, j \in Runs : pc'[k] \in Going /\ pc'[j] \in Going => k = j
  BY <1>1, <1>2, <1>3 DEF Begin, Goes
<1>4. ASSUME NEW i \in Runs,
             Fail(i) \/ Apply(i) \/ GetDefault(i) \/ PutDefault(i)
      PROVE  pc[i] \in Going /\ \A j \in Runs \ {i} : pc'[j] = pc[j]
  BY <1>1, <1>4 DEF Fail, Apply, GetPeers, GetGroups, CreateGroup, GetPolicies, CreatePolicy,
                    Finish, GetDefault, PutDefault, Goes, Going
<1>5. \/ UNCHANGED pc
      \/ \E i \in Runs : Begin(i)
      \/ \E i \in Runs : Fail(i) \/ Apply(i) \/ GetDefault(i) \/ PutDefault(i)
  BY DEF Next, Enroll, EditMembers, EditPolicy, Edited, vars
<1> QED BY <1>3, <1>4, <1>5 DEF Once

(* The steps that create nothing leave all names as they are. *)
LEMMA NamesStay ==
  ASSUME NInv, [Next]_vars, \A i \in Runs : ~CreateGroup(i) /\ ~CreatePolicy(i)
  PROVE  /\ Len(groups') = Len(groups) /\ Len(policies') = Len(policies)
         /\ \A n \in 1..Len(groups) : groups'[n].name = groups[n].name
         /\ \A n \in 1..Len(policies) : policies'[n].name = policies[n].name
<1>1. groups \in Seq(GroupRecords) /\ policies \in Seq(PolicyRecords)
  BY DEF NInv, TypeOK
<1>2. ASSUME NEW n \in 1..Len(groups), NEW members, EditMembers(n, members)
      PROVE  /\ Len(groups') = Len(groups) /\ policies' = policies
             /\ \A k \in 1..Len(groups) : groups'[k].name = groups[k].name
  <2>1. groups[n] \in GroupRecords
    BY <1>1
  <2>2. [groups[n] EXCEPT !.peers = members].name = groups[n].name
    BY <2>1 DEF GroupRecords
  <2> QED BY <1>1, <1>2, <2>2 DEF EditMembers
<1>3. ASSUME NEW n \in 1..Len(policies), EditPolicy(n)
      PROVE  /\ Len(policies') = Len(policies) /\ groups' = groups
             /\ \A k \in 1..Len(policies) : policies'[k].name = policies[k].name
  <2>1. policies[n] \in PolicyRecords
    BY <1>1
  <2>2. PICK p : policies' = [policies EXCEPT ![n] = p] /\ p.name = policies[n].name
    BY <1>3, <2>1 DEF EditPolicy, PolicyRecords
  <2> QED BY <1>1, <1>3, <2>2 DEF EditPolicy
<1>4. ASSUME NEW i \in Runs, PutDefault(i)
      PROVE  /\ Len(policies') = Len(policies) /\ groups' = groups
             /\ \A k \in 1..Len(policies) : policies'[k].name = policies[k].name
  <2> DEFINE p == [old[i] EXCEPT !.enabled = (Command[i] = "on")]
  <2>1. policies' = [policies EXCEPT ![1] = p] /\ p.name = Default
    BY <1>4 DEF PutDefault, NInv, TypeOK, BuiltIns
  <2>2. policies[1].name = Default
    BY DEF NInv, DefaultFirst, BuiltIns
  <2> HIDE DEF p
  <2>3. /\ Len(policies') = Len(policies) /\ policies'[1] = p
        /\ \A k \in 1..Len(policies) \ {1} : policies'[k] = policies[k]
    BY <1>1, <2>1, Lengths DEF NInv, DefaultFirst
  <2> QED BY <1>4, <2>1, <2>2, <2>3 DEF PutDefault
<1>5. \/ UNCHANGED account
      \/ \E n \in 1..Len(groups), members \in SUBSET AclPeers : EditMembers(n, members)
      \/ \E n \in 1..Len(policies) : EditPolicy(n)
      \/ \E i \in Runs : PutDefault(i)
  BY DEF Next, Apply, Begin, Fail, GetPeers, GetGroups, GetPolicies, Finish, GetDefault, Enroll, vars,
         account
<1> QED BY <1>2, <1>3, <1>4, <1>5 DEF account

LEMMA AppendedNames ==
  ASSUME NEW S, NEW list \in Seq(S), NEW e \in S
  PROVE  NamesOf(Append(list, e)) = NamesOf(list) \cup {e.name}
<1>1. /\ Len(list) \in Nat /\ Len(Append(list, e)) = Len(list) + 1
      /\ Append(list, e)[Len(list) + 1] = e
      /\ \A n \in 1..Len(list) : Append(list, e)[n] = list[n]
  OBVIOUS
<1>2. /\ \A n \in 1..Len(Append(list, e)) : n \in 1..Len(list) \/ n = Len(list) + 1
      /\ \A n \in 1..Len(list) : n \in 1..Len(Append(list, e))
      /\ Len(list) + 1 \in 1..Len(Append(list, e))
  BY <1>1
<1> QED BY <1>1, <1>2 DEF NamesOf

LEMMA OnceCreateGroup ==
  ASSUME NInv, Once, AtOnce = 1, NEW i \in Runs, CreateGroup(i)
  PROVE  /\ \A j \in Runs : pc'[j] = "groups" => ids'[j] = 1..Len(groups')
         /\ \A j \in Runs : pc'[j] # "policies"
         /\ Distinct(groups')
<1> DEFINE m == Min(Missing(i))
<1>1. groups \in Seq(GroupRecords) /\ pc[i] = "groups" /\ ids[i] = 1..Len(groups)
  BY DEF NInv, TypeOK, Once, CreateGroup
<1>2. /\ m \in 1..Len(AclGroups) /\ AclGroups[m].name \notin Known(i)
      /\ groups' = Append(groups, AclGroups[m])
  <2>1. Missing(i) \in SUBSET Nat /\ Missing(i) # {}
    BY NetbirdAssumption DEF Missing, CreateGroup
  <2>2. m \in Missing(i)
    BY <2>1, MinOfNaturals
  <2> QED BY <2>2 DEF Missing, CreateGroup
<1> HIDE DEF m
<1>3. AclGroups[m] \in GroupRecords /\ AclGroups[m].name \notin NamesOf(groups)
  BY <1>1, <1>2, NetbirdAssumption DEF GroupRecords, Known, NamesOf
<1>4. Distinct(groups')
  BY <1>1, <1>2, <1>3, DistinctAppend DEF Once
<1>5. Len(groups') = Len(groups) + 1 /\ Len(groups) \in Nat
  BY <1>1, <1>2
<1>6. \A j \in Runs \ {i} : pc[j] \notin Going /\ pc'[j] = pc[j]
  BY <1>1 DEF Once, CreateGroup, Goes, NInv, TypeOK, Going
<1>7. pc'[i] = "groups" => ids'[i] = 1..Len(groups) + 1
  <2>1. CASE ids' = [ids EXCEPT ![i] = @ \cup {Len(groups) + 1}]
    <3>1. ids'[i] = (1..Len(groups)) \cup {Len(groups) + 1}
      BY <1>1, <2>1 DEF NInv, TypeOK
    <3> QED BY <1>5, <3>1
  <2>2. CASE Goes(i, "groups", "failed")
    BY <2>2 DEF Goes, NInv, TypeOK
  <2> QED BY <2>1, <2>2 DEF CreateGroup
<1>8. pc'[i] \in {"groups", "failed"}
  BY <1>1 DEF CreateGroup, Goes, NInv, TypeOK
<1> QED BY <1>4, <1>5, <1>6, <1>7, <1>8 DEF Going

LEMMA OnceCreatePolicy ==
  ASSUME NInv, Once, AtOnce = 1, NEW i \in Runs, CreatePolicy(i)
  PROVE  /\ \A j \in Runs : pc'[j] # "groups"
         /\ \A j \in Runs : pc'[j] = "policies" =>
              \A k \in todo'[j] : AclPolicies[k].name \notin NamesOf(policies')
         /\ Distinct(policies')
<1> DEFINE m == Min(todo[i])
           p == Payload(i, AclPolicies[m])
<1>1. /\ policies \in Seq(PolicyRecords) /\ pc[i] = "policies"
      /\ \A k \in todo[i] : AclPolicies[k].name \notin NamesOf(policies)
      /\ todo \in [Runs -> SUBSET (1..Len(AclPolicies))]
  BY DEF NInv, TypeOK, Once, CreatePolicy
<1>2. m \in todo[i] /\ m \in 1..Len(AclPolicies) /\ policies' = Append(policies, p)
  <2>1. todo[i] \in SUBSET Nat /\ todo[i] # {}
    BY <1>1, NetbirdAssumption DEF CreatePolicy
  <2>2. m \in todo[i]
    BY <2>1, MinOfNaturals
  <2> QED BY <1>1, <2>2 DEF CreatePolicy
<1> HIDE DEF m
<1>3. p \in PolicyRecords /\ p.name = AclPolicies[m].name
  <2>1. NamesOf(AclGroups) \subseteq Known(i)
    BY <1>1 DEF NInv, Informed, Settled
  <2>2. p.sources \subseteq 1..Len(groups) /\ p.destinations \subseteq 1..Len(groups)
    BY <1>2, <2>1, PayloadNames DEF NInv
  <2>3. AclPolicies[m].name \in NamesOf(AclPolicies) /\ 0 \in 0..edits
    BY <1>2 DEF NamesOf, NInv, TypeOK
  <2> QED BY <2>2, <2>3 DEF Payload, PolicyRecords
<1> HIDE DEF p
<1>4. Distinct(policies') /\ NamesOf(policies') = NamesOf(policies) \cup {AclPolicies[m].name}
  BY <1>1, <1>2, <1>3, DistinctAppend, AppendedNames DEF Once
<1>5. \A j \in Runs \ {i} : pc[j] \notin Going /\ pc'[j] = pc[j]
  BY <1>1 DEF Once, CreatePolicy, Goes, NInv, TypeOK, Going
<1>6. pc'[i] = "policies" => todo'[i] = todo[i] \ {m}
  <2>1. CASE todo' = [todo EXCEPT ![i] = @ \ {Min(@)}]
    BY <1>1, <2>1 DEF m
  <2>2. CASE Goes(i, "policies", "failed")
    BY <2>2 DEF Goes, NInv, TypeOK
  <2> QED BY <2>1, <2>2 DEF CreatePolicy
<1>7. pc'[i] \in {"policies", "failed"}
  BY <1>1 DEF CreatePolicy, Goes, NInv, TypeOK
<1>8. \A k \in todo[i] \ {m} : AclPolicies[k].name \notin NamesOf(policies')
  BY <1>1, <1>2, <1>4, NetbirdAssumption
<1> QED BY <1>4, <1>5, <1>6, <1>7, <1>8 DEF Going

LEMMA OnceStep == NInv /\ Once /\ [Next]_vars => Once'
<1> SUFFICES ASSUME NInv, Once, [Next]_vars, AtOnce = 1 PROVE Once'
  BY DEF Once
<1>1. \A i, j \in Runs : pc'[i] \in Going /\ pc'[j] \in Going => i = j
  BY OneGoesOn
<1>2. ASSUME NEW i \in Runs, CreateGroup(i) PROVE Once'
  BY <1>1, <1>2, OnceCreateGroup DEF Once, CreateGroup, Distinct
<1>3. ASSUME NEW i \in Runs, CreatePolicy(i) PROVE Once'
  BY <1>1, <1>3, OnceCreatePolicy DEF Once, CreatePolicy, Distinct
<1>4. CASE \A i \in Runs : ~CreateGroup(i) /\ ~CreatePolicy(i)
  <2>1. /\ Len(groups') = Len(groups) /\ Len(policies') = Len(policies)
        /\ \A n \in 1..Len(groups) : groups'[n].name = groups[n].name
        /\ \A n \in 1..Len(policies) : policies'[n].name = policies[n].name
    BY <1>4, NamesStay
  <2>2. Distinct(groups') /\ Distinct(policies')
    BY <2>1, DistinctStays DEF Once
  <2>3. NamesOf(policies') = NamesOf(policies)
    BY <2>1 DEF NamesOf
  <2>4. ASSUME NEW j \in Runs, pc'[j] = "groups"
        PROVE  \/ pc[j] = "groups" /\ ids'[j] = ids[j]
               \/ ids'[j] = 1..Len(groups)
    BY <1>4, <2>4 DEF Next, Apply, Begin, Fail, GetPeers, GetGroups, GetPolicies, Finish, GetDefault,
         PutDefault, Enroll, EditMembers, EditPolicy, Edited, Goes, memory, vars, NInv, TypeOK, Going
  <2>5. ASSUME NEW j \in Runs, pc'[j] = "policies"
        PROVE  \/ pc[j] = "policies" /\ todo'[j] = todo[j]
               \/ todo'[j] = {k \in 1..Len(AclPolicies) : AclPolicies[k].name \notin NamesOf(policies)}
    BY <1>4, <2>5 DEF Next, Apply, Begin, Fail, GetPeers, GetGroups, GetPolicies, Finish, GetDefault,
         PutDefault, Enroll, EditMembers, EditPolicy, Edited, Goes, memory, vars, NInv, TypeOK, Going
  <2>6. \A j \in Runs : pc'[j] = "groups" => ids'[j] = 1..Len(groups')
    BY <2>1, <2>4 DEF Once
  <2>7. \A j \in Runs : pc'[j] = "policies" =>
          \A k \in todo'[j] : AclPolicies[k].name \notin NamesOf(policies')
    BY <2>3, <2>5 DEF Once
  <2> QED BY <1>1, <2>2, <2>6, <2>7 DEF Once, Distinct
<1> QED BY <1>2, <1>3, <1>4

(* Runs that do not overlap create everything once, however many of them   *)
(* were cut short (apply).                                                 *)
THEOREM NetbirdCreatedOnce == Spec => []CreatedOnce
<1>1. Once => CreatedOnce
  BY DEF Once, CreatedOnce, Distinct
<1> QED BY <1>1, OnceInit, OnceStep, NetbirdInvariant, PTL DEF Spec

(* When `check` has nothing to say and no rule was switched off or set to  *)
(* drop, every connection acl.json is for is possible: what is compared by *)
(* name is all there is of that name (diff).                               *)
THEOREM NetbirdCheckedFlowsWork == Spec => []CheckedFlowsWork
<1>1. NInv /\ CreatedOnce => CheckedFlowsWork
  <2> SUFFICES ASSUME NInv, CreatedOnce, AtOnce = 1, Diff \subseteq {Default}, RulesAccept,
                      NEW k \in 1..Len(AclPolicies),
                      NEW a \in 1..Len(AclGroups), NEW b \in 1..Len(AclGroups),
                      AclGroups[a].name \in AclPolicies[k].sources,
                      AclGroups[b].name \in AclPolicies[k].destinations,
                      NEW p \in AclGroups[a].peers, NEW q \in AclGroups[b].peers
               PROVE  Flow(p, q)
    BY DEF CheckedFlowsWork, FlowsOf
  <2>1. Len(groups) \in Nat /\ Len(policies) \in Nat
    BY Lengths DEF NInv
  <2>2. ASSUME NEW c \in 1..Len(AclGroups), NEW n \in 1..Len(groups),
               groups[n].name = AclGroups[c].name
        PROVE  groups[n].peers = AclGroups[c].peers
    <3>1. ~GroupDiffers(AclGroups[c])
      <4>1. GroupDiffers(AclGroups[c]) => AclGroups[c].name \in Diff
        BY DEF Diff
      <4>2. AclGroups[c].name # Default
        BY NetbirdAssumption DEF NamesOf
      <4> QED BY <4>1, <4>2
    <3>2. PICK m \in 1..Len(groups) : /\ Named(groups, AclGroups[c].name) = groups[m]
                                      /\ groups[m].name = AclGroups[c].name
      BY <2>1, <3>1, NamedIsThere DEF GroupDiffers
    <3>3. m = n
      BY <2>2, <3>2 DEF CreatedOnce
    <3> QED BY <3>1, <3>2, <3>3 DEF GroupDiffers
  <2>3. ~PolicyDiffers(AclPolicies[k])
    <3>1. PolicyDiffers(AclPolicies[k]) => AclPolicies[k].name \in Diff
      BY DEF Diff
    <3>2. AclPolicies[k].name # Default
      BY NetbirdAssumption
    <3> QED BY <3>1, <3>2
  <2>4. PICK n \in 1..Len(policies) : Named(policies, AclPolicies[k].name) = policies[n]
    BY <2>1, <2>3, NamedIsThere DEF PolicyDiffers
  <2>5. /\ policies[n].enabled /\ ~policies[n].blocked /\ policies[n].edition = 0
        /\ GroupNames(policies[n].sources) = AclPolicies[k].sources
        /\ GroupNames(policies[n].destinations) = AclPolicies[k].destinations
        /\ policies[n].sources \subseteq 1..Len(groups)
        /\ policies[n].destinations \subseteq 1..Len(groups)
    <3>1. policies[n] \in PolicyRecords
      BY DEF NInv, TypeOK
    <3>2. policies[n].sources \subseteq 1..Len(groups) /\ policies[n].destinations \subseteq 1..Len(groups)
      BY <3>1 DEF PolicyRecords
    <3> QED BY <2>3, <2>4, <3>2 DEF PolicyDiffers, RulesAccept
  <2>6. PICK c \in policies[n].sources : groups[c].name = AclGroups[a].name
    BY <2>5 DEF GroupNames
  <2>7. PICK d \in policies[n].destinations : groups[d].name = AclGroups[b].name
    BY <2>5 DEF GroupNames
  <2>8. groups[c].peers = AclGroups[a].peers /\ groups[d].peers = AclGroups[b].peers
    BY <2>2, <2>5, <2>6, <2>7
  <2> QED BY <2>5, <2>8 DEF Flow
<1> QED BY <1>1, NetbirdInvariant, NetbirdCreatedOnce, PTL

-----------------------------------------------------------------------------
(* setup.sh *)

Written == [model : Models, key : Keys \cup {Placeholder}]
WithKey == {"truncate", "write", "service", "health", "done"}

RigTyped ==
  /\ src \in {"none", "clean", "stuck"}
  /\ libs \in BOOLEAN /\ bin \in BOOLEAN /\ rebuild \in BOOLEAN /\ fault \in BOOLEAN
  /\ model \in Models /\ told \in Keys \cup {None}
  /\ env \in {None, Empty} \cup Written
  /\ rigPc \in {"idle", "build", "checkout", "clean", "compile", "install", "devices", "model", "env", "failed"}
                 \cup WithKey

(* What each part of the script can rely on when the run has come so far.  *)
Reached ==
  /\ rigPc = "checkout" => src # "none"
  /\ rigPc = "install" => libs
  /\ rigPc = "devices" => bin /\ (rebuild => libs)
  /\ rigPc \in {"model", "env"} \cup WithKey => libs /\ bin
  /\ rigPc \in {"env"} \cup WithKey => gguf # None
  /\ rigPc \in WithKey => key \in Keys
  /\ rigPc \in {"service", "health", "done"} => env = [model |-> model, key |-> key]
  /\ rigPc \in {"health", "done"} => worker = env

(* The key of the last run that ended well is in the file, or the run that *)
(* has emptied it holds it.                                                *)
KeyHeld ==
  told # None /\ ~cut =>
    /\ rigPc \in WithKey => key = told
    /\ rigPc # "write" => Setup!KeyOf(env) = told

RigInv == RigTyped /\ Reached /\ KeyHeld /\ Setup!RebuildRecovers

LEMMA KeyOfWritten ==
  ASSUME NEW e \in Written
  PROVE  Setup!KeyOf(e) = e.key /\ Setup!KeyOf(Empty) = None /\ Setup!KeyOf(None) = None
BY RigAssumption DEF Setup!KeyOf, Written

LEMMA RigInit == Setup!Init => RigInv
BY DEF Setup!Init, RigInv, RigTyped, Written, Reached, KeyHeld, WithKey, Setup!RebuildRecovers

LEMMA RigStep == RigInv /\ [Setup!Next]_Setup!vars => RigInv'
<1> SUFFICES ASSUME RigInv, [Setup!Next]_Setup!vars PROVE RigInv'
  OBVIOUS
<1> USE DEF RigInv, RigTyped, Reached, KeyHeld, WithKey, Setup!RebuildRecovers, Setup!Goto,
            Setup!disk, Setup!given, Setup!Stopped
<1>1. ASSUME NEW m \in Models, NEW r \in BOOLEAN, Setup!Begin(m, r) PROVE RigInv'
  BY <1>1 DEF Setup!Begin, Setup!KeyOf
<1>2. CASE \/ Setup!SkipBuild \/ Setup!Fetch \/ Setup!Checkout \/ Setup!Clean
           \/ Setup!Compile \/ Setup!InstallBin
  <2>1. CASE Setup!SkipBuild
    BY <2>1 DEF Setup!SkipBuild, Setup!Building, Setup!KeyOf
  <2>2. CASE Setup!Fetch
    BY <2>2 DEF Setup!Fetch, Setup!KeyOf
  <2>3. CASE Setup!Checkout
    BY <2>3 DEF Setup!Checkout, Setup!KeyOf
  <2>4. CASE Setup!Clean
    BY <2>4 DEF Setup!Clean, Setup!KeyOf
  <2>5. CASE Setup!Compile
    BY <2>5 DEF Setup!Compile, Setup!KeyOf
  <2>6. CASE Setup!InstallBin
    BY <2>6 DEF Setup!InstallBin, Setup!KeyOf
  <2> QED BY <1>2, <2>1, <2>2, <2>3, <2>4, <2>5, <2>6
<1>3. CASE Setup!ListDevices \/ Setup!LinkModel
  BY <1>3, RigAssumption DEF Setup!ListDevices, Setup!LinkModel, Setup!KeyOf
<1>4. CASE Setup!ReadKey
  <2>1. key' \in Keys
    BY <1>4 DEF Setup!ReadKey, Setup!KeyOf, Written
  <2>2. told # None /\ ~cut => key' = told
    BY <1>4, RigAssumption DEF Setup!ReadKey
  <2> QED BY <1>4, <2>1, <2>2 DEF Setup!ReadKey, Setup!KeyOf
<1>5. CASE Setup!Truncate
  BY <1>5 DEF Setup!Truncate
<1>6. CASE Setup!WriteEnv
  <2>1. env' \in Written /\ env'.key = key
    BY <1>6 DEF Setup!WriteEnv, Written
  <2>2. Setup!KeyOf(env)' = key
    BY <2>1, RigAssumption DEF Setup!KeyOf, Written
  <2> QED BY <1>6, <2>1, <2>2 DEF Setup!WriteEnv
<1>7. CASE Setup!Restart
  BY <1>7 DEF Setup!Restart, Setup!KeyOf
<1>8. CASE Setup!Health
  <2>1. env \in Written /\ env.key = key
    BY <1>8 DEF Setup!Health, Written
  <2>2. Setup!KeyOf(env) = key
    BY <2>1, RigAssumption DEF Setup!KeyOf, Written
  <2> QED BY <1>8, <2>2 DEF Setup!Health, Setup!KeyOf
<1>9. CASE Setup!Fail
  BY <1>9 DEF Setup!Fail, Setup!KeyOf
<1>10. CASE UNCHANGED Setup!vars
  BY <1>10 DEF Setup!vars, Setup!KeyOf
<1> QED BY <1>1, <1>2, <1>3, <1>4, <1>5, <1>6, <1>7, <1>8, <1>9, <1>10 DEF Setup!Next

(* What the parts of setup.sh rely on holds however many runs were cut     *)
(* short, and where.                                                       *)
THEOREM RigInvariant == Setup!Spec => []RigInv
BY RigInit, RigStep, PTL DEF Setup!Spec

(* A run that ends well leaves one consistent installation, and REBUILD=1  *)
(* recovers from whatever is there but a checkout that git was cut short   *)
(* in (all of the script).                                                 *)
THEOREM RigSetupRight == Setup!Spec => []SetupRight
<1>1. RigInv => SetupRight
  BY DEF RigInv, Reached, WithKey, SetupRight, Setup!SetupRight, Setup!DoneIsConsistent
<1> QED BY <1>1, RigInvariant, PTL

(* The key of runs that end well changes only after a run was cut short    *)
(* while it wrote the file (ReadKey).                                      *)
THEOREM RigKeyKept == Setup!Spec => KeyKeptUnlessCut
<1>1. RigInv /\ [Setup!Next]_Setup!vars => (told # None /\ told' # told => cut) \/ UNCHANGED Setup!vars
  <2> SUFFICES ASSUME RigInv, Setup!Next, told # None, told' # told PROVE cut
    BY DEF RigInv
  <2>1. Setup!Health
    BY DEF Setup!Next, Setup!Begin, Setup!SkipBuild, Setup!Fetch, Setup!Checkout, Setup!Clean,
           Setup!Compile, Setup!InstallBin,
           Setup!ListDevices, Setup!LinkModel, Setup!ReadKey, Setup!Truncate, Setup!WriteEnv,
           Setup!Restart, Setup!Fail, Setup!given
  <2> QED BY <2>1 DEF Setup!Health, Setup!Goto, RigInv, KeyHeld, WithKey
<1>2. RigInv /\ [Setup!Next]_Setup!vars => [told # None /\ told' # told => cut]_Setup!vars
  BY <1>1
<1> QED BY <1>2, RigInvariant, PTL DEF Setup!Spec, KeyKeptUnlessCut, Setup!KeyKeptUnlessCut

(***************************************************************************)
(* build_iso.py.  What the steps of a run rely on is what the same run has *)
(* written: nothing that an earlier run left behind is read.               *)
(***************************************************************************)
WithAutoinstall == {"written", "cleared", "extracted", "patched", "summed", "unlinked", "done"}
Rendered == WithAutoinstall \cup {"rendered"}

PatchedStock == Installer!PatchGrub(Stock[iso].grub)
SummedStock == Installer!UpdateSums(Stock[iso].sums, "grub", PatchedStock)

(* The files that are mapped into the image, as far as they are written. *)
Staged ==
  /\ isoPc \in Rendered => secret \in Good
  /\ isoPc \in WithAutoinstall => dir["autoinstall.yaml"] = secret
  /\ isoPc = "extracted" => dir["grub.cfg.stock"] = Stock[iso].grub
  /\ isoPc \in {"extracted", "patched"} => dir["md5sum.txt.stock"] = Stock[iso].sums
  /\ isoPc \in {"patched", "summed", "unlinked"} =>
       /\ Installer!Patchable(Stock[iso].grub)
       /\ grub = PatchedStock /\ dir["grub.cfg"] = PatchedStock
  /\ isoPc \in {"summed", "unlinked"} =>
       "grub" \in DOMAIN Stock[iso].sums /\ dir["md5sum.txt"] = SummedStock

IsoInv ==
  /\ iso \in Isos
  /\ dir = [n \in Installer!Names |-> dir[n]]
  /\ image = [i \in Isos |-> image[i]]
  /\ Staged
  /\ Installer!ImagesBoot
  /\ Installer!DoneIsNew
  /\ Installer!StockKept

(* An image made of what the steps write boots, and is no file cut short.  *)
Made(i, s) ==
  [base |-> i, autoinstall |-> s, grub |-> Installer!PatchGrub(Stock[i].grub),
   sums |-> Installer!UpdateSums(Stock[i].sums, "grub", Installer!PatchGrub(Stock[i].grub))]

LEMMA MadeBoots ==
  ASSUME NEW i \in Isos, NEW s \in Good,
         Installer!Patchable(Stock[i].grub), "grub" \in DOMAIN Stock[i].sums
  PROVE  Made(i, s) \notin {None, Cut} /\ Installer!Bootable(Made(i, s))
<1> DEFINE lines == Stock[i].grub
           new == Installer!PatchGrub(lines)
           sums == Installer!UpdateSums(Stock[i].sums, "grub", new)
<1>1. lines \in [DOMAIN lines -> Installer!Lines]
  BY IsoAssumption
<1>2. Made(i, s) \in Images
  BY DEF Made, Images
<1>3. new = [n \in DOMAIN lines |-> Installer!PatchLine(lines[n])]
  BY DEF Installer!PatchGrub
<1>4. ASSUME NEW n \in DOMAIN new
      PROVE  /\ new[n].kernel = lines[n].kernel
             /\ new[n].dashes = lines[n].dashes
             /\ new[n].kernel => new[n].auto # "no"
             /\ new[n].kernel /\ new[n].dashes /\ lines[n].auto = "no" => new[n].auto = "before"
  <2>1. n \in DOMAIN lines /\ new[n] = Installer!PatchLine(lines[n])
    BY <1>3, <1>4
  <2>2. lines[n] \in Installer!Lines
    BY <2>1, <1>1
  <2> HIDE DEF lines, new
  <2> QED BY <2>1, <2>2 DEF Installer!PatchLine, Installer!Lines
<1>5. Installer!Patchable(new)
  <2>1. PICK n \in DOMAIN lines : lines[n].kernel
    BY DEF Installer!Patchable
  <2>2. n \in DOMAIN new
    BY <1>3
  <2> QED BY <1>4, <2>1, <2>2 DEF Installer!Patchable
<1>6. /\ sums["grub"] = new
      /\ DOMAIN sums = DOMAIN Stock[i].sums
      /\ \A path \in DOMAIN sums \ {"grub"} : sums[path] = Stock[i].sums[path]
  <2>1. Stock[i].sums = [path \in DOMAIN Stock[i].sums |-> Stock[i].sums[path]]
    BY IsoAssumption
  <2> QED BY <2>1 DEF Installer!UpdateSums
<1>7. Installer!Bootable(Made(i, s))
  <2>1. /\ Made(i, s).grub = new /\ Made(i, s).sums = sums /\ Made(i, s).base = i
    BY DEF Made
  <2> HIDE DEF new, sums
  <2> QED BY <1>4, <1>5, <1>6, <2>1 DEF Installer!Bootable
<1> QED BY <1>2, <1>7, IsoAssumption

LEMMA IsoInit == Installer!Init => IsoInv
BY IsoAssumption DEF Installer!Init, IsoInv, Staged, Rendered, WithAutoinstall,
   Installer!ImagesBoot, Installer!DoneIsNew, Installer!StockKept, Installer!Names

LEMMA IsoStep == IsoInv /\ [Installer!Next]_Installer!vars => IsoInv'
<1> SUFFICES ASSUME IsoInv, [Installer!Next]_Installer!vars PROVE IsoInv'
  OBVIOUS
<1> USE DEF Installer!given
<1>0. ASSUME UNCHANGED image PROVE Installer!ImagesBoot'
  BY <1>0 DEF IsoInv, Installer!ImagesBoot, Installer!Bootable, Installer!Patchable
<1>1. ASSUME NEW i \in Isos, NEW s \in Secrets, Installer!Begin(i, s) PROVE IsoInv'
  BY <1>0, <1>1 DEF Installer!Begin, IsoInv, Staged, Rendered, WithAutoinstall,
     Installer!DoneIsNew, Installer!StockKept
<1>2. CASE Installer!WriteAutoinstall
  BY <1>0, <1>2 DEF Installer!WriteAutoinstall, IsoInv, Staged, Rendered, WithAutoinstall,
     Installer!DoneIsNew, Installer!StockKept, Installer!Names
<1>3. CASE Installer!UnlinkStock
  BY <1>0, <1>3 DEF Installer!UnlinkStock, IsoInv, Staged, Rendered, WithAutoinstall,
     Installer!DoneIsNew, Installer!StockKept, Installer!Names
<1>4. CASE Installer!Extract
  BY <1>0, <1>4 DEF Installer!Extract, IsoInv, Staged, Rendered, WithAutoinstall,
     Installer!DoneIsNew, Installer!StockKept, Installer!Names
<1>5. CASE Installer!Patch
  BY <1>0, <1>5 DEF Installer!Patch, IsoInv, Staged, Rendered, WithAutoinstall, PatchedStock,
     Installer!DoneIsNew, Installer!StockKept, Installer!Names
<1>6. CASE Installer!Sum
  BY <1>0, <1>6 DEF Installer!Sum, IsoInv, Staged, Rendered, WithAutoinstall, PatchedStock,
     SummedStock, Installer!DoneIsNew, Installer!StockKept, Installer!Names
<1>7. CASE Installer!UnlinkImage
  <2>1. Installer!ImagesBoot'
    BY <1>7 DEF Installer!UnlinkImage, IsoInv, Installer!ImagesBoot, Installer!Bootable,
       Installer!Patchable
  <2> QED BY <1>7, <2>1 DEF Installer!UnlinkImage, IsoInv, Staged, Rendered, WithAutoinstall,
             PatchedStock, SummedStock, Installer!DoneIsNew, Installer!StockKept
<1>8. CASE Installer!Xorriso
  <2>1. /\ secret \in Good /\ Installer!Patchable(Stock[iso].grub)
        /\ "grub" \in DOMAIN Stock[iso].sums
        /\ dir["autoinstall.yaml"] = secret /\ dir["grub.cfg"] = PatchedStock
        /\ dir["md5sum.txt"] = SummedStock
    BY <1>8 DEF Installer!Xorriso, IsoInv, Staged, Rendered, WithAutoinstall
  <2>2. image' = [image EXCEPT ![iso] = Made(iso, secret)]
    BY <1>8, <2>1 DEF Installer!Xorriso, Made, PatchedStock, SummedStock
  <2>3. iso \in Isos /\ image'[iso] = Made(iso, secret)
    BY <2>2 DEF IsoInv
  <2>4. Made(iso, secret) \notin {None, Cut} /\ Installer!Bootable(Made(iso, secret))
    BY <2>1, <2>3, MadeBoots
  <2>5. Made(iso, secret).base = iso /\ Made(iso, secret).autoinstall = secret
    BY DEF Made
  <2>6. Installer!ImagesBoot'
    <3>1. SUFFICES ASSUME NEW i \in Isos, image'[i] \notin {None, Cut}
                   PROVE  /\ image'[i].base = i /\ image'[i].autoinstall \in Good
                          /\ Installer!Bootable(image'[i])
      BY DEF Installer!ImagesBoot, Installer!Bootable, Installer!Patchable
    <3>2. CASE i = iso
      BY <2>1, <2>3, <2>4, <2>5, <3>2
    <3>3. CASE i # iso
      <4>1. image'[i] = image[i]
        BY <2>2, <3>3 DEF IsoInv
      <4> QED BY <3>1, <4>1 DEF IsoInv, Installer!ImagesBoot
    <3> QED BY <3>2, <3>3
  <2>7. Installer!DoneIsNew'
    BY <1>8, <2>3, <2>4, <2>5 DEF Installer!Xorriso, Installer!DoneIsNew
  <2> QED BY <1>8, <2>1, <2>2, <2>6, <2>7 DEF Installer!Xorriso, IsoInv, Staged, Rendered,
             WithAutoinstall, Installer!StockKept
<1>9. CASE Installer!Fail
  <2>1. Installer!ImagesBoot'
    BY <1>0, <1>9 DEF Installer!Fail, IsoInv, Installer!ImagesBoot, Installer!Bootable,
       Installer!Patchable
  <2> QED BY <1>9, <2>1 DEF Installer!Fail, IsoInv, Staged, Rendered, WithAutoinstall,
             Installer!DoneIsNew, Installer!StockKept
<1>10. CASE UNCHANGED Installer!vars
  BY <1>0, <1>10 DEF Installer!vars, IsoInv, Staged, Rendered, WithAutoinstall, PatchedStock,
     SummedStock, Installer!DoneIsNew, Installer!StockKept
<1> QED BY <1>1, <1>2, <1>3, <1>4, <1>5, <1>6, <1>7, <1>8, <1>9, <1>10 DEF Installer!Next

(* What a run maps into an image is what the same run wrote (main).         *)
THEOREM IsoInvariant == Installer!Spec => []IsoInv
BY IsoInit, IsoStep, PTL DEF Installer!Spec

(* However many runs were interrupted, wherever and with whatever other     *)
(* ISOs: every finished image boots and holds accepted secrets, the last    *)
(* one those it was given, and a stock ISO stays (main, patch_grub,         *)
(* update_md5sums).                                                         *)
THEOREM IsoImagesRight == Installer!Spec => []ImagesRight
<1>1. IsoInv => ImagesRight
  BY DEF IsoInv, ImagesRight, Installer!ImagesRight
<1> QED BY <1>1, IsoInvariant, PTL

(* The run of the three scripts is a run of each of them.                  *)
LEMMA InfraRunsEach == InfraSpec => Spec /\ Installer!Spec /\ Setup!Spec
<1>1. InfraInit => Init /\ Installer!Init /\ Setup!Init
  BY DEF InfraInit, NoImages, NoHost
<1>2. ASSUME [InfraNext]_all
      PROVE  /\ [Next]_vars
             /\ [Installer!Next]_Installer!vars
             /\ [Setup!Next]_Setup!vars
  <2>1. images = Installer!vars /\ images' = Installer!vars'
    BY DEF images, Installer!vars
  <2>2. host = Setup!vars /\ host' = Setup!vars'
    BY DEF host, Setup!vars
  <2> QED BY <1>2, <2>1, <2>2 DEF InfraNext, all
<1> QED BY <1>1, <1>2, PTL DEF InfraSpec, Spec, Installer!Spec, Setup!Spec

(* Whatever the scripts of infra/ went through, an image that is finished  *)
(* boots, an installation is consistent, an account that was checked keeps *)
(* to the list, and the key stays (apply.py, build_iso.py, setup.sh).      *)
THEOREM InfraRight ==
  InfraSpec =>
    [](ImagesRight /\ SetupRight /\ CheckedFlowsWork /\ AppliedIsClean) /\ KeyKeptUnlessCut
BY InfraRunsEach, IsoImagesRight, RigSetupRight, RigKeyKept, NetbirdCheckedFlowsWork,
   NetbirdAppliedIsClean, PTL
=============================================================================
