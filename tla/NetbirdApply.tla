---------------------------- MODULE NetbirdApply ----------------------------
(***************************************************************************)
(* infra/netbird/apply.py: runs of `apply` and `default on|off` against an *)
(* account that is edited in the dashboard at the same time.  A run does   *)
(* one API call after the other, and ends at the first that fails.         *)
(* `check` only reads: what it reports of an account is Diff.              *)
(***************************************************************************)
EXTENDS Integers, Sequences, FiniteSets, FiniteSetsExt

CONSTANTS
  AclGroups,    \* "groups" of acl.json, in order: [name, peers]
  AclPolicies,  \* "policies" of acl.json: [name, sources, destinations]
  WantDefault,  \* "default_policy_enabled"
  Default,      \* the name of the built-in policy
  AllPeers,     \* the name of the built-in group it is about
  Runs,         \* the invocations of the script
  Command,      \* what each of them does: "apply", "on" or "off"
  AtOnce,       \* how many may run at a time
  LatePeers,    \* peers that are enrolled during the behaviour
  MaxEdits      \* bound on the edits in the dashboard

NamesOf(list) == {list[n].name : n \in 1..Len(list)}
AclPeers == UNION {AclGroups[k].peers : k \in 1..Len(AclGroups)}

ASSUME NetbirdAssumption ==
  /\ Len(AclGroups) \in Nat /\ Len(AclPolicies) \in Nat
  /\ \A k \in 1..Len(AclGroups) :
       AclGroups[k] \in [name : NamesOf(AclGroups), peers : SUBSET AclPeers]
  /\ AllPeers \notin NamesOf(AclGroups) /\ Default \notin NamesOf(AclGroups)
  /\ \A k, m \in 1..Len(AclGroups) : AclGroups[k].name = AclGroups[m].name => k = m
  /\ \A k, m \in 1..Len(AclPolicies) : AclPolicies[k].name = AclPolicies[m].name => k = m
  /\ \A k \in 1..Len(AclPolicies) :
       /\ AclPolicies[k].sources \subseteq NamesOf(AclGroups)
       /\ AclPolicies[k].destinations \subseteq NamesOf(AclGroups)
       /\ AclPolicies[k].name # Default
  /\ IsFiniteSet(Runs) /\ Command \in [Runs -> {"apply", "on", "off"}]
  /\ LatePeers \subseteq AclPeers
  /\ AtOnce \in Nat /\ MaxEdits \in Nat

VARIABLES
  groups,    \* the groups of the account: [name, peers]; the place is the id
  policies,  \* its policies: [name, enabled, blocked, sources, destinations, edition]
  peers,     \* the enrolled peers
  edits,     \* how many edits were made in the dashboard
  pc,        \* where each run is
  found,     \* the peers that it was told of
  ids,       \* group_ids: the groups that it knows
  todo,      \* the policies of the list that it did not find
  old        \* what it read of the Default policy

account == <<groups, policies>>
memory == <<found, ids, todo, old>>
vars == <<groups, policies, peers, edits, pc, found, ids, todo, old>>

(* A policy is "blocked" when its rule is switched off or has the action   *)
(* drop; "edition" is 0 while protocol, ports and direction are those that *)
(* the script wrote.  This is the built-in one, as `default` finds it.     *)
BuiltIn(on, n) ==
  [name |-> Default, enabled |-> on, blocked |-> FALSE,
   sources |-> {1}, destinations |-> {1}, edition |-> n]

Going == {"begun", "peers", "groups", "policies", "read"}

Init ==
  /\ groups = <<[name |-> AllPeers, peers |-> {}]>>
  /\ policies = <<BuiltIn(TRUE, 0)>>
  /\ peers = AclPeers \ LatePeers
  /\ edits = 0
  /\ pc = [i \in Runs |-> "idle"]
  /\ found = [i \in Runs |-> {}]
  /\ ids = [i \in Runs |-> {}]
  /\ todo = [i \in Runs |-> {}]
  /\ old = [i \in Runs |-> BuiltIn(TRUE, 0)]

Goes(i, from, to) ==
  /\ pc[i] = from
  /\ pc' = [pc EXCEPT ![i] = to]

Begin(i) ==
  /\ Cardinality({j \in Runs : pc[j] \in Going}) < AtOnce
  /\ Goes(i, "idle", "begun")
  /\ UNCHANGED <<account, peers, edits, memory>>

(* The run is interrupted, a call is refused, or a peer of the list is not *)
(* enrolled.                                                               *)
Fail(i) ==
  /\ pc[i] \in Going
  /\ pc' = [pc EXCEPT ![i] = "failed"]
  /\ UNCHANGED <<account, peers, edits, memory>>

-----------------------------------------------------------------------------
(* apply *)

GetPeers(i) ==
  /\ Command[i] = "apply" /\ Goes(i, "begun", "peers")
  /\ found' = [found EXCEPT ![i] = peers]
  /\ UNCHANGED <<account, peers, edits, ids, todo, old>>

GetGroups(i) ==
  /\ Goes(i, "peers", "groups")
  /\ ids' = [ids EXCEPT ![i] = 1..Len(groups)]
  /\ UNCHANGED <<account, peers, edits, found, todo, old>>

Known(i) == {groups[n].name : n \in ids[i]}
Missing(i) == {k \in 1..Len(AclGroups) : AclGroups[k].name \notin Known(i)}

(* The first missing group is posted, with members that are enrolled; the  *)
(* answer may be lost after the group was made.                            *)
CreateGroup(i) ==
  /\ pc[i] = "groups" /\ Missing(i) # {}
  /\ LET g == AclGroups[Min(Missing(i))] IN
       /\ g.peers \subseteq found[i]
       /\ groups' = Append(groups, g)
  /\ \/ ids' = [ids EXCEPT ![i] = @ \cup {Len(groups) + 1}] /\ UNCHANGED pc
     \/ Goes(i, "groups", "failed") /\ UNCHANGED ids
  /\ UNCHANGED <<policies, peers, edits, found, todo, old>>

(* Fault: the policies are taken to be there if there are any. *)
GetPoliciesAny(i) ==
  /\ Missing(i) = {} /\ Goes(i, "groups", "policies")
  /\ todo' = [todo EXCEPT ![i] = IF Len(policies) = 1 THEN 1..Len(AclPolicies) ELSE {}]
  /\ UNCHANGED <<account, peers, edits, found, ids, old>>

(* Fault: what was created in an earlier run is created again. *)
GetPoliciesNone(i) ==
  /\ Missing(i) = {} /\ Goes(i, "groups", "policies")
  /\ todo' = [todo EXCEPT ![i] = 1..Len(AclPolicies)]
  /\ UNCHANGED <<account, peers, edits, found, ids, old>>

GetPolicies(i) ==
  /\ Missing(i) = {} /\ Goes(i, "groups", "policies")
  /\ todo' = [todo EXCEPT ![i] =
       {k \in 1..Len(AclPolicies) : AclPolicies[k].name \notin NamesOf(policies)}]
  /\ UNCHANGED <<account, peers, edits, found, ids, old>>

(* group_ids[name]: of two groups of one name the later. *)
IdOf(i, name) == Max({n \in ids[i] : groups[n].name = name})

(* Fault: the ids are those of the places in the list. *)
PayloadMisplaced(i, s) ==
  [name |-> s.name, enabled |-> TRUE, blocked |-> FALSE, edition |-> 0,
   sources |-> {IdOf(i, AclGroups[Len(AclGroups)].name)},
   destinations |-> {IdOf(i, g) : g \in s.destinations}]

(* policy_payload *)
Payload(i, s) ==
  [name |-> s.name, enabled |-> TRUE, blocked |-> FALSE, edition |-> 0,
   sources |-> {IdOf(i, g) : g \in s.sources},
   destinations |-> {IdOf(i, g) : g \in s.destinations}]

CreatePolicy(i) ==
  /\ pc[i] = "policies" /\ todo[i] # {}
  /\ policies' = Append(policies, Payload(i, AclPolicies[Min(todo[i])]))
  /\ \/ todo' = [todo EXCEPT ![i] = @ \ {Min(@)}] /\ UNCHANGED pc
     \/ Goes(i, "policies", "failed") /\ UNCHANGED todo
  /\ UNCHANGED <<groups, peers, edits, found, ids, old>>

Finish(i) ==
  /\ todo[i] = {}
  /\ Goes(i, "policies", "applied")
  /\ UNCHANGED <<account, peers, edits, memory>>

-----------------------------------------------------------------------------
(* set_default *)

GetDefault(i) ==
  /\ Command[i] # "apply" /\ Goes(i, "begun", "read")
  /\ old' = [old EXCEPT ![i] = policies[1]]
  /\ UNCHANGED <<account, peers, edits, found, ids, todo>>

(* The whole policy is put back as it was read. *)
PutDefault(i) ==
  /\ Goes(i, "read", "switched") \/ Goes(i, "read", "failed")
  /\ policies' = [policies EXCEPT ![1] = [old[i] EXCEPT !.enabled = (Command[i] = "on")]]
  /\ UNCHANGED <<groups, peers, edits, memory>>

-----------------------------------------------------------------------------
(* Other people. *)

Enroll(p) ==
  /\ p \in LatePeers \ peers
  /\ peers' = peers \cup {p}
  /\ UNCHANGED <<account, edits, pc, memory>>

Edited ==
  /\ edits < MaxEdits /\ edits' = edits + 1
  /\ UNCHANGED <<peers, pc, memory>>

EditMembers(n, members) ==
  /\ Edited
  /\ groups' = [groups EXCEPT ![n].peers = members]
  /\ UNCHANGED policies

EditPolicy(n) ==
  /\ Edited
  /\ \/ policies' = [policies EXCEPT ![n].enabled = ~@]
     \/ policies' = [policies EXCEPT ![n].blocked = ~@]
     \/ policies' = [policies EXCEPT ![n].edition = @ + 1]
  /\ UNCHANGED groups

-----------------------------------------------------------------------------
Apply(i) ==
  \/ GetPeers(i) \/ GetGroups(i) \/ CreateGroup(i)
  \/ GetPolicies(i) \/ CreatePolicy(i) \/ Finish(i)

Next ==
  \/ \E i \in Runs :
       Begin(i) \/ Fail(i) \/ Apply(i) \/ GetDefault(i) \/ PutDefault(i)
  \/ \E p \in LatePeers : Enroll(p)
  \/ \E n \in 1..Len(groups), members \in SUBSET AclPeers : EditMembers(n, members)
  \/ \E n \in 1..Len(policies) : EditPolicy(n)

Spec == Init /\ [][Next]_vars

-----------------------------------------------------------------------------
(* diff *)

Named(list, name) == list[Max({n \in 1..Len(list) : list[n].name = name})]

(* rule_summary *)
GroupNames(S) == {groups[n].name : n \in S}

GroupDiffers(g) ==
  \/ g.name \notin NamesOf(groups)
  \/ Named(groups, g.name).peers # g.peers

(* Fault: a policy that is there is not looked at. *)
PolicyDiffersByName(s) == s.name \notin NamesOf(policies)

(* rule_summary takes neither `enabled` nor `action` of a rule: whether it *)
(* is blocked is not compared.                                             *)
PolicyDiffers(s) ==
  \/ s.name \notin NamesOf(policies)
  \/ LET p == Named(policies, s.name) IN
       \/ ~p.enabled
       \/ p.edition # 0
       \/ GroupNames(p.sources) # s.sources
       \/ GroupNames(p.destinations) # s.destinations

Diff ==
  {AclGroups[k].name : k \in {j \in 1..Len(AclGroups) : GroupDiffers(AclGroups[j])}}
    \cup {AclPolicies[k].name : k \in {j \in 1..Len(AclPolicies) : PolicyDiffers(AclPolicies[j])}}
    \cup (IF Named(policies, Default).enabled # WantDefault THEN {Default} ELSE {})

-----------------------------------------------------------------------------
GroupRecords == [name : NamesOf(AclGroups) \cup {AllPeers}, peers : SUBSET AclPeers]
PolicyRecords ==
  [name : NamesOf(AclPolicies) \cup {Default}, enabled : BOOLEAN, blocked : BOOLEAN,
   sources : SUBSET (1..Len(groups)), destinations : SUBSET (1..Len(groups)),
   edition : 0..edits]

BuiltIns ==
  [name : {Default}, enabled : BOOLEAN, blocked : BOOLEAN,
   sources : {{1}}, destinations : {{1}}, edition : 0..edits]

TypeOK ==
  /\ groups \in Seq(GroupRecords) /\ policies \in Seq(PolicyRecords)
  /\ peers \subseteq AclPeers /\ edits \in Nat
  /\ pc \in [Runs -> {"idle", "failed", "applied", "switched"} \cup Going]
  /\ found \in [Runs -> SUBSET AclPeers]
  /\ ids \in [Runs -> SUBSET (1..Len(groups))]
  /\ todo \in [Runs -> SUBSET (1..Len(AclPolicies))]
  /\ old \in [Runs -> BuiltIns]

(* A run that ends well leaves every group and every policy of acl.json in *)
(* the account, whatever runs failed before it and whoever runs beside it  *)
(* (apply; docs/architecture/network.md: "`apply` creates anything         *)
(* missing").                                                              *)
AppliedIsThere ==
  (\E i \in Runs : pc[i] = "applied") =>
    /\ NamesOf(AclGroups) \subseteq NamesOf(groups)
    /\ NamesOf(AclPolicies) \subseteq NamesOf(policies)

(* The ids in a policy are of groups that have the names acl.json gives,   *)
(* also where another run made the groups (policy_payload).                *)
PoliciesFit ==
  \A n \in 1..Len(policies), k \in 1..Len(AclPolicies) :
    policies[n].name = AclPolicies[k].name =>
      /\ GroupNames(policies[n].sources) = AclPolicies[k].sources
      /\ GroupNames(policies[n].destinations) = AclPolicies[k].destinations

(* Both together: after a run that ended well everything is there, and     *)
(* what is there fits (apply, policy_payload).                             *)
AppliedFits == AppliedIsThere /\ PoliciesFit

(* Runs that do not overlap create every group and every policy once,      *)
(* however many of them were cut short (apply).                            *)
CreatedOnce ==
  AtOnce = 1 =>
    /\ \A m, n \in 1..Len(groups) : groups[m].name = groups[n].name => m = n
    /\ \A m, n \in 1..Len(policies) : policies[m].name = policies[n].name => m = n

(* "`apply` only creates": a run takes nothing away and changes nothing    *)
(* that is there, except the Default policy under `default` (apply).       *)
OnlyCreates ==
  [][edits' = edits =>
       /\ \A n \in 1..Len(groups) : groups'[n] = groups[n]
       /\ \A n \in 1..Len(policies) : policies[n].name # Default => policies'[n] = policies[n]]_vars

(* If nobody edits the account, `check` finds nothing to say after `apply` *)
(* but the state of the Default policy (apply, diff).                      *)
AppliedIsClean ==
  edits = 0 /\ (\E i \in Runs : pc[i] = "applied") => Diff \subseteq {Default}

(* What an enabled policy lets through. *)
Flow(p, q) ==
  \E n \in 1..Len(policies) :
    /\ policies[n].enabled /\ ~policies[n].blocked /\ policies[n].edition = 0
    /\ \E a \in policies[n].sources : p \in groups[a].peers
    /\ \E b \in policies[n].destinations : q \in groups[b].peers

(* The connections that the policy k of acl.json is for are possible. *)
FlowsOf(k) ==
  \A a, b \in 1..Len(AclGroups) :
    AclGroups[a].name \in AclPolicies[k].sources
      /\ AclGroups[b].name \in AclPolicies[k].destinations
        => \A p \in AclGroups[a].peers, q \in AclGroups[b].peers : Flow(p, q)

(* No policy in force has its rule switched off or set to drop. *)
RulesAccept == \A n \in 1..Len(policies) : policies[n].enabled => ~policies[n].blocked

(* When `check` has nothing to say, every connection that acl.json is for  *)
(* is possible, after any edits of members and policies, unless somebody   *)
(* switched a rule off or set one to drop: those two `check` does not look *)
(* at (diff, rule_summary).                                                *)
CheckedFlowsWork ==
  AtOnce = 1 /\ Diff \subseteq {Default} /\ RulesAccept =>
    \A k \in 1..Len(AclPolicies) : FlowsOf(k)

-----------------------------------------------------------------------------
(* Statements of the script that do not hold. *)

(* "live NetBird config matches acl.json": what check prints when it finds *)
(* no difference, although a rule may let nothing through (main, diff).    *)
MatchMeansFlows ==
  AtOnce = 1 /\ Diff = {} => \A k \in 1..Len(AclPolicies) : FlowsOf(k)

(* "disable the built-in All<->All policy ("on" to roll back)": what was   *)
(* changed in the dashboard in the meantime is not undone (set_default).   *)
DefaultOnlySwitched == [][policies'[1].edition >= policies[1].edition]_vars
=============================================================================
