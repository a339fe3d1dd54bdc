------------------------------- MODULE MCInfra -------------------------------
(* An account with two groups and two policies, and four stock ISOs.        *)
EXTENDS Infra, TLC

CONSTANTS
  gateway, rig, r1, r2, r3,                  \* two peers, three runs of apply.py
  first, second, custom, bare, s1, s2, bad   \* the ISOs and the secrets

(* acl.json: two groups, and two policies, one from a group to itself. *)
TwoGroups ==
  <<[name |-> "ocs-gateway", peers |-> {gateway}], [name |-> "ocs-rigs", peers |-> {rig}]>>

TwoPolicies ==
  <<[name |-> "gateway-to-rigs", sources |-> {"ocs-gateway"}, destinations |-> {"ocs-rigs"}],
    [name |-> "rigs-to-rigs", sources |-> {"ocs-rigs"}, destinations |-> {"ocs-rigs"}]>>

AppliesAndOff == r1 :> "apply" @@ r2 :> "apply" @@ r3 :> "off"

(* Two releases, one that was customised by hand, one with no kernel line. *)
Text == [kernel |-> FALSE, auto |-> "no", dashes |-> FALSE, timeout |-> "no"]
Timeout(t) == [Text EXCEPT !.timeout = t]
Kernel(auto, dashes) == [Text EXCEPT !.kernel = TRUE, !.auto = auto, !.dashes = dashes]
Sums(lines, others) == [path \in {"grub", "kernel"} |-> IF path = "grub" THEN lines ELSE others]

Plain == <<Timeout("30"), Kernel("no", TRUE), Text>>
Both == <<Timeout("5"), Kernel("no", TRUE), Kernel("no", FALSE)>>
Mixed == <<Kernel("end", TRUE), Kernel("no", TRUE)>>

Holds ==
  [i \in {first, second, custom, bare} |->
     CASE i = first -> [grub |-> Plain, sums |-> Sums(Plain, 1)]
       [] i = second -> [grub |-> Both, sums |-> Sums(Both, 2)]
       [] i = custom -> [grub |-> Mixed, sums |-> Sums(Mixed, 1)]
       [] i = bare -> [grub |-> <<Text>>, sums |-> [path \in {"kernel"} |-> 3]]]

------------------------------------------------------------------------
=============================================================================
