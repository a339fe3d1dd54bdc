------------------------------- MODULE MCGateway -------------------------------
(* Two rigs: Rig 2 serves a model of Rig 1 and takes its lane, group B      *)
(* serves another model, whose worker may be silent.                        *)
EXTENDS Gateway, TLC

CONSTANTS a1, a2, a3, g1, u1, x1, l1, qwen, gemma, student, forged

TwoLanes ==
  <<[alias |-> qwen, inflight |-> 2], [alias |-> gemma, inflight |-> 1],
    [alias |-> qwen, inflight |-> 1]>>

(* Three requests for one model, one for the other, one that names none,   *)
(* one with a wrong key, and a model list.                                 *)
Mixed == {a1, a2, a3, g1, u1, x1}
MixedModels == [r \in Mixed |-> IF r = u1 THEN Unset ELSE IF r = g1 THEN gemma ELSE qwen]
MixedKeys == [r \in Mixed \cup {l1} |-> IF r = x1 THEN forged ELSE student]
=============================================================================
