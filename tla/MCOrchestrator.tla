--------------------------- MODULE MCOrchestrator ---------------------------
(* Finite instances of Orchestrator with two workers; in the second one a *)
(* group is unset, as on Rig 2.                                           *)
EXTENDS Orchestrator, TLC

CONSTANTS s1, b1, b2, b3, qwen, gemma, other

Rig1 == <<qwen, gemma>>
Gapped == <<qwen, Unset, gemma>>

OneStream == {s1}

(* Three requests for qwen share a worker, one is for gemma. *)
FourRequests == {s1, b1, b2, b3}
MostlyQwen == s1 :> qwen @@ b1 :> qwen @@ b2 :> qwen @@ b3 :> gemma
SameModel == Permutations({b1, b2})

(* A stream and a blocking request for one worker, one for no worker. *)
ThreeRequests == {s1, b1, b2}
SomeServed == s1 :> gemma @@ b1 :> gemma @@ b2 :> other

OkReply == [code |-> 200, status |-> "ok"]
LoadingReply == [code |-> 503, status |-> "loading model"]
NoReply == [code |-> 0, status |-> "none"]
UpOrDown == {OkReply, NoReply}
ThreeReplies == {OkReply, LoadingReply, NoReply}
=============================================================================
