----------------------------- MODULE MCService -----------------------------
(* A finite instance of Service: one worker, a lane with one slot and one  *)
(* place, two requests that may do anything and one that comes when the    *)
(* line is full, and may come in after a fault.                            *)
EXTENDS Service, TLC

CONSTANTS s1, b1, late, gemma

Mixed == {s1, b1, late}
OneStream == {s1}
AllGemma == [r \in Requests |-> gemma]
OneGroup == <<gemma>>
OneSlot == gemma :> 1
OkReply == [code |-> 200, status |-> "ok"]
NoReply == [code |-> 0, status |-> "none"]
UpOrDown == {OkReply, NoReply}

(* The late one is let in after a restart of the gateway, when nothing     *)
(* else broke, and the worker and the orchestrator stay up from then on.   *)
LateNext ==
  /\ ServiceNext
  /\ line'[late] \in {"outside", "refused"} \/
       (restarts' = 1 /\ breaks' = 0 /\ run' = "serving" /\ health'[1] = OkReply)
LateSpec == ServiceInit /\ [][LateNext]_service /\ ServiceFairness
=============================================================================
