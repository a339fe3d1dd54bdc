------------------------------ MODULE Service ------------------------------
(***************************************************************************)
(* The lanes of the gateway in front of the orchestrator of one rig, over  *)
(* a network that may break: gateway/main.py holds a slot of a lane while  *)
(* it waits for the orchestrator, and orchestrator/main.py works for a     *)
(* request until the worker answers, whether the gateway is still there or *)
(* not.  The lanes live in the memory of the gateway (lanes.py).           *)
(***************************************************************************)
EXTENDS Orchestrator

CONSTANTS
  Slots,        \* inflight_limit of the lane of each model
  MaxWaiters,   \* MAX_WAITERS_PER_WORKER
  MaxRestarts,  \* bound on the restarts of the gateway
  MaxBreaks     \* bound on the connections to the orchestrator that break

Models == {Model[r] : r \in Requests}

ASSUME ServiceAssumption ==
  /\ Slots \in [Models -> Nat]
  /\ MaxWaiters \in Nat /\ MaxRestarts \in Nat /\ MaxBreaks \in Nat

VARIABLES
  line,      \* what the gateway makes of each request
  restarts,  \* how often the gateway was restarted
  breaks     \* how many connections broke

rig == vars
gateway == <<line, restarts, breaks>>
service == <<run, state, active, poller, health, pc, conns, gone, line, restarts, breaks>>

(* "dropped" by a fault, "hungup" for a student who is gone: the gateway   *)
(* does not hold a slot for it any more, and its request may be at the     *)
(* rig, or on the way.                                                     *)
LinePlaces ==
  {"outside", "refused", "queued", "serving", "left", "served", "dropped", "hungup"}

ServiceTypeOK ==
  /\ line \in [Requests -> LinePlaces]
  /\ restarts \in 0..MaxRestarts /\ breaks \in 0..MaxBreaks

ServiceInit ==
  /\ Init
  /\ line = [r \in Requests |-> "outside"]
  /\ restarts = 0 /\ breaks = 0

LineOf(a, S) == {r \in Requests : Model[r] = a /\ line[r] \in S}
LaneIsFull(a) == Cardinality(LineOf(a, {"queued", "serving"})) >= Slots[a] + MaxWaiters

(* Fault: one more than the limit is let through. *)
SlotFreeOffByOne(a) == Cardinality(LineOf(a, {"serving"})) <= Slots[a]

SlotFree(a) == Cardinality(LineOf(a, {"serving"})) < Slots[a]

Move(r, from, to) ==
  /\ line[r] = from
  /\ line' = [line EXCEPT ![r] = to]

-----------------------------------------------------------------------------
(* The gateway. *)

Refuse(r) ==
  /\ LaneIsFull(Model[r]) /\ Move(r, "outside", "refused")
  /\ UNCHANGED <<rig, restarts, breaks>>

Admit(r) ==
  /\ ~LaneIsFull(Model[r]) /\ Move(r, "outside", "queued")
  /\ UNCHANGED <<rig, restarts, breaks>>

LeaveLine(r) == Move(r, "queued", "left") /\ UNCHANGED <<rig, restarts, breaks>>

TakeSlot(r) ==
  /\ SlotFree(Model[r]) /\ Move(r, "queued", "serving")
  /\ UNCHANGED <<rig, restarts, breaks>>

(* No connection is made: the client of the gateway is busy, or the        *)
(* orchestrator is down.                                                   *)
NotReached(r) ==
  /\ pc[r] = "new" /\ Move(r, "serving", "served")
  /\ UNCHANGED <<rig, restarts, breaks>>

(* Fault: a slot is returned after an answer only. *)
SlotReturnedIfAnswered(r) ==
  /\ pc[r] = "answered" /\ Move(r, "serving", "served")
  /\ UNCHANGED <<rig, restarts, breaks>>

(* The orchestrator answered, or its process ended. *)
SlotReturned(r) ==
  /\ pc[r] \in Ended /\ Move(r, "serving", "served")
  /\ UNCHANGED <<rig, restarts, breaks>>

(* The student of a stream is gone, and the gateway closes the connection. *)
HangUp(r) ==
  /\ r \in Streaming /\ pc[r] \notin Ended /\ Move(r, "serving", "hungup")
  /\ UNCHANGED <<rig, restarts, breaks>>

(* The connection breaks while the gateway waits: a 502 for the student.   *)
LinkBreaks(r) ==
  /\ breaks < MaxBreaks /\ breaks' = breaks + 1
  /\ pc[r] \notin Ended /\ Move(r, "serving", "dropped")
  /\ UNCHANGED <<rig, restarts>>

(* The process is replaced by one with empty lanes. *)
GatewayRestarts ==
  /\ restarts < MaxRestarts /\ restarts' = restarts + 1
  /\ line' = [r \in Requests |->
                CASE line[r] = "queued" -> "left"
                  [] line[r] = "serving" -> "dropped"
                  [] OTHER -> line[r]]
  /\ UNCHANGED <<rig, breaks>>

-----------------------------------------------------------------------------
(* The rig. *)

Arriving(r) ==
  /\ line[r] \in {"serving", "dropped", "hungup"}
  /\ Answer(r) /\ UNCHANGED gateway

Closed(r) == line[r] \in {"dropped", "hungup"} /\ Disconnect(r) /\ UNCHANGED gateway

AtWork(r) ==
  /\ \/ TakeConnection(r) \/ PoolTimeout(r) \/ Upstream(r)
     \/ ForwardChunk(r) \/ BreakOnChunk(r) \/ Clean(r)
  /\ UNCHANGED gateway

RigAlone == ((\E w \in Workers : HealthChanges(w)) \/ Poll \/ Process) /\ UNCHANGED gateway

ServiceNext ==
  \/ \E r \in Requests :
       \/ Refuse(r) \/ Admit(r) \/ LeaveLine(r) \/ TakeSlot(r) \/ NotReached(r)
       \/ SlotReturned(r) \/ HangUp(r) \/ LinkBreaks(r)
       \/ Arriving(r) \/ Closed(r) \/ AtWork(r)
  \/ GatewayRestarts
  \/ RigAlone

ServiceSpec == ServiceInit /\ [][ServiceNext]_service

(* A lane passes nobody over; the gateway's waits for a connection are     *)
(* timed, and it returns a slot when the exchange is over.                 *)
ServiceFairness ==
  /\ LoopFairness /\ WorkerFairness
  /\ \A r \in Requests :
       /\ SF_service(TakeSlot(r))
       /\ WF_service(NotReached(r) \/ SlotReturned(r))

ServiceFair == ServiceSpec /\ ServiceFairness

-----------------------------------------------------------------------------
Faults(a) == Slots[a] * (restarts + 1) + breaks

(* What the rig works for: every request whose handler or generator runs,  *)
(* stream or not, counted by the orchestrator or not, and every one that   *)
(* still holds a connection to the worker.                                 *)
AtRig(a) == {r \in Requests : Model[r] = a /\ (pc[r] \in Working \/ r \in conns)}
OnTheWay(a) == {r \in Requests : Model[r] = a /\ line[r] = "serving" /\ pc[r] = "new"}
HungUp == {r \in Requests : line[r] = "hungup"}

(* What the rig works for and what is on its way to it is no more than the *)
(* lane lets through, but for what each restart of the gateway and each    *)
(* broken connection leave behind.  Streams whose student hung up are left *)
(* aside: their slot comes back at once, and GoneStreamCloses of           *)
(* Orchestrator says that the rig gives them up (lanes.py _lanes,          *)
(* orchestrator/main.py chat_completions, event_generator).                *)
RigBounded ==
  \A a \in Models : Cardinality((AtRig(a) \cup OnTheWay(a)) \ HungUp) <= Faults(a)

(* A student who is still there is refused by the orchestrator only after  *)
(* more faults than its capacity (routing.py resolve_worker, lanes.py).    *)
RefusedAfterFaultsStep ==
  \A r \in Requests :
    pc[r] = "new" /\ pc'[r] = "full" /\ line[r] = "serving" =>
      Faults(Model[r]) > QueueCapacity
RefusedAfterFaults == [][RefusedAfterFaultsStep]_service

(* Whatever becomes of the rig, the orchestrator and the connection, who   *)
(* was let into the line gets a turn or leaves, and the slot comes back    *)
(* (main.py _handle_streaming, _handle_blocking, lanes.py _acquire).       *)
AdmittedSettles ==
  \A r \in Requests : line[r] = "queued" ~> line[r] \notin {"queued", "serving"}

(* "only reachable if someone bypasses the gateway": nobody does here.     *)
NeverFull == [][\A r \in Requests : ~(pc[r] = "new" /\ pc'[r] = "full")]_service
=============================================================================
