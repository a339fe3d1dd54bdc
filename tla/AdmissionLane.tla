--------------------------- MODULE AdmissionLane ---------------------------
(***************************************************************************)
(* One admission lane of the gateway (gateway/lanes.py) with the two       *)
(* handlers that use it (gateway/main.py: _handle_streaming and            *)
(* _handle_blocking), from the admission of a request to the return of its *)
(* in-flight slot.                                                         *)
(*                                                                         *)
(* The gateway is one asyncio process.  A step of the model is the code    *)
(* one task runs between two points where it can be suspended: a poll of   *)
(* the client, asyncio.wait, a send that meets back-pressure, a read from  *)
(* the upstream.  Lane._lock is never held across such a point, so         *)
(* enter_line and _leave_line are parts of the step that calls them.       *)
(***************************************************************************)
EXTENDS Integers, FiniteSets, Sequences, SequencesExt

CONSTANTS
  Requests,       \* the completion requests that may reach this lane
  Streaming,      \* those of them whose body says "stream": true
  InflightLimit,  \* Lane.inflight_limit
  MaxWaiters      \* Lane.max_waiters

ASSUME LaneAssumption ==
  /\ IsFiniteSet(Requests)
  /\ Streaming \subseteq Requests
  /\ InflightLimit \in Nat
  /\ MaxWaiters \in Nat

VARIABLES
  pc,        \* where the handler of each request is suspended
  gone,      \* requests whose client has closed the connection
  waiting,   \* Lane._waiting
  inFlight,  \* Lane._in_flight
  value,     \* Lane._sem._value
  pending,   \* the futures of Lane._sem._waiters that have no result yet
  acq,       \* the acquire task of each request
  upstream   \* requests whose connection to the orchestrator is open

vars == <<pc, gone, waiting, inFlight, value, pending, acq, upstream>>
sem == <<value, pending, acq>>

Blocking == Requests \ Streaming

(* Queued: counted by _waiting.  "entered" is a response whose body has    *)
(* not been started, "lostqueue" a generator abandoned at a keepalive.     *)
Queued == {"entered", "check", "wait", "keepalive", "lostqueue"}

(* Holding: counted by _in_flight.  "lostslot" is a generator abandoned at *)
(* a send while it held a slot.                                            *)
Holding == {"upstream", "send", "errsend", "lostslot"}

(* Ended: refused with 429, left the line without a slot, slot returned.   *)
Ended == {"refused", "left", "finished"}

(* The acquire task: it waits for its future, its future has a result but  *)
(* the task has not run since, the slot is its own.                        *)
AcquireStates == {"none", "pending", "granted", "taken"}

TypeOK ==
  /\ pc \in [Requests -> {"new"} \cup Queued \cup Holding \cup Ended]
  /\ gone \subseteq Requests
  /\ waiting \in Nat
  /\ inFlight \in Nat
  /\ value \in Nat
  /\ pending \in Seq(Requests)
  /\ acq \in [Requests -> AcquireStates]
  /\ upstream \subseteq Requests

Occupancy == waiting + inFlight
Capacity == InflightLimit + MaxWaiters

Init ==
  /\ pc = [r \in Requests |-> "new"]
  /\ gone = {}
  /\ waiting = 0
  /\ inFlight = 0
  /\ value = InflightLimit
  /\ pending = <<>>
  /\ acq = [r \in Requests |-> "none"]
  /\ upstream = {}

-----------------------------------------------------------------------------
(* asyncio.Semaphore, external to the repository. *)

(* With v free slots, queue q and tasks a: the first of the waiters get a  *)
(* result, at most n of them.                                              *)
Wake(n, v, q, a) ==
  \E k \in 0..Len(q) :
    /\ k <= n /\ k <= v
    /\ k = n \/ k = v \/ k = Len(q)
    /\ value' = v - k
    /\ pending' = SubSeq(q, k + 1, Len(q))
    /\ acq' = [r \in Requests |->
                 IF \E i \in 1..k : q[i] = r THEN "granted" ELSE a[r]]

(* acquire(): queue behind every waiter that is not cancelled, also behind *)
(* one that has its result and has not run since.                          *)
SemAcquire(r) ==
  IF value > 0 /\ \A q \in Requests : acq[q] \notin {"pending", "granted"}
  THEN /\ value' = value - 1
       /\ acq' = [acq EXCEPT ![r] = "taken"]
       /\ UNCHANGED pending
  ELSE /\ acq' = [acq EXCEPT ![r] = "pending"]
       /\ pending' = Append(pending, r)
       /\ UNCHANGED value

(* release() by the request r: one waiter is woken. *)
SemRelease(r) == Wake(1, value + 1, pending, [acq EXCEPT ![r] = "none"])

(* The acquire task runs again after its future got a result; then as many *)
(* waiters are woken as there are free slots.                              *)
SemResume(r) == Wake(value, value, pending, [acq EXCEPT ![r] = "taken"])

(* The acquire task is cancelled before it finished: a slot that was       *)
(* already granted goes back.                                              *)
SemCancel(r) ==
  IF acq[r] = "granted"
  THEN Wake(value + 1, value + 1, pending, [acq EXCEPT ![r] = "none"])
  ELSE \E i \in 1..Len(pending) :
         /\ pending[i] = r
         /\ Wake(value, value, RemoveAt(pending, i), [acq EXCEPT ![r] = "none"])

-----------------------------------------------------------------------------
(* Helpers of Lane. *)

(* Fault: a slot won in the instant of the cancellation is not returned. *)
CancelAcquireLeaks(r) ==
  IF acq[r] = "taken"
  THEN acq' = [acq EXCEPT ![r] = "none"] /\ UNCHANGED <<value, pending>>
  ELSE SemCancel(r)

(* Fault: the slot is put back and nobody is woken for it. *)
CancelAcquireUnheard(r) ==
  IF acq[r] = "taken"
  THEN /\ value' = value + 1
       /\ acq' = [acq EXCEPT ![r] = "none"]
       /\ UNCHANGED pending
  ELSE SemCancel(r)

(* _cancel_acquire *)
CancelAcquire(r) == IF acq[r] = "taken" THEN SemRelease(r) ELSE SemCancel(r)

(* Fault: the line is left when the slot is taken and again on the way out. *)
LeaveLineTwice == waiting' = waiting - 2

(* _leave_line *)
LeaveLine == waiting' = IF waiting > 0 THEN waiting - 1 ELSE waiting

(* Fault: the waiting count of a request that leaves is kept. *)
DropCounted(r) ==
  /\ CancelAcquire(r)
  /\ pc' = [pc EXCEPT ![r] = "left"]
  /\ UNCHANGED <<gone, waiting, inFlight, upstream>>

(* The exception path of _acquire: the line is left without a slot. *)
Drop(r) ==
  /\ CancelAcquire(r)
  /\ LeaveLine
  /\ pc' = [pc EXCEPT ![r] = "left"]
  /\ UNCHANGED <<gone, inFlight, upstream>>

(* Fault: the handler ends and its slot is not returned. *)
ReleaseForgotten(r) ==
  /\ pc' = [pc EXCEPT ![r] = "finished"]
  /\ UNCHANGED <<gone, waiting, inFlight, sem>>

(* Lane.release, called from the finally block of a handler. *)
Release(r) ==
  /\ inFlight' = IF inFlight > 0 THEN inFlight - 1 ELSE inFlight
  /\ SemRelease(r)
  /\ pc' = [pc EXCEPT ![r] = "finished"]
  /\ UNCHANGED <<gone, waiting>>

-----------------------------------------------------------------------------
(* Admission: enter_line, and the start of wait_blocking or wait_streaming. *)

(* Fault: only the waiters are counted against the whole capacity. *)
LineFullWaitersOnly == waiting >= Capacity

LineFull == Occupancy >= Capacity

(* LaneFull is raised: the answer is a 429. *)
Refuse(r) ==
  /\ pc[r] = "new"
  /\ LineFull
  /\ pc' = [pc EXCEPT ![r] = "refused"]
  /\ UNCHANGED <<gone, waiting, inFlight, sem, upstream>>

(* A blocking request is counted and starts its acquire task at once. *)
AdmitBlocking(r) ==
  /\ pc[r] = "new" /\ r \in Blocking
  /\ ~LineFull
  /\ waiting' = waiting + 1
  /\ SemAcquire(r)
  /\ pc' = [pc EXCEPT ![r] = "check"]
  /\ UNCHANGED <<gone, inFlight, upstream>>

(* A streaming request is counted when its response is built ... *)
AdmitStreaming(r) ==
  /\ pc[r] = "new" /\ r \in Streaming
  /\ ~LineFull
  /\ waiting' = waiting + 1
  /\ pc' = [pc EXCEPT ![r] = "entered"]
  /\ UNCHANGED <<gone, inFlight, sem, upstream>>

(* ... and starts its acquire task when the server starts the body. *)
StartBody(r) ==
  /\ pc[r] = "entered"
  /\ SemAcquire(r)
  /\ pc' = [pc EXCEPT ![r] = "check"]
  /\ UNCHANGED <<gone, waiting, inFlight, upstream>>

-----------------------------------------------------------------------------
(* The loop of _acquire. *)

(* is_disconnected() said yes: ClientGone, whatever the acquire task did. *)
PollGone(r) ==
  /\ pc[r] = "check" /\ r \in gone
  /\ Drop(r)

PollConnected(r) ==
  /\ pc[r] = "check" /\ r \notin gone
  /\ pc' = [pc EXCEPT ![r] = "wait"]
  /\ UNCHANGED <<gone, waiting, inFlight, sem, upstream>>

(* Fault: the timed-out acquire is cancelled and started again. *)
KeepaliveTimeoutRetries(r) ==
  /\ pc[r] = "wait" /\ acq[r] = "pending"
  /\ \E i \in 1..Len(pending) :
       pending[i] = r /\ pending' = Append(RemoveAt(pending, i), r)
  /\ pc' = [pc EXCEPT ![r] = IF r \in Streaming THEN "keepalive" ELSE "check"]
  /\ UNCHANGED <<gone, waiting, inFlight, value, acq, upstream>>

(* asyncio.wait timed out before the acquire task was done. *)
KeepaliveTimeout(r) ==
  /\ pc[r] = "wait" /\ acq[r] # "taken"
  /\ pc' = [pc EXCEPT ![r] = IF r \in Streaming THEN "keepalive" ELSE "check"]
  /\ UNCHANGED <<gone, waiting, inFlight, sem, upstream>>

(* The keepalive was sent and the acquire task is still not done. *)
KeepaliveSent(r) ==
  /\ pc[r] = "keepalive" /\ acq[r] # "taken"
  /\ pc' = [pc EXCEPT ![r] = "check"]
  /\ UNCHANGED <<gone, waiting, inFlight, sem, upstream>>

(* The acquire task of r runs after its future got a result. *)
ResumeAcquire(r) ==
  /\ acq[r] = "granted"
  /\ SemResume(r)
  /\ UNCHANGED <<pc, gone, waiting, inFlight, upstream>>

(* Fault: the end of asyncio.wait is taken for the end of the acquire. *)
MarkInFlightOnTimeout(r) ==
  /\ pc[r] \in {"wait", "keepalive"}
  /\ inFlight' = inFlight + 1
  /\ LeaveLine
  /\ pc' = [pc EXCEPT ![r] = "upstream"]
  /\ upstream' = upstream \cup {r}
  /\ UNCHANGED <<gone, sem>>

(* The loop ends with the slot; the client is not polled again before the  *)
(* request goes upstream.                                                  *)
MarkInFlight(r) ==
  /\ pc[r] \in {"wait", "keepalive"} /\ acq[r] = "taken"
  /\ inFlight' = inFlight + 1
  /\ LeaveLine
  /\ pc' = [pc EXCEPT ![r] = "upstream"]
  /\ upstream' = upstream \cup {r}
  /\ UNCHANGED <<gone, sem>>

(* The server cancels the task of a streaming response when its client     *)
(* goes: inside _acquire the exception path runs at once, but a generator  *)
(* suspended in a yield is only abandoned, and closed later.               *)
CancelQueued(r) ==
  /\ r \in Streaming \cap gone
  /\ pc[r] \in {"check", "wait"}
  /\ Drop(r)

AbandonQueued(r) ==
  /\ r \in Streaming \cap gone
  /\ pc[r] = "keepalive"
  /\ pc' = [pc EXCEPT ![r] = "lostqueue"]
  /\ UNCHANGED <<gone, waiting, inFlight, sem, upstream>>

CloseQueued(r) ==
  /\ pc[r] = "lostqueue"
  /\ Drop(r)

-----------------------------------------------------------------------------
(* The request is upstream. *)

(* The upstream answered, or failed before a blocking answer was sent, or  *)
(* ended its stream: the connection is closed before the slot is returned. *)
UpstreamEnds(r) ==
  /\ pc[r] = "upstream"
  /\ Release(r)
  /\ upstream' = upstream \ {r}

(* ProxyError or another exception of a stream: the error is sent as an    *)
(* event while the slot is still held.                                     *)
StreamFails(r) ==
  /\ pc[r] = "upstream" /\ r \in Streaming
  /\ pc' = [pc EXCEPT ![r] = "errsend"]
  /\ upstream' = upstream \ {r}
  /\ UNCHANGED <<gone, waiting, inFlight, sem>>

ErrorSent(r) ==
  /\ pc[r] = "errsend"
  /\ Release(r)
  /\ UNCHANGED upstream

ForwardChunk(r) ==
  /\ pc[r] = "upstream" /\ r \in Streaming \ gone
  /\ pc' = [pc EXCEPT ![r] = "send"]
  /\ UNCHANGED <<gone, waiting, inFlight, sem, upstream>>

ChunkSent(r) ==
  /\ pc[r] = "send"
  /\ pc' = [pc EXCEPT ![r] = "upstream"]
  /\ UNCHANGED <<gone, waiting, inFlight, sem, upstream>>

(* A chunk arrived for a client that is gone: break leaves the loop, the   *)
(* finally block returns the slot, and the proxy generator with its open   *)
(* connection is only abandoned.                                           *)
BreakOnChunk(r) ==
  /\ pc[r] = "upstream" /\ r \in Streaming \cap gone
  /\ Release(r)
  /\ UNCHANGED upstream

(* Cancelled while it reads from the upstream: the connection is closed on *)
(* the way out.                                                            *)
CancelProxy(r) ==
  /\ pc[r] = "upstream" /\ r \in Streaming \cap gone
  /\ Release(r)
  /\ upstream' = upstream \ {r}

AbandonHolding(r) ==
  /\ r \in Streaming \cap gone
  /\ pc[r] \in {"send", "errsend"}
  /\ pc' = [pc EXCEPT ![r] = "lostslot"]
  /\ UNCHANGED <<gone, waiting, inFlight, sem, upstream>>

(* Fault: nobody closes the abandoned generator. *)
CloseHoldingNever(r) == FALSE /\ pc[r] = "lostslot" /\ UNCHANGED vars

CloseHolding(r) ==
  /\ pc[r] = "lostslot"
  /\ Release(r)
  /\ UNCHANGED upstream

(* The interpreter closes the abandoned proxy generator. *)
CloseOrphan(r) ==
  /\ pc[r] = "finished" /\ r \in upstream
  /\ upstream' = upstream \ {r}
  /\ UNCHANGED <<pc, gone, waiting, inFlight, sem>>

-----------------------------------------------------------------------------
(* The client closes its connection at any time until its answer is done. *)
Disconnect(r) ==
  /\ r \notin gone
  /\ pc[r] \in Queued \cup Holding
  /\ gone' = gone \cup {r}
  /\ UNCHANGED <<pc, waiting, inFlight, sem, upstream>>

Wait(r) ==
  \/ StartBody(r) \/ PollGone(r) \/ PollConnected(r) \/ KeepaliveTimeout(r)
  \/ KeepaliveSent(r) \/ ResumeAcquire(r) \/ MarkInFlight(r)
  \/ CancelQueued(r) \/ AbandonQueued(r) \/ CloseQueued(r)

Serve(r) ==
  \/ UpstreamEnds(r) \/ StreamFails(r) \/ ErrorSent(r) \/ ForwardChunk(r)
  \/ ChunkSent(r) \/ BreakOnChunk(r) \/ CancelProxy(r) \/ AbandonHolding(r)
  \/ CloseHolding(r) \/ CloseOrphan(r)

Admit(r) == Refuse(r) \/ AdmitBlocking(r) \/ AdmitStreaming(r)

Next == \E r \in Requests : Admit(r) \/ Wait(r) \/ Serve(r) \/ Disconnect(r)

Spec == Init /\ [][Next]_vars

-----------------------------------------------------------------------------
(* Fairness.  The event loop runs every task that can run, timers fire and *)
(* sends end (the client reads, or its connection is closed); none of this *)
(* needs the upstream.                                                     *)
CleanUp(r) ==
  \/ ErrorSent(r) \/ ChunkSent(r) \/ CancelProxy(r) \/ AbandonHolding(r)
  \/ CloseHolding(r) \/ CloseOrphan(r)

GatewayFairness ==
  \A r \in Requests :
    WF_vars(Wait(r)) /\ WF_vars(ResumeAcquire(r)) /\ WF_vars(CleanUp(r))

(* A generation is finite, and a read that takes UPSTREAM_TIMEOUT fails.   *)
UpstreamFairness == \A r \in Requests : SF_vars(UpstreamEnds(r))

GatewaySpec == Spec /\ GatewayFairness

-----------------------------------------------------------------------------
(* Safety. *)

SlotHolders == {r \in Requests : acq[r] \in {"granted", "taken"}}

(* No path through admission, cancellation and release loses a slot or     *)
(* makes one: the free slots and the slots handed to acquire tasks are     *)
(* always InflightLimit (lanes.py _cancel_acquire, _acquire, release).     *)
SlotsConserved == value + Cardinality(SlotHolders) = InflightLimit

(* The two counters that decide on a 429 count every admitted request      *)
(* once, on every exit path of the handlers, so that the guards "> 0" of   *)
(* _leave_line and release never hide a double decrement.                  *)
CountsExact ==
  /\ waiting = Cardinality({r \in Requests : pc[r] \in Queued})
  /\ inFlight = Cardinality({r \in Requests : pc[r] \in Holding})

(* The line and the rig are bounded: never more than max_waiters queued    *)
(* behind inflight_limit in flight, counting the woken waiter that has not *)
(* run yet (lanes.py enter_line, capacity).                                *)
LaneBounded == Occupancy <= Capacity /\ inFlight <= InflightLimit

(* A free slot never sits beside a waiter with nobody about to hand it     *)
(* over (lanes.py release, _cancel_acquire).                               *)
NoLostWakeup ==
  value > 0 /\ pending # <<>> => \E r \in Requests : acq[r] = "granted"

(* A request that is not in the line owns nothing of the semaphore, and    *)
(* one that is in flight owns its slot, whichever way it got there.        *)
SlotOwnership ==
  \A r \in Requests :
    /\ pc[r] \in {"new", "entered"} \cup Ended => acq[r] = "none"
    /\ pc[r] \in Holding => acq[r] = "taken"

(* Clients that are still there never have more completions at the         *)
(* orchestrator than the lane has slots (main.py event_generator,          *)
(* _handle_blocking).                                                      *)
ConnectedWorkBounded == Cardinality(upstream \ gone) <= InflightLimit

-----------------------------------------------------------------------------
(* Action properties. *)

(* The waiters keep their order: a keepalive, a poll or somebody else's    *)
(* departure never sends a waiter behind a later one, and no waiter is     *)
(* granted a slot before an earlier one (lanes.py, module docstring).      *)
KeepsPlaceStep ==
  \A i, j \in 1..Len(pending) :
    i < j /\ acq'[pending[i]] = "pending" =>
      \/ acq'[pending[j]] = "none"
      \/ \E k, l \in 1..Len(pending') :
           k < l /\ pending'[k] = pending[i] /\ pending'[l] = pending[j]

KeepsPlace == [][KeepsPlaceStep]_vars

-----------------------------------------------------------------------------
(* Liveness. *)

(* Whatever the upstream does, a client that is gone does not stay in the  *)
(* line (lanes.py _acquire polls is_disconnected between timeouts).        *)
GoneLeavesLine ==
  \A r \in Requests : (r \in gone /\ pc[r] \in Queued) ~> pc[r] \notin Queued

(* Whatever the upstream does, a streaming client that is gone gives its   *)
(* slot back and its connection to the orchestrator is closed.             *)
GoneStreamEnds ==
  \A r \in Streaming :
    (r \in gone /\ pc[r] \in Holding) ~> (pc[r] = "finished" /\ r \notin upstream)

(* Both together: a client that is gone keeps neither a place in the line  *)
(* nor, if it was a stream, a slot.                                        *)
GoneIsNoticed == GoneLeavesLine /\ GoneStreamEnds

-----------------------------------------------------------------------------
(* The lane implements BoundedLine. *)

Outcome(p) ==
  CASE p = "new" -> "outside"
    [] p = "refused" -> "refused"
    [] p \in Queued -> "queued"
    [] p \in Holding -> "serving"
    [] p = "left" -> "left"
    [] p = "finished" -> "served"

Line == INSTANCE BoundedLine
  WITH Clients <- Requests, Slots <- InflightLimit, Places <- MaxWaiters,
       state <- [r \in Requests |-> Outcome(pc[r])]

(* Seen from outside, the lane refuses, starts and lets go of requests     *)
(* exactly as a bounded line does.                                         *)
ImplementsLine == Line!Spec

(* ... and, if generations end, with the same fairness.                    *)
ImplementsFairLine == UpstreamFairness => Line!Fairness

-----------------------------------------------------------------------------
(* Statements of the documentation about the lane. *)

(* "You do not keep a GPU slot warm for a ghost": a request whose client   *)
(* is gone is not sent to the rig.                                         *)
NoGhostTurn == [][\A r \in gone : r \in upstream' => r \in upstream]_vars

(* "Closing the connection leaves the line, or frees the GPU slot if you   *)
(* already had it": closing is enough, the upstream need not answer.       *)
ClosingFreesSlot ==
  \A r \in Requests : (r \in gone /\ pc[r] \in Holding) ~> (pc[r] = "finished")

(* "The rig only receives work it can start": the orchestrator never has   *)
(* more completions of this lane open than the lane has slots.             *)
RigGetsWhatItCanStart == Cardinality(upstream) <= InflightLimit

(* "Join waiter line FIFO": nobody who arrives takes a slot while a request *)
(* that was admitted before has not asked for one yet (main.py, where a     *)
(* stream is counted at once but queues when its body starts).              *)
FirstComeFirstServed ==
  [][\A q, r \in Requests :
       pc[r] = "entered" /\ pc[q] = "new" => acq'[q] # "taken"]_vars
=============================================================================
