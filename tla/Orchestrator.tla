---------------------------- MODULE Orchestrator ----------------------------
(***************************************************************************)
(* The orchestrator of a rig: it turns a completion request for a model    *)
(* into a request to the worker of that model (orchestrator/main.py,       *)
(* routing.py, proxy.py) and polls the health of its workers (health.py).  *)
(*                                                                         *)
(* One asyncio process: a step is the code one task runs between two       *)
(* suspensions.  WorkerInfo.lock is never held across one, so a request is *)
(* resolved and counted in a single step.                                  *)
(***************************************************************************)
EXTENDS Integers, FiniteSets, Sequences, FiniteSetsExt

CONSTANTS
  Requests,        \* the completion requests that reach the orchestrator
  Streaming,       \* those of them whose body says "stream": true
  Model,           \* the model each request names
  Groups,          \* the model alias of each configured worker group, in order
  Unset,           \* the empty alias, and the model of a request that names none
  QueueCapacity,   \* QUEUE_CAPACITY_PER_WORKER
  MaxConnections,  \* max_connections of the client shared by all workers
  Replies          \* what GET /health of a worker may give: code 0 is no answer

ASSUME OrchestratorAssumption ==
  /\ IsFiniteSet(Requests)
  /\ Streaming \subseteq Requests
  /\ Groups \in Seq(Range(Groups))
  /\ QueueCapacity \in Nat
  /\ MaxConnections \in Nat
  /\ \A a \in Replies : a.code \in Nat

VARIABLES
  run,     \* the process: serving, draining before a stop, or down
  state,   \* WorkerInfo.state of each worker
  active,  \* WorkerInfo.active_requests of each worker
  poller,  \* the worker the poll loop waits for; 0 while it sleeps
  health,  \* what each worker answers to GET /health
  pc,      \* where the handler of each request is suspended
  conns,   \* requests that hold a connection of the shared client
  gone     \* streaming requests whose caller has closed the connection

vars == <<run, state, active, poller, health, pc, conns, gone>>
serving == <<active, pc, conns, gone>>
polling == <<state, poller>>

Blocking == Requests \ Streaming

(* configured_workers: an unset group is not registered. *)
Workers == {w \in 1..Len(Groups) : Groups[w] # Unset}

(* get_worker_for_model: the first worker in the order of registration. *)
Serving(r) == {w \in Workers : Groups[w] = Model[r]}
Target(r) == Min(Serving(r))

(* Suspended: for a connection, for the worker, in a send of a chunk or of *)
(* an error; "lost" is a generator abandoned in a send.                    *)
Working == {"pool", "worker", "send", "errsend", "lost"}
Refusals == {"unknown", "full", "unavailable"}
Ended == Refusals \cup {"answered", "failed", "cut"}

TypeOK ==
  /\ run \in {"serving", "draining", "down"}
  /\ state \in [Workers -> {"unknown", "healthy", "unhealthy"}]
  /\ active \in [Workers -> Nat]
  /\ poller \in Workers \cup {0}
  /\ health \in [Workers -> Replies]
  /\ pc \in [Requests -> {"new"} \cup Working \cup Ended]
  /\ conns \subseteq Requests
  /\ gone \subseteq Streaming

Unchecked == [w \in Workers |-> "unknown"]
Idle == [w \in Workers |-> 0]

Init ==
  /\ run = "serving"
  /\ state = Unchecked
  /\ active = Idle
  /\ poller = 0
  /\ health \in [Workers -> Replies]
  /\ pc = [r \in Requests |-> "new"]
  /\ conns = {}
  /\ gone = {}

-----------------------------------------------------------------------------
(* The health poller. *)

HealthyStatuses == {"ok", "no slot available", "loading model"}

(* The verdict of _check_worker on a reply; no answer is an exception. *)
Accepts(a) == a.code = 200 /\ a.status \in HealthyStatuses

(* The worker polled after w, 0 when the round is over. *)
Following(w) ==
  LET later == {v \in Workers : v > w} IN IF later = {} THEN 0 ELSE Min(later)

(* A round starts at startup or after HEALTH_INTERVAL. *)
PollStarts ==
  /\ run # "down" /\ poller = 0
  /\ poller' = Following(0)
  /\ UNCHANGED <<run, state, health, serving>>

(* Fault: an exception of the client ends the poll loop. *)
PollAnsweredFragile ==
  /\ run # "down" /\ poller # 0
  /\ health[poller].code # 0
  /\ state' = [state EXCEPT ![poller] =
                 IF Accepts(health[poller]) THEN "healthy" ELSE "unhealthy"]
  /\ poller' = Following(poller)
  /\ UNCHANGED <<run, health, serving>>

(* The worker answered, or the read timed out; the next worker is asked. *)
PollAnswered ==
  /\ run # "down" /\ poller # 0
  /\ state' = [state EXCEPT ![poller] =
                 IF Accepts(health[poller]) THEN "healthy" ELSE "unhealthy"]
  /\ poller' = Following(poller)
  /\ UNCHANGED <<run, health, serving>>

(* A worker loads its model, fills up, breaks down or comes back. *)
HealthChanges(w) ==
  /\ \E a \in Replies : health' = [health EXCEPT ![w] = a]
  /\ UNCHANGED <<run, polling, serving>>

-----------------------------------------------------------------------------
(* resolve_worker and chat_completions. *)

(* Fault: the limit is exceeded by one. *)
HasRoomOffByOne(w) == active[w] <= QueueCapacity

HasRoom(w) == active[w] < QueueCapacity

Arrives(r, next) ==
  /\ run = "serving"
  /\ pc[r] = "new"
  /\ pc' = [pc EXCEPT ![r] = next]
  /\ UNCHANGED <<run, polling, health, conns, gone>>

(* 404 *)
RefuseUnknown(r) ==
  /\ Serving(r) = {}
  /\ Arrives(r, "unknown")
  /\ UNCHANGED active

(* 429, whether the worker is healthy or not. *)
RefuseFull(r) ==
  /\ Serving(r) # {} /\ ~HasRoom(Target(r))
  /\ Arrives(r, "full")
  /\ UNCHANGED active

(* 503 *)
RefuseUnavailable(r) ==
  /\ Serving(r) # {} /\ HasRoom(Target(r))
  /\ state[Target(r)] # "healthy"
  /\ Arrives(r, "unavailable")
  /\ UNCHANGED active

Accepted(r) ==
  /\ Serving(r) # {} /\ HasRoom(Target(r))
  /\ state[Target(r)] = "healthy"
  /\ Arrives(r, "pool")

AcceptBlocking(r) ==
  /\ r \in Blocking
  /\ Accepted(r)
  /\ active' = [active EXCEPT ![Target(r)] = @ + 1]

(* Fault: a stream is counted and its count never returned. *)
AcceptStreamingCounted(r) ==
  /\ r \in Streaming
  /\ Accepted(r)
  /\ active' = [active EXCEPT ![Target(r)] = @ + 1]

(* The handler of a stream returns as soon as the response is built: it    *)
(* has counted the request and uncounted it before the body starts.        *)
AcceptStreaming(r) ==
  /\ r \in Streaming
  /\ Accepted(r)
  /\ UNCHANGED active

-----------------------------------------------------------------------------
(* The shared client. *)

TakeConnection(r) ==
  /\ pc[r] = "pool"
  /\ Cardinality(conns) < MaxConnections
  /\ conns' = conns \cup {r}
  /\ pc' = [pc EXCEPT ![r] = "worker"]
  /\ UNCHANGED <<run, polling, health, active, gone>>

(* Fault: the handler counts itself out at its end and in its finally. *)
UncountTwice(r) == active' = [active EXCEPT ![Target(r)] = @ - 2]

(* Fault: a handler ends and stays counted. *)
UncountForgotten(r) == r \in Blocking /\ UNCHANGED active

(* The finally block of chat_completions. *)
Uncount(r) ==
  active' = [active EXCEPT ![Target(r)] = IF @ > 0 THEN @ - 1 ELSE 0]

(* A blocking handler ends, with the answer of the worker or with 502. *)
Finish(r, how) ==
  /\ r \in Blocking
  /\ Uncount(r)
  /\ pc' = [pc EXCEPT ![r] = how]
  /\ conns' = conns \ {r}
  /\ UNCHANGED <<run, polling, health, gone>>

(* The exception is caught and sent as an event of the stream. *)
SendError(r) ==
  /\ r \in Streaming
  /\ pc' = [pc EXCEPT ![r] = "errsend"]
  /\ conns' = conns \ {r}
  /\ UNCHANGED <<run, polling, health, active, gone>>

(* Fault: a request waits for a connection as long as it takes. *)
PoolTimeoutNever(r) == FALSE /\ pc[r] = "pool" /\ UNCHANGED vars

(* No connection came free within the pool timeout. *)
PoolTimeout(r) ==
  /\ pc[r] = "pool"
  /\ Cardinality(conns) >= MaxConnections
  /\ Finish(r, "failed") \/ SendError(r)

(* The worker answered, whatever the status. *)
WorkerAnswers(r) == pc[r] = "worker" /\ Finish(r, "answered")

(* It refused the connection, broke it, or was silent for the read timeout.*)
WorkerFails(r) ==
  /\ pc[r] = "worker"
  /\ Finish(r, "failed") \/ SendError(r)

-----------------------------------------------------------------------------
(* event_generator. *)

StreamMoves(r, next) ==
  /\ r \in Streaming
  /\ pc' = [pc EXCEPT ![r] = next]
  /\ UNCHANGED <<run, polling, health, active, gone>>

StreamEnds(r) ==
  /\ pc[r] = "worker"
  /\ StreamMoves(r, "answered")
  /\ conns' = conns \ {r}

ForwardChunk(r) ==
  /\ pc[r] = "worker" /\ r \notin gone
  /\ StreamMoves(r, "send")
  /\ UNCHANGED conns

ChunkSent(r) ==
  /\ pc[r] = "send"
  /\ StreamMoves(r, "worker")
  /\ UNCHANGED conns

ErrorSent(r) ==
  /\ pc[r] = "errsend"
  /\ StreamMoves(r, "failed")
  /\ UNCHANGED conns

(* A chunk came for a caller that is gone: the generator ends and the one  *)
(* of proxy_streaming is abandoned with its connection open.               *)
BreakOnChunk(r) ==
  /\ pc[r] = "worker" /\ r \in gone
  /\ StreamMoves(r, "failed")
  /\ UNCHANGED conns

(* Fault: only the wait for a connection is cancelled. *)
CancelStreamDeaf(r) ==
  /\ r \in gone /\ pc[r] = "pool"
  /\ StreamMoves(r, "cut")
  /\ UNCHANGED conns

(* The server cancels the task of a response whose caller is gone.  A      *)
(* generator suspended in a send is abandoned and closed later.            *)
CancelStream(r) ==
  /\ r \in gone /\ pc[r] \in {"pool", "worker"}
  /\ StreamMoves(r, "cut")
  /\ conns' = conns \ {r}

AbandonSend(r) ==
  /\ r \in gone /\ pc[r] \in {"send", "errsend"}
  /\ StreamMoves(r, "lost")
  /\ UNCHANGED conns

(* Fault: nobody closes the abandoned generator. *)
CloseLostNever(r) == FALSE /\ pc[r] = "lost" /\ UNCHANGED vars

CloseLost(r) ==
  /\ pc[r] = "lost"
  /\ StreamMoves(r, "failed")
  /\ UNCHANGED conns

(* The interpreter closes an abandoned proxy_streaming. *)
CloseOrphan(r) ==
  /\ pc[r] = "failed" /\ r \in conns
  /\ conns' = conns \ {r}
  /\ UNCHANGED <<run, polling, health, active, pc, gone>>

(* A blocking handler never looks whether its caller is there. *)
Disconnect(r) ==
  /\ r \in Streaming \ gone
  /\ pc[r] \in Working
  /\ gone' = gone \cup {r}
  /\ UNCHANGED <<run, polling, health, active, pc, conns>>

-----------------------------------------------------------------------------
(* The process: lifespan, and systemd. *)

(* What a process that ends makes of the requests it works on. *)
Severed == [r \in Requests |-> IF pc[r] \in Working THEN "cut" ELSE pc[r]]

(* SIGTERM: no new request; the server waits for those in progress. *)
Drain ==
  /\ run = "serving"
  /\ run' = "draining"
  /\ UNCHANGED <<polling, health, serving>>

(* HealthChecker.stop cancels the poll; close_client closes what is open.  *)
(* Nobody waits for a generator that was abandoned.                        *)
Stop ==
  /\ run = "draining"
  /\ \A r \in Requests : pc[r] \notin Working \ {"lost"}
  /\ run' = "down"
  /\ poller' = 0
  /\ conns' = {}
  /\ pc' = Severed
  /\ UNCHANGED <<state, health, active, gone>>

(* The process dies, or is killed when it drains for too long. *)
Crash ==
  /\ run # "down"
  /\ run' = "down"
  /\ poller' = 0
  /\ conns' = {}
  /\ pc' = Severed
  /\ UNCHANGED <<state, health, active, gone>>

(* The workers are registered anew. *)
Start ==
  /\ run = "down"
  /\ run' = "serving"
  /\ state' = Unchecked
  /\ active' = Idle
  /\ UNCHANGED <<poller, health, pc, conns, gone>>

-----------------------------------------------------------------------------
Answer(r) ==
  \/ RefuseUnknown(r) \/ RefuseFull(r) \/ RefuseUnavailable(r)
  \/ AcceptBlocking(r) \/ AcceptStreaming(r)

Upstream(r) == WorkerAnswers(r) \/ WorkerFails(r) \/ StreamEnds(r)

Clean(r) ==
  \/ ChunkSent(r) \/ ErrorSent(r) \/ CancelStream(r) \/ AbandonSend(r)
  \/ CloseLost(r) \/ CloseOrphan(r)

Request(r) ==
  \/ Answer(r) \/ TakeConnection(r) \/ PoolTimeout(r) \/ Upstream(r)
  \/ ForwardChunk(r) \/ BreakOnChunk(r) \/ Clean(r) \/ Disconnect(r)

Poll == PollStarts \/ PollAnswered

Process == Drain \/ Stop \/ Crash \/ Start

Next ==
  \/ \E r \in Requests : Request(r)
  \/ \E w \in Workers : HealthChanges(w)
  \/ Poll \/ Process

Spec == Init /\ [][Next]_vars

(* The event loop runs every task that can run and its timers fire.  A     *)
(* worker may be silent for ever.                                          *)
LoopFairness ==
  /\ WF_vars(Poll)
  /\ \A r \in Requests :
       /\ WF_vars(TakeConnection(r) \/ PoolTimeout(r))
       /\ WF_vars(Clean(r))

(* A generation is finite; a read that takes too long fails. *)
WorkerFairness == \A r \in Requests : SF_vars(Upstream(r))

LoopSpec == Spec /\ LoopFairness

-----------------------------------------------------------------------------
(* Safety. *)

InProgress(w) ==
  {r \in Requests : pc[r] \in Working /\ Target(r) = w}

(* active_requests counts the blocking completions in progress at each     *)
(* worker, on every way out of the handler and across restarts (main.py    *)
(* chat_completions): max(0, n - 1) never hides a second decrement.        *)
ActiveExact ==
  run # "down" =>
    \A w \in Workers : active[w] = Cardinality(InProgress(w) \cap Blocking)

(* A worker never has more blocking completions than its capacity, though  *)
(* the check and the count are two statements (routing.py, main.py).       *)
BlockingBounded ==
  \A w \in Workers : Cardinality(InProgress(w) \cap Blocking) <= QueueCapacity

(* A 429 is deserved: at that moment the worker of the model has           *)
(* QueueCapacity blocking completions in progress (routing.py).            *)
RefusedWhenFullStep ==
  \A r \in Requests :
    pc[r] = "new" /\ pc'[r] = "full" =>
      Cardinality(InProgress(Target(r)) \cap Blocking) >= QueueCapacity

RefusedWhenFull == [][RefusedWhenFullStep]_vars

(* Every connection that is open belongs to a request at a worker, or to   *)
(* one whose generator waits to be closed: the pool does not leak places   *)
(* (proxy.py).                                                             *)
ConnectionsOwned ==
  \A r \in conns :
    \/ pc[r] \in {"worker", "send", "lost"}
    \/ r \in Streaming /\ pc[r] = "failed"

-----------------------------------------------------------------------------
(* Liveness. *)

(* A worker that stays down is seen to be down, whatever the others answer *)
(* and however busy the shared client is (health.py _poll_loop).           *)
DownIsNoticed ==
  \A w \in Workers :
    <>[](run # "down" /\ ~Accepts(health[w])) => <>[](state[w] = "unhealthy")

(* ... and one that stays up is used again (health.py _check_worker).      *)
UpIsNoticed ==
  \A w \in Workers :
    <>[](run # "down" /\ Accepts(health[w])) => <>[](state[w] = "healthy")

(* Both together: a lasting change of a worker is noticed. *)
ChangeIsNoticed == DownIsNoticed /\ UpIsNoticed

(* Nobody waits for a connection for ever, though the other model's worker *)
(* may hold them all and never answer (proxy.py get_client).               *)
PoolWaitEnds ==
  \A r \in Requests : (pc[r] = "pool") ~> (pc[r] # "pool")

(* Whatever the worker does, the connection to it is closed when the       *)
(* caller of a stream is gone (main.py event_generator).                   *)
GoneStreamCloses ==
  \A r \in Streaming : (r \in gone) ~> (pc[r] \in Ended /\ r \notin conns)

(* If generations end, every accepted request ends (main.py, proxy.py). *)
AcceptedEnds ==
  WorkerFairness => \A r \in Requests : (pc[r] \in Working) ~> (pc[r] \in Ended)

-----------------------------------------------------------------------------
(* Statements of the documentation. *)

(* "In-flight count above which the orchestrator returns 429": streams are *)
(* in flight too.                                                          *)
InFlightBounded ==
  \A w \in Workers : Cardinality(InProgress(w)) <= QueueCapacity

(* "`ok`, `loading model`, and `no slot available` all count as healthy":  *)
(* the poll of a worker with such a status finds it healthy.               *)
StatusCounts ==
  [][PollAnswered /\ health[poller].status \in HealthyStatuses
       => state'[poller] = "healthy"]_vars
=============================================================================
