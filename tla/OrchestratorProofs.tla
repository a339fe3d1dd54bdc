------------------------- MODULE OrchestratorProofs -------------------------
(***************************************************************************)
(* Proofs about Orchestrator, for any finite set of requests, any groups   *)
(* and any limits.                                                         *)
(***************************************************************************)
EXTENDS Orchestrator, SetLemmas

Places == {"new"} \cup Working \cup Ended

(* The blocking completions in progress at w when the handlers are at p. *)
Running(p, w) == {r \in Blocking : p[r] \in Working /\ Target(r) = w}

(* Uncount *)
Down(a, w) == [a EXCEPT ![w] = IF @ > 0 THEN @ - 1 ELSE 0]

Counted(p, a) == \A w \in Workers : a[w] = Cardinality(Running(p, w))
Bounded(p) == \A w \in Workers : Cardinality(Running(p, w)) <= QueueCapacity
Quiet(p) == \A r \in Requests : p[r] \notin Working

(* What the handlers count is also true across a stop: nothing is in       *)
(* progress while the process is down, so the counts may start at zero.    *)
IInv ==
  /\ TypeOK
  /\ run # "down" => Counted(pc, active)
  /\ run = "down" => Quiet(pc)
  /\ Bounded(pc)

LEMMA WorkersNatural == Workers \in SUBSET Nat /\ 0 \notin Workers
<1>1. Len(Groups) \in Nat
  BY OrchestratorAssumption
<1> QED BY <1>1 DEF Workers

(* The poll loop goes to a worker or to sleep. *)
LEMMA FollowingTyped ==
  ASSUME NEW w \in Nat
  PROVE  Following(w) \in Workers \cup {0}
<1> DEFINE later == {v \in Workers : v > w}
<1>1. later \in SUBSET Nat
  BY WorkersNatural
<1>2. later # {} => Min(later) \in later
  BY <1>1, MinOfNaturals
<1> QED BY <1>2 DEF Following

(* A request is routed to a worker of its model. *)
LEMMA TargetTyped ==
  ASSUME NEW r \in Requests, Serving(r) # {}
  PROVE  Target(r) \in Workers /\ Groups[Target(r)] = Model[r]
<1>1. Serving(r) \in SUBSET Nat
  BY WorkersNatural DEF Serving
<1>2. Min(Serving(r)) \in Serving(r)
  BY <1>1, MinOfNaturals
<1> QED BY <1>2 DEF Serving, Target

LEMMA RunningFinite ==
  ASSUME NEW p, NEW w
  PROVE  IsFiniteSet(Running(p, w)) /\ Cardinality(Running(p, w)) \in Nat
<1>1. Running(p, w) \in SUBSET Requests
  BY DEF Running, Blocking
<1>2. IsFiniteSet(Running(p, w))
  BY <1>1, FS_Subset, OrchestratorAssumption
<1> QED BY <1>2, FS_CardinalityType

(* The count of a blocking request goes up by one when it is accepted ...  *)
LEMMA CountUp ==
  ASSUME NEW p, NEW a, NEW r \in Blocking, NEW p2, NEW a2,
         a \in [Workers -> Nat], p \in [Requests -> Places],
         p[r] \notin Working, Target(r) \in Workers,
         p2 = [p EXCEPT ![r] = "pool"],
         a2 = [a EXCEPT ![Target(r)] = @ + 1],
         a[Target(r)] < QueueCapacity,
         Counted(p, a), Bounded(p)
  PROVE  a2 \in [Workers -> Nat] /\ Counted(p2, a2) /\ Bounded(p2)
<1>t. a2 \in [Workers -> Nat]
  <2>1. a[Target(r)] + 1 \in Nat
    OBVIOUS
  <2> QED BY <2>1
<1> SUFFICES ASSUME NEW w \in Workers
             PROVE  /\ a2[w] = Cardinality(Running(p2, w))
                    /\ Cardinality(Running(p2, w)) <= QueueCapacity
  BY <1>t DEF Counted, Bounded
<1>0. r \in Requests
  BY DEF Blocking
<1>1. CASE w = Target(r)
  <2>1. Running(p2, w) = Running(p, w) \cup {r}
    BY <1>0, <1>1 DEF Running, Blocking, Working
  <2>2. r \notin Running(p, w)
    BY DEF Running
  <2>3. Cardinality(Running(p2, w)) = Cardinality(Running(p, w)) + 1
    BY <2>1, <2>2, RunningFinite, FS_AddElement
  <2>4. a[w] = Cardinality(Running(p, w))
    BY DEF Counted
  <2>5. a2[w] = a[w] + 1 /\ a[w] < QueueCapacity /\ a[w] \in Nat
    BY <1>1
  <2> QED BY <2>3, <2>4, <2>5, OrchestratorAssumption
<1>2. CASE w # Target(r)
  <2>1. Running(p2, w) = Running(p, w)
    BY <1>0, <1>2 DEF Running, Blocking
  <2>2. a2[w] = a[w]
    BY <1>2
  <2> QED BY <2>1, <2>2 DEF Counted, Bounded
<1> QED BY <1>1, <1>2

(* ... and down by one when it ends; the guard of max(0, n - 1) is idle.   *)
LEMMA CountDown ==
  ASSUME NEW p, NEW a, NEW r \in Blocking, NEW p2, NEW a2, NEW how,
         a \in [Workers -> Nat], p \in [Requests -> Places],
         p[r] \in Working, how \notin Working,
         p2 = [p EXCEPT ![r] = how],
         a2 = Down(a, Target(r)),
         Counted(p, a), Bounded(p)
  PROVE  a2 \in [Workers -> Nat] /\ Counted(p2, a2) /\ Bounded(p2)
<1>t. a2 \in [Workers -> Nat]
  <2>1. CASE Target(r) \in Workers
    <3>1. (IF a[Target(r)] > 0 THEN a[Target(r)] - 1 ELSE 0) \in Nat
      BY <2>1
    <3> QED BY <3>1 DEF Down
  <2>2. CASE Target(r) \notin Workers
    <3>1. a2 = a
      BY <2>2 DEF Down
    <3> QED BY <3>1
  <2> QED BY <2>1, <2>2
<1> SUFFICES ASSUME NEW w \in Workers
             PROVE  /\ a2[w] = Cardinality(Running(p2, w))
                    /\ Cardinality(Running(p2, w)) <= QueueCapacity
  BY <1>t DEF Counted, Bounded
<1>0. r \in Requests
  BY DEF Blocking
<1>b. /\ a[w] = Cardinality(Running(p, w))
      /\ Cardinality(Running(p, w)) <= QueueCapacity
  BY DEF Counted, Bounded
<1>1. CASE w = Target(r)
  <2>1. Running(p2, w) = Running(p, w) \ {r}
    BY <1>0, <1>1 DEF Running, Blocking
  <2>2. r \in Running(p, w)
    BY <1>1 DEF Running
  <2>3. Cardinality(Running(p2, w)) = Cardinality(Running(p, w)) - 1
    BY <2>1, <2>2, RunningFinite, FS_RemoveElement
  <2>4. Cardinality(Running(p2, w)) \in Nat
    BY RunningFinite
  <2>5. a[w] \in Nat /\ a2[w] = IF a[w] > 0 THEN a[w] - 1 ELSE 0
    BY <1>1 DEF Down
  <2> QED BY <1>b, <2>3, <2>4, <2>5, OrchestratorAssumption
<1>2. CASE w # Target(r)
  <2>1. Running(p2, w) = Running(p, w)
    BY <1>0, <1>2 DEF Running, Blocking
  <2>2. a2[w] = a[w]
    BY <1>2 DEF Down
  <2> QED BY <1>b, <2>1, <2>2
<1> QED BY <1>1, <1>2

(* A step that leaves the blocking requests at work where they are. *)
LEMMA CountSame ==
  ASSUME NEW p, NEW p2,
         \A r \in Blocking : p[r] \in Working <=> p2[r] \in Working
  PROVE  /\ \A a : Counted(p, a) <=> Counted(p2, a)
         /\ Bounded(p) <=> Bounded(p2)
<1>1. \A w : Running(p, w) = Running(p2, w)
  BY DEF Running
<1> QED BY <1>1 DEF Counted, Bounded

(* Nothing is in progress: every count is zero. *)
LEMMA CountNone ==
  ASSUME NEW p, Quiet(p)
  PROVE  Counted(p, Idle) /\ Bounded(p)
<1>1. \A w : Running(p, w) = {}
  BY DEF Running, Quiet, Blocking
<1>2. \A w : Cardinality(Running(p, w)) = 0
  BY <1>1, FS_EmptySet
<1> QED BY <1>2, OrchestratorAssumption DEF Counted, Bounded, Idle
-----------------------------------------------------------------------------
(* The steps. *)

LEMMA InitInvariant == Init => IInv
<1> SUFFICES ASSUME Init PROVE IInv
  OBVIOUS
<1>1. TypeOK
  BY DEF Init, TypeOK, Unchecked, Idle
<1>2. Quiet(pc)
  BY DEF Init, Quiet, Working
<1>3. Counted(pc, active) /\ Bounded(pc)
  BY <1>2, CountNone DEF Init
<1> QED BY <1>1, <1>2, <1>3 DEF IInv

(* A request moves and no count changes. *)
LEMMA MoveKeeps ==
  ASSUME IInv, NEW r \in Requests, NEW x \in Working \cup Ended,
         run # "down", run' = run,
         pc' = [pc EXCEPT ![r] = x],
         r \in Streaming \/ (pc[r] \in Working <=> x \in Working),
         UNCHANGED <<active, polling, health>>,
         conns' \subseteq Requests, gone' \subseteq Streaming
  PROVE  IInv'
<1>1. TypeOK'
  BY DEF IInv, TypeOK, polling
<1>2. pc \in [Requests -> {"new"} \cup Working \cup Ended]
  BY DEF IInv, TypeOK
<1>3. \A q \in Blocking : pc[q] \in Working <=> pc'[q] \in Working
  BY <1>2 DEF Blocking
<1>4. Counted(pc, active) <=> Counted(pc', active)
  BY <1>3, CountSame
<1>5. Bounded(pc) <=> Bounded(pc')
  BY <1>3, CountSame
<1>6. Counted(pc', active')
  BY <1>4 DEF IInv
<1>7. (Counted(pc, active))'
  BY <1>6 DEF Counted
<1>8. (Bounded(pc))'
  BY <1>5 DEF IInv, Bounded
<1> QED BY <1>1, <1>7, <1>8 DEF IInv

(* No request moves. *)
LEMMA StillKeeps ==
  ASSUME IInv, TypeOK', UNCHANGED <<pc, active>>,
         run' = "down" <=> run = "down"
  PROVE  IInv'
<1>1. (Bounded(pc))' <=> Bounded(pc)
  BY DEF Bounded
<1>2. (Counted(pc, active))' <=> Counted(pc, active)
  BY DEF Counted
<1>3. (Quiet(pc))' <=> Quiet(pc)
  BY DEF Quiet
<1> QED BY <1>1, <1>2, <1>3 DEF IInv

LEMMA WorkingRuns ==
  ASSUME IInv, NEW r \in Requests, pc[r] \in Working
  PROVE  run # "down"
BY DEF IInv, Quiet

LEMMA AcceptKeeps ==
  ASSUME IInv, NEW r \in Requests, AcceptBlocking(r)
  PROVE  IInv'
<1> USE DEF AcceptBlocking, Accepted, Arrives
<1>1. /\ r \in Blocking /\ Serving(r) # {}
      /\ run = "serving" /\ run' = run
      /\ pc[r] = "new" /\ pc' = [pc EXCEPT ![r] = "pool"]
      /\ active' = [active EXCEPT ![Target(r)] = @ + 1]
      /\ active[Target(r)] < QueueCapacity
      /\ UNCHANGED <<polling, health, conns, gone>>
  BY DEF HasRoom
<1>2. Target(r) \in Workers
  BY <1>1, TargetTyped
<1>3. /\ pc \in [Requests -> Places] /\ active \in [Workers -> Nat]
      /\ pc[r] \notin Working
  <2>1. pc[r] \notin Working
    BY <1>1 DEF Working
  <2> QED BY <2>1 DEF IInv, TypeOK, Places
<1>4. Counted(pc, active) /\ Bounded(pc)
  BY <1>1 DEF IInv
<1>5. active' \in [Workers -> Nat] /\ Counted(pc', active') /\ Bounded(pc')
  BY <1>1, <1>2, <1>3, <1>4, CountUp
<1>6. TypeOK'
  BY <1>1, <1>5 DEF IInv, TypeOK, polling, Working
<1>7. (Counted(pc, active))' /\ (Bounded(pc))'
  BY <1>5 DEF Counted, Bounded
<1> QED BY <1>1, <1>6, <1>7 DEF IInv

LEMMA FinishKeeps ==
  ASSUME IInv, NEW r \in Requests, NEW how \in {"answered", "failed"},
         pc[r] \in Working, Finish(r, how)
  PROVE  IInv'
<1>1. /\ r \in Blocking /\ run' = run
      /\ pc' = [pc EXCEPT ![r] = how]
      /\ active' = [active EXCEPT ![Target(r)] = IF @ > 0 THEN @ - 1 ELSE 0]
      /\ conns' = conns \ {r}
      /\ UNCHANGED <<polling, health, gone>>
  BY DEF Finish, Uncount
<1>2. run # "down"
  BY WorkingRuns
<1>3. /\ pc \in [Requests -> Places] /\ active \in [Workers -> Nat]
      /\ how \notin Working
  <2>1. how \notin Working
    BY DEF Working
  <2> QED BY <2>1 DEF IInv, TypeOK, Places
<1>4. Counted(pc, active) /\ Bounded(pc)
  BY <1>2 DEF IInv
<1>5. active' \in [Workers -> Nat] /\ Counted(pc', active') /\ Bounded(pc')
  <2>1. pc' = [pc EXCEPT ![r] = how]
    BY <1>1
  <2>2. active' = Down(active, Target(r))
    BY <1>1 DEF Down
  <2>3. r \in Blocking
    BY <1>1
  <2> QED BY <2>1, <2>2, <2>3, <1>3, <1>4, CountDown
<1>6. TypeOK'
  BY <1>1, <1>5 DEF IInv, TypeOK, polling, Ended
<1>7. (Counted(pc, active))' /\ (Bounded(pc))'
  BY <1>5 DEF Counted, Bounded
<1> QED BY <1>1, <1>2, <1>6, <1>7 DEF IInv

LEMMA SendErrorKeeps ==
  ASSUME IInv, NEW r \in Requests, pc[r] \in Working, SendError(r)
  PROVE  IInv'
<1>1. run # "down"
  BY WorkingRuns
<1>2. conns' \subseteq Requests /\ gone' \subseteq Streaming
  BY DEF SendError, IInv, TypeOK
<1>3. "errsend" \in Working
  BY DEF Working
<1> QED BY <1>1, <1>2, <1>3, MoveKeeps DEF SendError

LEMMA StreamMovesKeeps ==
  ASSUME IInv, NEW r \in Requests, NEW x \in Working \cup Ended,
         pc[r] \in Working, StreamMoves(r, x), conns' \subseteq conns
  PROVE  IInv'
<1>1. run # "down"
  BY WorkingRuns
<1>2. conns' \subseteq Requests /\ gone' \subseteq Streaming
  BY DEF StreamMoves, IInv, TypeOK
<1> QED BY <1>1, <1>2, MoveKeeps DEF StreamMoves

LEMMA RefusalKeeps ==
  ASSUME IInv, NEW r \in Requests, NEW x \in Refusals,
         Arrives(r, x), UNCHANGED active
  PROVE  IInv'
<1>1. conns' \subseteq Requests /\ gone' \subseteq Streaming
  BY DEF Arrives, IInv, TypeOK
<1>2. x \in Ended /\ x \notin Working /\ pc[r] \notin Working
  BY DEF Arrives, Refusals, Ended, Working
<1>3. run # "down" /\ run' = run
  BY DEF Arrives
<1> QED BY <1>1, <1>2, <1>3, MoveKeeps DEF Arrives

LEMMA RequestKeeps ==
  ASSUME IInv, NEW r \in Requests, Request(r)
  PROVE  IInv'
<1>w. {"pool", "worker", "send", "errsend", "lost"} = Working
  BY DEF Working
<1>e. {"answered", "failed", "cut"} \subseteq Ended
  BY DEF Ended
<1>1. CASE RefuseUnknown(r)
  BY <1>1, RefusalKeeps DEF RefuseUnknown, Refusals
<1>2. CASE RefuseFull(r)
  BY <1>2, RefusalKeeps DEF RefuseFull, Refusals
<1>3. CASE RefuseUnavailable(r)
  BY <1>3, RefusalKeeps DEF RefuseUnavailable, Refusals
<1>4. CASE AcceptBlocking(r)
  BY <1>4, AcceptKeeps
<1>5. CASE AcceptStreaming(r)
  <2>1. r \in Streaming /\ UNCHANGED active /\ Arrives(r, "pool")
    BY <1>5 DEF AcceptStreaming, Accepted
  <2>2. conns' \subseteq Requests /\ gone' \subseteq Streaming
    BY <2>1 DEF Arrives, IInv, TypeOK
  <2>3. run # "down"
    BY <2>1 DEF Arrives
  <2> QED BY <1>w, <2>1, <2>2, <2>3, MoveKeeps DEF Arrives
<1>6. CASE TakeConnection(r)
  <2>1. pc[r] = "pool" /\ run # "down"
    BY <1>6, <1>w, WorkingRuns DEF TakeConnection
  <2>2. conns' \subseteq Requests /\ gone' \subseteq Streaming
    BY <1>6 DEF TakeConnection, IInv, TypeOK
  <2> QED BY <1>6, <1>w, <2>1, <2>2, MoveKeeps DEF TakeConnection
<1>7. CASE PoolTimeout(r)
  BY <1>7, <1>w, FinishKeeps, SendErrorKeeps DEF PoolTimeout
<1>8. CASE WorkerAnswers(r)
  BY <1>8, <1>w, FinishKeeps DEF WorkerAnswers
<1>9. CASE WorkerFails(r)
  BY <1>9, <1>w, FinishKeeps, SendErrorKeeps DEF WorkerFails
<1>10. CASE StreamEnds(r)
  BY <1>10, <1>w, <1>e, StreamMovesKeeps DEF StreamEnds
<1>11. CASE ForwardChunk(r)
  BY <1>11, <1>w, StreamMovesKeeps DEF ForwardChunk
<1>12. CASE BreakOnChunk(r)
  BY <1>12, <1>w, <1>e, StreamMovesKeeps DEF BreakOnChunk
<1>13. CASE ChunkSent(r)
  BY <1>13, <1>w, StreamMovesKeeps DEF ChunkSent
<1>14. CASE ErrorSent(r)
  BY <1>14, <1>w, <1>e, StreamMovesKeeps DEF ErrorSent
<1>15. CASE CancelStream(r)
  BY <1>15, <1>w, <1>e, StreamMovesKeeps DEF CancelStream
<1>16. CASE AbandonSend(r)
  BY <1>16, <1>w, StreamMovesKeeps DEF AbandonSend
<1>17. CASE CloseLost(r)
  BY <1>17, <1>w, <1>e, StreamMovesKeeps DEF CloseLost
<1>18. CASE CloseOrphan(r)
  <2>1. UNCHANGED <<pc, active, run>> /\ TypeOK'
    BY <1>18 DEF CloseOrphan, IInv, TypeOK, polling
  <2> QED BY <2>1, StillKeeps
<1>19. CASE Disconnect(r)
  <2>1. UNCHANGED <<pc, active, run>> /\ TypeOK'
    BY <1>19 DEF Disconnect, IInv, TypeOK, polling
  <2> QED BY <2>1, StillKeeps
<1> QED
  BY <1>1, <1>2, <1>3, <1>4, <1>5, <1>6, <1>7, <1>8, <1>9, <1>10, <1>11, <1>12,
     <1>13, <1>14, <1>15, <1>16, <1>17, <1>18, <1>19
  DEF Request, Answer, Upstream, Clean

LEMMA PollKeeps == IInv /\ Poll => IInv'
<1> SUFFICES ASSUME IInv, Poll PROVE IInv'
  OBVIOUS
<1>1. poller \in Nat /\ 0 \in Nat
  BY WorkersNatural DEF IInv, TypeOK
<1>2. UNCHANGED <<run, pc, active, health, conns, gone>>
  BY DEF Poll, PollStarts, PollAnswered, serving
<1>3. poller' \in Workers \cup {0}
  BY <1>1, FollowingTyped DEF Poll, PollStarts, PollAnswered
<1>4. state' \in [Workers -> {"unknown", "healthy", "unhealthy"}]
  BY DEF Poll, PollStarts, PollAnswered, IInv, TypeOK
<1>5. TypeOK'
  BY <1>2, <1>3, <1>4 DEF IInv, TypeOK
<1> QED BY <1>2, <1>5, StillKeeps

LEMMA ProcessKeeps == IInv /\ Process => IInv'
<1> SUFFICES ASSUME IInv, Process PROVE IInv'
  OBVIOUS
<1>1. CASE Drain
  <2>1. UNCHANGED <<pc, active>> /\ TypeOK'
    BY <1>1 DEF Drain, IInv, TypeOK, polling, serving
  <2> QED BY <1>1, <2>1, StillKeeps DEF Drain
<1>2. CASE Stop \/ Crash
  <2>1. "cut" \in Ended /\ "cut" \notin Working
    BY DEF Ended, Working
  <2>2. pc' = Severed /\ run' = "down"
    BY <1>2 DEF Stop, Crash
  <2>3. pc' \in [Requests -> {"new"} \cup Working \cup Ended]
    BY <2>1, <2>2 DEF Severed, IInv, TypeOK
  <2>4. TypeOK'
    BY <1>2, <2>3 DEF Stop, Crash, IInv, TypeOK
  <2>5. Quiet(pc')
    BY <2>1, <2>2 DEF Severed, Quiet
  <2>6. Bounded(pc')
    BY <2>5, CountNone
  <2>7. (Quiet(pc))' /\ (Bounded(pc))'
    BY <2>5, <2>6 DEF Quiet, Bounded
  <2> QED BY <2>2, <2>4, <2>7 DEF IInv
<1>3. CASE Start
  <2>1. TypeOK'
    BY <1>3 DEF Start, IInv, TypeOK, Unchecked, Idle
  <2>2. Quiet(pc) /\ pc' = pc /\ active' = Idle /\ run' = "serving"
    BY <1>3 DEF Start, IInv
  <2>3. Counted(pc', active') /\ Bounded(pc')
    BY <2>2, CountNone
  <2>4. (Counted(pc, active))' /\ (Bounded(pc))'
    BY <2>3 DEF Counted, Bounded
  <2> QED BY <2>1, <2>2, <2>4 DEF IInv
<1> QED BY <1>1, <1>2, <1>3 DEF Process

LEMMA NextKeeps == IInv /\ [Next]_vars => IInv'
<1> SUFFICES ASSUME IInv, [Next]_vars PROVE IInv'
  OBVIOUS
<1>1. CASE \E r \in Requests : Request(r)
  BY <1>1, RequestKeeps
<1>2. CASE \E w \in Workers : HealthChanges(w)
  <2>1. UNCHANGED <<pc, active, run>> /\ TypeOK'
    BY <1>2 DEF HealthChanges, IInv, TypeOK, polling, serving
  <2> QED BY <2>1, StillKeeps
<1>3. CASE Poll
  BY <1>3, PollKeeps
<1>4. CASE Process
  BY <1>4, ProcessKeeps
<1>5. CASE UNCHANGED vars
  <2>1. UNCHANGED <<pc, active, run>> /\ TypeOK'
    BY <1>5 DEF vars, IInv, TypeOK, polling, serving
  <2> QED BY <2>1, StillKeeps
<1> QED BY <1>1, <1>2, <1>3, <1>4, <1>5 DEF Next

-----------------------------------------------------------------------------
(* The inductive invariant: besides the types, the counts are exact while  *)
(* the process runs, nothing is in progress while it does not, and no      *)
(* worker has more blocking completions than its capacity.                 *)
THEOREM OrchestratorInvariant == Spec => []IInv
BY InitInvariant, NextKeeps, PTL DEF Spec

(* Type correctness; the poll loop never leaves the registered workers. *)
THEOREM OrchestratorTyped == Spec => []TypeOK
<1>1. IInv => TypeOK
  BY DEF IInv
<1> QED BY <1>1, OrchestratorInvariant, PTL

LEMMA RunningIsInProgress ==
  ASSUME NEW w PROVE InProgress(w) \cap Blocking = Running(pc, w)
BY DEF InProgress, Running, Blocking

(* active_requests counts the blocking completions in progress, across     *)
(* every exit of chat_completions and every restart.                       *)
THEOREM OrchestratorCounts == Spec => []ActiveExact
<1>1. IInv => ActiveExact
  BY RunningIsInProgress DEF IInv, ActiveExact, Counted
<1> QED BY <1>1, OrchestratorInvariant, PTL

(* The capacity of a worker bounds its blocking completions. *)
THEOREM OrchestratorBounded == Spec => []BlockingBounded
<1>1. IInv => BlockingBounded
  BY RunningIsInProgress DEF IInv, BlockingBounded, Bounded
<1> QED BY <1>1, OrchestratorInvariant, PTL

(* A request is refused as full by one action only. *)
LEMMA FullIsRefused ==
  ASSUME IInv, Next, NEW r \in Requests, pc[r] = "new", pc'[r] = "full"
  PROVE  RefuseFull(r)
<1>1. pc[r] \notin Working /\ "full" \notin Working
  BY DEF Working
<1>2. \E q \in Requests : Request(q)
  BY <1>1 DEF Next, HealthChanges, Poll, PollStarts, PollAnswered,
       Process, Drain, Stop, Crash, Start, Severed, serving, IInv, TypeOK
<1>3. PICK q \in Requests : Request(q)
  BY <1>2
<1>4. q = r /\ (Answer(r) \/ TakeConnection(r) \/ PoolTimeout(r)
         \/ Upstream(r) \/ ForwardChunk(r) \/ BreakOnChunk(r)
         \/ Clean(r) \/ Disconnect(r))
  BY <1>3 DEF Request, Answer, RefuseUnknown, RefuseFull,
       RefuseUnavailable, AcceptBlocking, AcceptStreaming, Accepted,
       Arrives, TakeConnection, PoolTimeout, Finish, SendError, Upstream,
       WorkerAnswers, WorkerFails, StreamEnds, StreamMoves, ForwardChunk,
       BreakOnChunk, Clean, ChunkSent, ErrorSent, CancelStream,
       AbandonSend, CloseLost, CloseOrphan, Disconnect, IInv, TypeOK
<1>5. Answer(r)
  BY <1>4 DEF TakeConnection, PoolTimeout, Upstream,
       WorkerAnswers, WorkerFails, StreamEnds, ForwardChunk,
       BreakOnChunk, Clean, ChunkSent, ErrorSent, CancelStream,
       AbandonSend, CloseLost, CloseOrphan, Disconnect, IInv, TypeOK
<1> QED BY <1>5 DEF Answer, RefuseUnknown, RefuseUnavailable,
       AcceptBlocking, AcceptStreaming, Accepted, Arrives, IInv, TypeOK

(* A 429 is only given while the worker has its capacity in progress. *)
THEOREM OrchestratorRefusals == Spec => RefusedWhenFull
<1>1. IInv /\ [Next]_vars => [RefusedWhenFullStep]_vars
  <2> SUFFICES ASSUME IInv, Next, NEW r \in Requests,
                      pc[r] = "new", pc'[r] = "full"
               PROVE  Cardinality(InProgress(Target(r)) \cap Blocking)
                        >= QueueCapacity
    BY DEF RefusedWhenFullStep
  <2>1. RefuseFull(r)
    BY FullIsRefused
  <2>2. /\ Target(r) \in Workers
        /\ active[Target(r)] >= QueueCapacity
        /\ run # "down"
    <3>1. Target(r) \in Workers
      BY <2>1, TargetTyped DEF RefuseFull
    <3>2. active[Target(r)] \in Nat
      BY <3>1 DEF IInv, TypeOK
    <3> QED BY <2>1, <3>1, <3>2, OrchestratorAssumption
            DEF RefuseFull, Arrives, HasRoom
  <2>3. active[Target(r)] = Cardinality(Running(pc, Target(r)))
    BY <2>2 DEF IInv, Counted
  <2> QED BY <2>2, <2>3, RunningIsInProgress
<1> QED BY <1>1, OrchestratorInvariant, PTL DEF Spec, RefusedWhenFull

(* Where a request with a connection may be. *)
Owner(p, r) ==
  p[r] \in {"worker", "send", "lost"} \/ (r \in Streaming /\ p[r] = "failed")

(* Only the request that moves can come to hold a connection or stop being *)
(* the owner of one.                                                       *)
LEMMA OwnershipLocal ==
  ASSUME TypeOK, ConnectionsOwned, NEW r \in Requests,
         conns' \subseteq conns \cup {r},
         \A q \in Requests \ {r} : pc'[q] = pc[q],
         r \in conns' => Owner(pc', r)
  PROVE  ConnectionsOwned'
BY DEF ConnectionsOwned, Owner, TypeOK

LEMMA RequestKeepsOwners ==
  ASSUME TypeOK, ConnectionsOwned, NEW r \in Requests, Request(r)
  PROVE  ConnectionsOwned'
<1>o. r \in conns => Owner(pc, r)
  BY DEF ConnectionsOwned, Owner
<1>1. CASE Answer(r) \/ Disconnect(r)
  <2>1. /\ conns' = conns
        /\ pc' = pc \/ (pc[r] = "new" /\ \E x : pc' = [pc EXCEPT ![r] = x])
    BY <1>1 DEF Answer, RefuseUnknown, RefuseFull, RefuseUnavailable,
         AcceptBlocking, AcceptStreaming, Accepted, Arrives, Disconnect
  <2>2. pc[r] = "new" => r \notin conns
    BY <1>o DEF Owner
  <2>3. \A q \in Requests \ {r} : pc'[q] = pc[q]
    BY <2>1 DEF TypeOK
  <2>4. r \in conns' => Owner(pc', r)
    BY <1>o, <2>1, <2>2 DEF Owner
  <2> QED BY <2>1, <2>3, <2>4, OwnershipLocal
<1>2. CASE TakeConnection(r)
  BY <1>2, OwnershipLocal DEF TakeConnection, Owner, TypeOK
<1>3. CASE PoolTimeout(r) \/ WorkerAnswers(r) \/ WorkerFails(r)
  BY <1>3, OwnershipLocal DEF PoolTimeout, WorkerAnswers, WorkerFails, Finish,
       SendError, TypeOK
<1>4. CASE StreamEnds(r) \/ CancelStream(r)
  BY <1>4, OwnershipLocal DEF StreamEnds, CancelStream, StreamMoves, TypeOK
<1>5. CASE ForwardChunk(r) \/ ChunkSent(r) \/ BreakOnChunk(r)
  BY <1>5, OwnershipLocal DEF ForwardChunk, ChunkSent, BreakOnChunk,
       StreamMoves, Owner, TypeOK
<1>6. CASE ErrorSent(r) \/ AbandonSend(r) \/ CloseLost(r)
  BY <1>6, OwnershipLocal DEF ErrorSent, AbandonSend, CloseLost, StreamMoves,
       Owner, TypeOK
<1>7. CASE CloseOrphan(r)
  BY <1>7, OwnershipLocal DEF CloseOrphan, TypeOK
<1> QED BY <1>1, <1>2, <1>3, <1>4, <1>5, <1>6, <1>7
        DEF Request, Upstream, Clean

(* Every open connection has a request that will close it: the pool of the *)
(* shared client does not lose places.                                     *)
THEOREM OrchestratorConnections == Spec => []ConnectionsOwned
<1>1. Init => ConnectionsOwned
  BY DEF Init, ConnectionsOwned
<1>2. TypeOK /\ ConnectionsOwned /\ [Next]_vars => ConnectionsOwned'
  <2> SUFFICES ASSUME TypeOK, ConnectionsOwned, [Next]_vars
               PROVE  ConnectionsOwned'
    OBVIOUS
  <2>1. CASE \E r \in Requests : Request(r)
    BY <2>1, RequestKeepsOwners
  <2>2. CASE \E w \in Workers : HealthChanges(w)
    BY <2>2 DEF HealthChanges, serving, ConnectionsOwned
  <2>3. CASE Poll
    BY <2>3 DEF Poll, PollStarts, PollAnswered, serving, ConnectionsOwned
  <2>4. CASE Process
    BY <2>4 DEF Process, Drain, Stop, Crash, Start, serving, ConnectionsOwned
  <2>5. CASE UNCHANGED vars
    BY <2>5 DEF vars, serving, ConnectionsOwned
  <2> QED BY <2>1, <2>2, <2>3, <2>4, <2>5 DEF Next
<1> QED BY <1>1, <1>2, OrchestratorTyped, PTL DEF Spec
=============================================================================
