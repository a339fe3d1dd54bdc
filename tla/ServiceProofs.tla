--------------------------- MODULE ServiceProofs ---------------------------
(***************************************************************************)
(* Proofs about Service, for any requests, limits, groups and bounds.  A   *)
(* step of the service is a step of the orchestrator or leaves it alone,   *)
(* so all that OrchestratorProofs shows holds here.                        *)
(***************************************************************************)
EXTENDS Service, OrchestratorProofs

(* The requests of a model at a place of the line l. *)
At(l, a, S) == {r \in Requests : Model[r] = a /\ l[r] \in S}
Held(l, a) == At(l, a, {"serving"})
Lost(l, a) == At(l, a, {"dropped"})

(* What the gateway let through and what it let go account for what the    *)
(* rig works for.                                                          *)
SlotsHold(l) == \A a \in Models : Cardinality(Held(l, a)) <= Slots[a]
LostBounded(l, k, b) == \A a \in Models : Cardinality(Lost(l, a)) <= Slots[a] * k + b

LetGo == {"dropped", "hungup"}

(* What is at the rig was sent there; what is left of a stream, and whose  *)
(* caller is gone, was let go.                                             *)
Sent(l, p, c, g) ==
  \A r \in Requests :
    /\ p[r] \in Working => Serving(r) # {}
    /\ p[r] \in Working \/ r \in c => l[r] \in {"serving"} \cup LetGo
    /\ r \in g \/ p[r] = "lost" \/ (r \in c /\ p[r] \in Ended) => l[r] \in LetGo
    /\ l[r] = "hungup" => r \in Streaming

SInv ==
  /\ ServiceTypeOK
  /\ SlotsHold(line)
  /\ LostBounded(line, restarts, breaks)
  /\ Sent(line, pc, conns, gone)

LEMMA AtFinite ==
  ASSUME NEW l, NEW a, NEW S
  PROVE  IsFiniteSet(At(l, a, S)) /\ Cardinality(At(l, a, S)) \in Nat
<1>1. At(l, a, S) \in SUBSET Requests
  BY DEF At
<1>2. IsFiniteSet(At(l, a, S))
  BY <1>1, FS_Subset, OrchestratorAssumption
<1> QED BY <1>2, FS_CardinalityType

LEMMA LostFinite ==
  ASSUME NEW l, NEW a
  PROVE  IsFiniteSet(Lost(l, a)) /\ Cardinality(Lost(l, a)) \in Nat
BY AtFinite DEF Lost

-----------------------------------------------------------------------------
(* The steps of the orchestrator. *)

LEMMA RigMoves ==
  ASSUME ServiceNext
  PROVE  [Next]_vars
BY DEF ServiceNext, Refuse, Admit, LeaveLine, TakeSlot, NotReached, SlotReturned, HangUp,
       LinkBreaks, GatewayRestarts, Arriving, Closed, AtWork, RigAlone, rig, Next, Request

OInv == IInv /\ ConnectionsOwned

(* A request of which nothing is at the rig after a step, or nothing new.  *)
Carries(r) ==
  /\ pc'[r] \in Working => pc[r] \in Working
  /\ r \in conns' => pc[r] \in Working \/ r \in conns
  /\ r \in gone' \/ pc'[r] = "lost" \/ (r \in conns' /\ pc'[r] \in Ended)
       => r \in gone \/ pc[r] = "lost" \/ (r \in conns /\ pc[r] \in Ended)

(* Where a connection may be. *)
LEMMA Owned ==
  ASSUME OInv, NEW r \in Requests
  PROVE  /\ r \in conns => pc[r] \in {"worker", "send", "lost"} \cup Ended
         /\ pc[r] = "errsend" => r \notin conns
         /\ pc[r] = "new" => r \notin conns
BY DEF OInv, ConnectionsOwned, Ended, Refusals

(* A step that is neither an answer nor a goodbye gives the rig nothing.   *)
LEMMA NoNewWork ==
  ASSUME OInv, NEW r \in Requests,
         TakeConnection(r) \/ PoolTimeout(r) \/ Upstream(r)
           \/ ForwardChunk(r) \/ BreakOnChunk(r) \/ Clean(r)
  PROVE  \A q \in Requests : Carries(q)
<1>t. pc \in [Requests -> {"new"} \cup Working \cup Ended]
  BY DEF OInv, IInv, TypeOK
<1>e. /\ \A x \in Ended : x \notin Working
      /\ {"failed", "answered", "cut"} \subseteq Ended
      /\ {"pool", "worker", "send", "errsend", "lost"} \subseteq Working
  BY DEF Ended, Refusals, Working
<1>1. ASSUME NEW q \in Requests \ {r} PROVE Carries(q)
  <2>1. pc'[q] = pc[q] /\ gone' = gone /\ (q \in conns' => q \in conns)
    BY <1>t DEF TakeConnection, PoolTimeout, Finish, SendError, Upstream, WorkerAnswers,
       WorkerFails, StreamEnds, StreamMoves, ForwardChunk, BreakOnChunk, Clean, ChunkSent,
       ErrorSent, CancelStream, AbandonSend, CloseLost, CloseOrphan
  <2> QED BY <2>1 DEF Carries
<1>2. Carries(r)
  <2>1. CASE TakeConnection(r) \/ ForwardChunk(r) \/ ChunkSent(r)
    BY <2>1, <1>t, <1>e DEF TakeConnection, ForwardChunk, ChunkSent, StreamMoves, Carries
  <2>2. CASE PoolTimeout(r) \/ WorkerAnswers(r) \/ WorkerFails(r)
    BY <2>2, <1>t, <1>e DEF PoolTimeout, WorkerAnswers, WorkerFails, Finish, SendError, Carries
  <2>3. CASE StreamEnds(r) \/ CancelStream(r)
    BY <2>3, <1>t, <1>e DEF StreamEnds, CancelStream, StreamMoves, Carries
  <2>4. CASE BreakOnChunk(r) \/ AbandonSend(r) \/ CloseLost(r)
    BY <2>4, <1>t, <1>e DEF BreakOnChunk, AbandonSend, CloseLost, StreamMoves, Carries
  <2>5. CASE ErrorSent(r)
    BY <2>5, <1>t, <1>e, Owned DEF ErrorSent, StreamMoves, Carries
  <2>6. CASE CloseOrphan(r)
    BY <2>6, <1>t, <1>e DEF CloseOrphan, Carries
  <2> QED BY <2>1, <2>2, <2>3, <2>4, <2>5, <2>6 DEF Upstream, Clean
<1> QED BY <1>1, <1>2

(* An answer gives it the request that arrives. *)
LEMMA AnswerIsSent ==
  ASSUME IInv, NEW r \in Requests, Answer(r)
  PROVE  /\ \A q \in Requests \ {r} : pc'[q] = pc[q]
         /\ pc'[r] \in Working => Serving(r) # {}
         /\ pc[r] = "new" /\ pc'[r] # "lost" /\ UNCHANGED <<conns, gone>>
BY DEF Answer, RefuseUnknown, RefuseFull, RefuseUnavailable, AcceptBlocking, AcceptStreaming,
       Accepted, Arrives, IInv, TypeOK, Working

LEMMA CarriedIsSent ==
  ASSUME Sent(line, pc, conns, gone), UNCHANGED line, \A q \in Requests : Carries(q)
  PROVE  Sent(line', pc', conns', gone')
BY DEF Sent, Carries, LetGo

LEMMA RigKeepsSent ==
  ASSUME OInv, Sent(line, pc, conns, gone), UNCHANGED line,
         (\E r \in Requests : Arriving(r) \/ Closed(r) \/ AtWork(r)) \/ RigAlone
  PROVE  Sent(line', pc', conns', gone')
<1>1. CASE \E r \in Requests : Arriving(r)
  <2>1. PICK r \in Requests : Arriving(r)
    BY <1>1
  <2>2. line[r] \in {"serving"} \cup LetGo /\ Answer(r)
    BY <2>1 DEF Arriving, LetGo
  <2>3. /\ \A q \in Requests \ {r} : pc'[q] = pc[q]
        /\ pc'[r] \in Working => Serving(r) # {}
        /\ pc[r] = "new" /\ pc'[r] # "lost" /\ UNCHANGED <<conns, gone>>
    BY <2>2, AnswerIsSent DEF OInv
  <2>4. r \notin conns
    BY <2>3, Owned
  <2> QED BY <2>2, <2>3, <2>4 DEF Sent
<1>2. CASE \E r \in Requests : Closed(r)
  BY <1>2 DEF Closed, Disconnect, Sent, LetGo
<1>3. CASE \E r \in Requests : AtWork(r)
  BY <1>3, NoNewWork, CarriedIsSent DEF AtWork
<1>4. CASE RigAlone
  <2>1. pc \in [Requests -> {"new"} \cup Working \cup Ended] /\ "cut" \notin Working
    BY DEF OInv, IInv, TypeOK, Working
  <2>2. \/ UNCHANGED <<pc, conns, gone>>
        \/ pc' = Severed /\ conns' = {} /\ UNCHANGED gone
    BY <1>4 DEF RigAlone, HealthChanges, Poll, PollStarts, PollAnswered, Process, Drain, Stop,
         Crash, Start, serving, polling
  <2>3. \A q \in Requests : Carries(q)
    BY <2>1, <2>2 DEF Carries, Severed
  <2> QED BY <2>3, <1>4, CarriedIsSent
<1> QED BY <1>1, <1>2, <1>3, <1>4

-----------------------------------------------------------------------------
(* The steps of the gateway. *)

(* One request moves, not to a slot, and is not lost. *)
LEMMA MoveKeepsCounts ==
  ASSUME SInv, NEW r \in Requests, NEW to \in LinePlaces \ {"serving", "dropped"},
         line' = [line EXCEPT ![r] = to],
         UNCHANGED <<restarts, breaks>>
  PROVE  SlotsHold(line') /\ LostBounded(line', restarts', breaks')
<1>1. line \in [Requests -> LinePlaces]
  BY DEF SInv, ServiceTypeOK
<1>2. ASSUME NEW a \in Models
      PROVE  /\ Cardinality(Held(line', a)) <= Slots[a]
             /\ Cardinality(Lost(line', a)) <= Slots[a] * restarts + breaks
  <2>1. Held(line', a) \in SUBSET Held(line, a)
    BY <1>1 DEF Held, At
  <2>2. Lost(line', a) \in SUBSET Lost(line, a)
    BY <1>1 DEF Lost, At
  <2>3. /\ Cardinality(Held(line', a)) <= Cardinality(Held(line, a))
        /\ Cardinality(Held(line', a)) \in Nat /\ Cardinality(Held(line, a)) \in Nat
    BY <2>1, AtFinite, SubsetCount DEF Held
  <2>4. /\ Cardinality(Lost(line', a)) <= Cardinality(Lost(line, a))
        /\ Cardinality(Lost(line', a)) \in Nat /\ Cardinality(Lost(line, a)) \in Nat
    BY <2>2, LostFinite, SubsetCount
  <2>5. Slots[a] \in Nat /\ restarts \in Nat /\ breaks \in Nat
    BY ServiceAssumption DEF SInv, ServiceTypeOK
  <2>6. Cardinality(Held(line, a)) <= Slots[a]
        /\ Cardinality(Lost(line, a)) <= Slots[a] * restarts + breaks
    BY DEF SInv, SlotsHold, LostBounded
  <2>7. Slots[a] * restarts + breaks \in Nat
    BY <2>5
  <2> QED BY <2>3, <2>4, <2>5, <2>6, <2>7
<1> QED BY <1>2 DEF SlotsHold, LostBounded

LEMMA TakeSlotKeeps ==
  ASSUME SInv, NEW r \in Requests, TakeSlot(r)
  PROVE  SlotsHold(line') /\ LostBounded(line', restarts', breaks')
<1>1. line \in [Requests -> LinePlaces] /\ line' = [line EXCEPT ![r] = "serving"]
      /\ UNCHANGED <<restarts, breaks>>
  BY DEF SInv, ServiceTypeOK, TakeSlot, Move
<1>2. ASSUME NEW a \in Models
      PROVE  Cardinality(Held(line', a)) <= Slots[a]
  <2>1. CASE a = Model[r]
    <3>1. Held(line', a) = Held(line, a) \cup {r}
      BY <1>1, <2>1 DEF Held, At
    <3>2. /\ IsFiniteSet(Held(line, a)) /\ Cardinality(Held(line, a)) \in Nat
          /\ Slots[a] \in Nat
      BY AtFinite, ServiceAssumption DEF Held
    <3>3. Cardinality(Held(line, a)) < Slots[a]
      BY <2>1 DEF TakeSlot, SlotFree, LineOf, Held, At
    <3>4. /\ Cardinality(Held(line, a) \cup {r}) \in Nat
          /\ Cardinality(Held(line, a) \cup {r}) <= Cardinality(Held(line, a)) + 1
      BY <3>2, AddOne
    <3> QED BY <3>1, <3>2, <3>3, <3>4
  <2>2. CASE a # Model[r]
    <3>1. Held(line', a) = Held(line, a)
      BY <1>1, <2>2 DEF Held, At
    <3> QED BY <3>1 DEF SInv, SlotsHold
  <2> QED BY <2>1, <2>2
<1>3. \A a \in Models : Lost(line', a) \in SUBSET Lost(line, a)
  BY <1>1 DEF Lost, At
<1>4. ASSUME NEW a \in Models
      PROVE  Cardinality(Lost(line', a)) <= Slots[a] * restarts + breaks
  <2>1. /\ Cardinality(Lost(line', a)) <= Cardinality(Lost(line, a))
        /\ Cardinality(Lost(line', a)) \in Nat /\ Cardinality(Lost(line, a)) \in Nat
    BY <1>3, LostFinite, SubsetCount
  <2>2. Slots[a] * restarts + breaks \in Nat
    BY ServiceAssumption DEF SInv, ServiceTypeOK
  <2>3. Cardinality(Lost(line, a)) <= Slots[a] * restarts + breaks
    BY DEF SInv, LostBounded
  <2> QED BY <2>1, <2>2, <2>3
<1> QED BY <1>1, <1>2, <1>4 DEF SlotsHold, LostBounded

LEMMA LinkBreaksKeeps ==
  ASSUME SInv, NEW r \in Requests, LinkBreaks(r)
  PROVE  SlotsHold(line') /\ LostBounded(line', restarts', breaks')
<1>1. line \in [Requests -> LinePlaces] /\ line' = [line EXCEPT ![r] = "dropped"]
      /\ restarts' = restarts /\ breaks' = breaks + 1
  BY DEF SInv, ServiceTypeOK, LinkBreaks, Move
<1>2. ASSUME NEW a \in Models
      PROVE  /\ Cardinality(Held(line', a)) <= Slots[a]
             /\ Cardinality(Lost(line', a)) <= Slots[a] * restarts + (breaks + 1)
  <2>1. Held(line', a) \in SUBSET Held(line, a)
    BY <1>1 DEF Held, At
  <2>2. Lost(line', a) \in SUBSET (Lost(line, a) \cup {r})
    BY <1>1 DEF Lost, At
  <2>3. /\ Cardinality(Held(line', a)) <= Cardinality(Held(line, a))
        /\ Cardinality(Held(line', a)) \in Nat /\ Cardinality(Held(line, a)) \in Nat
    BY <2>1, AtFinite, SubsetCount DEF Held
  <2>4. /\ IsFiniteSet(Lost(line, a) \cup {r})
        /\ Cardinality(Lost(line, a) \cup {r}) <= Cardinality(Lost(line, a)) + 1
    BY LostFinite, AddOne
  <2>5. /\ Cardinality(Lost(line', a)) <= Cardinality(Lost(line, a) \cup {r})
        /\ Cardinality(Lost(line', a)) \in Nat
        /\ Cardinality(Lost(line, a) \cup {r}) \in Nat
    BY <2>2, <2>4, SubsetCount
  <2>6. Slots[a] \in Nat /\ Slots[a] * restarts \in Nat /\ breaks \in Nat
    BY ServiceAssumption DEF SInv, ServiceTypeOK
  <2>7. Cardinality(Held(line, a)) <= Slots[a]
        /\ Cardinality(Lost(line, a)) <= Slots[a] * restarts + breaks
    BY DEF SInv, SlotsHold, LostBounded
  <2>8. Cardinality(Lost(line, a)) \in Nat
    BY LostFinite
  <2> QED BY <2>3, <2>4, <2>5, <2>6, <2>7, <2>8
<1> QED BY <1>1, <1>2 DEF SlotsHold, LostBounded

LEMMA RestartKeeps ==
  ASSUME SInv, GatewayRestarts
  PROVE  SlotsHold(line') /\ LostBounded(line', restarts', breaks')
<1>1. /\ line \in [Requests -> LinePlaces] /\ restarts' = restarts + 1 /\ breaks' = breaks
      /\ \A r \in Requests :
           /\ line'[r] # "serving"
           /\ line'[r] = "dropped" => line[r] \in {"serving", "dropped"}
  BY DEF SInv, ServiceTypeOK, GatewayRestarts
<1>2. ASSUME NEW a \in Models
      PROVE  /\ Cardinality(Held(line', a)) <= Slots[a]
             /\ Cardinality(Lost(line', a)) <= Slots[a] * (restarts + 1) + breaks
  <2>1. Held(line', a) = {}
    BY <1>1 DEF Held, At
  <2>2. Lost(line', a) \in SUBSET (Lost(line, a) \cup Held(line, a))
    BY <1>1 DEF Lost, Held, At
  <2>3. /\ IsFiniteSet(Lost(line, a)) /\ Cardinality(Lost(line, a)) \in Nat
        /\ IsFiniteSet(Held(line, a)) /\ Cardinality(Held(line, a)) \in Nat
    BY LostFinite, AtFinite DEF Held
  <2>4. /\ IsFiniteSet(Lost(line, a) \cup Held(line, a))
        /\ IsFiniteSet(Lost(line, a) \cap Held(line, a))
        /\ Cardinality(Lost(line, a) \cup Held(line, a))
             = Cardinality(Lost(line, a)) + Cardinality(Held(line, a))
                 - Cardinality(Lost(line, a) \cap Held(line, a))
    BY <2>3, FS_Union, FS_Intersection
  <2>5. Cardinality(Lost(line, a) \cap Held(line, a)) \in Nat
    BY <2>4, FS_CardinalityType
  <2>6. /\ Cardinality(Lost(line', a)) <= Cardinality(Lost(line, a) \cup Held(line, a))
        /\ Cardinality(Lost(line', a)) \in Nat
        /\ Cardinality(Lost(line, a) \cup Held(line, a)) \in Nat
    BY <2>2, <2>4, SubsetCount
  <2>7. Slots[a] \in Nat /\ restarts \in Nat /\ breaks \in Nat
    BY ServiceAssumption DEF SInv, ServiceTypeOK
  <2>8. Slots[a] * restarts \in Nat /\ Slots[a] * (restarts + 1) = Slots[a] * restarts + Slots[a]
    BY <2>7
  <2>9. Cardinality(Held(line, a)) <= Slots[a]
        /\ Cardinality(Lost(line, a)) <= Slots[a] * restarts + breaks
    BY DEF SInv, SlotsHold, LostBounded
  <2>10. Cardinality(Held(line', a)) <= Slots[a]
    BY <2>1, <2>7, FS_EmptySet
  <2>11. Cardinality(Lost(line', a)) <= Slots[a] * (restarts + 1) + breaks
    BY <2>3, <2>4, <2>5, <2>6, <2>7, <2>8, <2>9
  <2> QED BY <2>10, <2>11
<1> QED BY <1>1, <1>2 DEF SlotsHold, LostBounded

LEMMA GatewayKeeps ==
  ASSUME OInv, SInv, NEW r \in Requests,
         Refuse(r) \/ Admit(r) \/ LeaveLine(r) \/ TakeSlot(r) \/ NotReached(r)
           \/ SlotReturned(r) \/ HangUp(r) \/ LinkBreaks(r)
  PROVE  SInv'
<1>t. line \in [Requests -> LinePlaces]
  BY DEF SInv, ServiceTypeOK
<1>p. UNCHANGED <<pc, conns, gone>> /\ Sent(line, pc, conns, gone)
  BY DEF Refuse, Admit, LeaveLine, TakeSlot, NotReached, SlotReturned, HangUp, LinkBreaks, rig,
     vars, SInv
<1>e. \A x \in Ended \cup {"new"} : x \notin Working /\ x # "lost"
  BY DEF Ended, Refusals, Working
<1>1. ServiceTypeOK'
  BY ServiceAssumption DEF SInv, ServiceTypeOK, LinePlaces, Refuse, Admit, LeaveLine, TakeSlot,
     NotReached, SlotReturned, HangUp, LinkBreaks, Move
<1>2. Sent(line', pc', conns', gone')
  <2>1. CASE Refuse(r) \/ Admit(r) \/ LeaveLine(r) \/ TakeSlot(r)
    BY <2>1, <1>t, <1>p DEF Sent, LetGo, Refuse, Admit, LeaveLine, TakeSlot, Move
  <2>2. CASE NotReached(r)
    <3>1. pc[r] = "new" /\ r \notin conns
      BY <2>2, Owned DEF NotReached
    <3> QED BY <2>2, <3>1, <1>t, <1>p, <1>e DEF Sent, LetGo, NotReached, Move
  <2>3. CASE SlotReturned(r)
    BY <2>3, <1>t, <1>p, <1>e DEF Sent, LetGo, SlotReturned, Move
  <2>4. CASE HangUp(r) \/ LinkBreaks(r)
    BY <2>4, <1>t, <1>p DEF Sent, LetGo, HangUp, LinkBreaks, Move
  <2> QED BY <2>1, <2>2, <2>3, <2>4
<1>3. SlotsHold(line') /\ LostBounded(line', restarts', breaks')
  <2>1. CASE \/ Refuse(r) \/ Admit(r) \/ LeaveLine(r) \/ NotReached(r)
             \/ SlotReturned(r) \/ HangUp(r)
    <3>1. PICK to \in {"refused", "queued", "left", "served", "hungup"} :
            line' = [line EXCEPT ![r] = to] /\ UNCHANGED <<restarts, breaks>>
      BY <2>1 DEF Refuse, Admit, LeaveLine, NotReached, SlotReturned, HangUp, Move
    <3>2. to \in LinePlaces \ {"serving", "dropped"}
      BY DEF LinePlaces
    <3> QED BY <3>1, <3>2, MoveKeepsCounts
  <2>2. CASE TakeSlot(r)
    BY <2>2, TakeSlotKeeps
  <2>3. CASE LinkBreaks(r)
    BY <2>3, LinkBreaksKeeps
  <2> QED BY <2>1, <2>2, <2>3
<1>4. (SlotsHold(line))' /\ (LostBounded(line, restarts, breaks))' /\ (Sent(line, pc, conns, gone))'
  BY <1>2, <1>3 DEF SlotsHold, LostBounded, Sent
<1> QED BY <1>1, <1>4 DEF SInv

LEMMA ServiceNextKeeps == OInv /\ SInv /\ [ServiceNext]_service => SInv'
<1> SUFFICES ASSUME OInv, SInv, [ServiceNext]_service PROVE SInv'
  OBVIOUS
<1>1. CASE \E r \in Requests :
             Refuse(r) \/ Admit(r) \/ LeaveLine(r) \/ TakeSlot(r) \/ NotReached(r)
               \/ SlotReturned(r) \/ HangUp(r) \/ LinkBreaks(r)
  BY <1>1, GatewayKeeps
<1>2. CASE GatewayRestarts
  <2>1. ServiceTypeOK'
    BY <1>2, ServiceAssumption DEF SInv, ServiceTypeOK, LinePlaces, GatewayRestarts
  <2>2. SlotsHold(line') /\ LostBounded(line', restarts', breaks')
    BY <1>2, RestartKeeps
  <2>3. Sent(line', pc', conns', gone')
    BY <1>2 DEF SInv, Sent, LetGo, GatewayRestarts, rig, vars
  <2>4. (SlotsHold(line))' /\ (LostBounded(line, restarts, breaks))' /\ (Sent(line, pc, conns, gone))'
    BY <2>2, <2>3 DEF SlotsHold, LostBounded, Sent
  <2> QED BY <2>1, <2>4 DEF SInv
<1>3. CASE (\E r \in Requests : Arriving(r) \/ Closed(r) \/ AtWork(r)) \/ RigAlone
  <2>1. UNCHANGED <<line, restarts, breaks>>
    BY <1>3 DEF Arriving, Closed, AtWork, RigAlone, gateway
  <2>2. Sent(line', pc', conns', gone')
    BY <1>3, <2>1, RigKeepsSent DEF SInv
  <2>3. (SlotsHold(line))' /\ (LostBounded(line, restarts, breaks))' /\ (Sent(line, pc, conns, gone))'
    BY <2>1, <2>2 DEF SInv, SlotsHold, LostBounded, Sent, Held, Lost, At
  <2> QED BY <2>1, <2>3 DEF SInv, ServiceTypeOK
<1>4. CASE UNCHANGED service
  BY <1>4 DEF service, SInv, ServiceTypeOK, SlotsHold, LostBounded, Sent, Held, Lost, At
<1> QED BY <1>1, <1>2, <1>3, <1>4 DEF ServiceNext

LEMMA ServiceInitInvariant == ServiceInit => SInv
<1> SUFFICES ASSUME ServiceInit PROVE SInv
  OBVIOUS
<1>1. /\ line = [r \in Requests |-> "outside"] /\ restarts = 0 /\ breaks = 0
      /\ pc = [r \in Requests |-> "new"] /\ conns = {} /\ gone = {}
  BY DEF ServiceInit, Init
<1>2. ServiceTypeOK
  BY <1>1, ServiceAssumption DEF ServiceTypeOK, LinePlaces
<1>3. \A a \in Models : Held(line, a) = {} /\ Lost(line, a) = {} /\ Slots[a] \in Nat
  BY <1>1, ServiceAssumption DEF Held, Lost, At
<1>4. SlotsHold(line) /\ LostBounded(line, restarts, breaks)
  <2>1. \A x \in Nat : 0 <= x /\ 0 <= x * 0 + 0
    OBVIOUS
  <2> QED BY <1>1, <1>3, <2>1, FS_EmptySet DEF SlotsHold, LostBounded
<1>5. Sent(line, pc, conns, gone)
  BY <1>1 DEF Sent, Working
<1> QED BY <1>2, <1>4, <1>5 DEF SInv

-----------------------------------------------------------------------------
(* What the gateway sends is a behaviour of the orchestrator: whatever     *)
(* Orchestrator promises without fairness, it promises here.               *)
THEOREM ServiceRuns == ServiceSpec => Spec
<1>1. ServiceInit => Init
  BY DEF ServiceInit
<1>2. [ServiceNext]_service => [Next]_vars
  BY RigMoves DEF service, vars
<1> QED BY <1>1, <1>2, PTL DEF ServiceSpec, Spec

(* The inductive invariant. *)
THEOREM ServiceInvariant == ServiceSpec => [](OInv /\ SInv)
<1>1. ServiceSpec => []OInv
  BY ServiceRuns, OrchestratorInvariant, OrchestratorConnections, PTL DEF OInv
<1> QED BY <1>1, ServiceInitInvariant, ServiceNextKeeps, PTL DEF ServiceSpec

(* Type correctness. *)
THEOREM ServiceTyped == ServiceSpec => []ServiceTypeOK
<1>1. SInv => ServiceTypeOK
  BY DEF SInv
<1> QED BY <1>1, ServiceInvariant, PTL

(* What is let through and not returned, or lost, is within the faults. *)
LEMMA LetThroughBounded ==
  ASSUME SInv, NEW a \in Models, NEW X \in SUBSET (Lost(line, a) \cup Held(line, a))
  PROVE  IsFiniteSet(X) /\ Cardinality(X) \in Nat /\ Cardinality(X) <= Faults(a)
<1>1. /\ IsFiniteSet(Lost(line, a)) /\ Cardinality(Lost(line, a)) \in Nat
      /\ IsFiniteSet(Held(line, a)) /\ Cardinality(Held(line, a)) \in Nat
  BY LostFinite, AtFinite DEF Held
<1>2. /\ IsFiniteSet(Lost(line, a) \cup Held(line, a))
      /\ IsFiniteSet(Lost(line, a) \cap Held(line, a))
      /\ Cardinality(Lost(line, a) \cup Held(line, a))
           = Cardinality(Lost(line, a)) + Cardinality(Held(line, a))
               - Cardinality(Lost(line, a) \cap Held(line, a))
  BY <1>1, FS_Union, FS_Intersection
<1>3. Cardinality(Lost(line, a) \cap Held(line, a)) \in Nat
  BY <1>2, FS_CardinalityType
<1>4. /\ Cardinality(X) <= Cardinality(Lost(line, a) \cup Held(line, a))
      /\ Cardinality(X) \in Nat
      /\ Cardinality(Lost(line, a) \cup Held(line, a)) \in Nat
  BY <1>2, SubsetCount
<1>5. Slots[a] \in Nat /\ restarts \in Nat /\ breaks \in Nat
  BY ServiceAssumption DEF SInv, ServiceTypeOK
<1>6. Slots[a] * restarts \in Nat /\ Slots[a] * (restarts + 1) = Slots[a] * restarts + Slots[a]
  BY <1>5
<1>7. Cardinality(Held(line, a)) <= Slots[a]
      /\ Cardinality(Lost(line, a)) <= Slots[a] * restarts + breaks
  BY DEF SInv, SlotsHold, LostBounded
<1>8. Cardinality(X) <= Slots[a] * (restarts + 1) + breaks
  BY <1>1, <1>2, <1>3, <1>4, <1>5, <1>6, <1>7
<1> QED BY <1>2, <1>4, <1>8, FS_Subset DEF Faults

LEMMA FaultsCounted ==
  ASSUME SInv, NEW a \in Models
  PROVE  Faults(a) \in Nat
<1>1. Slots[a] \in Nat /\ restarts \in Nat /\ breaks \in Nat
  BY ServiceAssumption DEF SInv, ServiceTypeOK
<1>2. Slots[a] * (restarts + 1) \in Nat
  BY <1>1
<1> QED BY <1>1, <1>2 DEF Faults

LEMMA WorkIsLetThrough ==
  ASSUME OInv, SInv, run # "down", NEW w \in Workers, Groups[w] \in Models
  PROVE  /\ active[w] = Cardinality(Running(pc, w))
         /\ Running(pc, w) \in SUBSET (Lost(line, Groups[w]) \cup Held(line, Groups[w]))
<1> DEFINE a == Groups[w]
<1>1. active[w] = Cardinality(Running(pc, w))
  BY DEF OInv, IInv, Counted
<1>2. Running(pc, w) \in SUBSET (Lost(line, a) \cup Held(line, a))
  <2> SUFFICES ASSUME NEW r \in Running(pc, w) PROVE r \in Lost(line, a) \cup Held(line, a)
    OBVIOUS
  <2>1. r \in Blocking /\ r \in Requests /\ pc[r] \in Working /\ Target(r) = w
    BY DEF Running, Blocking
  <2>2. Serving(r) # {} /\ line[r] \in {"serving", "dropped"}
    BY <2>1 DEF SInv, Sent, LetGo, Blocking
  <2>3. Model[r] = a
    BY <2>1, <2>2, TargetTyped
  <2> QED BY <2>1, <2>2, <2>3 DEF Lost, Held, At
<1> QED BY <1>1, <1>2

(* The rig never has more to do for a model, streams included, or on its   *)
(* way, than the slots of its lane, those of each restart, and one for     *)
(* each broken connection; what a student hung up on is left aside.        *)
THEOREM ServiceRigBounded == ServiceSpec => []RigBounded
<1>1. SInv => RigBounded
  <2> SUFFICES ASSUME SInv, NEW a \in Models
               PROVE  Cardinality((AtRig(a) \cup OnTheWay(a)) \ HungUp) <= Faults(a)
    BY DEF RigBounded
  <2>1. (AtRig(a) \cup OnTheWay(a)) \ HungUp \in SUBSET (Lost(line, a) \cup Held(line, a))
    BY DEF AtRig, OnTheWay, HungUp, Lost, Held, At, SInv, Sent, LetGo
  <2> QED BY <2>1, LetThroughBounded
<1> QED BY <1>1, ServiceInvariant, PTL

(* A 429 for a student who is there takes more faults than the rig has     *)
(* capacity: the refused request was let through too.                      *)
THEOREM ServiceRefusals == ServiceSpec => RefusedAfterFaults
<1>1. OInv /\ SInv /\ [ServiceNext]_service => [RefusedAfterFaultsStep]_service
  <2> SUFFICES ASSUME OInv, SInv, ServiceNext, NEW r \in Requests,
                      pc[r] = "new", pc'[r] = "full", line[r] = "serving"
               PROVE  Faults(Model[r]) > QueueCapacity
    BY DEF RefusedAfterFaultsStep
  <2> DEFINE w == Target(r)
             X == Running(pc, w)
  <2>1. RefuseFull(r)
    <3>1. Next
      BY RigMoves DEF vars
    <3> QED BY <3>1, FullIsRefused DEF OInv
  <2>2. w \in Workers /\ Groups[w] = Model[r] /\ Model[r] \in Models
    BY <2>1, TargetTyped DEF RefuseFull, Models
  <2>3. active[w] \in Nat /\ run # "down" /\ active[w] >= QueueCapacity
    BY <2>1, <2>2, OrchestratorAssumption DEF OInv, IInv, TypeOK, RefuseFull, Arrives, HasRoom
  <2>4. active[w] = Cardinality(X) /\ X \in SUBSET (Lost(line, Model[r]) \cup Held(line, Model[r]))
    BY <2>2, <2>3, WorkIsLetThrough
  <2>5. r \notin X
    BY DEF Running, Working
  <2>6. r \in Held(line, Model[r])
    BY DEF Held, At
  <2>7. X \cup {r} \in SUBSET (Lost(line, Model[r]) \cup Held(line, Model[r]))
    BY <2>4, <2>6
  <2>8. IsFiniteSet(X)
    BY <2>2, <2>4, LetThroughBounded
  <2>9. Cardinality(X \cup {r}) = Cardinality(X) + 1
    BY <2>5, <2>8, FS_AddElement
  <2>10. Cardinality(X \cup {r}) \in Nat /\ Cardinality(X \cup {r}) <= Faults(Model[r])
    BY <2>2, <2>7, LetThroughBounded
  <2>11. Faults(Model[r]) \in Nat /\ QueueCapacity \in Nat
    BY <2>2, FaultsCounted, OrchestratorAssumption
  <2> HIDE DEF X, w
  <2> QED BY <2>3, <2>4, <2>9, <2>10, <2>11
<1> QED BY <1>1, ServiceInvariant, PTL DEF ServiceSpec, RefusedAfterFaults
=============================================================================
