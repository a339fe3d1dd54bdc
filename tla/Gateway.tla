------------------------------ MODULE Gateway ------------------------------
(***************************************************************************)
(* The gateway seen as a whole (gateway/main.py): keys, the table of lanes *)
(* built from the settings, the model list merged from two rigs, and the   *)
(* one HTTP client that completions of every lane and the model lists      *)
(* share (gateway/proxy.py).                                               *)
(*                                                                         *)
(* A lane is what BoundedLine says; AdmissionLane has its inside.          *)
(***************************************************************************)
EXTENDS Integers, FiniteSets, Sequences, FiniteSetsExt

CONSTANTS
  Completions,     \* the requests to /v1/chat/completions
  Lists,           \* the requests to GET /v1/models
  Streaming,       \* the completions whose body says "stream": true
  Model,           \* the model each completion names
  Key,             \* the Bearer token of each request; NoKey without one
  NoKey,
  PublicKeys,      \* PUBLIC_API_KEYS
  Groups,          \* the settings of groups A, B and Rig 2, in this order
  Unset,           \* the empty alias, and the model of a request that names none
  MaxWaiters,      \* MAX_WAITERS_PER_WORKER
  MaxConnections,  \* max_connections of the shared client
  Silent           \* models whose worker may never answer

Requests == Completions \cup Lists

ASSUME GatewayAssumption ==
  /\ IsFiniteSet(Completions) /\ IsFiniteSet(Lists)
  /\ Completions \cap Lists = {}
  /\ Streaming \subseteq Completions
  /\ Groups \in Seq(Range(Groups))
  /\ \A i \in 1..Len(Groups) : Groups[i].inflight \in Nat
  /\ MaxWaiters \in Nat
  /\ MaxConnections \in Nat \ {0}

VARIABLES
  pc,    \* where the handler of each request is
  conns  \* requests that hold a connection of the shared client

vars == <<pc, conns>>

(* _lanes: one lane for each alias, an unset one has none, a later group   *)
(* takes the place of an earlier one of the same alias.                    *)
Aliases == {Groups[i].alias : i \in 1..Len(Groups)} \ {Unset}

(* Fault: the first group of an alias is kept. *)
SettingFirst(a) == Groups[Min({i \in 1..Len(Groups) : Groups[i].alias = a})]

Setting(a) == Groups[Max({i \in 1..Len(Groups) : Groups[i].alias = a})]
Limit(a) == Setting(a).inflight
Capacity(a) == Limit(a) + MaxWaiters
HasRig2 == Groups[Len(Groups)].alias # Unset

(* verify_api_key *)
Authorized(r) == Key[r] # NoKey /\ (PublicKeys = {} \/ Key[r] \in PublicKeys)

(* "pool..." waits for a connection, the rest of these for its answer. *)
Serving == {"pool", "upstream"}
Listing == {"pool1", "rig1", "pool2", "rig2"}
Ended == {"unauthorized", "unknown", "full", "left", "served", "failed"}
ListEnded == {"unauthorized", "both", "rig1only", "error"}

TypeOK ==
  /\ pc \in [Requests -> {"new", "queued"} \cup Serving \cup Listing
                           \cup Ended \cup ListEnded]
  /\ \A r \in Completions : pc[r] \in {"new", "queued"} \cup Serving \cup Ended
  /\ \A r \in Lists : pc[r] \in {"new"} \cup Listing \cup ListEnded
  /\ conns \subseteq Requests

Init ==
  /\ pc = [r \in Requests |-> "new"]
  /\ conns = {}

For(a) == {r \in Completions : Authorized(r) /\ Model[r] = a}
In(a, places) == {r \in For(a) : pc[r] \in places}
Occupancy(a) == Cardinality(In(a, {"queued"} \cup Serving))

Move(r, from, to) ==
  /\ pc[r] = from
  /\ pc' = [pc EXCEPT ![r] = to]

-----------------------------------------------------------------------------
(* chat_completions *)

(* 401 *)
RefuseKey(r) ==
  /\ ~Authorized(r)
  /\ Move(r, "new", "unauthorized")
  /\ UNCHANGED conns

(* 404 *)
RefuseUnknown(r) ==
  /\ r \in Completions /\ Authorized(r)
  /\ Model[r] \notin Aliases
  /\ Move(r, "new", "unknown")
  /\ UNCHANGED conns

(* Fault: the line of every model counts for each. *)
FullForAll(a) ==
  Cardinality({r \in Completions : pc[r] \in {"queued"} \cup Serving}) >= Capacity(a)

Full(a) == Occupancy(a) >= Capacity(a)

(* 429 *)
RefuseFull(r) ==
  /\ r \in Completions /\ Authorized(r)
  /\ Model[r] \in Aliases /\ Full(Model[r])
  /\ Move(r, "new", "full")
  /\ UNCHANGED conns

Enter(r) ==
  /\ r \in Completions /\ Authorized(r)
  /\ Model[r] \in Aliases /\ ~Full(Model[r])
  /\ Move(r, "new", "queued")
  /\ UNCHANGED conns

(* The client is gone while it waits. *)
Leave(r) ==
  /\ Move(r, "queued", "left")
  /\ UNCHANGED conns

(* Fault: the lanes share their slots. *)
SlotFreeForAll(a) == Cardinality({r \in Completions : pc[r] \in Serving}) < Limit(a)

SlotFree(a) == Cardinality(In(a, Serving)) < Limit(a)

(* The slot is taken; the proxy asks the client for a connection. *)
Start(r) ==
  /\ r \in Completions /\ Move(r, "queued", "pool")
  /\ SlotFree(Model[r])
  /\ UNCHANGED conns

-----------------------------------------------------------------------------
(* The shared client. *)

Connect(r) ==
  /\ Cardinality(conns) < MaxConnections
  /\ conns' = conns \cup {r}
  /\ \/ Move(r, "pool", "upstream")
     \/ Move(r, "pool1", "rig1")
     \/ Move(r, "pool2", "rig2")

(* No connection came free in time: a 502 or an error event, and for the   *)
(* second list an empty one.                                               *)
PoolTimeout(r) ==
  /\ Cardinality(conns) >= MaxConnections
  /\ UNCHANGED conns
  /\ \/ Move(r, "pool", "failed")
     \/ Move(r, "pool1", "error")
     \/ Move(r, "pool2", "rig1only")

Disconnected(r) == conns' = conns \ {r}

(* Fault: a failed completion keeps its connection. *)
UpstreamEndsOpen(r) ==
  \/ Move(r, "upstream", "served") /\ Disconnected(r)
  \/ Move(r, "upstream", "failed") /\ UNCHANGED conns

(* The rig answered, whatever the status, or the exchange failed. *)
UpstreamEnds(r) ==
  /\ Disconnected(r)
  /\ Move(r, "upstream", "served") \/ Move(r, "upstream", "failed")

(* A stream ends while the proxy's generator keeps its connection: break   *)
(* for a client that is gone, or an abandoned generator that is closed.    *)
Abandon(r) ==
  /\ r \in Streaming
  /\ Move(r, "upstream", "served")
  /\ UNCHANGED conns

CloseOrphan(r) ==
  /\ pc[r] = "served" /\ r \in conns
  /\ Disconnected(r)
  /\ UNCHANGED pc

-----------------------------------------------------------------------------
(* list_models *)

AskList(r) ==
  /\ r \in Lists /\ Authorized(r)
  /\ Move(r, "new", "pool1")
  /\ UNCHANGED conns

(* Rig 1 answers 200 with an object and Rig 2 is asked if there is one;    *)
(* what is no JSON object is passed on; an exception is a 502, an object   *)
(* whose data is no list a 500, another status is passed on.               *)
Rig1Ends(r) ==
  /\ Disconnected(r)
  /\ \/ HasRig2 /\ Move(r, "rig1", "pool2")
     \/ Move(r, "rig1", "rig1only")
     \/ Move(r, "rig1", "error")

(* _rig2_models gives an empty list for an exception, another status or no *)
(* object.  It returns the data of an object unseen, and the extend of     *)
(* list_models, outside any try, raises on null or a number: a 500.        *)
Rig2Ends(r) ==
  /\ Disconnected(r)
  /\ \/ Move(r, "rig2", "both")
     \/ Move(r, "rig2", "rig1only")
     \/ Move(r, "rig2", "error")

-----------------------------------------------------------------------------
Next ==
  \E r \in Requests :
    \/ RefuseKey(r) \/ RefuseUnknown(r) \/ RefuseFull(r) \/ Enter(r)
    \/ Leave(r) \/ Start(r) \/ Connect(r) \/ PoolTimeout(r)
    \/ UpstreamEnds(r) \/ Abandon(r) \/ CloseOrphan(r)
    \/ AskList(r) \/ Rig1Ends(r) \/ Rig2Ends(r)

Spec == Init /\ [][Next]_vars

(* The lanes pass nobody over; waits for a connection are timed; a rig     *)
(* lists its models itself, and a read that takes too long fails; a worker *)
(* that is not silent ends its generations.                                *)
FairSpec ==
  /\ Spec
  /\ \A r \in UNION {For(a) : a \in Aliases} :
       /\ SF_vars(Start(r))
       /\ WF_vars(Connect(r) \/ PoolTimeout(r))
       /\ WF_vars(CloseOrphan(r))
       /\ Model[r] \notin Silent => WF_vars(UpstreamEnds(r))
  /\ \A r \in Lists :
       WF_vars(Connect(r) \/ PoolTimeout(r)) /\ WF_vars(Rig1Ends(r) \/ Rig2Ends(r))

-----------------------------------------------------------------------------
(* Each model has a bounded line of its own: whatever is in the other      *)
(* lines, a request is refused when and only when its own is full, and one *)
(* that has a wrong key or names no model takes no place (main.py          *)
(* chat_completions, lanes.py _lanes).                                     *)
Outcome(p) ==
  CASE p \in {"new", "unauthorized", "unknown"} -> "outside"
    [] p = "full" -> "refused"
    [] p = "queued" -> "queued"
    [] p \in Serving -> "serving"
    [] p = "left" -> "left"
    [] p \in {"served", "failed"} -> "served"

LineOf(a) == [r \in For(a) |-> Outcome(pc[r])]

Lane(a) == INSTANCE BoundedLine
  WITH Clients <- For(a), Slots <- Limit(a), Places <- MaxWaiters, state <- LineOf(a)

ImplementsLines ==
  /\ \A a \in Aliases : Lane(a)!Init
  /\ [][\A a \in Aliases : [Lane(a)!Next]_(LineOf(a))]_vars

(* The rig of a model is protected by the settings of that model alone: it *)
(* has at most the limit of the group that serves the alias last in the    *)
(* table (lanes.py _lanes, main.py chat_completions).                      *)
LanesBounded ==
  \A i \in 1..Len(Groups) :
    LET a == Groups[i].alias IN
      a # Unset /\ (\A j \in i+1..Len(Groups) : Groups[j].alias # a)
        => /\ Cardinality(In(a, Serving)) <= Groups[i].inflight
           /\ Occupancy(a) <= Groups[i].inflight + MaxWaiters

(* The client never has more than its connections, and each belongs to an  *)
(* exchange that runs or to a generator that waits to be closed            *)
(* (proxy.py, main.py event_generator).                                    *)
ConnectionsOwned ==
  /\ Cardinality(conns) <= MaxConnections
  /\ \A r \in conns :
       \/ pc[r] \in {"upstream", "rig1", "rig2"}
       \/ r \in Streaming /\ pc[r] = "served"

(* The slots of all lanes. *)
AllSlots == UNION {{a} \X (1..Limit(a)) : a \in Aliases}
Others == {r \in conns : r \in Lists \/ pc[r] = "served"}

(* A completion that holds a slot fails for want of a connection only if   *)
(* model lists and abandoned streams have taken those that the limits of   *)
(* the lanes leave (proxy.py get_client, config.py).                       *)
StarvedByOthers ==
  [][\A r \in Completions :
       pc[r] = "pool" /\ pc'[r] = "failed" =>
         Cardinality(Others) + Cardinality(AllSlots) > MaxConnections]_vars

(* A model whose worker is silent, with its line full and its clients      *)
(* patient, stops nobody else: the requests for other models settle, and   *)
(* so do the model lists (main.py, lanes.py, proxy.py).                    *)
OthersGoOn ==
  /\ \A r \in Completions :
       Model[r] \notin Silent => (pc[r] = "queued" ~> pc[r] \in Ended)
  /\ \A r \in Lists : pc[r] = "pool1" ~> pc[r] \in ListEnded

-----------------------------------------------------------------------------
(* A statement of the documentation that does not hold: "Rig 2's model     *)
(* entries, or [] if Rig 2 is off or not answering" (main.py _rig2_models) *)
(* reads as if nothing Rig 2 does could cost the list of Rig 1.            *)
Rig2OnlyAdds ==
  [][\A r \in Lists :
       pc[r] \in {"pool2", "rig2"} /\ pc'[r] # pc[r]
         => pc'[r] \in {"rig2", "both", "rig1only"}]_vars
=============================================================================
