---------------------------- MODULE BoundedLine ----------------------------
(***************************************************************************)
(* What an admission lane promises, whatever its implementation: a request *)
(* is refused when, and only when, the system holds all it can; at most    *)
(* Slots requests are served at a time; a queued request is served or      *)
(* leaves.                                                                 *)
(***************************************************************************)
EXTENDS Integers, FiniteSets

CONSTANTS
  Clients,  \* the requests
  Slots,    \* how many are served at a time
  Places    \* how many more may wait

VARIABLE state  \* what became of each request

States == {"outside", "refused", "queued", "serving", "left", "served"}

In(s) == {r \in Clients : state[r] = s}

Full == Cardinality(In("queued")) + Cardinality(In("serving")) >= Slots + Places

Init == state = [r \in Clients |-> "outside"]

Move(r, from, to) ==
  /\ state[r] = from
  /\ state' = [state EXCEPT ![r] = to]

Refuse(r) == Full /\ Move(r, "outside", "refused")
Enter(r)  == ~Full /\ Move(r, "outside", "queued")
Start(r)  == Cardinality(In("serving")) < Slots /\ Move(r, "queued", "serving")
Leave(r)  == Move(r, "queued", "left")
Finish(r) == Move(r, "serving", "served")

Next ==
  \E r \in Clients : Refuse(r) \/ Enter(r) \/ Start(r) \/ Leave(r) \/ Finish(r)

Spec == Init /\ [][Next]_state

(* A request that is served finishes, and one in the line is not passed    *)
(* over for ever.                                                          *)
Fairness ==
  \A r \in Clients :
    /\ WF_state(Finish(r))
    /\ SF_state(Start(r) \/ Leave(r))

FairSpec == Spec /\ Fairness
=============================================================================
