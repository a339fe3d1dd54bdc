-------------------------------- MODULE Demo --------------------------------
(***************************************************************************)
(* scripts/demo.py: the walk through the public API, stage after stage,    *)
(* against a wait line that keeps the promise of BoundedLine and that      *)
(* other students use too.                                                 *)
(***************************************************************************)
EXTENDS Integers, FiniteSets, Sequences

CONSTANTS
  Tabs,      \* the streams of the last stage, one more than the line holds
  Fast,      \* the completion of stage_fast
  Others,    \* requests of other students for the same model
  Slots,     \* completions of the model at a time
  Places,    \* requests that may wait
  NoResult   \* the client has no answer yet

Own == Tabs \cup {Fast}
Requests == Own \cup Others

VARIABLES
  asked,     \* the stages of this run
  todo,      \* those that are left; the first one runs
  step,      \* the call of the stage that is next
  passed,    \* how many stages passed
  failed,    \* how many failed
  last,      \* the verdict of stage_queue: "none", "passed" or "failed"
  exit,      \* the exit status; -1 while the demo runs
  state,     \* the line: what became of each request
  result,    \* what its client got: a status, or Exception
  spoilt,    \* the streams that ended with an error event
  answered,  \* history: how many calls got what their stage wants
  disturbed  \* history: something kept the last stage from being alone

vars == <<asked, todo, step, passed, failed, last, exit, state, result, spoilt, answered, disturbed>>
driver == <<todo, step, passed, failed, last, answered>>
service == <<state, result, spoilt>>

(* What urllib raises, as a status. *)
Exception == -1

Line == INSTANCE BoundedLine WITH Clients <- Requests

Stage == IF todo = <<>> THEN "none" ELSE todo[1]

(* The calls of a stage: the status it wants, and those it may get while   *)
(* the site is up; 1 stands for a list of models that lacks one.           *)
Wants(want, may) == [want |-> want, may |-> may \cup {want}]
Calls ==
  [health  |-> [n \in 1..2 |-> Wants(200, {})],
   auth    |-> [n \in 1..7 |-> Wants(401, {})],
   models  |-> <<Wants(200, {1}), Wants(404, {})>>,
   fast    |-> <<Wants(200, {429})>>,
   quality |-> <<Wants(200, {429})>>,
   queue   |-> <<Wants(200, {429})>>]

(* main, up to the first stage: without a key there is none. *)
Init ==
  /\ \E quality, skip \in BOOLEAN :
       asked = <<"health", "auth", "models", "fast">>
                 \o (IF quality THEN <<"quality">> ELSE <<>>)
                 \o (IF skip THEN <<>> ELSE <<"queue">>)
  /\ \E key \in BOOLEAN : todo = (IF key THEN asked ELSE <<>>) /\ exit = (IF key THEN -1 ELSE 2)
  /\ step = 1 /\ passed = 0 /\ failed = 0 /\ last = "none"
  /\ state = [r \in Requests |-> "outside"]
  /\ result = [r \in Own |-> NoResult]
  /\ spoilt = {} /\ answered = 0 /\ disturbed = FALSE

Note(ok) ==
  /\ passed' = passed + (IF ok THEN 1 ELSE 0)
  /\ failed' = failed + (IF ok THEN 0 ELSE 1)
  /\ last' = IF Stage # "queue" THEN last ELSE IF ok THEN "passed" ELSE "failed"

(* run: whatever a stage raises is noted, and the next stage begins. *)
StageOver(ok) ==
  /\ Note(ok)
  /\ todo' = Tail(todo)
  /\ step' = 1

(* Fault: only the last call of a stage counts. *)
JudgeLast(got) ==
  /\ answered' = IF got = Calls[Stage][step].want THEN answered + 1 ELSE answered
  /\ IF step = Len(Calls[Stage]) THEN StageOver(got = Calls[Stage][step].want)
     ELSE step' = step + 1 /\ UNCHANGED <<passed, failed, last, todo>>

(* expect: another status, or an exception, ends the stage. *)
Judge(got) ==
  IF got # Calls[Stage][step].want
  THEN StageOver(FALSE) /\ UNCHANGED answered
  ELSE /\ answered' = answered + 1
       /\ IF step = Len(Calls[Stage]) THEN StageOver(TRUE)
          ELSE step' = step + 1 /\ UNCHANGED <<passed, failed, last, todo>>

(* A call that does not go through the line; nginx may answer with 502,    *)
(* and there may be no answer at all.                                      *)
Call ==
  /\ Stage \in {"health", "auth", "models", "quality"}
  /\ \E got \in Calls[Stage][step].may \cup {502} : Judge(got)
     \/ Judge(Exception)
  /\ UNCHANGED <<service, exit>>

(* A request for the model comes to the line, or gets no further. *)
Arrive(r) ==
  \/ Line!Enter(r) /\ UNCHANGED result
  \/ Line!Refuse(r) /\ result' = [result EXCEPT ![r] = 429]
  \/ /\ state[r] = "outside" /\ UNCHANGED state
     /\ \E none \in {502, Exception} : result' = [result EXCEPT ![r] = none]

FastCall ==
  /\ Stage = "fast" /\ result[Fast] = NoResult /\ state[Fast] = "outside"
  /\ Arrive(Fast)
  /\ UNCHANGED <<driver, spoilt, exit>>

(* An answer whose text is null makes assistant_text raise. *)
FastDone ==
  /\ Stage = "fast" /\ result[Fast] # NoResult
  /\ Judge(result[Fast]) \/ Judge(Exception)
  /\ UNCHANGED <<service, exit>>

(* stage_queue: a thread for each stream. *)
TabCall(t) ==
  /\ Stage = "queue" /\ result[t] = NoResult
  /\ Arrive(t)
  /\ UNCHANGED <<driver, spoilt, exit>>

OtherCall(o) ==
  /\ Line!Enter(o) \/ Line!Refuse(o)
  /\ UNCHANGED <<driver, result, spoilt, exit>>

Start(r) == Line!Start(r) /\ UNCHANGED <<driver, result, spoilt, exit>>

(* The answer ends.  A stream that fails has its status 200 already.       *)
Served(r) ==
  /\ Line!Finish(r)
  /\ \E good \in BOOLEAN :
       /\ result' = IF r \in Others \/ result[r] # NoResult THEN result
                    ELSE [result EXCEPT ![r] = IF good \/ r \in Tabs THEN 200 ELSE 502]
       /\ spoilt' = IF good \/ r \notin Tabs THEN spoilt ELSE spoilt \cup {r}
  /\ UNCHANGED <<driver, exit>>

(* A timeout or a broken connection: the client gives up, its place in the *)
(* line is given up later, or not before it was served.                    *)
GiveUp(r) ==
  /\ state[r] \in {"queued", "serving"} /\ result[r] = NoResult
  /\ result' = [result EXCEPT ![r] = Exception]
  /\ UNCHANGED <<driver, state, spoilt, exit>>

Leave(r) ==
  /\ r \in Others \cup {c \in Own : result[c] = Exception}
  /\ Line!Leave(r)
  /\ UNCHANGED <<driver, result, spoilt, exit>>

Got(status) == {t \in Tabs : result[t] = status}

(* Fault: as many as can be served and wait must be waiting. *)
QueueVerdictOff ==
  /\ Stage = "queue" /\ \A t \in Tabs : result[t] # NoResult
  /\ StageOver(Cardinality(Got(200)) = Slots + Places + 1 /\ Got(429) = {})
  /\ UNCHANGED <<service, answered, exit>>

(* All the threads have ended; the exception of one makes the stage fail.  *)
QueueVerdict ==
  /\ Stage = "queue" /\ \A t \in Tabs : result[t] # NoResult
  /\ StageOver(Cardinality(Got(200)) = Slots + Places /\ Cardinality(Got(429)) = 1)
  /\ answered' = IF last' = "passed" THEN answered + 1 ELSE answered
  /\ UNCHANGED <<service, exit>>

Finish ==
  /\ exit = -1 /\ todo = <<>>
  /\ exit' = IF failed > 0 THEN 1 ELSE 0
  /\ UNCHANGED <<driver, service>>

(* Someone else was in the line, a client failed, or a stream ended before *)
(* the last of them had come.                                              *)
Disturbing ==
  /\ Stage = "queue"
  /\ \/ \E r \in Requests \ Tabs : state[r] \in {"queued", "serving"}
     \/ Got(Exception) \cup Got(502) # {}
     \/ \E t, u \in Tabs : state[t] = "served" /\ state[u] = "outside"

Step ==
  \/ Call \/ FastCall \/ FastDone \/ QueueVerdict \/ Finish
  \/ \E t \in Tabs : TabCall(t)
  \/ \E o \in Others : OtherCall(o)
  \/ \E r \in Requests : Start(r) \/ Served(r) \/ Leave(r)
  \/ \E r \in Own : GiveUp(r)

Next ==
  /\ exit = -1
  /\ Step
  /\ disturbed' = (disturbed \/ Disturbing')
  /\ UNCHANGED asked

Spec == Init /\ [][Next]_vars

-----------------------------------------------------------------------------
(* The calls of the first n stages. *)
CallsOf[n \in 0..Len(asked)] == IF n = 0 THEN 0 ELSE CallsOf[n - 1] + Len(Calls[asked[n]])

(* The demo ends with 0 only when every call of every stage it was asked   *)
(* for got what it should, and with 1 only when one did not; a stage that  *)
(* fails keeps no later stage from running (main, run).                    *)
ExitIsHonest ==
  exit \in {0, 1} =>
    /\ exit = 0 <=> answered = CallsOf[Len(asked)]
    /\ passed + failed = Len(asked)

(* With the line to itself, no failure and no stream that ends before the  *)
(* last one came, the last stage passes: then it refutes nothing that      *)
(* BoundedLine promises (stage_queue).                                     *)
QuietQueuePasses == last = "failed" => disturbed

(* "2 running + 4 waiting = 6. The 7th must 429."                          *)
SeventhIsRefused ==
  last # "none" /\ Got(Exception) \cup Got(502) = {} => Cardinality(Got(429)) = 1

(* "served": a stream the demo counts as served brought its answer.        *)
PassMeansServed == last = "passed" => spoilt = {}
=============================================================================
