# OCS Intelligence: TLA+ models, checks and proofs

OCS Intelligence gives students an OpenAI-style chat API in front of GPU rigs. A request passes
through nginx to the **gateway** on EC2, waits in the admission **lane** of its model, goes over
NetBird to the **orchestrator** of a rig, and from there to the `llama-server` **worker** that has
the model loaded. Around this stand the scripts that set up the machines, check the documents,
demonstrate the service and measure it. The sources are in `src/` (paths below are relative to it).
This directory holds formal models of them, the TLC configurations that check the models on small
instances, and TLAPS proofs for instances of any size.

Contents: [inventory](#1-inventory), [plan](#2-plan), [AdmissionLane](#3-admissionlane),
[Orchestrator](#4-orchestrator), [Gateway](#5-gateway), [Service](#6-service),
[the scripts](#7-the-scripts), [runs and bounds](#8-runs-and-bounds), [fairness](#9-fairness),
[proofs](#10-proofs), [disagreements](#11-where-the-code-and-its-documents-disagree),
[limits](#12-what-is-not-modelled).

## 1. Inventory

### Gateway (`gateway/`)

| Part | State | Operations | Correct when |
|---|---|---|---|
| Admission lane, `lanes.py` | `_waiting`, `_in_flight`, a semaphore, per lane | `enter_line`, `wait_blocking`, `wait_streaming`, `release` | no slot is lost or made; the counters that decide on a 429 are exact on every exit; waiters keep their order; nobody waits beside a free slot |
| Handlers, `main.py` | one suspended task or generator per request | `_handle_blocking`, `_handle_streaming` | each admitted request ends and gives back what it took, also when its client leaves at any suspension |
| Routing and model list, `main.py`, `config.py` | the fixed table of lanes | `chat_completions`, `list_models`, `_rig2_models` | 401 before 404 before 429, and no trace of a refused request; a lane is full by its own requests only; a list that cannot be had ends in an error and holds no connection |
| Client, `proxy.py` | one shared `httpx` client with 40 connections | `proxy_streaming`, `proxy_blocking`, `proxy_get` | connections belong to a running exchange; those who hold a slot get one, unless lists and abandoned streams took it |
| Keys, `auth.py` | none | `verify_api_key` | decides before anything else, with and without configured keys |

Hard here: a task is cancelled, or a generator abandoned, at any `await` or `yield`, while the
semaphore is handing it a slot. A stream's clean-up may run in a different task, much later.

### Orchestrator (`orchestrator/`)

| Part | State | Operations | Correct when |
|---|---|---|---|
| Worker table and poller, `health.py` | state and in-flight count of each worker; position of the poll loop | `register`, `start`, `_poll_loop`, `_check_worker`, `stop` | a lasting change of a worker is noticed, whatever the other does |
| Routing, `routing.py` | reads the table | `resolve_worker` | 404, 429 and 503 are given for their own reasons only |
| Handlers, `main.py` | one task or generator per request | `chat_completions` and its two branches | the in-flight count is what is in flight |
| Client, `proxy.py` | a pool of 20 connections shared by all workers | `proxy_streaming`, `proxy_blocking` | the pool leaks nothing and nobody waits for it for ever |

Hard here: check and count are separate statements around a lock; a response object is returned
long before its body runs; two workers share one pool; the process crashes and forgets.

### Around them

| Part | State | Correct when | Hard part |
|---|---|---|---|
| `infra/netbird/apply.py` | the remote account; what a run read of it | after a run everything in `acl.json` is there, once, and grants what it says | a call fails, or its answer is lost; runs and edits overlap |
| `infra/rig2/setup.sh` | files, a service, a shared key | a run that ends leaves one consistent installation; the key survives | interruption anywhere, then another run |
| `infra/macmini/build_iso.py` | files staged in one directory, the image | what is there as an image boots | leftovers of an interrupted run for another ISO |
| `scripts/check_docs.py` | the errors found, the documents reached | the orphans are exactly the unreachable documents; status 0 means what it says | cycles in the link graph, files that are skipped |
| `scripts/build_playbook.py` | PDFs beside the playbooks | all or none is rendered, and what is rendered is current | a file is read three times while it is edited |
| `scripts/demo.py` | the stages, seven streams | the exit status is honest; the last stage passes on an undisturbed gateway | seven threads, other students, streams that end early |
| `benchmark/workloads.py` | a bisection | the prompt never has too many tokens | a token count that is not monotone in the characters |
| `benchmark/pareto.py` | two loops | the frontier is what nothing dominates | ties and equal points |
| `benchmark/metrics.py`, `runner.py` | the samples of a workload | each repeat is counted once; medians and percentiles are those of what really happened | waits, refusals, broken streams, and errors that come under status 200 |
| `scripts/visuals/`, `request.sh`, `tests/`, `docs/` | none | | nothing to relate |
| systemd units, nginx | one process each | | appear as crashes and as fairness |

### Interactions

Students reach the gateway through nginx; the gateway holds one HTTP connection to an orchestrator
per request in flight; the orchestrator holds one to a worker. Each side sees the other's departure
only as a closed connection, and only when its code looks. There is no shared storage: a restart of
either process empties its line and its counts while the other goes on. The scripts of `infra/`
meet only themselves: what one run leaves, the next one finds. `check_docs.py` and
`build_playbook.py` read the same headers with two different readers.

## 2. Plan

The order of work, most important first; all of it is done.

1. **AdmissionLane**, and the abstract **BoundedLine** it implements.
2. **Orchestrator**.
3. **Gateway**: all lanes beside each other, each implementing BoundedLine, over one client.
4. **Service**: lanes and orchestrator composed through connections; restarts and broken links.
5. **NetbirdApply**, **Rig2Setup**, **BuildIso**: what failed runs leave for the next.
6. **DocHeaders**, **DocsCheck**, **Playbooks**: two scripts that should agree on a header.
7. **Demo**: the walk through the API, against BoundedLine.
8. **PromptFit**, **Pareto**: algorithms, for every small input.
9. **Runner**: what a benchmark makes of the streams it gets from the gateway.

```
BoundedLine <-- AdmissionLane <-- MCAdmissionLane, AdmissionLaneProofs
            <-- Gateway <-- MCGateway, GatewayProofs
            <-- Demo
Orchestrator <-- MCOrchestrator, OrchestratorProofs
             <-- Service <-- MCService, ServiceProofs (uses OrchestratorProofs)
NetbirdApply, BuildIso, Rig2Setup <-- Infra <-- MCInfra, InfraProofs
DocHeaders <-- DocsCheck, Playbooks
               DocsCheck, Playbooks, Demo <-- Scripts <-- MCScripts, ScriptsProofs
PromptFit, Pareto, Runner <-- Benchmark <-- MCBenchmark, BenchmarkProofs
SetLemmas: finite sets, orders and recursion, for the proof modules
```

Infra, Scripts and Benchmark each compose programs that share no state. Their variable `part`
names the one that runs; the others stay at their start. The state space is the sum of the parts,
not their product. The MC modules only give the constants their values.

## 3. AdmissionLane

One `Lane` and the two handlers. A step is what one asyncio task does between two suspensions.

| Model | Code |
|---|---|
| `waiting`, `inFlight` | `Lane._waiting`, `Lane._in_flight` |
| `value`, `pending`, `acq` | the semaphore: free slots, its queue of futures, and each request's acquire task (none, pending, granted but not yet run, taken) |
| `pc` | where the handler is suspended, with "lostqueue" and "lostslot" for abandoned generators |
| `upstream` | open connections to the orchestrator, including those of abandoned proxy generators |
| `gone` | clients that have closed |
| `Refuse`, `AdmitBlocking`, `AdmitStreaming` | `enter_line` called from `chat_completions`; a stream is counted now and starts to wait in `StartBody` |
| `PollGone` ... `MarkInFlight` | the loop of `_acquire`; `Drop` is its exception path with `_cancel_acquire` and `_leave_line` |
| `CancelQueued`, `AbandonQueued`, `CloseQueued` | cancellation of a streaming response: at an `await` the exception path runs, at a `yield` the generator is only dropped and closed later |
| `UpstreamEnds` ... `CloseOrphan` | the body of the handlers, their `finally`, and the deferred closing of what `break` leaves open |

Outside the repository and modelled from how it is used: `asyncio.Semaphore` as of Python 3.12
(`Wake`, `SemAcquire`, `SemRelease`, `SemResume`, `SemCancel`), including its rule that a newcomer
queues behind a waiter that was granted a slot and has not run, and the wake-up loop when a waiter
resumes. Modelling decisions:

- `_lock` is never held across a suspension, so `enter_line` and `_leave_line` are atomic.
- The creation of an acquire task and its first step are one action. Tasks start in the order of
  their creation, so the order in the queue is kept.
- The server starts every response body it is given. If it did not, a streaming request would stay
  counted; that hazard is listed and not covered.
- The client is not polled between the grant of a slot and the request upstream. This is the code's
  behaviour and the subject of a finding.

Safety: `SlotsConserved`, `CountsExact`, `NoLostWakeup`, `ConnectedWorkBounded`, and the action
property `KeepsPlace`; `LaneBounded` and `SlotOwnership` are proved, and follow in the runs from the
refinement. Liveness: `GoneIsNoticed` (a client that is gone leaves the line, and a stream gives its
slot and connection back). Refinement: `ImplementsLine` and `ImplementsFairLine` map the lane to
**BoundedLine**, which knows neither semaphore nor polling: it refuses exactly when full, serves at
most `Slots` at a time, lets everybody else in, and passes nobody over. That every admitted request
is served or leaves is the fair half of it.

## 4. Orchestrator

The process of one rig: its workers, its poller and its requests.

| Model | Code |
|---|---|
| `Workers`, `Serving`, `Target` | `configured_workers` (a group with an empty alias is left out) and `get_worker_for_model` (first match in order of registration) |
| `state`, `active` | `WorkerInfo.state`, `WorkerInfo.active_requests` |
| `poller` | the worker `_poll_loop` waits for, or 0 for its sleep |
| `health` | what `GET /health` of each worker would give: a status code and a status, code 0 for a refused connection, a timeout or an unreadable body |
| `pc`, `conns`, `gone` | handlers, connections of the shared client, departed callers |
| `run` | serving, draining after SIGTERM, or down |
| `RefuseUnknown`, `RefuseFull`, `RefuseUnavailable` | 404, 429, 503 of `resolve_worker`, in its order: a full worker gives 429 even when it is unhealthy |
| `AcceptBlocking` / `AcceptStreaming` | the count goes up; for a stream it is back down before the body starts, in the same step |
| `TakeConnection`, `PoolTimeout` | the pool of the shared client, `max_connections` and its ten-second limit |
| `Finish`, `SendError` | what the two handlers do with an answer or an exception |
| `PollStarts`, `PollAnswered` | one round of the poll loop; a verdict is the reply of that very poll |
| `Drain`, `Stop`, `Crash`, `Start` | orderly shutdown, a kill, and `lifespan` registering the workers anew |

`WorkerInfo.lock` never waits: its holders contain no suspension. Hence resolving and counting form
one action, and `BlockingBounded` holds; it would not if a suspension were put between the two.
Blocking handlers never look at their connection, so `Disconnect` is for streams only. Which waiter
gets a free connection is left open.

Safety: `ActiveExact`, `BlockingBounded`, `RefusedWhenFull` (a 429 is deserved at its moment), and
`ConnectionsOwned`, which is proved. Liveness: `ChangeIsNoticed` (if from some time on a worker is
down, or up, from some time on it is marked so), `PoolWaitEnds`, `GoneStreamCloses`, `AcceptedEnds`.

## 5. Gateway

All lanes of the process, its keys, its model list and its one client. A lane is taken from
outside, as `BoundedLine` describes it; section 3 has its inside.

| Model | Code |
|---|---|
| `Aliases`, `Setting`, `Limit` | `_lanes`: a dictionary filled in the order of the groups, so that a later group of the same alias replaces an earlier one, and an unset alias has no lane |
| `RefuseKey`, `RefuseUnknown`, `RefuseFull`, `Enter` | 401, 404, 429 of `verify_api_key` and `chat_completions`, in their order |
| `Leave`, `Start` | the wait of section 3 as one step |
| `Connect`, `PoolTimeout` | the shared client: `max_connections` and its timeout |
| `UpstreamEnds`, `Abandon`, `CloseOrphan` | the end of an exchange; a generator that is left keeps its connection until it is closed |
| `AskList`, `Rig1Ends`, `Rig2Ends` | `list_models`: Rig 1 first, then Rig 2. An exception, another status or an answer that is no object count as an empty list (`_rig2_models`); an object whose `data` is no list is returned unseen, and the `extend` on it raises outside the `try` |

`ImplementsLines`: each model has a bounded line of its own, whatever is in the others. `OthersGoOn`:
with one worker silent for ever, its line full and its clients patient, everybody else settles.
`StarvedByOthers` says exactly what that guarantee costs: a completion with a slot fails for want
of a connection only if model lists and abandoned streams hold those the lanes leave over.
`LanesBounded`: under an alias that both rigs use, no more are in the line than the lane of the
later group allows. `ConnectionsOwned` is proved only.

## 6. Service

`Service` extends `Orchestrator`, so the rig is the whole of section 4, and puts the lanes of the
gateway in front. A request may act at the orchestrator (`Arriving`) only when the gateway has
given it a slot. The slot comes back when the orchestrator has answered (`SlotReturned`), when no
connection was made (`NotReached`), when the student of a stream hangs up (`HangUp`, to the place
"hungup"), and when the connection breaks (`LinkBreaks`, to "dropped"); `GatewayRestarts` empties
every line. In the last three cases the orchestrator learns of it only if it looks (`Closed`), which
it does for streams alone: a blocking completion goes on at the rig with nobody waiting for it.

So the rig can have more to do than the lane has slots, and the model says how much more.
`RigBounded` counts every request the rig works for (`AtRig`: a handler or generator that runs, or a
connection that is held, streams and blocking completions alike, whether `active` counts them or
not) and every one on its way to it (`OnTheWay`): they are no more than the slots times one more
than the number of restarts, plus the broken connections. Streams whose student hung up are left
aside (`HungUp`): each gives its slot back before the rig has noticed, and there may be any number
of them; that the rig does give them up is `GoneStreamCloses` of section 4. `RefusedAfterFaults`: a
student who is still there gets the orchestrator's 429 only after more faults than its capacity
covers. `AdmittedSettles`: whatever becomes of the rig, of either process and of the connection, who
was let in gets a turn or leaves, and the slot returns.

## 7. The scripts

*NetbirdApply.* One API call is one step of a run. Each may fail before it is made (`Fail`) or be
made and its answer lost (the second disjuncts of `CreateGroup`, `CreatePolicy`, `PutDefault`).
Beside the runs, peers enrol, people edit the dashboard, and with `AtOnce` above 1 other runs go
on. The place of a group in the list is its id. `check` is the relation `Diff` on the account.
`CreatedOnce`: runs that do not overlap create nothing twice, however many were cut short.
`AppliedFits`: after one that ended well everything is there, and the ids in the policies belong to
the groups meant. `AppliedIsClean`: then `check` has nothing to say. `CheckedFlowsWork` connects
`check` with what it is for, traffic between the peers of a policy. An edit in the dashboard
switches a policy off (`enabled`), switches its rule off or sets it to drop (`blocked`), or changes
protocol, ports or direction (`edition`). `rule_summary` does not look at the second sort, so
`PolicyDiffers` does not either, and the property holds only while no rule in force is blocked
(`RulesAccept`); without that it is `MatchMeansFlows`, which is refuted.

*Rig2Setup.* `set -e` makes every command a possible end. The state is the disk: the checkout of
llama.cpp (`src`: absent, usable, or left by an interrupted git so that git may refuse it), the
libraries in its `build`, the installed binary, the linked model, `worker.env` (absent, emptied by
`cat >`, or written), the environment the service was started with. `SetupRight`: a run that ends
well leaves these consistent with each other and with a key of its own, and a run with `REBUILD=1`
that nothing disturbs ends well whatever runs before left, unless an interrupted `git clone`,
`fetch` or `checkout` left the checkout unusable: `Fetch` and `Checkout` then fail in every run (or
`Fetch` completes what a `clone` began). `KeyKeptUnlessCut`: the key changes only if a run was
interrupted inside the one write that may lose it.

*BuildIso.* All runs share one output directory. A step may be interrupted while it writes
(`Target`, `Cut`). `ImagesRight`: a complete image is made from its own ISO, boots without a
question (every kernel line patched, `---` kept in place, check sums true) and holds accepted
secrets; a run that reports success used what it was given; a stock ISO that is named as `--help`
asks is never deleted.

*DocHeaders, DocsCheck, Playbooks.* `DocHeaders` holds both readers of a header; `glued` marks a
comment without a space before it, which one of them takes for a part of the value. `DocsCheck` is
one run of `check_docs.py` over any repository: `SearchExact` compares its search with the
definition of reachability (contained in every set closed under links), `PassedIsSound` says what
an exit status of 0 means. `Playbooks` is `build_playbook.py` over a working copy that is edited
meanwhile: `PdfsRight` (one wrong file and no PDF changes; after status 0 no PDF is stale, unless
its file was edited during the run), and `DonePassesDocsCheck` (what was rendered satisfies the
other script too, with the one exception it names).

*Demo.* The stages with their calls and what makes each fail; the completions go through an
instance of `BoundedLine` that other students use too, and clients may give up before their place
does. `ExitIsHonest`: status 0 exactly when every call of every stage got what it should, and no
failure keeps a later stage from running. `QuietQueuePasses`: if nothing disturbed the last stage
it passed, so the demo never refutes a gateway that keeps its promise to it.

*Runner.* The repeats of one workload, each a stream as `gateway/main.py` sends it: keepalives while
it waits, lines with text, and an end, which may be an error event; or a status of 400 and more, or
an exception (`Raise`). Beside what is measured the model keeps what happened. `MeasuresRight`:
every repeat is counted once, the medians are in the middle of what the usable repeats really
took, one that spoke never, or at one moment only, does not move them, and the percentiles of the
gaps agree with their median. Times are whole numbers, and speeds multiples of `1/Scale`, which
every difference of times in the run divides.

*PromptFit* and *Pareto.* Only the number of tokens of each prefix matters for a prompt, so a
tokenizer is any function from lengths to numbers. `CutIsRight`: never too many tokens, and with a
monotone tokenizer the longest prefix that fits. `FrontierExact`: the points kept are those no
point is better than, equal ones stay together, the sorted frontier falls, and it covers what was
left out.

## 8. Runs and bounds

| Run | Instance | Distinct states | Properties |
|---|---|---|---|
| `lane_safety` | 2 streams, 3 blocking; 2 slots, 1 place; symmetric | 128,996 | `TypeOK` `SlotsConserved` `CountsExact` `NoLostWakeup` `ConnectedWorkBounded` `KeepsPlace` |
| `lane_service` | 1 stream, 3 blocking; 1 slot, 2 places | 53,671 | `GoneIsNoticed` `ImplementsLine` `ImplementsFairLine` |
| `orch_safety` | 1 stream and 2 blocking for one worker, 1 blocking for the other; capacity 1, 2 connections | 471,756 | `TypeOK` `ActiveExact` `BlockingBounded` `RefusedWhenFull` |
| `orch_service` | a stream, a blocking request and an unserved one; an unset group in between; 1 connection; three replies to a poll | 69,282 | `ChangeIsNoticed` `PoolWaitEnds` `GoneStreamCloses` `AcceptedEnds` |
| `gateway_lanes` | 3 requests for one model, 1 for another, 1 for none, 1 with a wrong key, 1 list; Rig 2 takes over an alias; 2 connections; one model silent | 92,216 | `LanesBounded` `ImplementsLines` `StarvedByOthers` `OthersGoOn` |
| `service_restarts` | a stream, a blocking request, one that meets a full line; 1 slot, 1 place, capacity 1; 1 restart, 1 broken connection | 150,524 | `RigBounded` `RefusedAfterFaults` `AdmittedSettles` |
| `infra` | 2 `apply` and 1 `off` with 1 edit and a peer that enrols late; 4 ISOs, 3 secrets, 3 runs; 2 models, 2 keys, 4 runs | 84,894 | `CreatedOnce` `AppliedFits` `AppliedIsClean` `CheckedFlowsWork` `ImagesRight` `SetupRight` `KeyKeptUnlessCut` |
| `scripts` | 6 files with every set of links, or every sort of header; 3 playbooks, 2 edits, 2 runs; the demo with 1 slot, 1 place, 3 streams and 1 other student, symmetric | 2,799,716 | `SearchExact` `PassedIsSound` `PdfsRight` `DonePassesDocsCheck` `ExitIsHonest` `QuietQueuePasses` |
| `benchmark` | every tokenizer for 7 characters with steps of at most 2; every list of up to 4 points on a grid of 9; 3 repeats of up to 4 chunks in 2 units of time | 4,099,435 | `CutIsRight` `FrontierExact` `MeasuresRight` |

and `lane_overtake`, `orch_streams` and `bench_errors` of
[section 11](#11-where-the-code-and-its-documents-disagree), which end in a counterexample.

Why these bounds suffice for the cases of interest:

- *Lane.* Five requests on a capacity of three give two in flight, one woken while another is
  cancelled, one queued and one refused. Two slots are needed to see two wake-ups cross; one slot is
  enough for order and liveness.
- *Orchestrator.* Two blocking requests on capacity one give a 429; a stream beside them shows that
  it is not counted; the second worker's request competes for the two connections.
- *Gateway.* Three requests on the lane of one slot and one place give a refusal; the limit of the
  earlier group of the same alias is 2, so that taking the wrong one is seen; one list and the two
  models share two connections, the number the limits add up to, so that a list can starve them.
- *Service.* One restart and one break are a fault of each kind; with capacity one, one of them is
  enough for the orchestrator's 429 and none is not. The third request comes when the line is full, to
  be refused, or after a restart with no broken connection (`LateNext`): then the rig may have a
  request from before the restart and one from after it beside a third.
- *Infra.* Two applies and a late peer give a run that fails for want of a peer, one that is cut
  short, and one that completes it; a policy from a group to itself and one between two. Four ISOs
  are the four shapes `patch_grub` tells apart. Four runs of the setup are a good one, a failed one
  between, and two after it.
- *Scripts.* Three documents, a template and a record outside suffice for an island, a cycle, a
  document only a page outside links to, and a link into a directory that is skipped; the headers
  include one of every rule. Two edits fall before, between and after the readings of a file.
- *Benchmark.* Seven characters give the bisection three turns; a grid of three by three has ties on
  each axis and equal points. Of three repeats one, two or all are used, which gives the median one
  value, two or three; four chunks have three gaps, some of them zero, so that a percentile falls on
  one and between two.
- *Demo.* Any line does, since the demo is given one more stream than it holds.

Every request is used once and no counter grows without end; where the code could go on for ever
(restarts, edits, runs, broken connections, the length of a text) a constant that begins with `Max`
bounds it. A worker's health replies are one that is accepted, none, and in `orch_service` the
503 of a worker that loads its model. Deadlock checking is
off throughout: all requests may have ended, and every script does.

## 9. Fairness

- *The event loop* (`GatewayFairness`, `LoopFairness`): a task that can run does, a timer fires, a
  send ends, because the client reads or nginx's `send_timeout` closes the connection, and the
  interpreter closes an abandoned generator. `GatewaySpec` and `LoopSpec` assume this and nothing of
  the upstream, so `GoneIsNoticed`, `ChangeIsNoticed`, `PoolWaitEnds` and `GoneStreamCloses` hold
  with a worker that is silent for ever.
- *The upstream* (`UpstreamFairness`, `WorkerFairness`): strong fairness on the end of a generation,
  since chunks may be forwarded in between; generations are finite, and a silent read ends with
  `UPSTREAM_TIMEOUT` or `STREAM_IDLE_TIMEOUT`. It is the antecedent of the two properties that need
  it, `ImplementsFairLine` and `AcceptedEnds`.
- *Gateway.* `FairSpec`: each lane starts its waiters (strong, since the slot may be taken away
  again; this is what `ImplementsFairLine` establishes for one lane), waits for a connection are
  timed, generators are closed, rigs answer for their lists, and workers outside `Silent` end their
  generations.
- *Service.* `ServiceFairness`: the above, and that the gateway acts on the end of an exchange.
- No fairness on clients, on workers' health, on crashes, restarts, edits or failures, and none at
  all for the scripts, whose properties are about what a run that ended left behind.

## 10. Proofs

Every property of a passing run that is not about liveness is a theorem of its specification, for
all values of the constants under the named assumptions, which TLC evaluates in the runs. Each
theorem follows from an inductive invariant:

| Module | Invariant | What it adds to the properties, and why |
|---|---|---|
| `AdmissionLaneProofs` | `IInv` | `SemInv` (the queue lists the pending acquire tasks once each), `WaiterAcquires`, `UpstreamPlaces`: a release conserves slots only if the releasing request owned one; the guards `> 0` are idle only because the counts are exact |
| `OrchestratorProofs` | `IInv` | nothing is in progress while the process is down, which lets a restart begin at zero |
| `GatewayProofs` | `GInv`, `Admitted` | the bounds of both halves of each line: a slot is taken only by one who has a place. For `StarvedByOthers` each holder is given a slot of its own (`HoldersCounted`), an injection into the slots of all lanes |
| `ServiceProofs` | `SInv` | `Sent`, `SlotsHold`, `LostBounded`: what was let through and let go accounts for all the rig works for, handlers, streams and connections, except for streams that hung up. `ServiceRuns`: the composition does only what the orchestrator alone may do, so its theorems carry over |
| `InfraProofs` | `NInv` | `Informed`: what a run of `apply.py` has learnt stays true beside other runs and edits, since names never change and nothing is removed. `Fresh`, for `AppliedIsClean`: as long as nobody edits, what has a name of the file is as the file says. `Once`, for `CreatedOnce`: a run alone knows all that is there |
| | `RigInv` | `Reached`: what each step of `setup.sh` finds of those before it, and that only an unusable checkout stops an undisturbed run with `REBUILD=1`; `KeyHeld`: the key of the last good run is in the file, or in the hands of the run that has just emptied it |
| | `IsoInv` | `Staged`: what a run of `build_iso.py` maps into the image is what the same run has written, so nothing is said of leftovers because nothing reads them |
| `ScriptsProofs` | `DInv` | `Explored`: what was reached has been followed or waits to be; the complement of what is explored is what no closed set forces |
| | `BooksInv` | `Built`: the PDFs behind the current file are those of their texts, except for files saved meanwhile |
| | `WalkCounted`, `QueueInv` | the calls that were answered as they should be are as many as the stages so far make, exactly if no stage failed. `Quiet`: while nobody else asks, the streams that entered are no more than the line holds, and as many as it holds once one was refused |
| `BenchmarkProofs` | `FitInv` | `Tight`: the cut behind the best is too long |
| | `ParetoInv` | `Compared`: the verdict so far covers the points compared so far; `Ordered`: the frontier is the kept points in an order in which none stands behind a later one. That it covers every other point needs a point nothing dominates above each (`SomeNotDominated`) |
| | `RunnerInv` | `Streaming`: the lines that were read tell what became of the request; `Sampled`: a sample that did not raise is what happened. The medians are then a matter of sorting (`MedianInTheMiddle`, `PercentilesFit`) |

`SetLemmas` holds what the others cite: least and greatest elements, sizes of finite sets, orders of
a finite set by a value (`OrderExists`), and, for functions defined by recursion up to a number,
their existence and unfolding (`Recursion`) and induction along an interval (`UpTo`). These two
carry the sums and selections of `Runner` and `Demo`. Sorting is Python's `sorted` and has no
algorithm in the models: `Pareto` takes any permutation without an inversion, `Runner` a chosen one,
and `OrderExists` shows that there is one.

What is assumed of constants: sets of requests and runs are finite, and bounds are naturals; names in
`acl.json` are unique, refer to it, and differ from the names of the account's own Default policy and
group (`NetbirdAssumption`); keys of a rig are not the placeholder (`RigAssumption`); an image and a
`grub.cfg` are not the mark for a file cut short (`IsoAssumption`); the documents of the repository
are among its files (`DocsAssumption`); headers, pages and PDFs are told from their absence
(`BooksAssumption`); the demo opens one stream more than the line holds, as `scripts/demo.py` does
(`DemoAssumption`); an empty text has no tokens (`FitAssumption`); points have whole coordinates
(`ParetoAssumption`); a chunk with text has at least one token (`RunnerAssumption`).

Among the consequences are the refinements `LaneImplementsLine` and `GatewayImplementsLines`
(safety), the order of the line (`LaneKeepsPlace`), and `ServiceRefusals`. The NetBird theorems hold
for any number of overlapping runs where their statement does not exclude them, which the run leaves
out. `InfraRight`, `ScriptsRight` and `BenchmarkRight` are about the compositions that TLC runs.

Model-checked only: the liveness properties `GoneIsNoticed`, `ChangeIsNoticed`, `PoolWaitEnds`,
`GoneStreamCloses`, `AcceptedEnds`, `AdmittedSettles` and `OthersGoOn`, and the fair half of the
refinement, `ImplementsFairLine`, since the prover treats neither fairness nor ENABLED.

## 11. Where the code and its documents disagree

Three runs end in a counterexample:

| Run | Statement | What happens |
|---|---|---|
| `lane_overtake` | `docs/architecture/gateway.md:119`: "Join waiter line FIFO" | a stream is counted at once but queues when its body starts; a blocking request admitted in between is served first |
| `orch_streams` | `docs/reference/configuration.md:55`: 429 above an in-flight count | streams are uncounted before they start |
| `bench_errors` | `benchmark/runner.py:56`: "Median of samples that did not wait in the gateway queue and did not error." | a generation that fails behind the gateway ends with an error event under status 200 (`gateway/main.py:171`), which `measure` takes for a stream that was short or silent |

More statements are kept as definitions beside the properties. Put one under INVARIANT or PROPERTY
of a configuration of its module, and TLC refutes it; for those of Rig2Setup and Demo that is
`Infra.cfg` and `Scripts.cfg`, since `Infra` and `Scripts` name them.

| Definition (module) | Statement | What happens |
|---|---|---|
| `NoGhostTurn` (AdmissionLane) | `docs/architecture/gateway.md:56`, `:163`: no turn for a dead connection | a client that leaves between its last poll and its grant still gets its turn |
| `ClosingFreesSlot` (AdmissionLane) | `docs/reference/api.md:55`: closing frees the slot | a blocking handler does not notice until the upstream answers |
| `RigGetsWhatItCanStart` (AdmissionLane) | `docs/decisions/0005-admission-queue-on-ec2.md:25`: the rig only receives work it can start | after `break` the slot is free before the old connection is closed |
| `NeverFull` (Service) | `docs/reference/api.md:43`: the orchestrator's 429 is "only reachable if someone bypasses the gateway" (also `docs/architecture/orchestrator.md:20`) | restarts and broken connections leave work behind; `RefusedAfterFaults` says how many it takes |
| `StatusCounts` (Orchestrator) | `docs/architecture/orchestrator.md:15`: `loading model` counts as healthy | only with status code 200; `llama-server` sends it with 503 |
| `DefaultOnlySwitched` (NetbirdApply) | `infra/netbird/apply.py:6`: disables a policy | line 128 writes the whole policy back as it was read, undoing an edit made meanwhile |
| `MatchMeansFlows` (NetbirdApply) | `infra/netbird/apply.py:138`: "live NetBird config matches acl.json" | a rule that is switched off or set to drop lets nothing through, and lines 52-60 compare neither |
| `Rig2OnlyAdds` (Gateway) | `gateway/main.py:88`: "Rig 2's model entries, or [] if Rig 2 is off or not answering." | Rig 2 answers with an object whose `data` is no list: line 102 returns it, the `extend` of line 115 raises, and a status 500 replaces the list of Rig 1 |
| `KeyKept` (Rig2Setup) | `infra/rig2/setup.sh:7`: an existing file keeps its key | an interruption inside `cat >` (line 130) loses it, and the next run draws another |
| `RerunRecovers` (Rig2Setup) | `infra/rig2/setup.sh:6`: "Safe to re-run" | after a failed rebuild the old binary counts as built (line 65) without the libraries that line 81 removed; and a git that was interrupted leaves what makes lines 73-78 fail in every later run, with `REBUILD=1` too |
| `DoneServesModel` (Rig2Setup) | `infra/rig2/setup.sh:171`: "Done: $MODEL" | an existing link is kept whatever `MODEL` it was made for (line 96) |
| `PassedLinksExist` (DocsCheck) | `scripts/check_docs.py:8`: "every relative Markdown link in the repo" | templates are skipped (line 120) |
| `SeventhIsRefused` (Demo) | `scripts/demo.py:266`: "2 running + 4 waiting = 6. The 7th must 429." | not beside another student, and not when a stream ends before the last one comes |
| `PassMeansServed` (Demo) | `scripts/demo.py:294`: "served" | a stream has its status 200 before the rig has answered |

Two more were met in reading. `benchmark/workloads.py:97` explains a loop that is to "Step forward
to the closest count ... when a later cut is exact"; `FitNoStep` proves that it never takes a step.
`RESPONSE_HEADER_TIMEOUT_SECONDS` (`docs/reference/configuration.md:57`) is read into `settings` and
used nowhere, so blocking requests have the stream idle timeout.

## 12. What is not modelled

- Contents of messages, keys and headers, formatting and logs; how a link or a header is written in
  Markdown. Times: a timeout may fire whenever its wait has not ended.
- HTTP parsing errors in request bodies, which end a request before it is counted. Keep-alive of
  idle pooled connections, which the client replaces when it needs room. A response whose body the
  server never starts: nothing in `src/` could take it out of the line again.
- `/v1/models` of the orchestrator, `/healthz` and `/readyz`, which only read; its comparison with
  its one key.
- Of the benchmark: the rounding of floats; the fields that come from others by arithmetic (mean
  latency per token, time to 100 tokens) or are copied (native speed, first answer); which
  workloads are skipped; the file that is written; charts. Token rates and texts in the demo.
- Installation of packages, CUDA and Ollama in `setup.sh`; `pull-moe.sh`, two downloads;
  the commit that is built;
  `openssl` and `xorriso` beyond what `build_iso.py` expects of them; `--html` of
  `build_playbook.py`.
- `scripts/visuals/build_sheets.py` and `request.sh`: drawing commands and one call of `curl`.
- systemd units and nginx: present as crashes and in the fairness.

To run: `tlc -config <run>.cfg <MC module>` and `tlapm <proof module>` in this directory;
`PROJECT.json` lists the runs, the lines each definition models, the mutants that show that each
property can fail, and the hazards.
