# Verification of the cross-OEM inference cluster

TLA+ models of the control plane in `src/`, checked with TLC on small instances and, as far as
safety goes, proved with TLAPS for every instance. Paths below are those of the repository: `src/router.py` is
the file at `src/src/router.py` from here.

## The system

A gateway (FastAPI on Ray Serve) takes chat completions and batches and sends them to three
inference nodes: an NVIDIA DGX, an AMD Radeon and a second DGX as standby. Which node gets a
request is decided by one named Ray actor, the failover router.

| Component | State | Operations | Interacts with |
|---|---|---|---|
| Failover router, pool (`src/router.py`) | per node: status, failure count, readiness, `recover_to_primary`; the `_tick` task | probes every interval, failover, recovery, restart by Ray | `/health` and chat of the nodes, `start()` of the controllers |
| Failover router, routing (`src/router.py`) | rotation pointer, latency samples, in-flight table, attempts, admission queue | `route`, `report_success`, `report_failure`, waiting in the queue | called by the gateway and by batch drivers |
| Batch driver (`src/batch_job.py`, `src/router_dispatch.py`) | attempts left per item, results | one thread per item in a pool: route, request, report, retry; then the output file | the router (blocking calls), the nodes |
| Gateway, chat (`src/app.py`) | none across requests | routed call with six attempts, stream, fallback to a running replica | the router, the nodes, S3 |
| Gateway, batch (`src/app.py`, `src/schema.py`) | `JOBS` in memory, files in `/tmp` | submit, poll, load output, store records, count metrics | Ray jobs, S3, CloudWatch |
| Gateway, rate limit and job endpoints (`src/app.py`) | time stamps of the last requests | check of window and key, submit, status, logs, nodes | all clients, Ray jobs |
| Job client (`submit_ray_job.py`) | polls made, status seen | submit, poll, fetch logs, verdict | the job endpoints |
| Demo verifier (`src/demo_verifier.py`) | phases passed; a router of its own | four phases, report | dashboard, endpoints, a failover router |
| Gateway, node views (`src/app.py`) | none | `/v1/nodes` from Ray, Serve and router state | dashboard |
| Cluster failover controller (`src/failover.py`) | missed heartbeats, time of failure | check every 5 s, respawn | Ray node table |
| Recovery verifier (`src/recovery_verifier.py`) | phases of a drill | wait for outage, wait for rejoin, report | Ray dashboard |
| Safe refactor (`src/commands.py`, `src/serve_ops.py`) | snapshot of the Serve config | deploy, wait, verify, roll back | Serve, ssh |
| Other clients, CLI, benchmark, dashboard, infrastructure | none of their own | requests, presentation, provisioning | gateway |

What is hard here: the router is one asyncio actor whose coroutines suspend at probes and in
the queue, so callers' reports, probes and waiters interleave; Ray restarts it with its state
lost while callers still hold routes; a controller's `start()` is blocking and may raise in the
middle of a failover; batch drivers retry through all of it.

What makes each part correct:

- pool: never more primaries than `primary_count`; one `start()` per outage; a node over the
  threshold takes no traffic; a departure demotes nobody and fills only a vacancy; a healthy
  node comes back, a dead one leaves;
- routing: every dispatch goes to a node in service, within the SLA if one is; a retry leaves
  the node it failed on; the in-flight table matches its callers; the queue holds the waiters
  and drains in order;
- batch: an item is sent as often as allowed and no more, ends with an entry, leaves nothing in
  flight; the driver ends;
- batch jobs of the gateway: what a client is told agrees with the output; each item is recorded;
- job endpoints: the window admits no more than its limit and refuses only at it, whoever asks; a
  client's verdict is its job's end;
- recovery drill, demo verifier, safe refactor: a PASS means what the phase is named for.

PROJECT.json lists every hazard with its line and the properties that cover it.

## Modules

| Module | Models | Notes |
|---|---|---|
| `NodeRanking` | the selections by priority: `sorted(...)[:primary_count]`, `sorted(...)[0]` | sets and cardinalities instead of sorted lists: a node's place in the list is the number of nodes ahead of it |
| `Rotation` | what the pool promises: who is primary, reserve or out | abstract specification |
| `RouterPool` | `RouterState`'s nodes, `_tick`, `_probe_node`, `_handle_failure`, `_handle_recovery`, the failover part of `report_failure`, the actor's restart | implements `Rotation` |
| `Router` | `pick`, `register_dispatch`, `clear_job`, `route`, `report_*`, `_wait_in_queue` | its nodes come and go as `Rotation` allows, so what holds of `Router` holds over the pool of `RouterPool` |
| `RouterTurns` | `Router` with a history: whose turn it was over a list of nodes, and whom each waiter found waiting | for the properties of `pick` and of the queue that take several steps; proved to be `Router` |
| `RouterSystem` | the actor whole: the calls of `Router` over the pool of `RouterPool`, a report being a step of both | composes the two; proved to implement the specification of each |
| `BatchDispatch` | `dispatch_batch_item` in a thread pool, the driver's collection of results, and the static dispatch without a router | extends `Router`: every router step of a batch is one of `Router`'s |
| `BatchResults` | what a batch promises the reader of its output, without router, threads or attempts | abstract specification; `BatchDispatch` implements it |
| `Gateway` | `chat_completions`: demo fallback, routed call, tries, stream, reports, fallback | extends `Router` with a request's life in the gateway; the callers of `Router` become its requests |
| `BatchJobs` | `create_batch`, `get_batch`, `_load_output`, `_finalize_status`, records and metric, and the polling client | stands alone: the driver behind a batch is `BatchDispatch`, of which it sees an output file |
| `BatchPromise` | what the client of a gateway batch is promised, without polls, tables, restarts or uploads | abstract specification; `BatchJobs` implements it |
| `JobsApi` | `_check_rate_limit`, `_validate_api_key`, the job endpoints, and `submit_ray_job.py` | stands alone; with a clock, since the window is of seconds |
| `SlidingWindow` | what the rate limit promises, told from the history of admissions | abstract specification; `JobsApi` implements it |
| `DemoVerifier` | `run_demo_verification`, and the router it creates | extends `RouterPool` (the gateway's router) and instantiates it a second time over the same nodes |
| `RayCluster` | workers, the replicas of both Serve applications, their deployed configurations, the files on the head | external: how Ray and Serve act is taken from how the tools use them, where the replicas are and what they import from `cluster/serve_config.yaml` |
| `ClusterFailover` | `FailoverController` | over `RayCluster`, with the calls of `start()` as history; instantiated nowhere in the repository, it is modelled as it would run |
| `RecoveryDrill` | `run_recovery_verification` | over `RayCluster`, with two history variables |
| `SafeRefactor` | `run_safe_refactor`, `run_deploy`, `wait_healthy`, `rollback_to_snapshot` | over `RayCluster` |
| `NodeView` | `_resolve_lifecycle`, `_preferred_replica`, the rows of `_build_nodes_view` | operators over `RayCluster` |
| `Operations` | controller, view and one command on one cluster | composes the five above |
| `MCRouterPool`, `MCRouter`, `MCRouterSystem`, `MCBatchDispatch`, `MCGateway`, `MCBatchJobs`, `MCJobsApi`, `MCDemoVerifier`, `MCOperations` | instances for TLC | |
| `NodeRankingProofs`, `RouterPoolProofs`, `RouterProofs`, `BatchDispatchProofs`, `GatewayProofs`, `BatchJobsProofs`, `JobsApiProofs`, `OperationsProofs` | theorems | each over the module it is named after |

How state maps to code in `RouterPool`: `status`, `failures`, `ready` and `toPrimary` are the
fields of `NodeRuntime`; `failures` is cut off at the threshold, the only number it is compared
with. `owed` counts the calls of a node's `start()` less its `respawns`. `answers[n]` is the set
of answers the `/health` call in flight may still bring and `chatting` the chat probes in flight.
An action runs from one real suspension of a coroutine to the next: `_handle_failure` awaits
`_respawn`, which never suspends, so a failover with its blocking `start()` is one action.
`Flip` is the world: a node goes down or comes back, or answers too late, with a probe of it in
flight or not.

In `Router`, `caller`, `route` and `sends` are the state of the callers and stand for gateway
requests and batch items alike; the reply of a call reaches its caller in the step that computes
it. `slow` is the set of nodes whose p95 exceeds the target: a report of success may move its
node in or out. A caller may vanish, and a restart of the actor loses the calls it is serving.

`RouterTurns` adds three history variables to `Router`: `base` and `turn`, the list of nodes a round is
under way over and those of it that have had their turn, and `before`, whom each waiter found waiting.
Its steps are those of `Router`, each with what it adds to the history, so `TurnsSpec => Spec`
(`TurnsKeepRouter`). The proofs of `BatchDispatch` and `Gateway` extend `RouterProofs` and so have these
variables in scope; their specifications and theorems do not mention them.

`Gateway` and `BatchDispatch` each drive `Router`'s own actions (`Route`, `Poll`, `TimeOut`,
`ReportSuccess`, `ReportFailure`, `Vanish`, `RouterRestart`), so neither restates the router. In
`Gateway`, `phase` says where the handler of a request is suspended, `routed` which requests have
a `report_id`, `tries` the `att` of `_non_stream_retry` (six in the code, `Tries` here). A client
that goes away cancels its handler; a `CancelledError` is no `Exception`, so nothing is reported.

In `RouterSystem` the two models of the router share one state. `Router` is instantiated with the
`primaries` and `reserves` that `RouterPool`'s statuses give, so `pick` reads the standings of that
moment, and a `FailureReport` is `_handle_failure` on the pool followed by `Router`'s answer computed
from the pool it leaves. A retry is chosen by the standings, failure counts and readiness of the pool
at that point; probes and recoveries come between any two calls.

`BatchResults` has two variables: the fate of each item (open, its result, raised) and the output
(open, written, aborted). `BatchDispatch` maps its phases, results and `batch` to them. A crash of the
router decides several items at once, which `Decide` allows; what it never allows is that a decided
item is decided again, that the output is written with an item open, or that it is lost with one
open ahead of the item that raised.

`SlidingWindow` has no list: who is admitted is decided by how many of all admissions lie within the
window. `JobsApi` maps its history `admits` to it, and to `refused` the programs with a 429 on its way.

In `BatchJobs`, `known`, `status` and `entry` are `JOBS` and its `BatchJob`s, `output` the file
the driver leaves in `/tmp` (an item has a response, an error, neither when its response is null, `{}`
or `[]`, or a response that does not parse), `saving` the upload tasks in flight, `stored` and `errRecord` the
objects in S3, `reliable` the values the metric has taken. The handlers contain no `await`, so
each is one action; a restart of the replica empties `JOBS` and drops the uploads. An item with neither
field is no failure to `failed_count`: its batch is completed, and its record is under `err-<job>` like
that of an item in error. The ids of responses are taken to be distinct.

`BatchPromise` has the outcome of a batch (open, its end, or an output nobody can read) and what its
client has heard. `BatchJobs` maps Ray's status and the output file to the first and `told` to the
second; `JOBS`, the polls of others and the uploads have no part in it.

In `JobsApi`, `window` is `REQUEST_COUNTS_RATE`, and `admits` the history of what was let in by the
gateway's current life. A request is handled in one step, as the handlers block the loop; its
answer is on its way in `reply`, and the connection may break before or after. `Visit` is every
other request that asks for the key. The clock is a number of seconds; the code's floats only make
it finer. The three seconds between polls are left out, so a program may fill the window by itself.

In `DemoVerifier`, the variables ending in 2 are those of the second router, which stands still as
created until `EnsureRouter`. Each router steps by itself; `Flip` is one event for both. The second
router has no callers, so nothing is reported to it.

A driver of `BatchDispatch` begins as "running" or "static", as `_router_adapter` finds a router or
not; `PostStatic` is one item then.

In `Operations` every component steps for itself over the shared cluster, since the tools touch
it by remote calls only. `missed` and `failedAt` are the controller's; `missed` is cut off at 3,
past the 2 it is compared with; `starts` is history, the calls of `start()` for a worker since the actor
last saw it. A round of `_check` has no suspension and is one action, over
all nodes or up to the one whose `start()` raises. `drill` and `refactor` are the step a command is
at. `blind` and `out` are history: a phase passed on a read that failed, and the target was out.
A replica carries the configuration it was started with and the code it imported. As
`cluster/serve_config.yaml` has it, the gateway's one replica is pinned to the head and imports `app` from
the files in `/home/ubuntu` there, which is what a deploy copies; the replicas of the model are on the
workers and import `vllm_deployment_simple` from their images, whatever is copied. `wait_healthy` looks at both
applications, the spread of the test at the model only. `StatusMatchesReplica` is evaluated on every state of the replicas and every node table
that may have been read before, so a torn read needs no variable.

## Runs

| Run | Shows | Bounds |
|---|---|---|
| `router_pool` | `AtMostPrimaryCount`, `OneStartPerOutage`, `InServiceBelowThreshold`, `FailoverKeepsCapacity`, `MissesAddUp`, refinement of `Rotation`, `HealthyNodeReturns`, `DeadNodeLeaves` | the three nodes of `_router_payload`, two primaries, threshold 2, `start()` may raise, restarts at any time |
| `router` | type, `QueueHoldsWaiters`, `InflightAccounted`, `HeadCanGo`, `RoutesToFitNode`, `RetryLeavesFailedNode`, `EachInTurn`, `FirstComeFirstServed` | `TurnsSpec` on three nodes, three callers that send twice at most and four times all together (`SendsMax`), a queue of two |
| `router_system` | `DispatchesToLiving`, the actor whole implements `Router` (`KeepsRouter`) | a primary and a reserve, threshold 1, `start()` may raise, two callers that send twice at most, a queue of one, SLA off |
| `batch_dispatch` | refinement of `BatchResults` (`KeepsResults`), `AttemptsAreSends`, `ErrorsAreEarned`, `FinishedItemsLeave`, `DriverCanMove`, `BatchEnds` | two nodes, three items, two threads, two attempts, a queue of one |
| `gateway` | `InflightAreLive`, `RequestsCanMove`, `BlameAfterTries`, `RequestsEnd` | two nodes, a plain request and a stream, two tries, a queue of one, the demo fallback on |
| `batch_jobs` | refinement of `BatchPromise` (`KeepsPromise`), `RecordsAgree`, `PolledEndSettles` | two batches of two items, which are alike (`MCSymmetry`), clients that poll twice, any output |
| `batch_reliability` | violation: a completed batch counts as unreliable | as `batch_jobs` |
| `batch_abort` | violation: one refused item ends the batch | as `batch_dispatch` |
| `operations` | `OneRespawnPerOutage`, `PassNeedsOutage`, `StatusMatchesReplica`, `PassTestsNewCode`, `CommandEnds` | two workers, the second the target, a head, a new configuration of both applications, two checks of `wait_healthy` (60 in the code); the controller stands still during a refactor (`MCSpec`) |
| `operations_rollback` | violation: after a rollback the gateway serves the failed code | as `operations`, with the controller |
| `jobs_api` | `WindowBound`, refinement of `SlidingWindow` (`KeepsWindow`), `VerdictHolds`, `ProgramsEnd` | two programs, one without the key, a limit of 2 in 2 seconds (15 in 10), two polls that sleep (15), a clock to 6 |
| `demo_verify` | violation: the recovery phase passes with a node of the gateway's router respawning | two nodes, one primary, threshold 1 |

Threshold 2 has a count below, at and past the limit. Three callers and a queue of two give a
full queue, a refusal, and a waiter behind another; four sends give each a route and one a retry, or
two rounds over two nodes with waits in between. Two threads over three items make an item
wait for a thread. Every property has a mutant of the code that TLC finds to break it.
The type invariants, but that of `Router`, which also bounds what is sent, and the measures (`ItemsAdvance`,
`RequestsAdvance`, `ProgramsAdvance`, `CommandAdvances`) are in no run: they are proved, for every instance.

Two tries have a first failure that is not the last; one plain request and one stream meet each
other in the queue and in the table. Two polls give a client one that finds the job running and
one that ends it, and further polls by others (`PollUnheard`) are not bounded. Two items give any two of
a response, an error, neither and a malformed one, in either order.

`EachInTurn` is about a list as long as it stays the same: with two primaries a round is of two nodes, and
rounds of any length are the theorem's. Over a list that has changed the node of the last pick may be the
next one, as the pointer is kept from a list of another length; no text of the repository promises
otherwise, and `HeadCanGo` says that a node is found all the same. `FirstComeFirstServed` is about those that
wait: a call that finds an active node is served past them, since `_acquire_node` picks first.

Two workers make a round of the controller with a node before and one after the failing one, and
two checks a wait that goes on and one that gives up. What Serve does with a new configuration is
assumed to show in its statuses at once; an application whose configuration equals the deployed one (`NewConfig`
"old") keeps its replicas, and `PassTestsNewCode` says nothing of them. A gateway that keeps its replica may
serve the old files after a refactor that has passed, and the new ones as soon as its replica is started again.
The controller and a refactor read nothing of each other, and the theorems are about `OpSpec`, with both.

`OneRespawnPerOutage` counts what one incarnation of the controller does: restarted in the middle of an outage
it starts the worker again, and so it is with `OneStartPerOutage` and the router.

A limit of two in two seconds has windows that are empty, part full and full, requests at the edge
of the window, and a clock to 6 lets each leave it twice. Two nodes are enough for a router with a
node out and another in service beside one with both.

That a waiter never holds up the others is checked as `HeadCanGo`: the head of the queue waits, and
when a node is in service one can be picked for it, which is all its `Poll` asks for. With the fairness
of its timer this is what a leads-to over the queue would say, and it costs no liveness graph. `RequestsCanMove`
and `DriverCanMove` say the same of a request and of the driver.

`router_system` puts the pool and the callers in one state, where three nodes are past what TLC
finishes. A primary and a reserve still have a promotion, a return to a pool that has filled the
place, a node that is respawning while the other serves, and both out with a caller in the queue;
threshold 1 makes every failed probe a failover. Thresholds above, more nodes and the SLA are in
`router_pool` and `router`, and the theorems take any of them.

Deadlock is checked except in the runs of `Router` alone, where all callers may be done while nodes
cannot move, and of `BatchJobs`, which ends when both clients have failed and Ray is done; the
other systems always have a next step.

## Fairness

`ProbeFairness`: asyncio runs every due timer, and a probe's HTTP call has a time limit, so every
probe is answered or counted as failed and the tick goes on while its task lives.
`HealthyNodeReturns` asks for a task that is not dead for good: a `start()` that raises in a probe
ends the `_tick` task, and no node is found again until the actor restarts. `DeadNodeLeaves` asks
besides that the other nodes no longer come and go and that the actor no longer dies, since both
clear the count of the dead node.
`GatewayFairness` is that the event loop of the gateway runs and its posts have a time limit
of 90 s, and that a wait in the router ends, by a node or by `queue_timeout_s`, which the code
bounds; the loss of a client, a death or a change of nodes is never assumed. `BatchFairness` is that the threads of a process run, requests have a time limit of 90 s
and calls of the router return or raise. `OpFairness` is that a command runs on: the waits of a
drill have deadlines and `wait_healthy` a bound on its checks, and neither the cluster nor the
dashboard is assumed to do anything. `ApiFairness` is that every request of a program is answered
or times out after 60 s. `WF(DemoStep)` is that the command runs on.

## Findings

1. The items of a batch are not independent: one refused a route ends the batch without an
   output (`batch_abort`).
2. The metric `batch_reliability` is 0 for every batch: `emit_batch_metrics` compares with
   `COMPLETED`, the gateway passes `completed` (`batch_reliability`).
3. A rollback that "was applied" restores the configurations and leaves the copied files on the head: the
   replica of the gateway imports the code that failed if it starts after the copy, be it before the
   rollback or long after it (`operations_rollback`). The workers are not concerned: their code is in
   their images.
4. The demo verifier reads a router of its own: `ray.init` gives it an anonymous namespace, in which
   `ensure_router` does not find the router of the gateway (namespace `serve`, as `batch_job.py`
   knows) and creates a detached one. Its two router phases say nothing of the router in use, and
   every run leaves one more router that probes and starts the same nodes (`demo_verify`).

Two things the code does that a reader of the docs might not expect, neither counted as a divergence:
the return of one node clears the failure counts of the others (the last case of `MissesAddUp`), so a
dead node can miss more than the threshold of probes in a row while another flaps; and "the
least-loaded rotation" (`README.md`) is a rotation: `pick` never looks at what is in flight.

## Proofs

Every safety property of the passing runs is a theorem for every instance: invariants, action properties and
refinements. What stays with TLC is at the end of this section.

`NodeRankingProofs` and `RouterPoolProofs`, for any finite set of nodes with distinct priorities
(`NodesAssumption`, `PriorityAssumption`: `_router_payload` numbers them 0, 1, 2), any positive
`primary_count` and threshold (`CountAssumption`, `SettingsAssumption`), any outcomes of
`start()` and, for the actor whole, any callers (`SystemAssumption`):

| Theorem | Says |
|---|---|
| `TopRankedBounded` | a ranking by priority never selects more than `PrimaryCount` nodes |
| `PoolTyping` | `PoolSpec => []PoolTypeOK` |
| `PrimariesBounded` | `PoolSpec => []AtMostPrimaryCount` |
| `OneStart` | `PoolSpec => []OneStartPerOutage` |
| `BelowThreshold` | `PoolSpec => []InServiceBelowThreshold` |
| `CapacityKept` | `PoolSpec => FailoverKeepsCapacity` |
| `MissesDoAddUp` | `PoolSpec => MissesAddUp` |
| `ImplementsRotation` | `PoolSpec => KeepsRotation`, the refinement of `Rotation` |
| `SystemUsesPool` | `SystemSpec => PoolSpec`: the actor whole implements the pool |
| `SystemUsesRouter` | `SystemSpec => KeepsRouter`: and the router, over the nodes the pool moves |
| `SystemKeepsCalls` | `SystemSpec =>` the safety properties of `Router` (those of `RouterTurns` aside), each over those nodes |
| `DispatchesLive` | `SystemSpec => DispatchesToLiving`: no job goes to a node that awaits the end of a start or is at the threshold |

The argument. `RoleSteps` shows that whatever a probe or a report does, the roles of the nodes
move in three ways only: a failover of a node in service, a recovery, a restart. One lemma for
each (`FailoverRoles`, `RecoveryRoles`, `RestartRoles`) says what becomes of the primaries and of
the reserves. The type invariant, proved first, is the strengthening each of the others is inductive
with: a status outside the three would be neither in service nor handled, and the early return of
`_handle_failure` would not be what keeps a start from being repeated. `AtMostPrimaryCount` then
holds because a failover promotes only when it has removed a primary or there was none
(`PromotedIsReserve`), and because what a recovery or a restart leaves is a ranking, bounded by
`TopRankedBounded` whatever was there before. `ImplementsRotation` maps `primaries` and
`reserves` to the statuses and shows every step of the pool to be a `Leave`, a `Return`, a
`StartAgain` or no change.

`MissesAddUp` is the safety half of `DeadNodeLeaves`: each failed probe of a node in service counts one or
takes the node out (`MissCounts`), and if its count goes back it is for one of the few reasons the
property names (`CountDrops`). The last of them, another node's return, is `reconcile_primaries`.

`SystemUsesRouter` is what lets the theorems of `RouterProofs` be read as theorems about the actor whole: the
roles that `Router` lets move as `Rotation` allows are here those of the pool, and each report that
`Router` answers "after a `Leave`" is answered after the pool's own failover (`FailoverLeaves`), or after
none, when another caller has reported the node already. `DispatchesLive` needs facts of both sides at once: that a
route is to a node in service, and that the pool has no node in service at its threshold or with a
start outstanding, in the state the report or the poll leaves (`CallInv`).

`RouterProofs`, for any finite set of nodes, any callers, any `queue_max` and number of tries, with queueing and
SLA on or off (`RouterAssumption`):

| Theorem | Says |
|---|---|
| `RouterTyping` | `Spec => []RouterTypeOK` |
| `QueueIsWaiters` | `Spec => []QueueHoldsWaiters` |
| `InflightIsAccounted` | `Spec => []InflightAccounted` |
| `RoutesFit` | `Spec => RoutesToFitNode` |
| `RetryLeaves` | `Spec => RetryLeavesFailedNode` |
| `HeadReady` | `Spec => []HeadCanGo`: at the head of a queue is a waiter, and there is a node to pick for it if any is in service |
| `TurnsKeepRouter` | `TurnsSpec => Spec`: the history constrains nothing |
| `TurnsAreTaken` | `TurnsSpec => EachInTurn` |
| `FirstCome` | `TurnsSpec => FirstComeFirstServed` |

The inductive invariant is `TypeInv /\ QueueHoldsWaiters /\ InflightAccounted`; `TypeInv` adds to the
types those of the roles (`RolesOK`) and what a caller may be at each place it stands (`CallersOK`). The
queue needs facts about sequences without repetition: what joining at the end and leaving from
the middle do (`Appended`, `RemovedPlaces`). All that routes goes through `Acquire`, so one lemma
(`AcquireOutcome`) says what becomes of the caller, and another (`DispatchedBy`) that whoever is
dispatched was routed, polled or retried. `RoutesFit` needs that the choice is made among the nodes
as they are after the report's own failover; `RetryLeaves` that a node failed over cannot be among
them, promotions included.

`TurnsAreTaken` says where a round stands: the nodes that have had their turn are those in the last so many
places before the pointer, cyclically and fewer than there are nodes, and the pointer counts on the list
of the round (`TurnInv`, `LastPicks`). A pick takes the place at the pointer, which is not among them, and
moves it one on (`NextPlace`); what takes nodes out and brings them back in between does not touch it.
`FirstCome` says of every place in the queue that whoever its waiter found waiting has a place
before it (`OrderInv`): one more joins at the end, and when one leaves those behind it move up
(`RemovedPlaces`); nobody has a place before the first.

`BatchDispatchProofs`, for any input without repetition, any number of threads and attempts
(`BatchAssumption`):

| Theorem | Says |
|---|---|
| `BatchUsesRouter` | `BatchSpec => Spec`: a batch drives the router as a caller may |
| `BatchTyping` | `BatchSpec => []BatchTypeOK` |
| `DoneEntered` | `BatchSpec => []DoneHasEntry` |
| `ImplementsResults` | `BatchSpec => KeepsResults`, the refinement of `BatchResults` |
| `ItemsDoAdvance` | `BatchSpec => ItemsAdvance`: every move of an item lessens its distance to its end |
| `DriverDoesMove` | `BatchSpec => []DriverCanMove`: nobody waits on everybody |
| `AttemptsCounted` | `BatchSpec => []AttemptsAreSends` |
| `ErrorsEarned` | `BatchSpec => []ErrorsAreEarned` |
| `FinishedLeave` | `BatchSpec => []FinishedItemsLeave` |

`BatchUsesRouter` lets the invariant of `Router` be used as it stands. `ItemInv` ties the thread of
an item to the caller the router knows: an item on its way holds a route or waits, has attempts
left, and its attempts and sends add up; one that is over has been served, refused, given up or lost.

`ItemsAdvance` and `DriverCanMove` are the halves of `BatchEnds` that are about safety. `Distance` counts the
moves an item has left, four for each attempt it may still make; no step enlarges it, whatever the
router does, and a step that moves the item lessens it. `DriverCanMove` says that until the end somebody has a move: a
thread at work has its route or its place in the queue, and when none is at work an item can be taken,
or all are done, or one has raised. In the last case the driver must find the first in the order of
the input that is not done, and it must be one that raised, not one that was never taken: there is
a least such item because the places are natural numbers (`FirstOf`, by the well-foundedness of `<`). A
driver without a router has no item that raised (`StaticInv`). What TLC adds is that the moves there are
get taken.

`GatewayProofs`, for any requests of which any are streams, any positive number of tries, with or
without the demo fallback (`GatewayAssumption`):

| Theorem | Says |
|---|---|
| `GatewayTyping` | `GatewaySpec => []GatewayTypeOK` |
| `GatewayUsesRouter` | `GatewaySpec => Spec`: the gateway drives the router as its callers may |
| `InflightLive` | `GatewaySpec => []InflightAreLive` |
| `BlamedAfterTries` | `GatewaySpec => BlameAfterTries` |
| `RequestsDoAdvance` | `GatewaySpec => RequestsAdvance`: every move of a request lessens its distance to its end |
| `RequestsMove` | `GatewaySpec => []RequestsCanMove`: no request is stuck between gateway and router |

By `GatewayUsesRouter` the invariant of `Router` is had for nothing: even the death of the gateway, in
which all that hold a route vanish at once, is a step of the router's callers. `RequestInv` says
that who holds a route is on its way, that a request has tries left while it is sent, and that a plain
one has none when it has failed; and that one the router knows by a report to come still holds its
route, which is what `RequestsCanMove` needs. Each step of the router's own, its death above all, moves the
handler that waits for it in the same step. `RequestsAdvance` is to `RequestsEnd` what `ItemsAdvance` is to
`BatchEnds`: the demo fallback, the routed address and the one found when the router dies are used one after the
other and none a second time.

`BatchJobsProofs`, for any batches, any positive number of items and of polls
(`BatchJobsAssumption`):

| Theorem | Says |
|---|---|
| `JobsTyping` | `JobsSpec => []JobsTypeOK` |
| `ToldIsSo` | `JobsSpec => []ToldAgrees` |
| `ImplementsPromise` | `JobsSpec => KeepsPromise`, the refinement of `BatchPromise` |
| `RecordsAreSo` | `JobsSpec => []RecordsAgree` |
| `PolledEndIsSettled` | `JobsSpec => PolledEndSettles` |

What a client was told stays true because the status in `JOBS` agrees with the output too, and the
output stands once Ray is done (`JobInv`). `ImplementsPromise` adds that a client still polling has heard
of no end, and that a job that succeeded is called failed only on an output that could be read; so what
it hears is the outcome of its job, once. The records are true because an upload in flight was made from an
output that could be read to its end, and is of the kind its line says (`RecordInv`).

`OperationsProofs`, for any finite set of workers, any list of expected nodes without repetition
(`ExpectedAssumption`), any target, configuration and positive number of checks:

| Theorem | Says |
|---|---|
| `OneRespawn` | `OpSpec => []OneRespawnPerOutage` |
| `DrillHadOutage` | `OpSpec => []PassNeedsOutage` |
| `RefactorTestsNewCode` | `OpSpec => PassTestsNewCode` |
| `CommandDoesAdvance` | `OpSpec => CommandAdvances`: every step of a command lessens what it has left |
| `OpTyping` | `OpSpec => []OpTypeOK` |
| `ViewMatches` | `OpSpec => []StatusMatchesReplica` |

`OneRespawnPerOutage` is inductive with the types of its counts and record. `PassNeedsOutage` needs that
a target seen out while the drill waits for it is in the history, and that "outage" is passed in
that phase only (`DrillInv`). `PassTestsNewCode` needs two facts about the cluster
(`ReplicasFollow`: a new configuration implies new files, a gateway replica with one has imported
them, and the replicas of a host that are not stopping are of one configuration) and one about the command (`StepsFollow`: when the test starts,
that configuration is the deployed one and those replicas are of it). `ViewMatches` needs only the types: the two functions that
look at a node's replicas rank their states alike, case by case. `CommandAdvances` gives the bound on a
command that `CommandEnds` rests on: twice the checks of `wait_healthy` and five steps, whatever raises,
with the rollback and its own wait after the first.

`JobsApiProofs`, for any programs, any positive limit, any window and a clock without end
(`JobsApiAssumption`):

| Theorem | Says |
|---|---|
| `WindowBounded` | `ApiSpec => []WindowBound` |
| `RefusalsAreForced` | `ApiSpec => RefusalsForced` |
| `ImplementsWindow` | `ApiSpec => KeepsWindow`, the refinement of `SlidingWindow` |
| `VerdictIsSo` | `ApiSpec => []VerdictHolds` |
| `ProgramsDoAdvance` | `ApiSpec => ProgramsAdvance`: every step of a program lessens what it has left |

Neither of the first two follows from the window alone, which forgets. `RateInv` says that the window is the end of
the history of admissions and that what it has let go is stale (`LetGoIsStale`); a request admitted
as the limit plus first then comes after a stale one, and at a refusal the whole window is the last
`Limit` admissions, the oldest of them in time. `ImplementsWindow` says both at once and more: because
the history is in the order of time (`InTime`), what is left when the list has been pruned from its
head is all there is of the history within the window (`KeptIsRecent`), so the code, which looks at the length of a
list, decides as if it counted.

`VerdictIsSo` needs that a terminal status, once on its way in a reply or seen by the program, is
that of its own job (`Knows`), and that a job that has ended stays so. `ProgramsAdvance`, the safety half of
`ProgramsEnd`, needs that an answer is on its way only to a program that asked, and that the polls
made never exceed `MaxChecks`.

Only model-checked: the liveness properties (`HealthyNodeReturns`, `DeadNodeLeaves`, `BatchEnds`,
`RequestsEnd`, `ProgramsEnd`, `CommandEnds`), since the prover has no rules for fairness here. For all of them but
the first the safety behind them is proved: what counts up or down, and for items and requests that
somebody has a move. The properties of the runs that expect a violation do not hold.

## Not modelled

- Time and latency as numbers: the p95 of a node is above its target or not; intervals and
  deadlines are timers that may fire. The metrics the router only reports are left out.
- Worker controllers (`*_worker.py`): a `start()` is a sequence of ssh commands without state;
  its outcome is in `RouterPool`.
- Of the end-to-end test, the traffic split (floating-point shares of counts read from logs); of
  `/v1/nodes`, names, identifiers and telemetry; the failover tester (ssh calls an operator types).
- Benchmark, single-request clients, dashboard, Terraform and shell scripts:
  linear scripts or presentation, nothing that interleaves.

## Plan

What is left: the names and identifiers of the node view.
