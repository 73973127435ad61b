# A TLA+ verification project for CHILL

CHILL serves machine-learning inference on edge devices. One process, the
ChillServer (`cmd/chill-server`), receives every inference request, queues it,
sends it to a native executor (a firstfloor actor in a Pod on an edge device),
answers the client and records what happened in an observation log that later
profiling and scheduling rely on. Around it, management registers and removes
Workloads, an observer follows the Pods, and operations move executors and
change the power mode of Nodes.

The correctness of the whole rests on one claim that is easy to state and hard
to keep: *the ingress owner always knows which requests an executor may still
execute*. Everything else - not overloading an executor, draining before a
removal or a power change, one final row per request, restarts that neither
lose nor repeat work - follows from it.

## Contents

| component | model | instances for TLC | configurations | proofs |
|---|---|---|---|---|
| ingress owner (with the client, observer, handler, log and shutdown it meets) | `Runtime` | `MCRuntime`, `MCRequests`, `MCLifecycle`, `MCAnswer` | `Requests`, `Lifecycle`, `Answer`, `UnknownExecutor` | `RuntimeProofs`, `RuntimeSafetyProofs`, `RuntimeControlProofs`, `RuntimeDrainProofs` |
| firstfloor actor | `FirstfloorActor` with `BatchPolicy` and `Subsequences`; `NativeExecutor` is its abstract specification | `MCActor`, `MCFirstfloorActor` | `Actor`, `ActorLive` | `FirstfloorActorProofs` |
| live channel | `LiveHub`, `LiveMetrics` | `MCLive` | `Live` | `LiveMetricsProofs` |
| Workload manager | `Manager` | `MCManager` | `Manager` | - |
| reservation ledger | `Reservation` | `MCReservation` | `Reservation`, `ReservationLeak` | `ReservationProofs` |
| observation log | `ObservationLog`; `RequestLedger` is its abstract specification | `MCObservationLog` | `Log` | - |
| Node actuator | `PowerMode` | `MCPowerMode` | `Power` | `PowerModeProofs` |

`PROJECT.json` holds the components, runs, mutants, the map from definitions to
source lines, findings, hazards and theorems.

## Inventory

Paths are relative to the repository.

| component | state | operations | interacts with |
|---|---|---|---|
| Runtime (`internal/serving/runtime.go`) | `workloads` (definition, queue, calls, route, stopped, detached), `instances` (readiness, fence, bindings, outstanding), `calls`, `finalizing`, latch of the log's failure, all under `mu` | Receive, Accept, Wait, Response, dispatch, execute, ObserveBackend, ConfirmInstanceStopped, DisableInstance, InstallInstances, RetirePod, DetachNode, publish, OpenAdmission, ResumeAfterRestart, StopAdmission, Drain, Detach, Forget, BeginShutdown, Shutdown, JoinExecutions, NewRuntime | handler and manager call it, the observer feeds it, it calls the log and, through the client, the executors |
| Routing overrides (`runtime_scheduler.go`) | `routeTargets` | enable, apply, release, stop and detach an instance | scheduler service; rewrites routes |
| Inference handler (`internal/serving/httpapi/handler.go`) | one goroutine per request | infer | Receive, Accept, Wait, Response |
| Native client (`internal/serving/firstfloor/client.go`) | none | Probe, Execute | firstfloor actors over HTTP |
| firstfloor actor (`internal/firstfloor`) | its queue and running batch | submit, expire, start and finish a batch, state | serves the client |
| Observer (`internal/serving/kube/observer.go`) | `sources`: last observation, containers, log follow per Pod; moving Nodes | Refresh, probe, publish, watch, follow logs, begin and clear a Node move, retire | Kubernetes, client, Runtime |
| Observation log (`internal/serving/observation`) | FIFO of batches, open rows, failure, run marker, archive | submit, RequestClosed, Drain, Flush, Close, startRun, RuntimeFacts | Runtime; files and object store |
| Manager (`internal/serving/management`) | phase of every Workload | Initialize, Advance, apply, remove | Kubernetes, Runtime |
| Operations (`internal/serving/operations`) | operation records, reservations | prepare, remove, route, change power | observer, Runtime, Kubernetes |
| Scheduler (`internal/serving/scheduler*.go`) | plans, credits | plan, replay, SmoothWeightedRoute | application services |
| Live hub (`internal/serving/live/hub.go`) | sequence, history, subscribers | Publish, Subscribe, Resume, Next | WebSocket clients, the dashboard's reducer |
| Live metrics (`internal/serving/live/metrics.go`) | one-second buckets, pending gaps, power membership | RequestEvent, PowerSample, Gap, UpdateScope, Flush | request and power callbacks, the hub |
| Node actuator (`internal/nodeactuator`) | Node annotations | Reconcile | host, Kubernetes |
| Profiler, evaluation, operator, query API, evidence store, catalogs, CLI, dashboard, runners | Kubernetes objects or none | reconcilers, views, tools | - |

What is hard here, in the order in which it matters:

1. **Interleaving.** A request's handler, its execution goroutine, the
   dispatcher, the log follower, the pod watch, the refresh loop and management
   meet in `Runtime.mu`; several operations release it in the middle (for the
   log, for a barrier, for the input's validation) and check again.
2. **Evidence arrives out of order.** That an executor finished a request may
   be learned from the exchange, a log line, the container's end, or a read of
   the actor's state that does not mention it, in any order, and each may be
   older than what the runtime already knows.
3. **Crashes.** Executors survive the process. An exchange starts when its row
   is queued for the log, before it is on disk.
4. **Limits and liveness.** Bounded queues and slots, a reply channel with one
   place, deadlines, a log that may fail for good.

What makes each part correct: the ingress owner's slot counts match what the
executors hold; every waiter is answered exactly once; a final row is true and
unique; nothing is removed that still executes or still has to be written;
nothing is dispatched to an executor that is not known to be free; a restart
trusts exactly what the log proves. An actor ends every request it admits
exactly once and says "complete" only of what it no longer holds. The log loses
no row before a barrier and marks a run clean only when it is. A dashboard shows
the state of its checkpoint and is told what it misses; a published second
counts what came in time. An open Workload runs the definition its status names,
and a deleted one leaves nothing behind. A reserved Node is given back only when
nothing writes there. The actuator reports a mode only when it read it back.

`PROJECT.json` lists every component and, under `hazards`, each place in the
code where one of these can go wrong, with the property that would show it.

## The models

### Runtime

One variable per kind of object:

| variable | code |
|---|---|
| `call[r]` | the `Call` of request `r`, the position of its handler (`at`) and of its execution goroutine (`exec`), and what `unlock` still has to do for it (`close`) |
| `wl[w]` | `runtimeWorkload`; `reg` tells whether it is in `workloads`, `restartDrain` that its reason is `RestartDrain` |
| `ins[i]` | `runtimeInstance`; `fenced` is `RecoveryUnknown`, `drained` the reason `NodeDrained` |
| `src[i]` | the observer's `nativeSource`: the last published observation and a probe in progress |
| `row[r]` | the request's assigned and final rows: none, in the log's memory, on disk, or (final) late, marked in a log that failed |
| `srv` | the process: recovery's `Unknown`, `observationError`, `shuttingDown`, `executionsStopped`, `finalizing` |
| `op[t]` | an operation that spans several lock sections, for the manager, the observer and the shutdown |
| `mu` | `Runtime.mu`: free, or held by a section that is in the dispatch loop |
| `client`, `phys`, `alive` | the environment: client gone or late, what the executor did with a request, running containers |

Every lock section is one action. `dispatchLocked`, which ends most of them, is
a loop with a choice of executor; it keeps `mu` at `"dispatch"` until its last
iteration, so that nothing else happens in between. Operations that wait for
the log between two sections are two actions (`DetachBegin`, `DetachEnd`); the
barrier is the set of rows that were in memory at the first (`op[t].bar`), and
the second needs them on disk. `unlock` is the section, then `RequestClosed`
outside the lock, then `Finalized` in a section of its own.

Abstractions, and why they are sound for the properties:

- Receipts resolve a name to a UID; the model starts from the UID. A UID is
  registered at most once, because Forget follows the confirmed deletion of the
  Kubernetes object. A definition is reduced to its identity and to the model
  and preprocessor it executes (`Contract`).
- A Pod's applied routing names at most one Workload (`sourceSpec` refuses
  more) and may change between two probes: `Routing[i]` is the set it is taken
  from. Weights and the credits of `SmoothWeightedRoute` are left out: any
  available executor may be chosen. Scheduler overrides (`routeTargets`) and the
  separate flag `Stopped` are not modelled yet.
- Rejections that depend on data (input, dataset, evidence, heap) may always
  happen.
- A retired executor never returns: identities are Pod UID and container ID. The
  profile annotation of a Pod does not change, so the branch
  `ConditionChangedBeforeDrain` cannot be taken. The loop of
  `installInstancesLocked` that attaches a call again to an executor cannot find
  one, since a call loses its executor only when `backendDone` holds.
- `Drain`'s own second check is part of the section that follows it in `Detach`
  and `Forget`, which repeats it.
- `observer.mu` is held across `RetirePod` and `DetachNode`, hence the guard
  `op["obs"] = Idle` of the observer's actions. The first refresh precedes the
  manager's initialization (`srv.up`).
- Handlers that entered before the shutdown began may still reach `Receive`.
- Once its exchange has ended, a request no longer reaches the executor. The
  design accepts the residual of a request buffered in an old socket
  (`docs/design/serving/observability-split.md:118-122`).
- `recovery.Unknown` is set by a missing or unclean marker and stays until
  cleared by operators, across clean exits. After a failure the log takes no new
  row, but the retries of `Flush` and the final `Close` may still write the old
  ones, and `Close` then leaves a clean marker.

`Env` selects, per run, which events of the environment may happen: `refuse`,
`break` (an exchange), `leave`, `expire` (a client), `exit`, `disable`,
`evidence`, `retire`, `node` (executors), `write`, `logfail` (the log; without
`write` the writer is merely slow), `stop`, `detach`, `forget`, `republish`
(management), `crash`, `shutdown`. It only ever removes behaviours whose effect
another run covers, to keep each run exhaustive.

### NativeExecutor, BatchPolicy, FirstfloorActor

`NativeExecutor` states what the ingress owner relies on an executor for, with
three sets of requests: held, over and told. It is what `Runtime` assumes in its
actions `NativeAdmit`, `NativeFinish` and `NativeExit`.

`BatchPolicy` is `policy.go` as operators: deadlines, order, feasibility, and
the choice of a batch (`ChooseBatch`). Service times are a parameter; a profile
without support costs `Never`. `Subsequences` is what `slices.DeleteFunc` and
the removal of a prefix leave of a slice, defined by positions instead of
recursively so that it can be reasoned about.

`FirstfloorActor` is `schedulerActor` with its HTTP handlers and its runner:

| variable | code |
|---|---|
| `now` | the clock |
| `req[r]` | the handler of `r` (`at`), its context, what its result channel got (`sent`), its progress line and what the client was told (`answer`) |
| `queue`, `deferred`, `active`, `batch` | the lists of `schedulerActor`, and how the running batch was chosen |
| `act` | the loop: its position in the turn, `queuedBytes`, the policy it runs, its timer |
| `runner` | the runner process and the exchange with it |

A turn of the loop is `ExpireQueued`, then `StartBatch`, then one receive of the
`select`. The loop reads the clock once per turn, so the clock stands still
until the turn ends; handlers, clients and the runner move at any moment. `Env`
names the faults a run allows (`cancel`, `error`, `exit`, `term`). The pipe
protocol is reduced to what it may answer.

### LiveHub and LiveMetrics

`LiveHub` is the hub, the connection handler and the dashboard's reducer
together: `hub` (sequence, state, ring), `conn[c]` (socket, subscription and its
queue), `view[c]` (the reducer). The state is a function of a few parts to small
values; the time of a frame is the incarnation of the hub, because a resume only
uses it to tell frames of two processes apart.

`LiveMetrics` is the window of one-second buckets: callbacks arrive late and out
of order, `Flush` publishes what is dirty and closes what left the window, and
`FlushFails` is a flush that the hub refuses in the middle. Counts and the
validity of power samples are kept, latencies and watts are not. `truth` is
history: what callbacks were accepted, what came too late, what was reported. A
scope's name carries the prefix `workload:` or `node:` in the code, hence the
assumption that Workloads and Nodes are disjoint.

### Manager

One mutex serialises the handlers of the manager, but a handler is a sequence of
effects on three places that fail separately: the Workload object in Kubernetes
(`store`, `cat`), the runtime's definition and gate (`rt`), and the observation
log (`retained`). `job` is the rest of the handler that holds the mutex, one
effect per step, so that failures, lost answers and crashes fall between any
two. Left out: dataset operations, the deletion of models by preprocessor target
and the admission status. The runtime's preconditions are those of `Runtime`.

### Reservation

The reservation ledger of admitted targets. `ledger` has the parent run of each
owner and the run of each action with its reserved Nodes, Pods and containers;
`exec[a]` is the goroutine that executes an action outside the lock; `pod` is
what Kubernetes and the executors are, `seen` what the last observation read;
`pc` and `todo` are the tick. There is one Workload, and a Pod, its slot and its
container are one instance. Left out: routing weights, power, resizing,
cancellation, the intermediate route to a ready subset, manual operations and
reset.

### ObservationLog and RequestLedger

`RequestLedger` is the promise: a request is unknown, assigned or final; the
process knows at least what storage holds; what is stable is never lost, and a
crash loses at most what was not stable.

`ObservationLog` is the storage: producers submit frozen batches (`mem.queue`)
under one lock, one worker writes and syncs them in order, a flush drains,
archives and removes past hours (`fl`), a reader captures a prefix (`rd`), and
the process or the machine crashes. `disk` and `synced` separate what was
written from what survives the machine. Two streams (catalog, requests) stand
for the six, one hour is a segment, a request enters at its assignment, and a
row torn by a crash counts as not appended because recovery truncates it.

### PowerMode

One Node: the writer's request on the Node object, the agent's pass (read the
informer's copy, read the host, perhaps change it, patch the Node without a
resourceVersion), the Jetson and the NVIDIA clock adapters. Between these steps
the writer requests again, people change the host, the agent crashes and the
machine reboots. `Cached` selects whether the informer may lag. `DoneReadsBack`
is checked without the lag, because a patch from a stale copy may combine with
a newer request; the runs about restarts and about progress have the lag.
`RestartsOnce` needs `KubeletFirst`: after a boot the kubelet publishes the new
boot ID before the agent reads it.

## What the runs check

A run is one configuration of one `MC` module. Most `MC` modules choose one of
several *scenes* in the initial state, each an instance of the same module with
its own constants; a scene removes disturbances that another scene covers, so
that each is exhaustive. A run's property is a conjunction of named parts, each
in the scenes that endanger it; the parts are defined and explained in the
modules themselves.

| run | scenes | what it shows | distinct states |
|---|---|---|---|
| `Requests` | flow, crash | two requests for one place and one slot, queuing and expiring, or over a crash and a boot: types, one reply, every waiter served, true and unique final rows, slots and what an executor holds accounted for | 664,765 |
| `Lifecycle` | drain, restart, shutdown, executors, dedicated, choice | management, a drain after a crash, a shutdown whose log may fail, lost executors, routing to shared and dedicated executors: the counts are right, what is reported drained is quiet, a request runs on the model it was accepted for, success of a shutdown is complete, assignments go to ready executors | 785,494 |
| `Answer` | answer, slots | every received request is answered, every slot comes back | 51,979 |
| `UnknownExecutor` | - | expected violation, see below | - |
| `Actor` | defer, drop, faults, fixed, trials | the actor under each policy and with each fault: lists within their limits, one true result per request, batches the policy may start, no admission after cancellation, `NativeExecutor` implemented | 2,192,587 |
| `ActorLive` | exit, stop | every admitted request ends, every handler returns | 40,030 |
| `Live` | slow, restart, limit, catchup, buckets, pool, seconds | a dashboard shows the state of its checkpoint and is told what it misses; published seconds are complete; readers catch up, every second is published | 1,250,420 |
| `Manager` | group, life, end | shared updates, the life of a registration, operations that end, with lost and failed calls and a crash between any two effects | 1,023,159 |
| `Reservation` | two, one | owners, ticks, executions and a deletion in any order: responsibility is kept, Nodes come back | 70,064 |
| `ReservationLeak` | pair | expected violation, see below | - |
| `Log` | fail, crash, removal, answer | failures and retries, crashes of process and machine, removal under a reader, waiters: a clean marker is true, archived hours are complete, captures show what was acknowledged, `RequestLedger` implemented, callers answered | 584,828 |
| `Power` | jetson, restart, clock, end | a settled mode was read back, one restart per request, the record precedes the change, requests end | 1,882,624 |

**Bounds.** They are named by the constants of each module and set in the `MC`
module or configuration. Requests of the ingress owner interact only through a
place in a queue, a slot, and the drain checks: two requests and one of each let
one wait behind, take over from or be confused with another. A second boot is
enough because a boot keeps nothing of its predecessor but the log's rows and
the sticky uncertainty. The actor has three requests of two queue keys and
profiles of sizes one and two, so a batch can be filled, waited for and refused.
The hub's ring and queues hold two or three frames against three or four
published ones, so every limit is passed. The metrics window is one second of
three or four. A Workload is registered twice under one name. Two owners compete
for one Node. The log goes through three processes and three hours. The
actuator sees two requests and, for the clocks, three modes. `QueueLimit`,
`MaxBoots` and the constants called `Max...` are the only bounds on counters.

**Deadlock** is checked in the runs of the ingress owner, where the observer can
always publish its ledger again. The others say `CHECK_DEADLOCK FALSE`, because a
bound (of the clock, of requests, operations, frames or hours) ends a behaviour.

**Fairness.** Go runs every runnable goroutine and its mutex hands over to a
waiter that has starved for a millisecond. So lock sections that compete have
strong fairness, steps outside have weak fairness.

- `Runtime`: the handler always sets a deadline; an actor finishes what it holds
  or its container exits; the kubelet reports exits; the observer polls and
  follows logs for ever. Nothing is assumed of clients, management, the log's
  writer, an exchange that nobody canceled, or the executors' answers.
- `FirstfloorActor`: the loop, its select (strong: Go's select is random among
  ready channels), the runner's answer and the clock. Clients, errors and exits
  are not fair.
- `LiveHub`, `LiveMetrics`: a client's own steps (connect, resume, receive) and
  the hub's answer; the ticker and the flush. Publication is not fair.
- `Manager`: the handler that holds the mutex, the polled `Advance` of each
  Workload, the ends of calls, of executors and of deletions in Kubernetes.
- `Reservation`: the tick, and the ends of executions, which have a deadline.
- `ObservationLog`: the worker and the flush loop.
- `PowerMode`: a pass that runs, the informer, the kubelet, the start of an agent
  that is down, the clock. Failures, people, crashes and reboots are not fair,
  and each is bounded.

Fairness of a scene is fairness of its actions while the scene is that one.

**Mutants.** For every property of a run `PROJECT.json` names a changed
definition, kept beside the one it changes, under which TLC finds that property
violated: a dropped guard, a missing reset, a swapped order. Each named part of
a bundled property has such a changed definition in its module as well.

**Refinements.** `FirstfloorActor` implements `NativeExecutor` with held, over
and told computed from its lists, results and progress lines (checked in
`Actor`, proved in `FirstfloorActorProofs`). `ObservationLog` implements
`RequestLedger` with the stage the process would report and the stage that
survives every crash (checked in `Log`).

### Known disagreements

Two have a run that ends in a counterexample.

- `UnknownExecutor`. `docs/design/serving/observability-split.md:637-638` says
  that "Registration-wide drain/detach/forget still retains every affected
  unknown executor". The code knows which Workloads an unknown executor affects
  from its bindings, owner, routing and profile (`drainedLocked`), but the ledger
  drops routing and profile while the profile evidence is not current
  (`publishLedger`). The trace: a request reaches a shared executor, the process
  crashes before its assigned row is on disk, the restarted process finds the
  executor without evidence, and detaches the Workload while the executor still
  holds the request. With current evidence the promise holds (`Lifecycle`, scene
  restart).
- `ReservationLeak`. `docs/design/serving/scheduler-implementation.md:207` says
  that responsibility "returns by whole exact node after a strictly newer
  observation". A tick gives back the Nodes it has seen settled before it binds
  new containers to their owner; a container that appears in between joins a
  reservation whose Node is already gone, which never ends. It takes an owner
  that prepares on two Nodes; with one Node `NodesComeBack` holds.

The others are properties of the modules that the code does not have, defined
and commented where they stand, and checked by no run:

- `Manager.GoneIsForgotten` (`manager.go:725`): when the patch that removes the
  finalizer takes effect and its answer is lost, the proof of the deletion is
  not kept and the registration stays until a restart.
- `Manager.ReservedIsDeleting` (`manager.go:603`): a deletion whose object could
  not be deleted fails and keeps its reservation; a later update completes and
  opens the Workload, for which no executor can be started any more.
- `Manager.RestartDrains` (`runtime.go:883`): an update without drain after a
  restart replaces the reason `RestartDrain`, so that `OpenAdmission` no longer
  waits for the calls that survived the restart.
- `ObservationLog.RestoredHasNoFinal` (`observation_log_archive.go:79`): a crash
  between the removal of an hour's files leaves an assigned row on disk whose
  final row is only in the archive, and the next boot drains it again.
- `PowerMode.FailedIsTerminal` and `EveryChangeCounts` (`power_mode.go:63`): a
  pass that starts from a copy older than its own last patch (only then, see
  `FailureIsTerminal`) applies a failed request again, or counts a change with a number it already gave.
- `PowerMode.VerifiedIsInEffect` (`nvpmodel.go:165`): a mode recorded by
  `--force` reads back before the boot that puts it in effect.
- `LiveMetrics.PoolNeedsStableScope`: a second's pool sum uses the membership of
  its first callback although it changed within the second.

## Proofs

Eight modules hold theorems, proved for every value of the constants. What is
assumed is the named `ASSUME` of each module (`ConstantsAssumption`,
`ReservationAssumption` with `RemoveAssumption`, `ActorAssumption` with
`PolicyAssumption`) or the
hypothesis `MetricsAssumption` (`PowerModeAssumption`) of each theorem of
`LiveMetricsProofs` (`PowerModeProofs`), which `MCLive` (`MCPowerMode`) evaluates
for its instances. They say what the code's configuration guarantees: positive
limits, finitely many requests, ordered profiles, run IDs that differ, a remove
planned after every stop.

| module | theorems |
|---|---|
| `RuntimeProofs` | `TypeCorrect`, `RepliesOnce`, `WaitersServed` |
| `RuntimeSafetyProofs` | `FinalRowOnce`, `FinalRowTrue`, `SlotsCounted`, `HeldOwned`, `CapacityKept` |
| `RuntimeControlProofs` | `OnlyReadyAssigned`, `ContractRespected`, `RowsCounted` |
| `RuntimeDrainProofs` | `ShutdownWritten`, `NodeLeftQuiet`, `DetachedIsDone` |
| `FirstfloorActorProofs` | `Invariant`, `ListsKept`, `AnswersAreTrue`, `AdmissionInTime`, `Refinement`, `BatchesAreRight`; before them lemmas on subsequences and on the batch choice |
| `PowerModeProofs` | `TypeCorrect`, `SettledIsReadBack`, `FenceIsFirst`, `FailureIsTerminal`, `RestartedOnce` |
| `ReservationProofs` | `TypeCorrect`, `NodesOwned`, `DeletionIsAlone`, `NothingIsLeft` |
| `LiveMetricsProofs` | `Invariant`, `Counted`, `LateReported`, `GapsPublished`, `PoolSampled`, `NothingTakenBack` |

Every one follows from an inductive invariant that TLC checked first on the runs
above. A proof has a lemma per action or group of actions, one step per part of
the invariant, and lemmas about the operators before them.

### Ingress owner: replies and waiters

`TypeOK` is not inductive: a boot builds Workloads and bindings from rows, so an
assigned row has to name a Workload. `ReplyOnce` needs that nothing is queued
and executing at once and that a queued call has no reply yet, which needs that a
queue holds a call at most once and only of its own Workload. The invariant is
`TypeOK /\ ServedInv`, where `ServedInv` has

- `CallsInv`, about one call: before it is accepted nothing executes, answers or
  records it; it is closed only after its handler recorded the response; it has
  at most one reply, and none while its execution runs;
- `QueuesInv`: no repetitions, each queued call is waiting, unassigned and of
  that Workload, and only a registered Workload has a queue;
- `WaitersInv`: a waiting call is queued, running or answered.

### Ingress owner: rows, slots and what executors hold

`SafeInv` is added to these, and the three are inductive together:

- `CallsSafe`, about one call, its request at the executor and its rows: what is
  sent, running, finished or closed. `FinishedCall` says what `backendDone`
  proves for good: the executor does not hold the request, and a call that may
  still be sent goes to a container that has ended. That case is real: a
  container's end can be known before the execution goroutine starts;
- `SlotsInv`: `outstanding` is the number of calls whose `instance` is the
  executor, a ready executor is known and not fenced, and nothing is sent above
  the bound;
- `EndedInv`: a container that was seen to end has ended;
- `LostInv`: what an executor holds and no call owns belongs to an older boot,
  which the boot knows (`Unknown`); the executor is fenced, and every read of it
  shows the request. This is what a crash leaves behind, and why the fence is
  lifted only on evidence;
- `ReadInv`: a request whose exchange was over when a read began and that the
  read does not show is not held and never will be. `finishAbsentLocked`
  concludes from exactly that;
- `PhysicalCapacity` itself, with the requests of older boots in the count.

`FinalRowOnce` is an action property, from the same invariant. Counting steps
(a slot taken, given back, a loop over calls) are cardinality lemmas.

### Ingress owner: routes and finalizing counters

A dispatch reads a route that an earlier lock section computed. `OnlyReadyAssigned`
and `ContractRespected` say what that route is still worth, from `RoutingInv`:

- `RouteInv`: every routed executor is installed with its own profile, bound to
  the Workload by the routing of its Pod, and matches what is published now; every
  section that could break this ends in `rebuildLocked` (`RebuildRoutes`) or
  removes the route itself;
- `QueueContract`: what is queued was accepted for a definition with the contract
  published now (a publication that changes it waits for an empty queue), and
  `SentContract` carries this to the calls that are executing.

`RowsCounted` is about three counters that `unlock` raises in one section and
lowers in another, with anything in between. `CountInv` adds to the balance what
makes it inductive: a Workload that is not registered and was not forgotten has no
call but closed ones, and so has an executor that is not installed and was not
retired. Otherwise a call that started closing before would be taken off a counter
that never had it. A step closes nothing (`CountsFrame`), starts (`CountsClosing`)
or ends (`CountsClosed`) the closing of calls; the counts are cardinalities, for
any number of requests.

### Ingress owner: what is reported drained

`Shutdown`, `DetachNode`, `Detach` and `Forget` check in one lock section that
nothing is left, wait outside the lock until the log has written the rows in
memory, and check again in a second section before they report. Requests, probes,
publications and exits go on in between, and nothing repeats the barrier. `DrainInv`
says why one is enough:

- `RowsInv`, about one call and its rows: what has an assigned row is live or being
  closed; once closed it has its final row, which is held back only while the log is
  failed; what is live belongs to a registered Workload, and is not finished unless
  the log failed;
- `ShutdownInv`, `NodeInv`: between the two checks nothing executes for the calls
  concerned, each has its final row, and a row of theirs in memory is one the barrier
  waits for (`Waited`); after the report each is `Written`. What keeps this up is
  stated with it: the process is shutting down, the executors of the Node are not
  ready, and drained ones are outside the fence and on no route;
- `DetachInv`, the same for `Detach` and `Forget`, whose Workload is stopped.

Most steps begin and end no drain. `CalmStep` says what such a step may do: keep a
call `Still` or accept one that the process and its Workload admit, assign to ready
executors only, install executors only while no Node is drained, open Workloads only
while management drains none. One lemma per action shows that it is calm, and three
frame lemmas that a calm step keeps the invariants; the drains' own steps and the
boot have lemmas of their own. The counters enter through `RowsCounted`'s invariant:
a drain reads them, and an empty set is what a zero counts.

`ShutdownWritten` and `NodeLeftQuiet` have no hypothesis. `DetachedIsDone` has two.
Admission was stopped before the first check (`StopsFirst`): `Detach` and `Forget`
check `stopped` only in the second section, and a request that came and went between
the two could have left its row in memory. The Workload manager, their only caller,
calls `StopAdmission` first (`manager.go:576`, before 711, 756 and 793); a boot
restores Workloads stopped. And no older
boot left executors unconfirmed (`~srv.unknown`), because what those hold may have no
row: that is the disagreement shown by `UnknownExecutor`.

### The actor and its abstract executor

Slices are defined by positions (`Subsequences`), and the lemmas count positions
(`Rank`) where a recursive definition would need induction: range, order and
length of what is kept. The next lemmas show for every snapshot that a choice
that names a request names a waiting one, that an energy batch is feasible for
each of its members, and that a fixed batch has its size. The inductive invariant
of the actor is `TypeOK /\ QueueBounds` with

- `ProgressInv`: the progress line of a request says which list it is in;
- `HeldInv`: what the actor holds has no result, and its handler waits or left
  without an answer;
- `SentInv`: a handler that waits for what is not held has its result; nothing is
  sent to a handler that did not offer;
- `DistinctInv`: no list repeats a request; `TurnInv`: a batch is chosen only while
  none is active.

`QueueBounds` is about bytes; it needs `DistinctInv`, since a request counted twice
would be given back once. `Refinement` maps every action to an admission, an end,
a report or a stutter of `NativeExecutor`; `HeldInv` and `SentInv` make the end
final. `AdmissionInTime` is what the ingress owner's conclusion from a missing
request rests on, and closes the argument of `ReadInv` on the actor's side.

`BatchesAreRight` joins the two: `chooseBatch` examines the feasibility of requests
on a snapshot, `startBatch` takes some from the queue. `BatchInv` adds that the queue
is in the order of the SLO: `admit` inserts in that order, everything else only
removes. Then the first compatible requests of the queue are those that were examined
(`FirstIsExamined`), and each meets its SLO at the cost the batch was given.

### The published seconds

`IInv` of `LiveMetricsProofs` is the type invariant with

- `WindowInv`: a second before the window has no bucket, one that was flushed has
  a frame and, within the window, a bucket, and one without a bucket got nothing;
- `BucketsInv`: an open bucket is faithful, it holds what was accepted for its
  second and nothing else;
- `FramesInv`: a frame counts at most what was accepted, and exactly that when the
  bucket is clean; a pool sum stands on samples;
- `LateIsTold` and `GapsReported`.

`FlushFails` is the hard step: what was published before the hub refused is clean,
the rest stays dirty, and no gap is lost between the two.

### The power mode of a Node

The agent's pass is one read of the cached Node, one read of the host, commands,
and one patch without a resourceVersion over a Node that may have moved on. The
invariants therefore speak of three Nodes: the Node, the cached copy, and `After`,
the Node as the patch of the running pass will leave it. Two arguments share the
type invariant and the lemmas about patches.

`SettledIsReadBack`, `FenceIsFirst` and `FailureIsTerminal` have the hypothesis
`~Cached` (the copy is the Node), because with a lagging copy they are false, as
TLC shows for the last one. `SettledInv` says that the Node and `After` are
`Truthful` (the outcome done, with its generation, was taken from the read-back
beside it) and that a pass that changes the host is `Fenced`: the pending record of
its request is on the Node. The generation carries the argument: a read-back that
differs takes a new one, which ends done until it is settled again.

`RestartedOnce` allows the lag and needs `KubeletFirst`. `RestartInv` has

- `Lag`: the copy is at most one generation and one record behind, and is level with
  the Node from a boot until the first patch after it, which is the time when a stale
  copy could hide the boot;
- `PassLag`, `WorkLag`: the same for the pass in flight and its patch;
- `Coherent`: a pending record is fenced, and a record is never ahead of its Node;
- `Once(r)` for a request that was restarted for: Node, copy and `After` are each
  `Spent` (a boot, a generation or a later request came since the fence, or the mode
  is set in place), no pass is under way to a restart for it, and a mode recorded by
  `--force` without the restart belongs to a later request.

`DriveSpends` and `ReadBackSpends` are the hard steps: no decision of `drive`, made
on the copy and patched over the Node, takes away what keeps `r` spent. For the clock
adapter, which has no command that restarts, a small invariant suffices.

### The reservation ledger

`WritersCovered` speaks of executions outside the lock and of a ledger that ticks
change from an observation that may be older. It is not inductive: that a running
action's Nodes are reserved says nothing about who may reserve them next, nor what
is left when its owner ends. `CoverInv` has

- `RunsInv`: an action executes exactly while its run is active, and the run then
  reserves, owns and covers what it writes; an undo belongs to an owner that failed;
- `OwnersInv`: an active owner holds all its local Nodes; a failed one holds the Node
  of every drain and removal that is `Owed`, that is, whose stop has completed or *is
  still running* (a stop that completes after its owner failed makes a removal due,
  and by then the Node must not be gone); an owner that was seen returned has no
  Nodes left;
- `DisjointInv`: no Node is held by two owners; `DeletionInv`: a held deletion has no
  active run beside it.

A release (`CoverRelease`) keeps a Node that a running sibling or a removal still to
start writes, which is what `ownerNodeReturned` asks for. A judgement
(`CoverReconcile`) completes an owner only when no action of it runs, since an undo
needs a failed one. A sweep (`CoverSweep`) takes what conflicts with nobody, and
starts no stop for an owner that failed.

`NothingLeftBehind` is about Pods, which the ledger does not record: a tick decides
from `seen`, while executions and Kubernetes go on. Two more parts make it inductive.

- `ExecInv`: an execution starts from nothing, when all it depends on is done, and a
  run is complete only if its execution was good.
- `LeftInv`: every Pod that is neither gone nor serving has an action that `Explains`
  it. The action was started, its run is reserved and holds the Node, and it is the
  prepare that asked for the Pod and has not seen it serve (and does not know of its
  creation, while the answer is lost), or the stop that stopped it, none of whose
  removes has succeeded. While a release is due the explanation is also `Fresh`: the
  action runs, or ended since the observation began, or its creation is unknown, or
  the observation saw the Pod unsettled.

Each alternative of `Fresh` is one clause of `observedReturnParent` and
`ownerNodeReturned`, so that `LeftRelease` uses all of them: without any of these
guards a Node could be given back too early. `LeftReconcile` is where
`RemoveAssumption` is needed: an owner that completes gives everything up at once, and
it is complete only when the remove after each of its stops has succeeded. The
planner adds a drain and a remove for every stop it plans (`changeNodes`,
`retirePreparationBlocker` and `retireOld` in `scheduler_plan.go`), and the remove
depends on the stop through the drain or the power change. `RemoveWaits` turns that
into the fact that a remove has not started before its stop is done. `Precedes`
says "in every set of actions closed under dependencies", which needs no recursion.

### Only model-checked

- Liveness, under the fairness above, and everything that depends on `ENABLED`.
- What needs induction over data: `LiveHub` (bytes of a queue by a fold, replay),
  the fold in the log's `EnqueueClosing` and with it the refinement of
  `RequestLedger`.
- `DrainSound` of `Runtime` after a crash: the restart scene of `Lifecycle` shows it
  where the profile evidence stays current.
- The invariants of `Manager` and `ObservationLog`. These are in reach and not done
  yet.

## Plan

1. Proofs: the invariants of `Manager` and of the log.
2. The log's `EnqueueClosing` with any order of the closing rows, as Go's map
   iteration gives them, so that the refinement can be proved.
3. Scheduler overrides and the `Stopped` flag in `Runtime`; `SmoothRoute` (credits
   sum to zero, no starvation among available targets).
4. Node moves: is a Node quiet from `BeginNodeMove` to the power change, although
   `publishLedger` installs the last observation of its executors?
5. Manual operations and reset in `Reservation`; evaluation and campaign
   controllers as far as they are worth it.

## Not modelled

Planning, replay, derivations and other numerical code; catalogs and
compatibility (pure functions with table tests); queries, views, dashboard (but
for its live reducer) and CLI (read-only); reconcilers that apply manifests;
storage drivers; load tools and model runners. `PROJECT.json` gives the reason
for each. Four hazards have no property yet: the credits of
`SmoothWeightedRoute` (`scheduler.go:694`), overrides of queued requests' routes
(`runtime_scheduler.go:333`), the moving Node of `probeSource`
(`observer.go:564`), and the lost answer above (`manager.go:725`).

## Running

    tlc -workers 2 -config Requests.cfg MCRequests
    tlapm RuntimeProofs.tla

A run takes from seconds to about four minutes. From nothing, each of the four
modules about the ingress owner and the actor's takes two to six minutes to prove,
the others about one.
