------------------------------- MODULE Runtime -------------------------------
(***************************************************************************)
(* The ChillServer ingress owner (internal/serving/runtime.go): requests   *)
(* are received, accepted into a Workload's queue, dispatched to native    *)
(* executors up to their capacity, answered, and closed with one final     *)
(* row of the observation log.  Management publishes, opens, drains,       *)
(* detaches and forgets Workloads; the observer publishes executors and    *)
(* confirms their termination; the process may crash and boot again while  *)
(* the executors keep running.                                             *)
(*                                                                         *)
(* Runtime.mu protects everything but the observation log: an action that  *)
(* is one lock section needs mu = "free".  A section that ends in          *)
(* dispatchLocked leaves mu = "dispatch", and nothing else can take the    *)
(* lock until the dispatch loop has run to its end.                        *)
(***************************************************************************)
EXTENDS Naturals, Integers, Sequences, FiniteSets, SequencesExt

CONSTANTS
    Requests,      \* requests that clients may send
    Workloads,     \* Workload UIDs; a UID is registered at most once
    Instances,     \* physical executors (Pod UID / container ID)
    Nodes,         \* machines the executors run on
    Definitions,   \* identities of applied definitions
    None,          \* Go's nil
    QueueLimit,    \* RuntimeConfig.QueueLimit
    Capacity,      \* executor -> bound on assigned requests
    NodeOf,        \* executor -> machine
    Routing,       \* executor -> Workloads its applied routing may name
    Owner,         \* executor -> OwnerWorkloadUID, or None
    Contract,      \* definition -> model and preprocessor it executes
    ProfileOf,     \* executor -> model and preprocessor its profile measured
    Env,           \* environment events a run allows
    MaxBoots       \* bound on process starts

Threads == {"mgmt", "obs", "stop"}
Contracts == {Contract[d] : d \in Definitions}

ASSUME ConstantsAssumption ==
    /\ QueueLimit \in Nat \ {0}
    /\ MaxBoots \in Nat \ {0}
    /\ IsFiniteSet(Requests)
    /\ None \notin Requests \cup Workloads \cup Instances
                   \cup Definitions \cup Contracts
    /\ Capacity \in [Instances -> Nat \ {0}]
    /\ NodeOf \in [Instances -> Nodes]
    /\ Routing \in [Instances -> SUBSET Workloads]
    /\ Owner \in [Instances -> Workloads \cup {None}]
    /\ Contract \in [Definitions -> Contracts]
    /\ ProfileOf \in [Instances -> Contracts]

VARIABLES
    call,    \* Call, and the goroutines that serve it
    client,  \* the client's side of a request: gone, expired
    wl,      \* runtimeWorkload
    ins,     \* runtimeInstance
    src,     \* the observer's ledger entry and probe of an executor
    row,     \* a request's assigned and final rows in the observation log
    srv,     \* process-wide fields of Runtime and of the log's run marker
    op,      \* operation of several lock sections in progress, per thread
    mu,      \* Runtime.mu
    phys,    \* what happened to a request at its executor
    alive    \* executors whose container runs

vars == <<call, client, wl, ins, src, row, srv, op, mu, phys, alive>>

-----------------------------------------------------------------------------
(* State                                                                   *)

\* Position of the HTTP handler serving a request (Handler.infer).
Places == {"new", "received", "validated", "waiting", "respond", "done"}

\* Position of the goroutine running Runtime.execute.
Executions == {"none", "spawned", "exchanging", "complete", "broken",
               "unlogged", "over"}

CallType ==
    [at: Places, uid: Workloads \cup {None}, def: Definitions \cup {None},
     live: BOOLEAN, assignment: Instances \cup {None},
     instance: Instances \cup {None}, exec: Executions, sends: Nat,
     canceled: BOOLEAN, progress: BOOLEAN, transportDone: BOOLEAN,
     backendDone: BOOLEAN, responseRecorded: BOOLEAN,
     close: {"open", "closing", "rowed", "closed"}]

WorkloadType ==
    [reg: {"absent", "on", "forgotten"}, def: Definitions \cup {None},
     stopped: BOOLEAN, restartDrain: BOOLEAN, detached: BOOLEAN,
     route: SUBSET Instances, queue: Seq(Requests), finalizing: Int]

InstanceType ==
    [known: BOOLEAN, ready: BOOLEAN, terminated: BOOLEAN, fenced: BOOLEAN,
     drained: BOOLEAN, profile: Contracts \cup {None},
     routing: Workloads \cup {None}, bindings: SUBSET Workloads,
     outstanding: Int, finalizing: Int]

\* probe: a native state read in progress; ended and held are what its start
\* and its answer saw.  The other fields are the last published observation.
SourceType ==
    [probe: {"idle", "begun", "read"}, newEnded: SUBSET Requests,
     newHeld: SUBSET Requests, ready: BOOLEAN, verified: BOOLEAN,
     ended: SUBSET Requests, held: SUBSET Requests,
     routing: Workloads \cup {None}, evidence: BOOLEAN, terminated: BOOLEAN,
     retired: BOOLEAN]

OpType ==
    [kind: {"idle", "publish", "open", "resume", "detach", "forget",
            "retire", "node", "shutdown"},
     target: Workloads \cup Instances \cup Nodes \cup {None},
     def: Definitions \cup {None}, bar: SUBSET Requests]

ServerType ==
    [boots: Nat, up: BOOLEAN, unknown: BOOLEAN, failed: BOOLEAN,
     shuttingDown: BOOLEAN, executionsStopped: BOOLEAN,
     drained: BOOLEAN, finalizing: Int]

ClientType == [gone: BOOLEAN, expired: BOOLEAN]

\* mem: queued for the writer; late: closed after the log failed, queued by the
\* next retry.
RowType == [assigned: {"none", "mem", "disk"},
            final: {"none", "late", "mem", "disk"}]
PhysType == [st: {"away", "held", "ran", "over"}, at: Instances \cup {None}]

NewCall ==
    [at |-> "new", uid |-> None, def |-> None, live |-> FALSE,
     assignment |-> None, instance |-> None, exec |-> "none", sends |-> 0,
     canceled |-> FALSE, progress |-> FALSE, transportDone |-> FALSE,
     backendDone |-> FALSE, responseRecorded |-> FALSE, close |-> "open"]

NewWorkload ==
    [reg |-> "absent", def |-> None, stopped |-> FALSE, restartDrain |-> FALSE,
     detached |-> FALSE, route |-> {}, queue |-> <<>>, finalizing |-> 0]

NewInstance ==
    [known |-> FALSE, ready |-> FALSE, terminated |-> FALSE, fenced |-> FALSE,
     drained |-> FALSE, profile |-> None, routing |-> None,
     bindings |-> {}, outstanding |-> 0, finalizing |-> 0]

NewSource ==
    [probe |-> "idle", newEnded |-> {}, newHeld |-> {}, ready |-> FALSE,
     verified |-> FALSE, ended |-> {}, held |-> {}, routing |-> None,
     evidence |-> TRUE, terminated |-> FALSE, retired |-> FALSE]

Idle == [kind |-> "idle", target |-> None, def |-> None, bar |-> {}]

TypeOK ==
    /\ call \in [Requests -> CallType]
    /\ client \in [Requests -> ClientType]
    /\ wl \in [Workloads -> WorkloadType]
    /\ ins \in [Instances -> InstanceType]
    /\ src \in [Instances -> SourceType]
    /\ row \in [Requests -> RowType]
    /\ srv \in ServerType
    /\ op \in [Threads -> OpType]
    /\ mu \in {"free", "dispatch"}
    /\ phys \in [Requests -> PhysType]
    /\ alive \in SUBSET Instances

Init ==
    /\ call = [r \in Requests |-> NewCall]
    /\ client = [r \in Requests |-> [gone |-> FALSE, expired |-> FALSE]]
    /\ wl = [w \in Workloads |-> NewWorkload]
    /\ ins = [i \in Instances |-> NewInstance]
    /\ src = [i \in Instances |-> NewSource]
    /\ row = [r \in Requests |-> [assigned |-> "none", final |-> "none"]]
    /\ \E unknown \in BOOLEAN :
         srv = [boots |-> 1, up |-> FALSE, unknown |-> unknown,
                failed |-> FALSE, shuttingDown |-> FALSE,
                executionsStopped |-> FALSE, drained |-> FALSE,
                finalizing |-> 0]
    /\ op = [t \in Threads |-> Idle]
    /\ mu = "free"
    /\ phys = [r \in Requests |-> [st |-> "away", at |-> None]]
    /\ alive = Instances

-----------------------------------------------------------------------------
(* Lock, routes and bindings                                               *)

Free == mu = "free"

\* dispatchLocked returns at once after a stop or an observation failure.
Dispatching(s) ==
    IF s.executionsStopped \/ s.failed THEN "free" ELSE "dispatch"

\* profilePath(d, p) # nil.
Matches(d, p) == d # None /\ p # None /\ Contract[d] = p

\* routeWeightLocked > 0: the one Workload the Pod's applied routing names, as
\* the last published probe found it.
Weighted(I, w, i) == I[i].routing = w

\* The calls of Runtime.workloads[w].calls.
CallsOf(C, w) == {r \in Requests : C[r].live /\ C[r].uid = w}

\* pruneInstanceBindingsLocked keeps w on executor i.
KeepsBinding(C, W, I, w, i) ==
    \/ /\ W[w].reg = "on"
       /\ \E r \in CallsOf(C, w) : C[r].assignment = i /\ ~C[r].backendDone
    \/ I[i].fenced
    \/ W[w].reg = "on" /\ ~W[w].detached /\ Matches(W[w].def, I[i].profile)

Prune(C, W, I) ==
    [i \in Instances |->
        [I[i] EXCEPT !.bindings = {w \in @ : KeepsBinding(C, W, I, w, i)}]]

\* Mutant: a dedicated executor serves every Workload.
RouteOfForeign(W, I, w) ==
    {i \in Instances :
        /\ W[w].reg = "on" /\ ~W[w].detached
        /\ I[i].known /\ I[i].ready /\ ~I[i].fenced /\ ~I[i].terminated
        /\ Weighted(I, w, i) /\ Matches(W[w].def, I[i].profile)}

\* rebuildWorkloadRoutesLocked: the executors w's samples may go to.
RouteOf(W, I, w) ==
    {i \in Instances :
        /\ W[w].reg = "on" /\ ~W[w].detached
        /\ I[i].known /\ I[i].ready /\ ~I[i].fenced /\ ~I[i].terminated
        /\ Weighted(I, w, i) /\ Matches(W[w].def, I[i].profile)
        /\ Owner[i] \in {None, w}}

\* rebuildLocked: prune, recompute every route, bind the routed executors.
Routed(C, W, I) ==
    LET P == Prune(C, W, I)
    IN  [w \in Workloads |-> [W[w] EXCEPT !.route = RouteOf(W, P, w)]]

\* Mutant: a route does not bind its executor.
BoundNot(C, W, I) == Prune(C, W, I)

Bound(C, W, I) ==
    LET P == Prune(C, W, I)
    IN  [i \in Instances |->
            [P[i] EXCEPT !.bindings =
                @ \cup {w \in Workloads : i \in RouteOf(W, P, w)}]]

Rebuild(C, W, I) == wl' = Routed(C, W, I) /\ ins' = Bound(C, W, I)

-----------------------------------------------------------------------------
(* Ownership: releaseLocked, closeLocked                                   *)

\* Mutant: an ended transport alone ends the ownership.
SettledEarly(c) == c.transportDone

\* Physical ownership ends when neither the executor nor the transport can
\* still act for the call.
Settled(c) == c.backendDone /\ c.transportDone

Closes(c) == Settled(c) /\ c.responseRecorded

\* Mutant: the call keeps pointing at its executor.
ReleaseKeepsInstance(c) ==
    IF Closes(c) THEN [c EXCEPT !.live = FALSE, !.close = "closing"] ELSE c

\* releaseLocked's effect on the call itself.
ReleaseLocked(c) ==
    CASE Closes(c)  -> [c EXCEPT !.instance = None, !.live = FALSE,
                                 !.close = "closing"]
      [] Settled(c) /\ ~Closes(c) -> [c EXCEPT !.instance = None]
      [] OTHER      -> c

\* releaseLocked on every call of S, whose flags C already carries.
Released(C, S) ==
    [r \in Requests |-> IF r \in S THEN ReleaseLocked(C[r]) ELSE C[r]]

\* closeLocked counts a closing call on its Workload and its executor, if
\* those are still registered.
InstancesReleased(I, C, S) ==
    [i \in Instances |->
        [I[i] EXCEPT
            !.outstanding = @ - Cardinality(
                {r \in S : Settled(C[r]) /\ C[r].instance = i}),
            !.finalizing = @ + IF I[i].known
                THEN Cardinality(
                       {r \in S : Closes(C[r]) /\ C[r].assignment = i})
                ELSE 0]]

\* Mutant: closeLocked does not count on the Workload.
WorkloadsReleasedUncounted(W, C, S) == W

WorkloadsReleased(W, C, S) ==
    [w \in Workloads |->
        [W[w] EXCEPT !.finalizing = @ + IF W[w].reg = "on"
            THEN Cardinality({r \in S : Closes(C[r]) /\ C[r].uid = w})
            ELSE 0]]

ServerReleased(s, C, S) ==
    [s EXCEPT !.finalizing = @ + Cardinality({r \in S : Closes(C[r])})]

\* The common tail of a lock section that finished something for call r.
ReleaseAndDispatch(C, r) ==
    /\ call' = Released(C, {r})
    /\ wl' = WorkloadsReleased(wl, C, {r})
    /\ ins' = LET I == InstancesReleased(ins, C, {r})
              IN  IF C[r].backendDone THEN Prune(C, wl, I) ELSE I
    /\ srv' = ServerReleased(srv, C, {r})
    /\ mu' = Dispatching(srv)

-----------------------------------------------------------------------------
(* The request handler: Receive, Accept, Wait, Response                    *)

\* Mutant: the receipt carries the UID where the definition belongs.
ReceiveSwapped(r, w) ==
    /\ Free /\ srv.up /\ ~srv.executionsStopped
    /\ call[r].at = "new"
    /\ w # None => wl[w].reg = "on"
    /\ call' = [call EXCEPT ![r] =
           [@ EXCEPT !.at = IF srv.failed \/ w = None
                            THEN "respond" ELSE "received",
                     !.uid = w, !.def = w]]
    /\ UNCHANGED <<client, wl, ins, src, row, srv, op, mu, phys, alive>>

\* The request's name resolves to a registered UID, or to none.
Receive(r, w) ==
    /\ Free /\ srv.up /\ ~srv.executionsStopped
    /\ call[r].at = "new"
    /\ w # None => wl[w].reg = "on"
    /\ call' = [call EXCEPT ![r] =
           [@ EXCEPT !.at = IF srv.failed \/ w = None
                            THEN "respond" ELSE "received",
                     !.uid = w, !.def = IF w = None THEN None ELSE wl[w].def]]
    /\ UNCHANGED <<client, wl, ins, src, row, srv, op, mu, phys, alive>>

\* Accept's first lock section, the input's validation and its log event.
Validate(r) ==
    LET w == call[r].uid IN
    /\ Free
    /\ call[r].at = "received"
    /\ \E valid \in BOOLEAN :
         call' = [call EXCEPT ![r].at =
             IF valid /\ ~srv.failed /\ ~client[r].expired
                /\ wl[w].reg = "on" /\ wl[w].def = call[r].def
             THEN "validated" ELSE "respond"]
    /\ UNCHANGED <<client, wl, ins, src, row, srv, op, mu, phys, alive>>

\* Accept's second lock section admits the call.
Admissible(r, w) ==
    /\ ~srv.shuttingDown /\ wl[w].reg = "on" /\ ~wl[w].stopped
    /\ ~srv.failed /\ wl[w].def = call[r].def
    /\ ~wl[w].detached
    /\ Len(wl[w].queue) < QueueLimit

Accept(r) ==
    LET w == call[r].uid IN
    /\ Free
    /\ call[r].at = "validated"
    /\ Admissible(r, w)
    /\ call' = [call EXCEPT ![r] =
           [@ EXCEPT !.at = "waiting", !.live = TRUE]]
    /\ wl' = [wl EXCEPT ![w].queue = Append(@, r)]
    /\ mu' = Dispatching(srv)
    /\ UNCHANGED <<client, ins, src, row, srv, op, phys, alive>>

\* ... or rejects it: a guard above, a missing dataset or profile, overload.
Reject(r) ==
    /\ Free
    /\ call[r].at = "validated"
    /\ call' = [call EXCEPT ![r].at = "respond"]
    /\ UNCHANGED <<client, wl, ins, src, row, srv, op, mu, phys, alive>>

\* Call.Wait returns the buffered reply.
WaitReply(r) ==
    /\ call[r].at = "waiting"
    /\ call[r].sends > 0
    /\ call' = [call EXCEPT ![r].at = "respond"]
    /\ UNCHANGED <<client, wl, ins, src, row, srv, op, mu, phys, alive>>

\* removeQueuedLocked; a queue holds a call at most once.
removeQueued(q, r) ==
    IF r \in Range(q) THEN RemoveAt(q, CHOOSE n \in DOMAIN q : q[n] = r) ELSE q

\* Mutant: Wait listens to the client's disconnection but to no deadline.
WaitGone(r) ==
    LET w == call[r].uid
        c == call[r] IN
    /\ Free
    /\ c.at = "waiting" /\ client[r].gone
    /\ call' = [call EXCEPT ![r] =
           [c EXCEPT !.at = "respond",
                     !.backendDone = c.backendDone \/ c.assignment = None,
                     !.transportDone = c.transportDone \/ c.assignment = None,
                     !.canceled = TRUE]]
    /\ wl' = [wl EXCEPT ![w].queue =
                 IF c.assignment = None THEN removeQueued(@, r) ELSE @]
    /\ UNCHANGED <<client, ins, src, row, srv, op, mu, phys, alive>>

\* Call.Wait leaves on ctx.Done: an unassigned call leaves the queue, an
\* assigned one keeps its executor and only cancels the exchange.
WaitDone(r) ==
    LET w == call[r].uid
        c == call[r] IN
    /\ Free
    /\ c.at = "waiting"
    /\ client[r].gone \/ client[r].expired
    /\ call' = [call EXCEPT ![r] =
           [c EXCEPT !.at = "respond",
                     !.backendDone = c.backendDone \/ c.assignment = None,
                     !.transportDone = c.transportDone \/ c.assignment = None,
                     !.canceled = TRUE]]
    /\ wl' = [wl EXCEPT ![w].queue =
                 IF c.assignment = None THEN removeQueued(@, r) ELSE @]
    /\ UNCHANGED <<client, ins, src, row, srv, op, mu, phys, alive>>

\* Response of a call still in Runtime.calls.
ResponseLive(r) ==
    /\ Free
    /\ call[r].at = "respond" /\ call[r].live
    /\ \/ /\ srv.failed
          /\ call' = [call EXCEPT ![r].at = "done"]
          /\ UNCHANGED <<wl, ins, srv, mu>>
       \/ /\ ~srv.failed
          /\ ReleaseAndDispatch([call EXCEPT ![r] =
                 [@ EXCEPT !.at = "done", !.responseRecorded = TRUE]], r)
    /\ UNCHANGED <<client, src, row, op, phys, alive>>

\* Response of a request rejected before acceptance closes it at once.
ResponseRejected(r) ==
    LET w == call[r].uid IN
    /\ Free
    /\ call[r].at = "respond" /\ ~call[r].live
    /\ \/ /\ srv.failed
          /\ call' = [call EXCEPT ![r].at = "done"]
          /\ UNCHANGED <<wl, srv>>
       \/ /\ ~srv.failed
          /\ call' = [call EXCEPT ![r] =
                 [@ EXCEPT !.at = "done", !.responseRecorded = TRUE,
                           !.close = "closing"]]
          /\ wl' = IF w # None /\ wl[w].reg = "on"
                   THEN [wl EXCEPT ![w].finalizing = @ + 1] ELSE wl
          /\ srv' = [srv EXCEPT !.finalizing = @ + 1]
    /\ UNCHANGED <<client, ins, src, row, op, mu, phys, alive>>

\* The rest of unlock, outside the lock: RequestClosed enqueues the final row,
\* or leaves it marked in the log that failed.
RequestClosed(r) ==
    /\ call[r].close = "closing"
    /\ call' = [call EXCEPT ![r].close = "rowed"]
    /\ row' = [row EXCEPT ![r].final = IF srv.failed THEN "late" ELSE "mem"]
    /\ UNCHANGED <<client, wl, ins, src, srv, op, mu, phys, alive>>

\* Nothing refers to a closed Call; what its rows name remains.
RowOnly(c) ==
    [NewCall EXCEPT !.at = "done", !.uid = c.uid, !.def = c.def,
                    !.assignment = c.assignment, !.close = "closed"]

\* ... and then the counters are settled under the lock.
Finalized(r) ==
    LET w == call[r].uid
        i == call[r].assignment IN
    /\ Free
    /\ call[r].close = "rowed"
    /\ call' = [call EXCEPT ![r] = RowOnly(@)]
    /\ srv' = [srv EXCEPT !.finalizing = @ - 1]
    /\ wl' = IF w # None /\ wl[w].reg = "on"
             THEN [wl EXCEPT ![w].finalizing = @ - 1] ELSE wl
    /\ ins' = IF i # None /\ ins[i].known
              THEN [ins EXCEPT ![i].finalizing = @ - 1] ELSE ins
    /\ UNCHANGED <<client, src, row, op, mu, phys, alive>>

-----------------------------------------------------------------------------
(* dispatchLocked                                                          *)

\* chooseLocked's candidates; which one SmoothWeightedRoute picks is left open.
Available(w) ==
    {i \in wl[w].route : /\ ins[i].ready /\ ~ins[i].terminated
                         /\ ins[i].outstanding < Capacity[i]}

\* Mutant: the expired head is answered but stays in the queue.
DispatchExpiredKept(w) ==
    LET r == Head(wl[w].queue) IN
    /\ mu = "dispatch"
    /\ wl[w].queue # <<>>
    /\ client[r].expired
    /\ call' = [call EXCEPT ![r] =
           [@ EXCEPT !.backendDone = TRUE, !.transportDone = TRUE,
                     !.sends = call[r].sends + 1]]
    /\ UNCHANGED <<client, wl, ins, src, row, srv, op, mu, phys, alive>>

\* An expired head leaves the queue with a timeout reply.
DispatchExpired(w) ==
    LET r == Head(wl[w].queue) IN
    /\ mu = "dispatch"
    /\ wl[w].queue # <<>>
    /\ client[r].expired
    /\ wl' = [wl EXCEPT ![w].queue = Tail(@)]
    /\ call' = [call EXCEPT ![r] =
           [@ EXCEPT !.backendDone = TRUE, !.transportDone = TRUE,
                     !.sends = call[r].sends + 1]]
    /\ UNCHANGED <<client, ins, src, row, srv, op, mu, phys, alive>>

\* Any other head takes a slot of an available executor and a goroutine.
DispatchAssign(w, i) ==
    LET r == Head(wl[w].queue) IN
    /\ mu = "dispatch"
    /\ wl[w].queue # <<>>
    /\ ~client[r].expired
    /\ i \in Available(w)
    /\ wl' = [wl EXCEPT ![w].queue = Tail(@)]
    /\ call' = [call EXCEPT ![r] =
           [@ EXCEPT !.assignment = i, !.instance = i, !.exec = "spawned"]]
    /\ ins' = [ins EXCEPT ![i].outstanding = @ + 1]
    /\ UNCHANGED <<client, src, row, srv, op, mu, phys, alive>>

DispatchEnd ==
    /\ mu = "dispatch"
    /\ \A w \in Workloads : wl[w].queue # <<>> =>
         ~client[Head(wl[w].queue)].expired /\ Available(w) = {}
    /\ mu' = "free"
    /\ UNCHANGED <<call, client, wl, ins, src, row, srv, op, phys, alive>>

-----------------------------------------------------------------------------
(* execute and the native exchange                                         *)

\* The assigned row is enqueued before any native exchange begins.
ExecuteBegin(r) ==
    /\ call[r].exec = "spawned"
    /\ \/ /\ srv.failed
          /\ call' = [call EXCEPT ![r].exec = "unlogged"]
          /\ UNCHANGED row
       \/ /\ ~srv.failed
          /\ row' = [row EXCEPT ![r].assigned = "mem"]
          /\ call' = [call EXCEPT ![r].exec =
               IF call[r].canceled \/ client[r].expired
               THEN "complete" ELSE "exchanging"]
    /\ UNCHANGED <<client, wl, ins, src, srv, op, mu, phys, alive>>

\* Client.Execute ends with proof that the executor finished the request, or
\* that it refused it; the proof carries progress in the first case only.
ExchangeComplete(r) ==
    /\ call[r].exec = "exchanging"
    /\ \/ phys[r].st = "ran"
       \/ phys[r].st = "away" /\ "refuse" \in Env
    /\ call' = [call EXCEPT ![r].exec = "complete"]
    /\ phys' = IF phys[r].st = "away"
               THEN [phys EXCEPT ![r].st = "over"] ELSE phys
    /\ UNCHANGED <<client, wl, ins, src, row, srv, op, mu, alive>>

\* Client.Execute ends without that proof: canceled, cut or unreadable.
ExchangeBroken(r) ==
    /\ call[r].exec = "exchanging"
    /\ \/ call[r].canceled
       \/ call[r].assignment \notin alive
       \/ "break" \in Env
    /\ call' = [call EXCEPT ![r].exec = "broken"]
    /\ phys' = IF phys[r].st = "away"
               THEN [phys EXCEPT ![r].st = "over"] ELSE phys
    /\ UNCHANGED <<client, wl, ins, src, row, srv, op, mu, alive>>

\* Mutant: a call whose end the executor's log told first gets no reply.
ExecuteEndSilent(r) ==
    LET c == call[r]
        x == c.exec IN
    /\ Free
    /\ x \in {"complete", "broken", "unlogged"}
    /\ ReleaseAndDispatch(
         [call EXCEPT ![r] =
            [c EXCEPT !.exec = "over",
                      !.assignment = IF x = "unlogged" THEN None
                                                       ELSE c.assignment,
                      !.transportDone = TRUE,
                      !.backendDone = c.backendDone \/ x # "broken",
                      !.sends = IF c.backendDone THEN c.sends
                                                 ELSE c.sends + 1]], r)
    /\ UNCHANGED <<client, src, row, op, phys, alive>>

\* execute's lock section: release, exactly one reply, dispatch.
ExecuteEnd(r) ==
    LET c == call[r]
        x == c.exec IN
    /\ Free
    /\ x \in {"complete", "broken", "unlogged"}
    /\ ReleaseAndDispatch(
         [call EXCEPT ![r] =
            [c EXCEPT !.exec = "over",
                      !.assignment = IF x = "unlogged" THEN None
                                                       ELSE c.assignment,
                      !.transportDone = TRUE,
                      !.progress = c.progress
                         \/ (x = "complete" /\ phys[r].st = "ran"),
                      !.backendDone = c.backendDone \/ x # "broken",
                      !.sends = c.sends + 1]], r)
    /\ UNCHANGED <<client, src, row, op, phys, alive>>

-----------------------------------------------------------------------------
(* The native executors (the firstfloor actors and kubelet) and clients     *)

\* An open exchange delivers its request; once it has ended nothing arrives.
NativeAdmit(r) ==
    /\ call[r].exec = "exchanging"
    /\ phys[r].st = "away"
    /\ call[r].assignment \in alive
    /\ phys' = [phys EXCEPT ![r] = [st |-> "held", at |-> call[r].assignment]]
    /\ UNCHANGED <<call, client, wl, ins, src, row, srv, op, mu, alive>>

HeldAt(i) == {r \in Requests : phys[r] = [st |-> "held", at |-> i]}

NativeFinish(r) ==
    /\ phys[r].st = "held"
    /\ phys' = [phys EXCEPT ![r].st = "ran"]
    /\ UNCHANGED <<call, client, wl, ins, src, row, srv, op, mu, alive>>

\* A container exits: what it held will never run nor be reported.
NativeExit(i) ==
    /\ "exit" \in Env
    /\ i \in alive
    /\ alive' = alive \ {i}
    /\ phys' = [r \in Requests |->
         IF phys[r].st = "held" /\ phys[r].at = i
         THEN [phys[r] EXCEPT !.st = "over"] ELSE phys[r]]
    /\ UNCHANGED <<call, client, wl, ins, src, row, srv, op, mu>>

ClientLeaves(r) ==
    /\ "leave" \in Env
    /\ call[r].at \in {"received", "validated", "waiting"}
    /\ client' = [client EXCEPT ![r].gone = TRUE]
    /\ UNCHANGED <<call, wl, ins, src, row, srv, op, mu, phys, alive>>

DeadlinePasses(r) ==
    /\ "expire" \in Env
    /\ call[r].at \in {"received", "validated", "waiting"}
    /\ client' = [client EXCEPT ![r].expired = TRUE]
    /\ UNCHANGED <<call, wl, ins, src, row, srv, op, mu, phys, alive>>

-----------------------------------------------------------------------------
(* The observation log behind the RuntimeObservation interface             *)

\* The writer puts rows on disk, in the order of a request's rows; after a
\* failure the retries of Flush do, the late rows included.
WriteRow(r) ==
    /\ "write" \in Env
    /\ \/ /\ row[r].assigned = "mem"
          /\ row' = [row EXCEPT ![r].assigned = "disk"]
       \/ /\ row[r].assigned # "mem" /\ row[r].final \in {"mem", "late"}
          /\ row' = [row EXCEPT ![r].final = "disk"]
    /\ UNCHANGED <<call, client, wl, ins, src, srv, op, mu, phys, alive>>

\* The failure latch: every later submission of this process fails.
LogFails ==
    /\ "logfail" \in Env
    /\ srv.up /\ ~srv.failed
    /\ srv' = [srv EXCEPT !.failed = TRUE]
    /\ UNCHANGED <<call, client, wl, ins, src, row, op, mu, phys, alive>>

InMemory == {r \in Requests : row[r].assigned = "mem" \/ row[r].final = "mem"}

\* Mutant: Drain returns before the writer has caught up.
BarrierAtOnce(t) == TRUE

\* ObservationLog.Drain returned: the rows enqueued before it are on disk.
BarrierDone(t) == op[t].bar \cap InMemory = {}

-----------------------------------------------------------------------------
(* Native evidence: ObserveBackend, ConfirmInstanceStopped                 *)

\* A progress line of the executor's log names a live call.
ObserveBackend(r, finished) ==
    LET c == call[r]
        C == [call EXCEPT ![r] =
               [c EXCEPT !.progress = c.progress \/ ~c.backendDone,
                         !.backendDone = c.backendDone \/ finished]] IN
    /\ Free /\ srv.up
    /\ c.live /\ c.assignment # None /\ phys[r].at = c.assignment
    /\ phys[r].st = "ran" \/ (phys[r].st = "held" /\ ~finished)
    /\ \/ /\ srv.failed
          /\ call' = C
          /\ UNCHANGED <<wl, ins, srv, mu>>
       \/ /\ ~srv.failed
          /\ ReleaseAndDispatch(C, r)
    /\ UNCHANGED <<client, src, row, op, phys, alive>>

\* The kubelet reported the container's termination (observeTermination).
ConfirmInstanceStopped(i) ==
    LET S == {r \in Requests : /\ call[r].live /\ call[r].assignment = i
                               /\ ~call[r].backendDone}
        C == [r \in Requests |-> IF r \in S
                THEN [call[r] EXCEPT !.backendDone = TRUE] ELSE call[r]]
        I == [ins EXCEPT ![i] =
               [@ EXCEPT !.ready = FALSE, !.terminated = ins[i].known,
                         !.fenced = ins[i].fenced
                                    /\ (srv.failed \/ ~srv.up),
                         !.drained = FALSE]] IN
    /\ Free /\ op["obs"] = Idle
    /\ i \notin alive /\ ~src[i].retired
    /\ src' = [src EXCEPT ![i] =
           [@ EXCEPT !.terminated = TRUE, !.probe = "idle"]]
    /\ call' = Released(C, S)
    /\ Rebuild(Released(C, S), WorkloadsReleased(wl, C, S),
               InstancesReleased(I, C, S))
    /\ srv' = ServerReleased(srv, C, S)
    /\ mu' = Dispatching(srv)
    /\ UNCHANGED <<client, row, op, phys, alive>>

\* DisableInstance: a failed probe, watch or log follow; the ledger entry may
\* keep its last observation.
DisableInstance(i) ==
    /\ "disable" \in Env
    /\ Free /\ op["obs"] = Idle
    /\ ins[i].known
    /\ \E lost \in BOOLEAN :
         src' = [src EXCEPT ![i] =
                [@ EXCEPT !.ready = src[i].ready /\ ~lost,
                          !.verified = src[i].verified /\ ~lost]]
    /\ Rebuild(call, wl, [ins EXCEPT ![i] =
           [@ EXCEPT !.ready = FALSE, !.drained = FALSE]])
    /\ mu' = Dispatching(srv)
    /\ UNCHANGED <<call, client, row, srv, op, phys, alive>>

-----------------------------------------------------------------------------
(* The observer's ledger and InstallInstances                              *)

\* Requests whose exchange with executor i is over, their exchangeFinishedAt
\* in the past, and whose completion is still unknown.
Ended(i) ==
    {r \in Requests :
        /\ call[r].exec \in {"complete", "broken", "unlogged", "over"}
        /\ call[r].assignment = i /\ ~call[r].backendDone}

\* Client.Probe notes the time, then reads the native state.
ProbeBegin(i) ==
    /\ op["obs"] = Idle
    /\ src[i].probe = "idle" /\ ~src[i].terminated /\ ~src[i].retired
    /\ src' = [src EXCEPT ![i] =
           [@ EXCEPT !.probe = "begun", !.newEnded = Ended(i)]]
    /\ UNCHANGED <<call, client, wl, ins, row, srv, op, mu, phys, alive>>

ProbeRead(i) ==
    /\ src[i].probe = "begun"
    /\ i \in alive
    /\ src' = [src EXCEPT ![i] =
           [@ EXCEPT !.probe = "read",
                     !.newHeld = HeldAt(i)]]
    /\ UNCHANGED <<call, client, wl, ins, row, srv, op, mu, phys, alive>>

\* Mutant: any verified read lifts the fence.
LiftsFenceBusy(L, i) ==
    ~srv.failed /\ (L[i].terminated \/ ins[i].terminated \/ L[i].verified)

\* updateInstanceRecoveryLocked: the boot's fence is lifted by an executor
\* read empty in this boot, or terminated, once the log took the proof.
LiftsFence(L, i) ==
    /\ ~srv.failed
    /\ \/ L[i].terminated \/ ins[i].terminated
       \/ L[i].verified /\ L[i].held = {}

\* installInstancesLocked for the ledger entry L[i].
Installed(L, i) ==
    LET old == IF ins[i].known THEN ins[i]
               ELSE [NewInstance EXCEPT !.known = TRUE, !.fenced = srv.unknown]
        fenced == old.fenced /\ ~LiftsFence(L, i)
        terminated == L[i].terminated \/ old.terminated
        ready == L[i].ready /\ ~fenced /\ ~terminated
        kept == [old EXCEPT !.ready = ready, !.drained = FALSE,
                            !.fenced = fenced, !.terminated = terminated]
    IN  CASE L[i].retired -> [ins[i] EXCEPT !.ready = FALSE, !.drained = FALSE]
          [] ~L[i].retired /\ old.outstanding > 0 /\ ~ready -> kept
          [] OTHER -> [kept EXCEPT
                         !.profile = IF L[i].evidence THEN ProfileOf[i]
                                                      ELSE None,
                         !.routing = L[i].routing]

\* Mutant: a read that began before the exchange ended counts as well.
AbsentStale(L, r) ==
    LET c == call[r] IN
    /\ c.live /\ c.assignment # None /\ ~c.backendDone
    /\ c.transportDone /\ ~c.progress
    /\ LET l == L[c.assignment] IN
         ~l.retired /\ l.verified /\ r \notin l.held

\* Mutant: absence is never concluded.
AbsentNever(L, r) == FALSE

\* finishAbsentLocked: the exchange ended before the native read began, left
\* no progress, and the read does not hold the call.
Absent(L, r) ==
    LET c == call[r] IN
    /\ c.live /\ c.assignment # None /\ ~c.backendDone
    /\ c.transportDone /\ ~c.progress
    /\ LET l == L[c.assignment] IN
         ~l.retired /\ l.verified /\ r \notin l.held /\ r \in l.ended

\* publishLedger(L): every Pod of the ledger is installed, then routes are
\* rebuilt and the queue dispatched.
PublishLedger(L) ==
    LET S == {r \in Requests : Absent(L, r)}
        C == [r \in Requests |-> IF r \in S
                THEN [call[r] EXCEPT !.backendDone = TRUE] ELSE call[r]]
        I == [i \in Instances |-> Installed(L, i)]
        s == ServerReleased([srv EXCEPT !.up = TRUE], C, S) IN
    /\ Free /\ op["obs"] = Idle
    /\ src' = L
    /\ call' = Released(C, S)
    /\ Rebuild(Released(C, S), WorkloadsReleased(wl, C, S),
               InstancesReleased(I, C, S))
    /\ srv' = s
    /\ mu' = Dispatching(srv)
    /\ UNCHANGED <<client, row, op, phys, alive>>

\* A completed probe is published with the routing its Pod then names: ready,
\* unready, or not even admitted and without routing.  No executor is ready or
\* routed without evidence.
PublishProbe(i) ==
    /\ src[i].probe = "read"
    /\ \E ready \in BOOLEAN, routing \in Routing[i] \cup {None} :
         /\ ~ready \/ routing = None => "disable" \in Env
         /\ PublishLedger([src EXCEPT ![i] =
              [@ EXCEPT !.probe = "idle", !.verified = TRUE,
                        !.ready = ready /\ src[i].evidence,
                        !.routing = IF src[i].evidence THEN routing ELSE None,
                        !.ended = src[i].newEnded, !.held = src[i].newHeld]])

\* A probe that failed leaves the entry unready (sourceUnavailable).
PublishUnavailable(i) ==
    /\ src[i].probe = "begun" /\ ("disable" \in Env \/ i \notin alive)
    /\ PublishLedger([src EXCEPT ![i] =
         [@ EXCEPT !.probe = "idle", !.ready = FALSE, !.verified = FALSE]])

\* Any other refresh publishes the ledger as it stands, probes still running,
\* with or without the profile evidence of an executor.
PublishAgain(i) ==
    /\ \E evidence \in BOOLEAN :
         /\ evidence # src[i].evidence => "evidence" \in Env
         /\ PublishLedger([src EXCEPT ![i] =
                [@ EXCEPT !.evidence = evidence,
                          !.ready = src[i].ready /\ evidence,
                          !.routing = IF evidence THEN src[i].routing
                                                 ELSE None]])

-----------------------------------------------------------------------------
(* Draining                                                                *)

Unfinished(r) == ~Closes(call[r])

\* Mutant: final rows on their way to the log are not waited for.
RequestsDrainedEarly(w) ==
    /\ \A r \in CallsOf(call, w) : ~Unfinished(r)
    /\ wl[w].queue = <<>>

\* requestsDrainedLocked
RequestsDrained(w) ==
    /\ \A r \in CallsOf(call, w) : ~Unfinished(r)
    /\ wl[w].queue = <<>>
    /\ wl[w].finalizing = 0

\* Mutant: only executors with a recorded binding or owner count.
FencedForBound(w, i) ==
    ins[i].known /\ ins[i].fenced /\ (w \in ins[i].bindings \/ Owner[i] = w)

\* A fenced executor that may hold an unrecorded request of w.
FencedFor(w, i) ==
    /\ ins[i].known /\ ins[i].fenced
    /\ \/ w \in ins[i].bindings
       \/ Owner[i] = w
       \/ Weighted(ins, w, i)
       \/ /\ ~wl[w].detached /\ Owner[i] \in {None, w}
          /\ Matches(wl[w].def, ins[i].profile)

\* drainedLocked
Drained(w) == RequestsDrained(w) /\ \A i \in Instances : ~FencedFor(w, i)

\* Mutant: final rows on their way to the log are not waited for.
NodeDrainedEarly(n) ==
    /\ \A r \in Requests :
         /\ call[r].live /\ call[r].assignment # None
         /\ NodeOf[call[r].assignment] = n
         => ~Unfinished(r)
    /\ \A i \in Instances : ins[i].known /\ NodeOf[i] = n => ~ins[i].fenced

\* nodeDrainedLocked
NodeDrained(n) ==
    /\ \A r \in Requests :
         /\ call[r].live /\ call[r].assignment # None
         /\ NodeOf[call[r].assignment] = n
         => ~Unfinished(r)
    /\ \A i \in Instances : ins[i].known /\ NodeOf[i] = n =>
         ~ins[i].fenced /\ ins[i].finalizing = 0

\* The section before a Drain barrier starts operation k of thread t.
Start(t, k, target, d) ==
    /\ op[t] = Idle
    /\ op' = [op EXCEPT ![t] = [kind |-> k, target |-> target, def |-> d,
                                bar |-> InMemory]]

\* The section after the barrier ends it; a failed log makes Drain fail.
Finish(t, k, target) ==
    /\ op[t].kind = k /\ op[t].target = target
    /\ srv.failed \/ BarrierDone(t)
    /\ op' = [op EXCEPT ![t] = Idle]

-----------------------------------------------------------------------------
(* Management: publish, OpenAdmission, ResumeAfterRestart, StopAdmission,  *)
(* Detach, Forget                                                          *)

\* Mutant: another model is published over requests of the old one.
PublishableBusy(w, d) ==
    ~srv.failed /\ ~srv.shuttingDown /\ wl[w].reg \in {"absent", "on"}

\* validatePublicationLocked
Publishable(w, d) ==
    /\ ~srv.failed /\ ~srv.shuttingDown
    /\ \/ wl[w].reg = "absent"
       \/ wl[w].reg = "on" /\ (Contract[wl[w].def] = Contract[d] \/ Drained(w))

\* publish validates, records the definition outside the lock, ...
PublishBegin(w, d) ==
    /\ Free /\ srv.up
    /\ wl[w].reg = "on" => "republish" \in Env
    /\ Publishable(w, d)
    /\ Start("mgmt", "publish", w, d)
    /\ UNCHANGED <<call, client, wl, ins, src, row, srv, mu, phys, alive>>

\* ... and validates again before the definition takes effect.
PublishEnd(w) ==
    LET d == op["mgmt"].def IN
    /\ Free
    /\ op["mgmt"].kind = "publish" /\ op["mgmt"].target = w
    /\ op' = [op EXCEPT !["mgmt"] = Idle]
    /\ \/ /\ ~Publishable(w, d)
          /\ UNCHANGED <<wl, ins, mu>>
       \/ /\ Publishable(w, d)
          /\ \E restart \in BOOLEAN :
               /\ restart => srv.boots > 1
               /\ Rebuild(call, [wl EXCEPT ![w] =
                    [@ EXCEPT !.reg = "on", !.def = d, !.stopped = TRUE,
                              !.detached = FALSE, !.restartDrain = restart]],
                    ins)
          /\ mu' = Dispatching(srv)
    /\ UNCHANGED <<call, client, src, row, srv, phys, alive>>

OpenBegin(w) ==
    /\ srv.up /\ wl[w].reg = "on" /\ wl[w].stopped
    /\ Start("mgmt", "open", w, None)
    /\ UNCHANGED <<call, client, wl, ins, src, row, srv, mu, phys, alive>>

OpenEnd(w) ==
    /\ Free
    /\ Finish("mgmt", "open", w)
    /\ wl' = IF /\ ~srv.failed /\ ~srv.shuttingDown /\ wl[w].reg = "on"
                /\ wl[w].restartDrain => RequestsDrained(w)
             THEN [wl EXCEPT ![w] =
                    [@ EXCEPT !.stopped = FALSE, !.restartDrain = FALSE]]
             ELSE wl
    /\ UNCHANGED <<call, client, ins, src, row, srv, mu, phys, alive>>

ResumeBegin(w) ==
    /\ Free /\ srv.up /\ wl[w].reg = "on" /\ wl[w].restartDrain
    /\ RequestsDrained(w)
    /\ Start("mgmt", "resume", w, None)
    /\ UNCHANGED <<call, client, wl, ins, src, row, srv, mu, phys, alive>>

ResumeEnd(w) ==
    /\ Free
    /\ Finish("mgmt", "resume", w)
    /\ wl' = IF /\ ~srv.failed /\ ~srv.shuttingDown /\ wl[w].reg = "on"
                /\ RequestsDrained(w)
             THEN [wl EXCEPT ![w] =
                    [@ EXCEPT !.stopped = FALSE, !.restartDrain = FALSE]]
             ELSE wl
    /\ UNCHANGED <<call, client, ins, src, row, srv, mu, phys, alive>>

StopAdmission(w) ==
    /\ "stop" \in Env
    /\ Free /\ srv.up /\ op["mgmt"] = Idle
    /\ wl[w].reg = "on"
    /\ wl' = [wl EXCEPT ![w] =
           [@ EXCEPT !.stopped = TRUE, !.restartDrain = FALSE]]
    /\ UNCHANGED <<call, client, ins, src, row, srv, op, mu, phys, alive>>

\* Detach and Forget first run Drain: a drained check, the log barrier, ...
DetachBegin(w) ==
    /\ "detach" \in Env
    /\ Free /\ srv.up /\ wl[w].reg = "on"
    /\ Drained(w)
    /\ Start("mgmt", "detach", w, None)
    /\ UNCHANGED <<call, client, wl, ins, src, row, srv, mu, phys, alive>>

\* ... and a stopped and drained check in the section that takes effect.
DetachEnd(w) ==
    /\ Free
    /\ Finish("mgmt", "detach", w)
    /\ IF ~srv.failed /\ wl[w].stopped /\ Drained(w)
       THEN /\ ins' = [i \in Instances |->
                 [ins[i] EXCEPT !.bindings = @ \ {w}]]
            /\ wl' = [wl EXCEPT ![w] =
                   [@ EXCEPT !.route = {}, !.detached = TRUE]]
       ELSE UNCHANGED <<ins, wl>>
    /\ UNCHANGED <<call, client, src, row, srv, mu, phys, alive>>

ForgetBegin(w) ==
    /\ "forget" \in Env
    /\ Free /\ srv.up /\ wl[w].reg = "on"
    /\ Drained(w)
    /\ Start("mgmt", "forget", w, None)
    /\ UNCHANGED <<call, client, wl, ins, src, row, srv, mu, phys, alive>>

ForgetEnd(w) ==
    /\ Free
    /\ Finish("mgmt", "forget", w)
    /\ IF /\ ~srv.failed /\ wl[w].stopped /\ Drained(w)
          /\ \A i \in Instances : ins[i].known => w \notin ins[i].bindings
       THEN /\ Rebuild(call, [wl EXCEPT ![w] =
                 [NewWorkload EXCEPT !.reg = "forgotten"]], ins)
            /\ mu' = Dispatching(srv)
       ELSE UNCHANGED <<ins, wl, mu>>
    /\ UNCHANGED <<call, client, src, row, srv, phys, alive>>

-----------------------------------------------------------------------------
(* Removing a Pod, draining a Node                                         *)

RetirePodBegin(i) ==
    /\ "retire" \in Env
    /\ srv.up /\ src[i].terminated /\ ~src[i].retired
    /\ Start("obs", "retire", i, None)
    /\ UNCHANGED <<call, client, wl, ins, src, row, srv, mu, phys, alive>>

RetirePodEnd(i) ==
    /\ Free
    /\ Finish("obs", "retire", i)
    /\ IF /\ ~srv.failed
          /\ ins[i].known => /\ ins[i].terminated /\ ~ins[i].fenced
                             /\ ins[i].outstanding = 0
                             /\ ins[i].finalizing = 0
       THEN /\ Rebuild(call, wl, [ins EXCEPT ![i] = NewInstance])
            /\ src' = [src EXCEPT ![i].retired = TRUE]
       ELSE UNCHANGED <<wl, ins, src>>
    /\ UNCHANGED <<call, client, row, srv, mu, phys, alive>>

\* DetachNode disables the Node's executors, waits for the log and reports
\* the Node drained only if it still is.
Unready(n, drained) ==
    [i \in Instances |-> IF ins[i].known /\ NodeOf[i] = n
        THEN [ins[i] EXCEPT
                !.ready = FALSE, !.drained = @ \/ drained,
                !.bindings = IF drained THEN {} ELSE @]
        ELSE ins[i]]

DetachNodeBegin(n) ==
    /\ "node" \in Env
    /\ Free /\ srv.up
    /\ NodeDrained(n)
    /\ Start("obs", "node", n, None)
    /\ Rebuild(call, wl, Unready(n, FALSE))
    /\ UNCHANGED <<call, client, src, row, srv, mu, phys, alive>>

DetachNodeEnd(n) ==
    /\ Free
    /\ Finish("obs", "node", n)
    /\ IF ~srv.failed /\ NodeDrained(n)
       THEN /\ Rebuild(call, wl, Unready(n, TRUE))
            /\ mu' = Dispatching(srv)
       ELSE UNCHANGED <<wl, ins, mu>>
    /\ UNCHANGED <<call, client, src, row, srv, phys, alive>>

-----------------------------------------------------------------------------
(* Stopping, crashing and booting                                          *)

BeginShutdown ==
    /\ "shutdown" \in Env
    /\ Free /\ ~srv.shuttingDown
    /\ srv' = [srv EXCEPT !.shuttingDown = TRUE]
    /\ wl' = [w \in Workloads |-> IF wl[w].reg = "on"
                THEN [wl[w] EXCEPT !.stopped = TRUE, !.restartDrain = FALSE]
                ELSE wl[w]]
    /\ UNCHANGED <<call, client, ins, src, row, op, mu, phys, alive>>

\* r.cancel() reaches every backendContext, present and future.
AllCanceled == [r \in Requests |-> [call[r] EXCEPT !.canceled = TRUE]]

AllDrained ==
    /\ srv.finalizing = 0
    /\ \A w \in Workloads : wl[w].reg = "on" => Drained(w)

ShutdownBegin ==
    /\ Free /\ srv.shuttingDown /\ ~srv.drained /\ ~srv.executionsStopped
    /\ AllDrained
    /\ Start("stop", "shutdown", None, None)
    /\ UNCHANGED <<call, client, wl, ins, src, row, srv, mu, phys, alive>>

\* Shutdown returns nil, and cancels the executions, only if all is drained
\* on both sides of the barrier.
ShutdownEnd ==
    /\ Free
    /\ Finish("stop", "shutdown", None)
    /\ IF ~srv.failed /\ AllDrained
       THEN /\ srv' = [srv EXCEPT !.drained = TRUE]
            /\ call' = AllCanceled
       ELSE UNCHANGED <<srv, call>>
    /\ UNCHANGED <<client, wl, ins, src, row, mu, phys, alive>>

\* Shutdown gives up at its deadline: r.cancel ends the exchanges while their
\* handlers still wait.
ShutdownTimeout ==
    /\ srv.shuttingDown /\ ~srv.drained /\ ~srv.executionsStopped
    /\ call' = AllCanceled
    /\ op' = [op EXCEPT !["stop"] = Idle]
    /\ UNCHANGED <<client, wl, ins, src, row, srv, mu, phys, alive>>

\* After every handler has returned, no dispatch starts and all are canceled.
JoinExecutions ==
    /\ Free /\ srv.shuttingDown /\ ~srv.executionsStopped
    /\ op["stop"] = Idle
    /\ \A r \in Requests : call[r].at \in {"new", "done"}
    /\ srv' = [srv EXCEPT !.executionsStopped = TRUE]
    /\ call' = AllCanceled
    /\ UNCHANGED <<client, wl, ins, src, row, op, mu, phys, alive>>

\* Mutant: rows that already have their final row are restored too.
PendingAll(disk) == {r \in Requests : disk[r].assigned = "disk"}

\* RuntimeFacts: the assigned rows without a final row.
Pending(disk) ==
    {r \in Requests : disk[r].assigned = "disk" /\ disk[r].final # "disk"}

\* NewRuntime: those become calls that are only observed to completion; every
\* executor is unconfirmed.
Boot(unknown, disk) ==
    /\ srv.boots < MaxBoots
    /\ srv' = [boots |-> srv.boots + 1, up |-> FALSE, unknown |-> unknown,
               failed |-> FALSE, shuttingDown |-> FALSE,
               executionsStopped |-> FALSE, drained |-> FALSE,
               finalizing |-> 0]
    /\ row' = disk
    /\ call' = [r \in Requests |->
         CASE call[r].at = "new" -> NewCall
           [] r \in Pending(disk) ->
                [NewCall EXCEPT
                   !.at = "done", !.uid = call[r].uid, !.def = call[r].def,
                   !.live = TRUE, !.assignment = call[r].assignment,
                   !.instance = call[r].assignment, !.exec = "over",
                   !.transportDone = TRUE, !.responseRecorded = TRUE]
           [] OTHER -> RowOnly(call[r])]
    /\ wl' = [w \in Workloads |->
         LET P == {r \in Pending(disk) : call[r].uid = w} IN
         CASE P # {} ->
                [NewWorkload EXCEPT !.reg = "on", !.stopped = TRUE,
                   !.restartDrain = TRUE,
                   !.def = call[CHOOSE r \in P : TRUE].def]
           [] P = {} /\ wl[w].reg = "forgotten" -> wl[w]
           [] OTHER -> NewWorkload]
    /\ ins' = [i \in Instances |->
         LET P == {r \in Pending(disk) : call[r].assignment = i} IN
         IF P = {} THEN NewInstance
         ELSE [NewInstance EXCEPT
                 !.known = TRUE, !.fenced = unknown,
                 !.bindings = {call[r].uid : r \in P},
                 !.outstanding = Cardinality(P)]]
    /\ src' = [i \in Instances |->
         [NewSource EXCEPT !.retired = src[i].retired,
                           !.evidence = src[i].evidence]]
    /\ op' = [t \in Threads |-> Idle]
    /\ mu' = "free"
    /\ phys' = [r \in Requests |-> IF call[r].exec = "exchanging"
                                      /\ phys[r].st = "away"
                  THEN [phys[r] EXCEPT !.st = "over"] ELSE phys[r]]
    /\ UNCHANGED <<client, alive>>

\* Mutant: the next boot takes the crash for an orderly exit.
CrashUnnoticed ==
    /\ "crash" \in Env
    /\ Boot(FALSE, [r \in Requests |->
         [assigned |-> IF row[r].assigned = "disk" THEN "disk" ELSE "none",
          final |-> IF row[r].final = "disk" THEN "disk" ELSE "none"]])

\* A crash loses every row still in memory, and the next boot knows it.
Crash ==
    /\ "crash" \in Env
    /\ Boot(TRUE, [r \in Requests |->
         [assigned |-> IF row[r].assigned = "disk" THEN "disk" ELSE "none",
          final |-> IF row[r].final = "disk" THEN "disk" ELSE "none"]])

\* Mutant: the clean marker is written before the rows.
CleanExitUnwritten ==
    /\ srv.executionsStopped /\ Free
    /\ \A t \in Threads : op[t] = Idle
    /\ \A r \in Requests : /\ call[r].exec \in {"none", "over"}
                           /\ call[r].close \in {"open", "closed"}
    /\ Boot(srv.unknown, [r \in Requests |->
         [assigned |-> IF row[r].assigned = "disk" THEN "disk" ELSE "none",
          final |-> IF row[r].final = "disk" THEN "disk" ELSE "none"]])

\* An orderly exit joins every producer, and Close writes every row, the ones
\* a failure held back too, before the clean marker; the marker cannot remove
\* an older boot's uncertainty.
CleanExit ==
    /\ srv.executionsStopped /\ Free
    /\ \A t \in Threads : op[t] = Idle
    /\ \A r \in Requests : /\ call[r].exec \in {"none", "over"}
                           /\ call[r].close \in {"open", "closed"}
    /\ Boot(srv.unknown, [r \in Requests |->
         [assigned |-> IF row[r].assigned = "none" THEN "none" ELSE "disk",
          final |-> IF row[r].final = "none" THEN "none" ELSE "disk"]])

-----------------------------------------------------------------------------

HandlerStep(r) ==
    \/ \E w \in Workloads \cup {None} : Receive(r, w)
    \/ Validate(r) \/ Accept(r) \/ Reject(r)
    \/ WaitReply(r) \/ WaitDone(r)
    \/ ResponseLive(r) \/ ResponseRejected(r)
    \/ RequestClosed(r) \/ Finalized(r)

DispatchStep ==
    \/ \E w \in Workloads : DispatchExpired(w)
    \/ \E w \in Workloads, i \in Instances : DispatchAssign(w, i)
    \/ DispatchEnd

ExecuteStep(r) ==
    \/ ExecuteBegin(r) \/ ExchangeComplete(r) \/ ExchangeBroken(r)
    \/ ExecuteEnd(r)

WorldStep ==
    \/ \E r \in Requests : \/ NativeAdmit(r) \/ NativeFinish(r)
                           \/ ClientLeaves(r) \/ DeadlinePasses(r)
                           \/ WriteRow(r)
    \/ \E i \in Instances : NativeExit(i)
    \/ LogFails

ObserverStep ==
    \/ \E r \in Requests, finished \in BOOLEAN : ObserveBackend(r, finished)
    \/ \E i \in Instances :
         \/ ConfirmInstanceStopped(i) \/ DisableInstance(i)
         \/ ProbeBegin(i) \/ ProbeRead(i)
         \/ PublishProbe(i) \/ PublishUnavailable(i) \/ PublishAgain(i)
         \/ RetirePodBegin(i) \/ RetirePodEnd(i)
    \/ \E n \in Nodes : DetachNodeBegin(n) \/ DetachNodeEnd(n)

ManagementStep ==
    \E w \in Workloads :
       \/ \E d \in Definitions : PublishBegin(w, d)
       \/ PublishEnd(w) \/ OpenBegin(w) \/ OpenEnd(w)
       \/ ResumeBegin(w) \/ ResumeEnd(w) \/ StopAdmission(w)
       \/ DetachBegin(w) \/ DetachEnd(w) \/ ForgetBegin(w) \/ ForgetEnd(w)

ProcessStep ==
    \/ BeginShutdown \/ ShutdownBegin \/ ShutdownEnd \/ ShutdownTimeout
    \/ JoinExecutions
    \/ Crash \/ CleanExit

Next ==
    \/ \E r \in Requests : HandlerStep(r) \/ ExecuteStep(r)
    \/ DispatchStep \/ WorldStep \/ ObserverStep \/ ManagementStep
    \/ ProcessStep

Spec == Init /\ [][Next]_vars

(***************************************************************************)
(* Fairness.  Go schedules every runnable goroutine and its mutex hands    *)
(* the lock to a waiter that has starved for a millisecond, so a section   *)
(* that wants the lock infinitely often gets it (SF).  Deadlines pass, an  *)
(* executor finishes or dies what it holds, the kubelet reports exits, and *)
(* the observer polls and follows logs forever.                            *)
(***************************************************************************)
Fairness ==
    /\ WF_vars(DispatchStep)
    /\ \A r \in Requests :
         /\ SF_vars(Validate(r)) /\ SF_vars(Accept(r) \/ Reject(r))
         /\ WF_vars(WaitReply(r)) /\ SF_vars(WaitDone(r))
         /\ SF_vars(ResponseLive(r) \/ ResponseRejected(r))
         /\ WF_vars(ExecuteBegin(r)) /\ SF_vars(ExecuteEnd(r))
         /\ WF_vars(ExchangeBroken(r) /\ call[r].canceled)
         /\ WF_vars(DeadlinePasses(r)) /\ WF_vars(NativeFinish(r))
         /\ SF_vars(ObserveBackend(r, TRUE))
    /\ \A i \in Instances :
         /\ SF_vars(ConfirmInstanceStopped(i))
         /\ WF_vars(ProbeBegin(i)) /\ WF_vars(ProbeRead(i))
         /\ SF_vars(PublishProbe(i))

FairSpec == Spec /\ Fairness

-----------------------------------------------------------------------------
(* Safety                                                                  *)

\* No executor ever holds more requests than its bound, even while a restarted
\* process does not know what its predecessor sent: chooseLocked counts only
\* this boot's assignments, so the recovery fence must cover the others.
PhysicalCapacity == \A i \in Instances : Cardinality(HeldAt(i)) <= Capacity[i]

\* outstanding counts exactly the calls that own a slot of the executor,
\* through every release path: exchange end, log line, termination, absence,
\* restart.
Accounting ==
    \A i \in Instances :
        ins[i].outstanding =
            Cardinality({r \in Requests : call[r].instance = i})

\* Everything an executor outside the recovery fence holds is owned by a call
\* of this process, so a drained owner proves a quiet executor.
HeldAccounted ==
    \A i \in Instances : ins[i].known /\ ~ins[i].fenced =>
        \A r \in HeldAt(i) : call[r].instance = i

\* The reply channel has one slot and is written under Runtime.mu: a second
\* send would block every request forever.
ReplyOnce == \A r \in Requests : call[r].sends <= 1

\* A waiting handler has exactly one thing that will answer it: its place in
\* the queue, a running execution, or the buffered reply.
WaitingServed ==
    \A r \in Requests : call[r].at = "waiting" =>
        LET queued == r \in Range(wl[call[r].uid].queue)
            running == call[r].exec \in {"spawned", "exchanging", "complete",
                                         "broken", "unlogged"}
        IN  /\ queued \/ running \/ call[r].sends = 1
            /\ ~(queued /\ running)
            /\ queued \/ running => call[r].sends = 0

\* The final row claims that nothing will execute the request any more.
NoFinalWhileHeld ==
    \A r \in Requests : row[r].final # "none" => phys[r].st # "held"

\* One final row per request, also when a restart restores unfinished ones.
FinalOnce ==
    \A r \in Requests : row[r].final # "none" =>
        call[r].close \in {"rowed", "closed"} /\ ~call[r].live

Closing == {r \in Requests : call[r].close \in {"closing", "rowed"}}

\* The finalizing counters guard every drain check while unlock works outside
\* the lock; a Workload or Pod may disappear in between.
FinalizingBalanced ==
    /\ srv.finalizing = Cardinality(Closing)
    /\ \A w \in Workloads : wl[w].reg = "on" =>
         wl[w].finalizing = Cardinality({r \in Closing : call[r].uid = w})
    /\ \A i \in Instances : ins[i].known =>
         ins[i].finalizing =
            Cardinality({r \in Closing : call[r].assignment = i})

\* A detached or forgotten Workload has no request left on any machine, and
\* each one that was assigned has its final row on disk.
DrainSound ==
    \A w \in Workloads : wl[w].detached \/ wl[w].reg = "forgotten" =>
        \A r \in Requests : call[r].uid = w =>
            /\ phys[r].st # "held"
            /\ row[r].assigned # "none" => row[r].final = "disk"

\* The documented promise that drain, detach and forget retain every affected
\* unknown executor: while one holds a request of w, w is not detached.
UnknownRetained ==
    \A w \in Workloads : wl[w].detached \/ wl[w].reg = "forgotten" =>
        \A i \in Instances : ins[i].fenced =>
            \A r \in HeldAt(i) : call[r].uid # w

\* A Node reported drained (the condition for changing its power) executes
\* nothing, routes nothing and left no row in memory.
NodeQuiet ==
    \A i \in Instances : ins[i].drained =>
        /\ HeldAt(i) = {} /\ ins[i].outstanding = 0
        /\ \A w \in Workloads : i \notin wl[w].route
        /\ \A r \in Requests :
              call[r].assignment = i /\ row[r].assigned # "none" => row[r].final = "disk"

\* A request executes on an executor of the contract its client was accepted
\* for, whatever was published between its acceptance and its dispatch.
RightContract ==
    \A r \in Requests : call[r].exec = "exchanging" =>
        Contract[call[r].def] = ProfileOf[call[r].assignment]

\* Shutdown returns nil only with every accepted request final on disk; what an
\* executor still holds is an older boot's and remains fenced.
ShutdownSound ==
    srv.drained =>
        \A r \in Requests :
            /\ row[r].assigned # "none" => row[r].final = "disk"
            /\ phys[r].st = "held" => ~ins[phys[r].at].known
                                      \/ ins[phys[r].at].fenced

-----------------------------------------------------------------------------
(* Action and liveness properties                                          *)

\* No work reaches a fenced, terminated, disabled or foreign executor, nor one
\* routed to another Workload, even if it changed while the request was queued.
AssignedReadyStep ==
    \A r \in Requests, i \in Instances :
         /\ call[r].instance # i /\ call'[r].instance = i
         /\ srv'.boots = srv.boots
         => /\ ins[i].ready /\ ~ins[i].fenced /\ ~ins[i].terminated
            /\ Owner[i] \in {None, call[r].uid}
            /\ ins[i].routing = call[r].uid
            /\ call[r].uid \in ins[i].bindings

\* AssignedReadyStep holds of every step: it is about the dispatch loop, which
\* chooses among executors that changed since the request was queued.
AssignedReady == [][AssignedReadyStep]_vars

\* Every received request is answered, whatever the executors, the client and
\* the log do.
Answered ==
    \A r \in Requests : call[r].at = "received" ~> call[r].at = "done"

\* Every slot an execution takes is given back, by one of the release paths.
SlotReturned ==
    \A r \in Requests :
        call[r].instance # None ~> call[r].instance = None \/ srv.failed

=============================================================================
