--------------------------- MODULE FirstfloorActor ---------------------------
(***************************************************************************)
(* The native executor of one Pod (internal/firstfloor): HTTP handlers     *)
(* offer requests to one actor, which bounds, orders, expires and batches  *)
(* them and gives one batch at a time to one runner process.               *)
(*                                                                         *)
(* The actor's loop is a turn (expireQueued, then startBatch, one action   *)
(* for each of its choices) followed by one receive of its select.  It     *)
(* reads the clock when a turn starts: the clock stands still until the    *)
(* turn ends.  Handlers, clients and the runner run at any moment.         *)
(***************************************************************************)
EXTENDS BatchPolicy, Subsequences, SequencesExt

CONSTANTS
    Requests,
    Mode,              \* "serving" or "profiling"
    MaxQueueRequests,  \* Config.MaxQueueRequests, also the handlers' limit
    MaxQueueBytes,     \* Config.MaxQueueBytes
    Key,               \* request -> Workload and definition
    Slo,               \* request -> SLO target minus the sender's elapsed time
    Margin,            \* request -> CompletionMarginMS
    Lifetime,          \* request -> remaining lifetime, 0 when it has none
    Bytes,             \* request -> size of its inputs
    Costs,             \* possible service times, see BatchPolicy
    Intervals,         \* possible arrival intervals, 0 for unknown
    Caps,              \* values an update may give Policy.MaxBatchSize
    MaxTime,           \* bound of the clock
    LastArrival,       \* bound on the time at which a request may arrive
    Env                \* "cancel", "error", "exit", "term": faults a run allows

None == -1

ASSUME ActorAssumption ==
    /\ Mode \in {"serving", "profiling"}
    /\ MaxQueueRequests \in Nat \ {0} /\ MaxQueueBytes \in Nat /\ MaxTime \in Nat
    /\ LastArrival \in 0..MaxTime
    /\ \A r \in Requests : Slo[r] \in Int /\ Margin[r] \in Nat
                           /\ Lifetime[r] \in Nat /\ Bytes[r] \in Nat
    /\ Caps \subseteq Nat /\ Intervals \subseteq Nat
    /\ \A c \in Costs : c.now \in [1..Profiles -> Nat]

VARIABLES
    now,      \* the clock
    req,      \* a request's handler, context and channel
    queue,    \* schedulerActor.queue
    deferred, \* schedulerActor.deferred
    active,   \* schedulerActor.active
    act,      \* the actor's loop: position, timer, queuedBytes, MaxBatchSize
    batch,    \* how the active batch was chosen and when it started
    runner    \* the runner process, the exchange and the completed channel

vars == <<now, req, queue, deferred, active, act, batch, runner>>

ReqType ==
    [at : {"new", "offer", "wait", "gone"}, canceled : BOOLEAN,
     received : 0..MaxTime, sent : 0..2, progress : Phases \cup {"none", "finished"},
     answer : {"none", "complete", "incomplete"}]

ActType ==
    [pc : {"expire", "batch", "select", "done"}, next : Int, bytes : Nat, cap : Nat,
     wake : BOOLEAN, term : BOOLEAN]

RunnerType ==
    [alive : BOOLEAN, exchange : {"idle", "running"},
     completed : {"none", "output", "batch_error", "fatal"}]

TypeOK ==
    /\ now \in 0..MaxTime
    /\ req \in [Requests -> ReqType]
    /\ queue \in Seq(Requests) /\ deferred \in Seq(Requests) /\ active \in Seq(Requests)
    /\ act \in ActType
    /\ batch \in [started : 0..MaxTime, cost : Nat, reason : Reasons]
    /\ runner \in RunnerType

Init ==
    /\ now = 0
    /\ req = [r \in Requests |->
         [at |-> "new", canceled |-> FALSE, received |-> 0, sent |-> 0,
          progress |-> "none", answer |-> "none"]]
    /\ queue = <<>> /\ deferred = <<>> /\ active = <<>>
    /\ act = [pc |-> "expire", next |-> None, bytes |-> 0, cap |-> 0,
              wake |-> FALSE, term |-> FALSE]
    /\ batch = [started |-> 0, cost |-> 0, reason |-> "empty"]
    /\ runner = [alive |-> TRUE, exchange |-> "idle", completed |-> "none"]

------------------------------------------------------------------------------
(* Handlers (server.go, submit)                                            *)

Held == Range(queue) \cup Range(deferred) \cup Range(active)
Ready == act.pc # "done"

\* The caller's context: canceled by the client or past the lifetime.
LifetimeEnd(r) == req[r].received + Lifetime[r]
ContextDone(r) ==
    req[r].canceled \/ (Lifetime[r] > 0 /\ now >= LifetimeEnd(r))

Handlers == {r \in Requests : req[r].at \in {"offer", "wait"}}

\* The body is one valid request of the Actor's mode that fits the queue; whether
\* it is valid is the client's choice, see Serve.
Prepared(r) == Bytes[r] <= MaxQueueBytes

\* ServeHTTP up to submit: a place among the handlers, or an error that says
\* nothing was executed.
Serve(r) ==
    /\ req[r].at = "new" /\ now <= LastArrival
    /\ \/ /\ Ready /\ Cardinality(Handlers) < MaxQueueRequests /\ Prepared(r)
          /\ req' = [req EXCEPT ![r].at = "offer", ![r].received = now]
       \/ req' = [req EXCEPT ![r].at = "gone", ![r].answer = "complete"]
    /\ UNCHANGED <<now, queue, deferred, active, act, batch, runner>>

\* The client's connection ends; the handler's context is canceled.
Cancel(r) ==
    /\ "cancel" \in Env
    /\ req[r].at \in {"offer", "wait"} /\ ~req[r].canceled
    /\ req' = [req EXCEPT ![r].canceled = TRUE]
    /\ UNCHANGED <<now, queue, deferred, active, act, batch, runner>>

\* submit gives up before the actor received the request.
Withdraw(r) ==
    /\ req[r].at = "offer"
    /\ ContextDone(r) \/ act.pc = "done"
    /\ req' = [req EXCEPT ![r].at = "gone", ![r].answer = "complete"]
    /\ UNCHANGED <<now, queue, deferred, active, act, batch, runner>>

\* submit returns the actor's result.
Return(r) ==
    /\ req[r].at = "wait" /\ req[r].sent > 0
    /\ req' = [req EXCEPT ![r].at = "gone", ![r].answer = "complete"]
    /\ UNCHANGED <<now, queue, deferred, active, act, batch, runner>>

\* Mutant: a handler that gives up calls the execution complete.
AbandonComplete(r) ==
    /\ req[r].at = "wait" /\ ContextDone(r)
    /\ req' = [req EXCEPT ![r].at = "gone", ![r].answer = "complete"]
    /\ act' = [act EXCEPT !.wake = TRUE]
    /\ UNCHANGED <<now, queue, deferred, active, batch, runner>>

\* submit returns before the result and wakes the actor.
Abandon(r) ==
    /\ req[r].at = "wait" /\ ContextDone(r)
    /\ req' = [req EXCEPT ![r].at = "gone", ![r].answer = "incomplete"]
    /\ act' = [act EXCEPT !.wake = TRUE]
    /\ UNCHANGED <<now, queue, deferred, active, batch, runner>>

------------------------------------------------------------------------------
(* The actor's turn                                                        *)

Remaining(r) == req[r].received + Slo[r] - now

\* requestStates: the snapshot the policy sees.
State(r, phase) ==
    [id |-> r, key |-> Key[r], slo |-> Remaining(r), margin |-> Margin[r], phase |-> phase,
     queued |-> (IF phase = "running" THEN batch.started ELSE now) - req[r].received]
RequestStates ==
    [n \in DOMAIN queue |-> State(queue[n], "queued")]
    \o [n \in DOMAIN deferred |-> State(deferred[n], "deferred")]
    \o [n \in DOMAIN active |-> State(active[n], "running")]

\* finishQueued and the send of a result to each request of R.
Finished(R) ==
    [r \in Requests |->
        IF r \in R THEN [req[r] EXCEPT !.sent = @ + 1, !.progress = "finished"]
        ELSE req[r]]

\* The bytes of a set of requests, counted one by one.
BytesOf(R) == Cardinality(UNION {{r} \X (1..Bytes[r]) : r \in R})

\* Measured batching that drops what missed its SLO while it waits.
DropsLate == Mode = "serving" /\ FixedBatchSize = 0 /\ DeadlinePolicy = "drop"

\* Mutant: the active batch expires too.
ExpiredActive == {r \in Held : ContextDone(r)}

Expired ==
    {r \in Range(queue) : ContextDone(r) \/ (DropsLate /\ Remaining(r) <= 0)}
    \cup {r \in Range(deferred) : ContextDone(r)}

\* The earliest moment at which a request that is kept expires.
NextExpiry(kept) ==
    LET T == {LifetimeEnd(r) : r \in {q \in kept : Lifetime[q] > 0}}
             \cup IF DropsLate THEN {now + Remaining(r) : r \in kept \cap Range(queue)}
                               ELSE {}
    IN  IF T = {} THEN None ELSE CHOOSE t \in T : \A u \in T : t <= u

ExpireQueued ==
    /\ act.pc = "expire"
    /\ LET gone == Expired
       IN  /\ queue' = Without(queue, gone) /\ deferred' = Without(deferred, gone)
           /\ req' = Finished(gone)
           /\ act' = [act EXCEPT
                !.pc = IF active = <<>> THEN "batch" ELSE "select",
                !.bytes = @ - BytesOf(gone),
                !.next = NextExpiry((Range(queue) \cup Range(deferred)) \ gone)]
    /\ UNCHANGED <<now, active, batch, runner>>

EarlierOf(t, u) == IF t = None \/ (u # None /\ u < t) THEN u ELSE t

\* Mutant: profiling requests are batched like inference.
ChooseAlike(cost, interval) ==
    IF queue = <<>> /\ deferred = <<>> THEN Choice(<<>>, 0, 0, 0, "empty")
    ELSE ChooseBatch(RequestStates, act.cap, cost, interval)

\* The choice of a turn: profiling serves the oldest request by itself.
Choose(cost, interval) ==
    IF queue = <<>> /\ deferred = <<>> THEN Choice(<<>>, 0, 0, 0, "empty")
    ELSE IF Mode = "profiling" THEN Choice(RequestStates, 1, 1, 0, "throughput")
    ELSE ChooseBatch(RequestStates, act.cap, cost, interval)

\* Mutant: a dropped request keeps its bytes.
DropKeepsBytes(c) ==
    /\ c.reason \in {"drop", "defer"}
    /\ queue' = Without(queue, {c.id})
    /\ IF c.reason = "defer"
       THEN deferred' = Append(deferred, c.id) /\ req' = [req EXCEPT ![c.id].progress = "deferred"]
       ELSE req' = Finished({c.id}) /\ UNCHANGED deferred
    /\ UNCHANGED <<now, act, active, batch, runner>>

\* A request whose SLO cannot be met leaves the queue; the loop chooses again.
DropOrDefer(c) ==
    /\ c.reason \in {"drop", "defer"}
    /\ queue' = Without(queue, {c.id})
    /\ IF c.reason = "defer"
       THEN /\ deferred' = Append(deferred, c.id)
            /\ req' = [req EXCEPT ![c.id].progress = "deferred"]
            /\ UNCHANGED act
       ELSE /\ req' = Finished({c.id})
            /\ act' = [act EXCEPT !.bytes = @ - Bytes[c.id]]
            /\ UNCHANGED deferred
    /\ UNCHANGED <<now, active, batch, runner>>

\* Mutant: the turn ends without a timer.
WaitForever(c) ==
    /\ c.reason \notin {"drop", "defer"} /\ c.size = 0
    /\ act' = [act EXCEPT !.pc = "select"]
    /\ UNCHANGED <<now, req, queue, deferred, active, batch, runner>>

\* Nothing starts; the turn ends, perhaps with a timer.
WaitForMore(c) ==
    /\ c.reason \notin {"drop", "defer"} /\ c.size = 0
    /\ act' = [act EXCEPT !.pc = "select",
                 !.next = IF c.wait > 0 THEN EarlierOf(@, now + c.wait) ELSE @]
    /\ UNCHANGED <<now, req, queue, deferred, active, batch, runner>>

\* The members of a batch: the first c.size of the chosen key in list order.
Members(s, c) == At(s, FirstOf({n \in DOMAIN s : Key[s[n]] = c.key}, c.size))

\* Mutant: the bytes of a batch are never given back.
StartKeepsBytes(c, cost) ==
    /\ c.size > 0
    /\ LET pending == IF queue = <<>> THEN deferred ELSE queue
           taken == Members(pending, c)
       IN  /\ active' = taken
           /\ queue' = Without(queue, Range(taken)) /\ deferred' = Without(deferred, Range(taken))
           /\ act' = [act EXCEPT !.pc = "select"]
           /\ runner' = [runner EXCEPT !.exchange = "running"]
    /\ UNCHANGED <<now, req, batch>>

StartMembers(c, cost) ==
    /\ c.size > 0
    /\ LET pending == IF queue = <<>> THEN deferred ELSE queue
           taken == Members(pending, c)
       IN  /\ active' = taken
           /\ queue' = Without(queue, Range(taken)) /\ deferred' = Without(deferred, Range(taken))
           /\ req' = [r \in Requests |->
                IF r \in Range(taken) THEN [req[r] EXCEPT !.progress = "running"]
                ELSE req[r]]
           /\ act' = [act EXCEPT !.pc = "select", !.bytes = @ - BytesOf(Range(taken)),
                        !.next = IF c.wait > 0 THEN EarlierOf(@, now + c.wait) ELSE @]
           /\ batch' = [started |-> now, reason |-> c.reason,
                        cost |-> IF c.profile = 0 THEN 0 ELSE cost.now[c.profile]]
           /\ runner' = [runner EXCEPT !.exchange = "running"]
    /\ UNCHANGED now

\* One iteration of startBatch's loop.
StartBatch ==
    /\ act.pc = "batch"
    /\ \E cost \in Costs, interval \in Intervals :
         \E c \in {Choose(cost, interval)} :
            DropOrDefer(c) \/ WaitForMore(c) \/ StartMembers(c, cost)

------------------------------------------------------------------------------
(* The actor's select                                                      *)

Turn(a) == [a EXCEPT !.pc = "expire", !.next = None]

\* Mutant: requests queue in the order of their arrival.
InsertLast(r) == Len(queue) + 1

\* Where a new request goes: behind every request whose SLO ends no later.
InsertIndex(r) == 1 + Cardinality({n \in DOMAIN queue : Remaining(queue[n]) <= Remaining(r)})

\* Mutant: deferred requests do not count.
FitsQueue(r) ==
    Len(queue) < MaxQueueRequests /\ Bytes[r] <= MaxQueueBytes - act.bytes

\* admit's bounds, which count what is deferred too.
Fits(r) ==
    /\ Len(queue) + Len(deferred) < MaxQueueRequests
    /\ Bytes[r] <= MaxQueueBytes - act.bytes

\* Mutant: admission does not look at the context.
AdmitBlind(r) ==
    /\ act.pc = "select" /\ req[r].at = "offer"
    /\ IF ~Fits(r)
       THEN /\ req' = [req EXCEPT ![r].at = "wait", ![r].sent = @ + 1]
            /\ act' = Turn(act)
            /\ UNCHANGED queue
       ELSE /\ req' = [req EXCEPT ![r].at = "wait", ![r].progress = "queued"]
            /\ act' = [Turn(act) EXCEPT !.bytes = @ + Bytes[r]]
            /\ queue' = InsertAt(queue, InsertIndex(r), r)
    /\ UNCHANGED <<now, deferred, active, batch, runner>>

\* admit: refused when its context is done or there is no room, else inserted in
\* the order of the remaining SLO (profiling: in the order of arrival).
Admit(r) ==
    /\ act.pc = "select" /\ req[r].at = "offer"
    /\ IF ContextDone(r) \/ ~Fits(r)
       THEN /\ req' = [req EXCEPT ![r].at = "wait", ![r].sent = @ + 1]
            /\ act' = Turn(act)
            /\ UNCHANGED queue
       ELSE /\ req' = [req EXCEPT ![r].at = "wait", ![r].progress = "queued"]
            /\ act' = [Turn(act) EXCEPT !.bytes = @ + Bytes[r]]
            /\ queue' = IF Mode = "profiling" THEN Append(queue, r)
                        ELSE InsertAt(queue, InsertIndex(r), r)
    /\ UNCHANGED <<now, deferred, active, batch, runner>>

\* A policy update changes MaxBatchSize; what is frozen for the instance stays.
Update(cap) ==
    /\ act.pc = "select" /\ act.cap # cap
    /\ act' = [Turn(act) EXCEPT !.cap = cap]
    /\ UNCHANGED <<now, req, queue, deferred, active, batch, runner>>

\* The timer of the last turn, or a wake-up by a handler that gave up.
Wake ==
    /\ act.pc = "select"
    /\ \/ act.wake /\ act' = [Turn(act) EXCEPT !.wake = FALSE]
       \/ act.next # None /\ now >= act.next /\ act' = Turn(act)
    /\ UNCHANGED <<now, req, queue, deferred, active, batch, runner>>

\* Mutant: the batch stays active after its results were sent.
FinishKeepsActive ==
    /\ act.pc = "select" /\ runner.completed \in {"output", "batch_error"}
    /\ req' = Finished(Range(active))
    /\ act' = Turn(act)
    /\ runner' = [runner EXCEPT !.completed = "none"]
    /\ UNCHANGED <<now, queue, deferred, active, batch>>

\* finishBatch: every active request gets its result, also when its own item or
\* the whole batch failed.
FinishBatch ==
    /\ act.pc = "select" /\ runner.completed \in {"output", "batch_error"}
    /\ req' = Finished(Range(active))
    /\ active' = <<>>
    /\ act' = Turn(act)
    /\ runner' = [runner EXCEPT !.completed = "none"]
    /\ UNCHANGED <<now, queue, deferred, batch>>

\* Mutant: the ends are reported while the runner still executes.
FailEarly ==
    /\ act.pc = "select"
    /\ runner.completed = "fatal" \/ ~runner.alive \/ act.term
    /\ req' = Finished(Held)
    /\ act' = [act EXCEPT !.pc = "done", !.next = None]
    /\ UNCHANGED <<now, queue, deferred, active, batch, runner>>

\* Mutant: deferred requests are forgotten.
FailForgetsDeferred ==
    /\ act.pc = "select"
    /\ runner.completed = "fatal" \/ ~runner.alive \/ act.term
    /\ runner' = [runner EXCEPT !.alive = FALSE, !.exchange = "idle"]
    /\ req' = Finished(Range(queue) \cup Range(active))
    /\ queue' = <<>> /\ deferred' = <<>> /\ active' = <<>>
    /\ act' = [act EXCEPT !.pc = "done", !.next = None]
    /\ UNCHANGED <<now, batch>>

\* fail: the runner is closed and has exited before anything is reported.
Fail ==
    /\ act.pc = "select"
    /\ runner.completed = "fatal" \/ ~runner.alive \/ act.term
    /\ runner' = [runner EXCEPT !.alive = FALSE, !.exchange = "idle"]
    /\ req' = Finished(Held)
    /\ queue' = <<>> /\ deferred' = <<>> /\ active' = <<>>
    /\ act' = [act EXCEPT !.pc = "done", !.next = None]
    /\ UNCHANGED <<now, batch>>

------------------------------------------------------------------------------
(* The runner (ipc.go) and the environment                                 *)

\* A frame the runner answers with: outputs (some items may have failed), or an
\* error of this batch alone.
ExchangeResults == {"output"} \cup (IF "error" \in Env THEN {"batch_error"} ELSE {})

\* infer returns: an output, an error of the batch alone, or an error after
\* which the runner process is closed (its own error, a timeout, its exit).
Infer ==
    /\ runner.exchange = "running"
    /\ \/ /\ runner.alive
          /\ \E v \in ExchangeResults :
                runner' = [runner EXCEPT !.exchange = "idle", !.completed = v]
       \/ /\ "error" \in Env \/ ~runner.alive \/ act.term
          /\ runner' = [alive |-> FALSE, exchange |-> "idle", completed |-> "fatal"]
    /\ UNCHANGED <<now, req, queue, deferred, active, act, batch>>

RunnerExit ==
    /\ "exit" \in Env /\ runner.alive
    /\ runner' = [runner EXCEPT !.alive = FALSE]
    /\ UNCHANGED <<now, req, queue, deferred, active, act, batch>>

Terminate ==
    /\ "term" \in Env /\ ~act.term
    /\ act' = [act EXCEPT !.term = TRUE]
    /\ UNCHANGED <<now, req, queue, deferred, active, batch, runner>>

Tick ==
    /\ act.pc \in {"select", "done"} /\ now < MaxTime
    /\ now' = now + 1
    /\ UNCHANGED <<req, queue, deferred, active, act, batch, runner>>

Next ==
    \/ \E r \in Requests :
         Serve(r) \/ Cancel(r) \/ Withdraw(r) \/ Return(r) \/ Abandon(r) \/ Admit(r)
    \/ ExpireQueued \/ StartBatch \/ Wake \/ FinishBatch \/ Fail
    \/ \E cap \in Caps : Update(cap)
    \/ Infer \/ RunnerExit \/ Terminate \/ Tick

Spec == Init /\ [][Next]_vars

\* The actor and the runner always make progress: the loop and its select are one
\* goroutine, a select picks among what is ready at random, an exchange ends at
\* the latest with RunnerTimeoutMS, and time passes.
Fairness ==
    /\ WF_vars(ExpireQueued) /\ WF_vars(StartBatch) /\ WF_vars(Infer) /\ WF_vars(Tick)
    /\ SF_vars(Wake) /\ SF_vars(FinishBatch) /\ SF_vars(Fail)
    /\ \A r \in Requests : WF_vars(Return(r)) /\ WF_vars(Abandon(r))
                           /\ SF_vars(Admit(r)) /\ WF_vars(Withdraw(r))

FairSpec == Spec /\ Fairness

------------------------------------------------------------------------------
(* Properties                                                              *)

\* The result channel of a request has one place: a second send would block the
\* actor for good, and a request that leaves the actor without one leaves its
\* handler waiting for good.
ResultOnce ==
    /\ IsInjective(queue \o deferred \o active)
    /\ \A r \in Requests :
          /\ req[r].sent <= 1
          /\ r \in Held => req[r].sent = 0
          /\ req[r].at = "wait" /\ r \notin Held => req[r].sent = 1

\* queuedBytes is what waits, so that the byte limit neither leaks nor grows; the
\* request limit counts deferred work too.
QueueBounds ==
    /\ act.pc # "done" => act.bytes = BytesOf(Range(queue) \cup Range(deferred))
    /\ act.bytes <= MaxQueueBytes
    /\ Len(queue) + Len(deferred) <= MaxQueueRequests

\* What waits is well formed: typed, counted, and within the limits on requests
\* and bytes.
QueueKept == TypeOK /\ QueueBounds

\* The queue is in the order of the remaining SLO: the batch that startBatch takes
\* from the front is the one whose feasibility ChooseBatch examined.
QueueInOrder ==
    Mode = "serving" =>
        \A m, n \in DOMAIN queue : m < n => Remaining(queue[m]) <= Remaining(queue[n])

\* A batch that was chosen because it is feasible can meet the SLO of each of its
\* members, and a batch serves one Workload and definition.
BatchMeetsSLO ==
    active # <<>> =>
        /\ \A r \in Range(active) : Key[r] = Key[active[1]]
        /\ batch.reason = "energy" => \A r \in Range(active) :
              req[r].received + Slo[r] - batch.started - Margin[r] - batch.cost >= 0

\* A fixed batch has exactly the configured size.
FixedBatchExact ==
    batch.reason = "fixed" /\ active # <<>> => Len(active) = FixedBatchSize

\* Profiling runs every trial by itself: its measured service time is its own.
TrialAlone == Mode = "profiling" => Len(active) <= 1

\* A batch is one the policy may start: the queue it is taken from is in order, it
\* meets the SLO of its requests, a fixed batch has exactly the size that was
\* fixed, and a trial runs alone.
BatchSound == QueueInOrder /\ BatchMeetsSLO /\ FixedBatchExact /\ TrialAlone

\* The ingress owner reads the end of an exchange and then an actor state without
\* the request as "never executed": a request whose context is done is never
\* admitted afterwards.
NoLateAdmissionStep ==
    \A r \in Requests : r \notin Held /\ ContextDone(r) => r \notin Held'
NoLateAdmission == [][NoLateAdmissionStep]_vars

\* What is admitted ends: it is dropped, expires, or its batch finishes.
AdmittedEnds == \A r \in Requests : r \in Held ~> r \notin Held

\* Every handler returns.
HandlerReturns == \A r \in Requests : req[r].at = "offer" ~> req[r].at = "gone"

\* The refinement: the actor is the executor that the ingress owner relies on.  A
\* request is over when it can no longer be admitted, and its end is told by a
\* complete answer or by its finished progress line.
Over == {r \in Requests : r \notin Held
            /\ (req[r].sent > 0 \/ (req[r].at = "gone" /\ req[r].answer = "complete"))}
Told == {r \in Requests : req[r].answer = "complete" \/ req[r].progress = "finished"}
Executor == INSTANCE NativeExecutor WITH held <- Held, over <- Over, told <- Told
ImplementsExecutor == Executor!Spec

\* What the runner process executes is what the actor holds as its batch: nothing
\* that was reported complete still executes.
Executing == IF runner.alive /\ runner.exchange = "running" THEN Range(active) ELSE {}
ToldNotExecuting == Told \cap Executing = {}

\* What a client has been told holds: it hears one result, and what it was told
\* has ended does not execute any more.
AnswersHold == ResultOnce /\ ToldNotExecuting
==============================================================================
