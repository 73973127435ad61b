------------------------ MODULE RuntimeControlProofs ------------------------
(***************************************************************************)
(* What Runtime promises about its routes and its finalizing counters, for *)
(* any number of requests, Workloads, executors, slots and boots:          *)
(*   OnlyReadyAssigned   a request is sent only to an executor that is     *)
(*                       ready, and routed and bound to its Workload now,  *)
(*   ContractRespected   an executor runs requests of its contract only,   *)
(*   RowsCounted         each counter counts the calls that unlock is      *)
(*                       closing.                                          *)
(*                                                                         *)
(* A route was computed by an earlier lock section than the dispatch that  *)
(* reads it.  RouteInv says that it is still what rebuildLocked would      *)
(* allow, and QueueContract what was published under a Workload since its  *)
(* queued requests were accepted.                                          *)
(*                                                                         *)
(* unlock counts a call in one lock section and takes it off in another,   *)
(* outside which its Workload may be published, detached or forgotten, its *)
(* executor retired or installed anew, and the process started again.      *)
(* CountInv therefore speaks of what is not registered as well: nothing    *)
(* that could still be taken off counts for it.  A step either closes      *)
(* nothing (CountsFrame), or starts or ends the closing of some calls      *)
(* (CountsClosing, CountsClosed).                                          *)
(***************************************************************************)
EXTENDS RuntimeSafetyProofs

-----------------------------------------------------------------------------
(* The routes                                                              *)

\* Workload x may send to executor y = ins[i], which is bound to it.
Routable(x, y, w, i) ==
    /\ x.reg = "on" /\ ~x.detached /\ Matches(x.def, y.profile)
    /\ y.routing = w /\ Owner[i] \in {None, w} /\ w \in y.bindings

Routes(W, I) == \A w \in Workloads : \A i \in W[w].route : Routable(W[w], I[i], w, i)

\* A profile is the executor's own.
Profiles(I) == \A i \in Instances : I[i].profile \in {None, ProfileOf[i]}

\* What AssignedReady rests on: routes are never stale.
RouteInv == Routes(wl, ins) /\ Profiles(ins)

\* A Workload that routes nothing new and keeps what its route depends on.
SameRoute(x, y) ==
    /\ y.route \in SUBSET x.route
    /\ y.route # {} => y.reg = x.reg /\ y.detached = x.detached /\ y.def = x.def

\* An executor that keeps what a route depends on.
SameTarget(x, y) ==
    /\ y.profile = x.profile /\ y.routing = x.routing
    /\ x.bindings \in SUBSET y.bindings

SameTargets(I, J) == \A i \in Instances : SameTarget(I[i], J[i])

\* Nothing that a route depends on changes.
LEMMA RoutesFrame ==
    ASSUME NEW W \in [Workloads -> WorkloadType], NEW I, NEW V, NEW J,
           Routes(W, I), Profiles(I),
           \A w \in Workloads : SameRoute(W[w], V[w]), SameTargets(I, J)
    PROVE  Routes(V, J) /\ Profiles(J)
<1>1. \A w \in Workloads : W[w].route \in SUBSET Instances
  BY DEF WorkloadType
<1>2. ASSUME NEW w \in Workloads, NEW i \in V[w].route PROVE Routable(V[w], J[i], w, i)
  <2>1. i \in W[w].route /\ i \in Instances
    BY <1>1, <1>2 DEF SameRoute
  <2>2. Routable(W[w], I[i], w, i)
    BY <2>1 DEF Routes
  <2>3. V[w].reg = W[w].reg /\ V[w].detached = W[w].detached /\ V[w].def = W[w].def
    BY <1>2 DEF SameRoute
  <2>4. SameTarget(I[i], J[i])
    BY <2>1 DEF SameTargets
  <2> QED BY <2>2, <2>3, <2>4 DEF Routable, SameTarget
<1> QED BY <1>2 DEF Routes, Profiles, SameTargets, SameTarget

\* A step that leaves the Workloads' routes alone.
LEMMA RouteFrame ==
    ASSUME TypeOK, RouteInv, \A w \in Workloads : SameRoute(wl[w], wl'[w]),
           SameTargets(ins, ins')
    PROVE  RouteInv'
<1>1. wl \in [Workloads -> WorkloadType] /\ Routes(wl, ins) /\ Profiles(ins)
  BY DEF TypeOK, RouteInv
<1>2. Routes(wl', ins') /\ Profiles(ins')
  BY <1>1, RoutesFrame
<1> QED BY <1>2 DEF RouteInv

LEMMA SameTargetsRefl == ASSUME NEW I PROVE SameTargets(I, I)
BY DEF SameTargets, SameTarget

\* A step that touches neither.
LEMMA RouteQuiet ==
    ASSUME TypeOK, RouteInv, UNCHANGED <<wl, ins>>
    PROVE  RouteInv'
BY RouteFrame, SameTargetsRefl DEF SameRoute

\* pruneInstanceBindingsLocked changes bindings only, and drops none of a route.
LEMMA PruneTarget ==
    ASSUME NEW C, NEW W, NEW I \in [Instances -> InstanceType], NEW i \in Instances
    PROVE  /\ Prune(C, W, I)[i].profile = I[i].profile
           /\ Prune(C, W, I)[i].routing = I[i].routing
           /\ \A w \in I[i].bindings :
                 W[w].reg = "on" /\ ~W[w].detached /\ Matches(W[w].def, I[i].profile) =>
                    w \in Prune(C, W, I)[i].bindings
<1> DEFINE b == {w \in I[i].bindings : KeepsBinding(C, W, I, w, i)}
<1>1. Prune(C, W, I)[i] = [I[i] EXCEPT !.bindings = b] /\ I[i] \in InstanceType
  BY DEF Prune
<1>2. \A w \in I[i].bindings :
         W[w].reg = "on" /\ ~W[w].detached /\ Matches(W[w].def, I[i].profile) => w \in b
  BY DEF KeepsBinding
<1> HIDE DEF b
<1> QED BY <1>1, <1>2 DEF InstanceType

\* rebuildLocked makes every route good, whatever they were.
LEMMA RebuildRoutes ==
    ASSUME NEW C, NEW W \in [Workloads -> WorkloadType],
           NEW I \in [Instances -> InstanceType], Rebuild(C, W, I), Profiles(I)
    PROVE  RouteInv'
<1> DEFINE P == Prune(C, W, I)
<1>1. P \in [Instances -> InstanceType]
  BY PruneType
<1>2. wl' = [w \in Workloads |-> [W[w] EXCEPT !.route = RouteOf(W, P, w)]]
  BY DEF Rebuild, Routed
<1>3. ins' = [i \in Instances |-> [P[i] EXCEPT !.bindings =
             P[i].bindings \cup {w \in Workloads : i \in RouteOf(W, P, w)}]]
  BY DEF Rebuild, Bound
<1>4. \A i \in Instances : P[i].profile = I[i].profile
  BY PruneTarget
<1> HIDE DEF P
<1>5. ASSUME NEW w \in Workloads
      PROVE  /\ wl'[w].route = RouteOf(W, P, w) /\ wl'[w].reg = W[w].reg
             /\ wl'[w].detached = W[w].detached /\ wl'[w].def = W[w].def
  <2> DEFINE x == RouteOf(W, P, w)
  <2>1. wl'[w] = [W[w] EXCEPT !.route = x]
    BY <1>2
  <2> HIDE DEF x
  <2>2. wl'[w].route = x /\ wl'[w].reg = W[w].reg
        /\ wl'[w].detached = W[w].detached /\ wl'[w].def = W[w].def
    BY <2>1 DEF WorkloadType
  <2> QED BY <2>2 DEF x
<1>6. ASSUME NEW i \in Instances
      PROVE  /\ ins'[i].profile = P[i].profile /\ ins'[i].routing = P[i].routing
             /\ \A w \in Workloads : i \in RouteOf(W, P, w) => w \in ins'[i].bindings
  <2> DEFINE b == P[i].bindings \cup {w \in Workloads : i \in RouteOf(W, P, w)}
  <2>1. ins'[i] = [P[i] EXCEPT !.bindings = b] /\ P[i] \in InstanceType
    BY <1>1, <1>3
  <2>2. \A w \in Workloads : i \in RouteOf(W, P, w) => w \in b
    OBVIOUS
  <2> HIDE DEF b
  <2> QED BY <2>1, <2>2 DEF InstanceType
<1>7. ASSUME NEW w \in Workloads, NEW i \in RouteOf(W, P, w)
      PROVE  /\ i \in Instances /\ W[w].reg = "on" /\ ~W[w].detached
             /\ Matches(W[w].def, P[i].profile) /\ P[i].routing = w
             /\ Owner[i] \in {None, w}
  BY <1>7 DEF RouteOf, Weighted
<1>8. Routes(wl', ins')
  <2> SUFFICES ASSUME NEW w \in Workloads, NEW i \in wl'[w].route
               PROVE  Routable(wl'[w], ins'[i], w, i)
    BY DEF Routes
  <2>1. i \in RouteOf(W, P, w)
    BY <1>5
  <2> QED BY <1>5, <1>6, <1>7, <2>1 DEF Routable
<1>9. Profiles(ins')
  BY <1>4, <1>6 DEF Profiles
<1> QED BY <1>8, <1>9 DEF RouteInv

-----------------------------------------------------------------------------
(* The calls: what every step but three leaves of them                     *)

\* The call keeps its definition, takes no executor and is sent nowhere else.
Tame(c, d) ==
    /\ d.def = c.def /\ d.instance \in {None, c.instance}
    /\ d.exec \in Sending => c.exec \in Sending /\ d.assignment = c.assignment

Tamed == \A r \in Requests : Tame(call[r], call'[r])

LEMMA TameRefl == ASSUME NEW c PROVE Tame(c, c)
BY DEF Tame

LEMMA TameTrans ==
    ASSUME NEW c, NEW d, NEW e, Tame(c, d), Tame(d, e)
    PROVE  Tame(c, e)
BY DEF Tame

\* One call is replaced.
LEMMA TameCall ==
    ASSUME TypeOK, NEW r \in Requests, NEW v, call' = [call EXCEPT ![r] = v],
           Tame(call[r], v)
    PROVE  Tamed
BY TameRefl DEF Tamed, TypeOK

\* releaseLocked lets go of an executor.
LEMMA ReleaseLockedTame ==
    ASSUME NEW c \in CallType
    PROVE  Tame(c, ReleaseLocked(c))
BY DEF ReleaseLocked, Closes, Settled, Tame, CallType

\* Calls change, and some of them are released.
LEMMA ReleasedTame ==
    ASSUME NEW C \in [Requests -> CallType], NEW S, call' = Released(C, S),
           \A r \in Requests : Tame(call[r], C[r])
    PROVE  Tamed
<1> SUFFICES ASSUME NEW r \in Requests PROVE Tame(call[r], call'[r])
  BY DEF Tamed
<1>1. call'[r] = ReleaseLocked(C[r]) \/ call'[r] = C[r]
  BY DEF Released
<1>2. Tame(C[r], ReleaseLocked(C[r])) /\ Tame(call[r], C[r])
  BY ReleaseLockedTame
<1> QED BY <1>1, <1>2, TameTrans

\* The tail of Response, execute and ObserveBackend.
LEMMA ReleaseTame ==
    ASSUME TypeOK, NEW r \in Requests, NEW v \in CallType,
           ReleaseAndDispatch([call EXCEPT ![r] = v], r), Tame(call[r], v)
    PROVE  Tamed
<1> DEFINE C == [call EXCEPT ![r] = v]
<1>1. C \in [Requests -> CallType] /\ \A x \in Requests : Tame(call[x], C[x])
  BY TameRefl DEF TypeOK
<1>2. call' = Released(C, {r})
  BY DEF ReleaseAndDispatch
<1> HIDE DEF C
<1> QED BY <1>1, <1>2, ReleasedTame

\* A handler, once the request is received, changes no definition.
LEMMA HandlerTame ==
    ASSUME TypeOK, NEW r \in Requests, HandlerStep(r),
           \A w \in Workloads \cup {None} : ~Receive(r, w)
    PROVE  Tamed
<1> DEFINE c == call[r]
<1>c. c \in CallType
  BY DEF TypeOK
<1>a. ASSUME NEW at, call' = [call EXCEPT ![r].at = at] PROVE Tamed
  <2> DEFINE v == [c EXCEPT !.at = at]
  <2>1. call' = [call EXCEPT ![r] = v] /\ Tame(c, v)
    BY <1>a, <1>c DEF Tame, CallType
  <2> HIDE DEF v
  <2> QED BY <2>1, TameCall
<1>1. CASE Validate(r)
  <2>1. \E at : call' = [call EXCEPT ![r].at = at]
    BY <1>1 DEF Validate
  <2> QED BY <2>1, <1>a
<1>2. CASE Reject(r) \/ WaitReply(r)
  <2>1. call' = [call EXCEPT ![r].at = "respond"]
    BY <1>2 DEF Reject, WaitReply
  <2> QED BY <2>1, <1>a
<1>3. CASE Accept(r)
  <2> DEFINE v == [c EXCEPT !.at = "waiting", !.live = TRUE]
  <2>1. call' = [call EXCEPT ![r] = v] /\ Tame(c, v)
    BY <1>3, <1>c DEF Accept, Tame, CallType
  <2> HIDE DEF v
  <2> QED BY <2>1, TameCall
<1>4. CASE WaitDone(r)
  <2> DEFINE a == c.backendDone \/ c.assignment = None
             b == c.transportDone \/ c.assignment = None
             v == [c EXCEPT !.at = "respond", !.backendDone = a, !.transportDone = b,
                            !.canceled = TRUE]
  <2>1. call' = [call EXCEPT ![r] = v]
    BY <1>4 DEF WaitDone
  <2> HIDE DEF a, b
  <2>2. Tame(c, v)
    BY <1>c DEF Tame, CallType
  <2> HIDE DEF v
  <2> QED BY <2>1, <2>2, TameCall
<1>5. CASE ResponseLive(r)
  <2>1. CASE call' = [call EXCEPT ![r].at = "done"]
    BY <2>1, <1>a
  <2> DEFINE v == [c EXCEPT !.at = "done", !.responseRecorded = TRUE]
  <2>2. CASE ReleaseAndDispatch([call EXCEPT ![r] = v], r)
    <3>1. v \in CallType /\ Tame(c, v)
      BY <1>c DEF Tame, CallType, Places
    <3> HIDE DEF v
    <3> QED BY <2>2, <3>1, ReleaseTame
  <2> QED BY <1>5, <2>1, <2>2 DEF ResponseLive
<1>6. CASE ResponseRejected(r)
  <2>1. CASE call' = [call EXCEPT ![r].at = "done"]
    BY <2>1, <1>a
  <2> DEFINE v == [c EXCEPT !.at = "done", !.responseRecorded = TRUE, !.close = "closing"]
  <2>2. CASE call' = [call EXCEPT ![r] = v]
    <3>1. Tame(c, v)
      BY <1>c DEF Tame, CallType
    <3> HIDE DEF v
    <3> QED BY <2>2, <3>1, TameCall
  <2> QED BY <1>6, <2>1, <2>2 DEF ResponseRejected
<1>7. CASE RequestClosed(r)
  <2> DEFINE v == [c EXCEPT !.close = "rowed"]
  <2>1. call' = [call EXCEPT ![r] = v] /\ Tame(c, v)
    BY <1>7, <1>c DEF RequestClosed, Tame, CallType
  <2> HIDE DEF v
  <2> QED BY <2>1, TameCall
<1>8. CASE Finalized(r)
  <2> DEFINE v == RowOnly(c)
  <2>1. call' = [call EXCEPT ![r] = v]
    BY <1>8 DEF Finalized
  <2>2. Tame(c, v)
    BY DEF Tame, RowOnly, NewCall, Sending
  <2> HIDE DEF v
  <2> QED BY <2>1, <2>2, TameCall
<1> QED BY <1>1, <1>2, <1>3, <1>4, <1>5, <1>6, <1>7, <1>8 DEF HandlerStep

\* execute sends its request to the executor it was given, and to no other.
LEMMA ExecuteTame ==
    ASSUME TypeOK, NEW r \in Requests, ExecuteStep(r)
    PROVE  Tamed
<1> DEFINE c == call[r]
<1>c. c \in CallType
  BY DEF TypeOK
<1>a. ASSUME NEW x, call' = [call EXCEPT ![r].exec = x], x \in Sending => c.exec \in Sending
      PROVE Tamed
  <2> DEFINE v == [c EXCEPT !.exec = x]
  <2>1. call' = [call EXCEPT ![r] = v] /\ Tame(c, v)
    BY <1>a, <1>c DEF Tame, CallType
  <2> HIDE DEF v
  <2> QED BY <2>1, TameCall
<1>1. CASE ExecuteBegin(r)
  <2>1. c.exec = "spawned" /\ \E x : call' = [call EXCEPT ![r].exec = x]
    BY <1>1 DEF ExecuteBegin
  <2> QED BY <2>1, <1>a DEF Sending
<1>2. CASE ExchangeComplete(r) \/ ExchangeBroken(r)
  <2>1. \E x : call' = [call EXCEPT ![r].exec = x] /\ x \notin Sending
    BY <1>2 DEF ExchangeComplete, ExchangeBroken, Sending
  <2> QED BY <2>1, <1>a
<1>3. CASE ExecuteEnd(r)
  <2> DEFINE x == c.exec
             a == IF x = "unlogged" THEN None ELSE c.assignment
             p == c.progress \/ (x = "complete" /\ phys[r].st = "ran")
             b == c.backendDone \/ x # "broken"
             n == c.sends + 1
             v == [c EXCEPT !.exec = "over", !.assignment = a, !.transportDone = TRUE,
                            !.progress = p, !.backendDone = b, !.sends = n]
  <2>1. ReleaseAndDispatch([call EXCEPT ![r] = v], r)
    BY <1>3 DEF ExecuteEnd
  <2>2. a \in Instances \cup {None} /\ p \in BOOLEAN /\ b \in BOOLEAN /\ n \in Nat
    BY <1>c DEF CallType
  <2> HIDE DEF a, p, b, n
  <2>3. v \in CallType
    BY ZenonT(60), <1>c, <2>2 DEF CallType, Executions
  <2>f. v.def = c.def /\ v.instance = c.instance /\ v.exec = "over"
    BY <1>c DEF CallType
  <2> HIDE DEF v
  <2>4. Tame(c, v)
    BY <1>c, <2>f DEF Tame, CallType, Sending
  <2> QED BY <2>1, <2>3, <2>4, ReleaseTame
<1> QED BY <1>1, <1>2, <1>3 DEF ExecuteStep

\* A proof that an executor has finished with the calls of S changes nothing else.
LEMMA EvidenceTame ==
    ASSUME TypeOK, NEW S \in SUBSET Requests, NEW C,
           C = [r \in Requests |-> IF r \in S
                  THEN [call[r] EXCEPT !.backendDone = TRUE] ELSE call[r]],
           call' = Released(C, S)
    PROVE  Tamed
<1>1. C \in [Requests -> CallType]
  BY EvidenceType
<1>2. ASSUME NEW r \in Requests PROVE Tame(call[r], C[r])
  <2>1. call[r] \in CallType
    BY DEF TypeOK
  <2> QED BY <2>1 DEF Tame, CallType
<1> QED BY <1>1, <1>2, ReleasedTame

-----------------------------------------------------------------------------
(* The contracts                                                           *)

\* A request that is sent is sent to an executor of its contract.
SentContract ==
    \A r \in Requests : call[r].exec \in Sending =>
        Contract[call[r].def] = ProfileOf[call[r].assignment]

\* Queued requests have the contract of the applied definition, though it may be
\* another definition than theirs.
QueueContract ==
    \A w \in Workloads : \A r \in Requests :
        InQueue(r, wl[w].queue) => Contract[call[r].def] = Contract[wl[w].def]

\* What AssignedReady and RightContract rest on, beside TypeOK, ServedInv, SafeInv.
RoutingInv == RouteInv /\ SentContract /\ QueueContract

\* A Workload that queues nothing new keeps the contract of what is queued.
QueueLess(x, y) ==
    \A r \in Requests : InQueue(r, y.queue) =>
        InQueue(r, x.queue) /\ Contract[y.def] = Contract[x.def]

LEMMA QueueLessSame ==
    ASSUME NEW x, NEW y, y.queue = x.queue, y.def = x.def
    PROVE  QueueLess(x, y)
BY DEF QueueLess

LEMMA QueueLessTrans ==
    ASSUME NEW x, NEW y, NEW z, QueueLess(x, y), QueueLess(y, z)
    PROVE  QueueLess(x, z)
BY DEF QueueLess

\* Contracts are kept by steps that send and queue nothing new.
LEMMA ContractFrame ==
    ASSUME RoutingInv, Tamed, \A w \in Workloads : QueueLess(wl[w], wl'[w])
    PROVE  SentContract' /\ QueueContract'
<1>1. SentContract'
  BY DEF RoutingInv, SentContract, Tamed, Tame
<1>2. QueueContract'
  BY DEF RoutingInv, QueueContract, Tamed, Tame, QueueLess
<1> QED BY <1>1, <1>2

\* A step that keeps the routes.
LEMMA RoutingFrame ==
    ASSUME TypeOK, RoutingInv, Tamed, SameTargets(ins, ins'),
           \A w \in Workloads : SameRoute(wl[w], wl'[w]) /\ QueueLess(wl[w], wl'[w])
    PROVE  RoutingInv'
<1>1. RouteInv'
  BY RouteFrame DEF RoutingInv
<1> QED BY <1>1, ContractFrame DEF RoutingInv

\* A step that leaves Workloads and executors alone.
LEMMA RoutingQuiet ==
    ASSUME TypeOK, RoutingInv, Tamed, UNCHANGED <<wl, ins>>
    PROVE  RoutingInv'
<1>1. \A w \in Workloads : SameRoute(wl[w], wl'[w]) /\ QueueLess(wl[w], wl'[w])
  BY DEF SameRoute, QueueLess
<1> QED BY <1>1, SameTargetsRefl, RoutingFrame

\* A step that ends in rebuildLocked.
LEMMA RoutingRebuild ==
    ASSUME TypeOK, RoutingInv, Tamed, NEW C, NEW W \in [Workloads -> WorkloadType],
           NEW I \in [Instances -> InstanceType], Rebuild(C, W, I), Profiles(I),
           \A w \in Workloads : QueueLess(wl[w], W[w])
    PROVE  RoutingInv'
<1>1. RouteInv'
  BY RebuildRoutes
<1>2. ASSUME NEW w \in Workloads PROVE QueueLess(wl[w], wl'[w])
  <2> DEFINE x == RouteOf(W, Prune(C, W, I), w)
  <2>1. wl'[w] = [W[w] EXCEPT !.route = x]
    BY DEF Rebuild, Routed
  <2> HIDE DEF x
  <2>2. wl'[w].queue = W[w].queue /\ wl'[w].def = W[w].def
    BY <2>1 DEF WorkloadType
  <2> QED BY <2>2, QueueLessSame, QueueLessTrans
<1> QED BY <1>1, <1>2, ContractFrame DEF RoutingInv

\* closeLocked counts on the Workload and changes nothing else of it.
LEMMA WorkloadsReleasedFields ==
    ASSUME NEW W \in [Workloads -> WorkloadType], NEW C, NEW S, NEW w \in Workloads
    PROVE  LET x == W[w]
               y == WorkloadsReleased(W, C, S)[w] IN
           /\ y.queue = x.queue /\ y.reg = x.reg /\ y.def = x.def
           /\ y.detached = x.detached /\ y.route = x.route
<1> DEFINE n == W[w].finalizing + IF W[w].reg = "on"
                THEN Cardinality({r \in S : Closes(C[r]) /\ C[r].uid = w})
                ELSE 0
<1>1. WorkloadsReleased(W, C, S)[w] = [W[w] EXCEPT !.finalizing = n] /\ W[w] \in WorkloadType
  BY DEF WorkloadsReleased
<1> HIDE DEF n
<1> QED BY <1>1 DEF WorkloadType

\* closeLocked and releaseLocked change an executor's counters only.
LEMMA InstancesReleasedTarget ==
    ASSUME NEW I \in [Instances -> InstanceType], NEW C, NEW S
    PROVE  SameTargets(I, InstancesReleased(I, C, S))
<1> SUFFICES ASSUME NEW i \in Instances
             PROVE  SameTarget(I[i], InstancesReleased(I, C, S)[i])
  BY DEF SameTargets
<1> DEFINE x == I[i].outstanding - Cardinality(Freed(C, S, i))
           y == I[i].finalizing + IF I[i].known
                THEN Cardinality({r \in S : Closes(C[r]) /\ C[r].assignment = i})
                ELSE 0
<1>1. InstancesReleased(I, C, S)[i] = [I[i] EXCEPT !.outstanding = x, !.finalizing = y]
      /\ I[i] \in InstanceType
  BY DEF InstancesReleased, Freed
<1> HIDE DEF x, y
<1> QED BY <1>1 DEF InstanceType, SameTarget

LEMMA TargetsProfiles ==
    ASSUME NEW I, NEW J, Profiles(I), SameTargets(I, J)
    PROVE  Profiles(J)
BY DEF Profiles, SameTargets, SameTarget

\* The tail of Response, execute and ObserveBackend prunes, but it drops no binding
\* that a route needs.
LEMMA RoutingRelease ==
    ASSUME TypeOK, RoutingInv, NEW r \in Requests, NEW v \in CallType,
           ReleaseAndDispatch([call EXCEPT ![r] = v], r), Tame(call[r], v)
    PROVE  RoutingInv'
<1> DEFINE C == [call EXCEPT ![r] = v]
           I == InstancesReleased(ins, C, {r})
<1>1. /\ wl' = WorkloadsReleased(wl, C, {r})
      /\ ins' = Prune(C, wl, I) \/ ins' = I
  BY DEF ReleaseAndDispatch
<1>2. Tamed
  BY ReleaseTame
<1>3. I \in [Instances -> InstanceType] /\ SameTargets(ins, I)
      /\ wl \in [Workloads -> WorkloadType]
  BY InstancesReleasedType, InstancesReleasedTarget DEF TypeOK
<1> HIDE DEF C, I
<1>4. \A w \in Workloads :
         /\ wl'[w].queue = wl[w].queue /\ wl'[w].reg = wl[w].reg /\ wl'[w].def = wl[w].def
         /\ wl'[w].detached = wl[w].detached /\ wl'[w].route = wl[w].route
  BY <1>1, <1>3, WorkloadsReleasedFields
<1>5. \A w \in Workloads : SameRoute(wl[w], wl'[w]) /\ QueueLess(wl[w], wl'[w])
  BY <1>4, QueueLessSame DEF SameRoute
<1>6. CASE ins' = I
  BY <1>2, <1>3, <1>5, <1>6, RoutingFrame
<1>7. CASE ins' = Prune(C, wl, I)
  <2>1. Routes(wl, I) /\ Profiles(I)
    <3>1. \A w \in Workloads : SameRoute(wl[w], wl[w])
      BY DEF SameRoute
    <3> QED BY <1>3, <3>1, RoutesFrame DEF RoutingInv, RouteInv
  <2>2. \A i \in Instances :
           /\ ins'[i].profile = I[i].profile /\ ins'[i].routing = I[i].routing
           /\ \A w \in I[i].bindings :
                 wl[w].reg = "on" /\ ~wl[w].detached /\ Matches(wl[w].def, I[i].profile) =>
                    w \in ins'[i].bindings
    BY <1>3, <1>7, PruneTarget
  <2>3. \A w \in Workloads : wl[w].route \in SUBSET Instances
    BY <1>3 DEF WorkloadType
  <2>4. Routes(wl', ins') /\ Profiles(ins')
    BY <1>4, <2>1, <2>2, <2>3 DEF Routes, Routable, Profiles
  <2>5. SentContract' /\ QueueContract'
    BY <1>2, <1>5, ContractFrame
  <2> QED BY <2>4, <2>5 DEF RoutingInv, RouteInv
<1> QED BY <1>1, <1>6, <1>7

-----------------------------------------------------------------------------
(* Handlers, dispatchLocked, execute                                       *)

\* Receive: nothing of the call is queued or sent.
LEMMA ReceiveRouting ==
    ASSUME TypeOK, ServedInv, RoutingInv, NEW r \in Requests, NEW w, Receive(r, w)
    PROVE  RoutingInv' /\ call'[r].instance = call[r].instance
           /\ \A x \in Requests \ {r} : call'[x] = call[x]
<1>1. PICK at, u, d : call' = [call EXCEPT ![r] = [call[r] EXCEPT !.at = at, !.uid = u, !.def = d]]
  BY DEF Receive
<1> DEFINE v == [call[r] EXCEPT !.at = at, !.uid = u, !.def = d]
<1>2. call' = [call EXCEPT ![r] = v] /\ call[r] \in CallType /\ call[r].at = "new"
      /\ UNCHANGED <<wl, ins>>
  BY <1>1 DEF Receive, TypeOK
<1>3. v.exec = call[r].exec /\ v.instance = call[r].instance
  BY <1>2 DEF CallType
<1> HIDE DEF v
<1>4. call'[r] = v /\ \A x \in Requests \ {r} : call'[x] = call[x]
  BY <1>2 DEF TypeOK
<1>5. call[r].exec = "none"
  BY <1>2 DEF ServedInv, CallsInv, CallInv, FreshCall
<1>6. \A x \in Workloads : ~InQueue(r, wl[x].queue)
  BY <1>2, UnqueuedCall DEF ServedInv, Unqueued
<1>7. SentContract'
  BY <1>3, <1>4, <1>5 DEF RoutingInv, SentContract, Sending
<1>8. QueueContract'
  <2> SUFFICES ASSUME NEW u1 \in Workloads, NEW x \in Requests, InQueue(x, wl[u1].queue)
               PROVE  Contract[call'[x].def] = Contract[wl[u1].def]
    BY <1>2 DEF QueueContract
  <2>1. x # r
    BY <1>6
  <2> QED BY <1>4, <2>1 DEF RoutingInv, QueueContract
<1>9. RouteInv'
  BY <1>2, RouteQuiet DEF RoutingInv
<1> QED BY <1>3, <1>4, <1>7, <1>8, <1>9 DEF RoutingInv

\* One Workload is replaced by one with the same route.
LEMMA WorkloadFrame ==
    ASSUME TypeOK, NEW w \in Workloads, NEW v, wl' = [wl EXCEPT ![w] = v],
           v.route = wl[w].route, v.reg = wl[w].reg, v.detached = wl[w].detached,
           v.def = wl[w].def, QueueLess(wl[w], v)
    PROVE  \A x \in Workloads : SameRoute(wl[x], wl'[x]) /\ QueueLess(wl[x], wl'[x])
<1>1. wl'[w] = v /\ \A x \in Workloads \ {w} : wl'[x] = wl[x]
  BY DEF TypeOK
<1>2. \A x \in Workloads \ {w} : SameRoute(wl[x], wl'[x]) /\ QueueLess(wl[x], wl'[x])
  BY <1>1 DEF SameRoute, QueueLess
<1>3. SameRoute(wl[w], wl'[w]) /\ QueueLess(wl[w], wl'[w])
  BY <1>1 DEF SameRoute
<1> QED BY <1>2, <1>3

\* A Workload's queue, counter or admission changes.
LEMMA WorkloadField ==
    ASSUME TypeOK, NEW w \in Workloads, NEW n, NEW s, NEW d,
           \/ wl' = [wl EXCEPT ![w] = [wl[w] EXCEPT !.finalizing = n]]
           \/ wl' = [wl EXCEPT ![w] = [wl[w] EXCEPT !.stopped = s, !.restartDrain = d]]
           \/ /\ wl' = [wl EXCEPT ![w] = [wl[w] EXCEPT !.queue = n]]
              /\ \A r \in Requests : InQueue(r, n) => InQueue(r, wl[w].queue)
    PROVE  \A x \in Workloads : SameRoute(wl[x], wl'[x]) /\ QueueLess(wl[x], wl'[x])
<1>t. wl[w] \in WorkloadType
  BY DEF TypeOK
<1>1. CASE wl' = [wl EXCEPT ![w] = [wl[w] EXCEPT !.finalizing = n]]
  <2> DEFINE v == [wl[w] EXCEPT !.finalizing = n]
  <2>1. /\ wl' = [wl EXCEPT ![w] = v]
        /\ v.route = wl[w].route /\ v.reg = wl[w].reg /\ v.detached = wl[w].detached
        /\ v.def = wl[w].def /\ v.queue = wl[w].queue
    BY <1>1, <1>t DEF WorkloadType
  <2> HIDE DEF v
  <2>2. QueueLess(wl[w], v)
    BY <2>1, QueueLessSame
  <2> QED BY <2>1, <2>2, WorkloadFrame
<1>2. CASE wl' = [wl EXCEPT ![w] = [wl[w] EXCEPT !.stopped = s, !.restartDrain = d]]
  <2> DEFINE v == [wl[w] EXCEPT !.stopped = s, !.restartDrain = d]
  <2>1. /\ wl' = [wl EXCEPT ![w] = v]
        /\ v.route = wl[w].route /\ v.reg = wl[w].reg /\ v.detached = wl[w].detached
        /\ v.def = wl[w].def /\ v.queue = wl[w].queue
    BY <1>2, <1>t DEF WorkloadType
  <2> HIDE DEF v
  <2>2. QueueLess(wl[w], v)
    BY <2>1, QueueLessSame
  <2> QED BY <2>1, <2>2, WorkloadFrame
<1>3. CASE /\ wl' = [wl EXCEPT ![w] = [wl[w] EXCEPT !.queue = n]]
           /\ \A r \in Requests : InQueue(r, n) => InQueue(r, wl[w].queue)
  <2> DEFINE v == [wl[w] EXCEPT !.queue = n]
  <2>1. /\ wl' = [wl EXCEPT ![w] = v]
        /\ v.route = wl[w].route /\ v.reg = wl[w].reg /\ v.detached = wl[w].detached
        /\ v.def = wl[w].def /\ v.queue = n
    BY <1>3, <1>t DEF WorkloadType
  <2> HIDE DEF v
  <2>2. QueueLess(wl[w], v)
    BY <1>3, <2>1 DEF QueueLess
  <2> QED BY <2>1, <2>2, WorkloadFrame
<1> QED BY <1>1, <1>2, <1>3

\* One executor's counters or state change.
LEMMA InstanceFrame ==
    ASSUME TypeOK, NEW i \in Instances, NEW v, ins' = [ins EXCEPT ![i] = v],
           SameTarget(ins[i], v)
    PROVE  SameTargets(ins, ins')
BY DEF SameTargets, SameTarget, TypeOK

\* Accept queues a call of the applied definition.
LEMMA AcceptRouting ==
    ASSUME TypeOK, ServedInv, RoutingInv, NEW r \in Requests, Accept(r), Tamed
    PROVE  RoutingInv'
<1> DEFINE w == call[r].uid
           q == wl[w].queue
           p == Append(q, r)
           v == [wl[w] EXCEPT !.queue = p]
<1>1. call[r].at = "validated" /\ w \in Workloads
  BY DEF Accept, ServedInv, CallsInv, CallInv, NamedCall
<1>2. wl' = [wl EXCEPT ![w] = v] /\ UNCHANGED ins /\ wl[w].def = call[r].def
  BY DEF Accept, Admissible
<1>3. q \in Seq(Requests) /\ Distinct(q) /\ ~InQueue(r, q) /\ wl[w] \in WorkloadType
  BY <1>1, UnqueuedCall DEF TypeOK, WorkloadType, ServedInv, QueuesInv, Unqueued
<1>4. \A x \in Requests \ {r} : InQueue(x, p) <=> InQueue(x, q)
  BY <1>3, AppendQueue
<1> HIDE DEF p
<1>5. v.route = wl[w].route /\ v.reg = wl[w].reg /\ v.detached = wl[w].detached
      /\ v.def = wl[w].def /\ v.queue = p
  BY <1>3 DEF WorkloadType
<1> HIDE DEF v
<1>6. wl'[w] = v /\ \A x \in Workloads \ {w} : wl'[x] = wl[x]
  BY <1>1, <1>2 DEF TypeOK
<1>7. RouteInv'
  <2>1. \A x \in Workloads : SameRoute(wl[x], wl'[x])
    BY <1>5, <1>6 DEF SameRoute
  <2> QED BY <1>2, <2>1, SameTargetsRefl, RouteFrame DEF RoutingInv
<1>8. SentContract'
  BY DEF RoutingInv, SentContract, Tamed, Tame
<1>9. QueueContract'
  <2> SUFFICES ASSUME NEW x \in Workloads, NEW y \in Requests, InQueue(y, wl'[x].queue)
               PROVE  Contract[call'[y].def] = Contract[wl'[x].def]
    BY DEF QueueContract
  <2>1. call'[y].def = call[y].def /\ wl'[x].def = wl[x].def
    BY <1>5, <1>6 DEF Tamed, Tame
  <2>2. CASE x = w /\ y = r
    BY <1>2, <2>1, <2>2
  <2>3. CASE ~(x = w /\ y = r)
    BY <1>4, <1>5, <1>6, <2>1, <2>3 DEF RoutingInv, QueueContract
  <2> QED BY <2>2, <2>3
<1> QED BY <1>7, <1>8, <1>9 DEF RoutingInv

\* Every handler step but Receive.
LEMMA HandlerRouting ==
    ASSUME TypeOK, ServedInv, RoutingInv, NEW r \in Requests, HandlerStep(r), Tamed
    PROVE  RoutingInv'
<1> DEFINE c == call[r]
           w == c.uid
<1>c. c \in CallType /\ w \in Workloads \cup {None}
  BY DEF TypeOK, CallType
<1>1. CASE \/ \E x \in Workloads \cup {None} : Receive(r, x)
           \/ Validate(r) \/ Reject(r) \/ WaitReply(r) \/ RequestClosed(r)
  <2>1. UNCHANGED <<wl, ins>>
    BY <1>1 DEF Receive, Validate, Reject, WaitReply, RequestClosed
  <2> QED BY SMTT(30), <2>1, RoutingQuiet
<1>2. CASE Accept(r)
  BY <1>2, AcceptRouting
<1>3. CASE WaitDone(r)
  <2> DEFINE q == wl[w].queue
             p == IF c.assignment = None THEN removeQueued(q, r) ELSE q
  <2>1. w \in Workloads
    BY <1>3 DEF WaitDone, ServedInv, CallsInv, CallInv, NamedCall
  <2>2. q \in Seq(Requests) /\ Distinct(q)
    BY <2>1 DEF TypeOK, WorkloadType, ServedInv, QueuesInv
  <2>3. \A x \in Requests : InQueue(x, removeQueued(q, r)) => InQueue(x, q)
    BY <2>2, RemoveQueue
  <2>4. \A x \in Requests : InQueue(x, p) => InQueue(x, q)
    BY <2>3
  <2>5. wl' = [wl EXCEPT ![w] = [wl[w] EXCEPT !.queue = p]] /\ UNCHANGED ins
    BY <1>3 DEF WaitDone
  <2> HIDE DEF p
  <2>6. \A x \in Workloads : SameRoute(wl[x], wl'[x]) /\ QueueLess(wl[x], wl'[x])
    BY <2>1, <2>4, <2>5, WorkloadField
  <2> QED BY <2>5, <2>6, SameTargetsRefl, RoutingFrame
<1>4. CASE ResponseLive(r)
  <2>1. CASE UNCHANGED <<wl, ins>>
    BY <2>1, RoutingQuiet
  <2> DEFINE v == [c EXCEPT !.at = "done", !.responseRecorded = TRUE]
  <2>2. CASE ReleaseAndDispatch([call EXCEPT ![r] = v], r)
    <3>1. v \in CallType /\ Tame(c, v)
      BY <1>c DEF Tame, CallType, Places
    <3> HIDE DEF v
    <3> QED BY <2>2, <3>1, RoutingRelease
  <2> QED BY <1>4, <2>1, <2>2 DEF ResponseLive
<1>5. CASE ResponseRejected(r)
  <2>1. UNCHANGED ins
    BY <1>5 DEF ResponseRejected
  <2>2. CASE UNCHANGED wl
    BY <2>1, <2>2, RoutingQuiet
  <2>3. CASE w # None /\ wl' = [wl EXCEPT ![w].finalizing = @ + 1]
    <3> DEFINE n == wl[w].finalizing + 1
    <3>1. wl' = [wl EXCEPT ![w] = [wl[w] EXCEPT !.finalizing = n]] /\ w \in Workloads
      BY <1>c, <2>3
    <3> HIDE DEF n
    <3>2. \A x \in Workloads : SameRoute(wl[x], wl'[x]) /\ QueueLess(wl[x], wl'[x])
      BY <3>1, WorkloadField
    <3> QED BY <2>1, <3>2, SameTargetsRefl, RoutingFrame
  <2> QED BY <1>5, <2>2, <2>3 DEF ResponseRejected
<1>6. CASE Finalized(r)
  <2> DEFINE i == c.assignment
  <2>1. \A x \in Workloads : SameRoute(wl[x], wl'[x]) /\ QueueLess(wl[x], wl'[x])
    <3>1. CASE UNCHANGED wl
      BY <3>1 DEF SameRoute, QueueLess
    <3>2. CASE w # None /\ wl' = [wl EXCEPT ![w].finalizing = @ - 1]
      <4> DEFINE n == wl[w].finalizing - 1
      <4>1. wl' = [wl EXCEPT ![w] = [wl[w] EXCEPT !.finalizing = n]] /\ w \in Workloads
        BY <1>c, <3>2
      <4> HIDE DEF n
      <4> QED BY <4>1, WorkloadField
    <3> QED BY <1>6, <3>1, <3>2 DEF Finalized
  <2>2. SameTargets(ins, ins')
    <3>1. CASE UNCHANGED ins
      BY <3>1, SameTargetsRefl
    <3>2. CASE i # None /\ ins' = [ins EXCEPT ![i].finalizing = @ - 1]
      <4> DEFINE n == ins[i].finalizing - 1
                 v == [ins[i] EXCEPT !.finalizing = n]
      <4>1. ins' = [ins EXCEPT ![i] = v] /\ i \in Instances /\ ins[i] \in InstanceType
        BY <1>c, <3>2 DEF CallType, TypeOK
      <4> HIDE DEF n
      <4>2. SameTarget(ins[i], v)
        BY <4>1 DEF SameTarget, InstanceType
      <4> HIDE DEF v
      <4> QED BY <4>1, <4>2, InstanceFrame
    <3> QED BY <1>6, <3>1, <3>2 DEF Finalized
  <2> QED BY <2>1, <2>2, RoutingFrame
<1> QED BY <1>1, <1>2, <1>3, <1>4, <1>5, <1>6 DEF HandlerStep

\* An expired head is answered.
LEMMA DispatchExpiredRouting ==
    ASSUME TypeOK, ServedInv, RoutingInv, NEW w \in Workloads, DispatchExpired(w)
    PROVE  RoutingInv' /\ Tamed
<1> DEFINE q == wl[w].queue
           r == Head(q)
           c == call[r]
           n == c.sends + 1
           v == [c EXCEPT !.backendDone = TRUE, !.transportDone = TRUE, !.sends = n]
           p == Tail(q)
<1>1. /\ call' = [call EXCEPT ![r] = v] /\ UNCHANGED ins /\ q # <<>>
      /\ wl' = [wl EXCEPT ![w] = [wl[w] EXCEPT !.queue = p]]
  BY DEF DispatchExpired
<1>2. q \in Seq(Requests) /\ Distinct(q)
  BY DEF TypeOK, WorkloadType, ServedInv, QueuesInv
<1>3. /\ r \in Requests /\ c \in CallType
      /\ \A x \in Requests : InQueue(x, p) => InQueue(x, q)
  BY <1>1, <1>2, TailQueue DEF TypeOK
<1> HIDE DEF n, p
<1>4. Tame(c, v)
  BY <1>3 DEF Tame, CallType
<1> HIDE DEF v, r
<1>5. Tamed
  BY <1>1, <1>3, <1>4, TameCall
<1>6. \A x \in Workloads : SameRoute(wl[x], wl'[x]) /\ QueueLess(wl[x], wl'[x])
  BY <1>1, <1>3, WorkloadField
<1> QED BY <1>1, <1>5, <1>6, SameTargetsRefl, RoutingFrame

\* The head goes to an executor that is ready and routed to its Workload now.
LEMMA DispatchAssignRouting ==
    ASSUME TypeOK, ServedInv, SafeInv, RoutingInv, NEW w \in Workloads,
           NEW i \in Instances, DispatchAssign(w, i), NEW r, r = Head(wl[w].queue)
    PROVE  /\ RoutingInv'
           /\ r \in Requests /\ call'[r].instance = i
           /\ \A x \in Requests \ {r} : call'[x] = call[x]
           /\ ins[i].ready /\ ~ins[i].fenced /\ ~ins[i].terminated
           /\ call[r].uid = w /\ Routable(wl[w], ins[i], w, i)
<1> DEFINE q == wl[w].queue
           c == call[r]
           v == [c EXCEPT !.assignment = i, !.instance = i, !.exec = "spawned"]
           p == Tail(q)
           n == ins[i].outstanding + 1
           u == [ins[i] EXCEPT !.outstanding = n]
<1>1. /\ call' = [call EXCEPT ![r] = v] /\ q # <<>>
      /\ wl' = [wl EXCEPT ![w] = [wl[w] EXCEPT !.queue = p]]
      /\ ins' = [ins EXCEPT ![i] = u]
      /\ ins[i].ready /\ ~ins[i].terminated /\ i \in wl[w].route
  BY DEF DispatchAssign, Available
<1>2. q \in Seq(Requests) /\ Distinct(q) /\ ins[i] \in InstanceType
  BY DEF TypeOK, WorkloadType, ServedInv, QueuesInv
<1>3. /\ r \in Requests /\ c \in CallType
      /\ InQueue(r, q) /\ \A x \in Requests : InQueue(x, p) => InQueue(x, q)
  BY <1>1, <1>2, TailQueue DEF TypeOK
<1>4. c.uid = w
  <2>1. PICK m \in DOMAIN q : q[m] = r
    BY <1>3 DEF InQueue
  <2> QED BY <2>1 DEF ServedInv, QueuesInv, QueuedCall
<1> HIDE DEF n, p
<1>5. SameTarget(ins[i], u)
  BY <1>2 DEF SameTarget, InstanceType
<1>6. v.instance = i /\ v.assignment = i /\ v.exec = "spawned" /\ v.def = c.def
  BY <1>3 DEF CallType
<1> HIDE DEF u, v
<1>7. call'[r] = v /\ \A x \in Requests \ {r} : call'[x] = call[x]
  BY <1>1, <1>3 DEF TypeOK
<1>8. Routable(wl[w], ins[i], w, i)
  BY <1>1 DEF RoutingInv, RouteInv, Routes
<1>9. ~ins[i].fenced
  BY <1>1 DEF SafeInv, SlotsInv, SlotInv
<1>10. \A x \in Workloads : SameRoute(wl[x], wl'[x]) /\ QueueLess(wl[x], wl'[x])
  BY <1>1, <1>3, WorkloadField
<1>11. RouteInv'
  BY <1>1, <1>5, <1>10, InstanceFrame, RouteFrame DEF RoutingInv
<1>12. Contract[c.def] = ProfileOf[i]
  <2>1. Contract[c.def] = Contract[wl[w].def]
    BY <1>3 DEF RoutingInv, QueueContract
  <2>2. ins[i].profile # None /\ Contract[wl[w].def] = ins[i].profile
    BY <1>8 DEF Routable, Matches
  <2> QED BY <2>1, <2>2 DEF RoutingInv, RouteInv, Profiles
<1>13. SentContract'
  BY <1>6, <1>7, <1>12 DEF RoutingInv, SentContract
<1>14. QueueContract'
  <2>1. \A x \in Requests : call'[x].def = call[x].def
    BY <1>6, <1>7
  <2> QED BY <1>10, <2>1 DEF RoutingInv, QueueContract, QueueLess
<1> QED BY <1>1, <1>3, <1>4, <1>6, <1>7, <1>8, <1>9, <1>11, <1>13, <1>14 DEF RoutingInv

\* execute releases the executor it was sent to.
LEMMA ExecuteRouting ==
    ASSUME TypeOK, RoutingInv, NEW r \in Requests, ExecuteStep(r)
    PROVE  RoutingInv' /\ Tamed
<1>1. Tamed
  BY ExecuteTame
<1>2. CASE UNCHANGED <<wl, ins>>
  BY <1>1, <1>2, RoutingQuiet
<1>3. CASE ExecuteEnd(r)
  <2> DEFINE c == call[r]
             x == c.exec
             a == IF x = "unlogged" THEN None ELSE c.assignment
             p == c.progress \/ (x = "complete" /\ phys[r].st = "ran")
             b == c.backendDone \/ x # "broken"
             n == c.sends + 1
             v == [c EXCEPT !.exec = "over", !.assignment = a, !.transportDone = TRUE,
                            !.progress = p, !.backendDone = b, !.sends = n]
  <2>c. c \in CallType
    BY DEF TypeOK
  <2>1. ReleaseAndDispatch([call EXCEPT ![r] = v], r)
    BY <1>3 DEF ExecuteEnd
  <2>2. a \in Instances \cup {None} /\ p \in BOOLEAN /\ b \in BOOLEAN /\ n \in Nat
    BY <2>c DEF CallType
  <2> HIDE DEF a, p, b, n
  <2>3. v \in CallType
    BY ZenonT(60), <2>c, <2>2 DEF CallType, Executions
  <2>f. v.def = c.def /\ v.instance = c.instance /\ v.exec = "over"
    BY <2>c DEF CallType
  <2> HIDE DEF v
  <2>4. Tame(c, v)
    BY <2>c, <2>f DEF Tame, CallType, Sending
  <2> QED BY <1>1, <2>1, <2>3, <2>4, RoutingRelease
<1> QED BY <1>2, <1>3 DEF ExecuteStep, ExecuteBegin, ExchangeComplete, ExchangeBroken

-----------------------------------------------------------------------------
(* The observer                                                            *)

\* A progress line.
LEMMA ObserveBackendRouting ==
    ASSUME TypeOK, RoutingInv, NEW r \in Requests, NEW finished \in BOOLEAN,
           ObserveBackend(r, finished)
    PROVE  RoutingInv' /\ Tamed
<1> DEFINE c == call[r]
           g == c.progress \/ ~c.backendDone
           b == c.backendDone \/ finished
           v == [c EXCEPT !.progress = g, !.backendDone = b]
<1>1. /\ c \in CallType
      /\ \/ call' = [call EXCEPT ![r] = v] /\ UNCHANGED <<wl, ins>>
         \/ ReleaseAndDispatch([call EXCEPT ![r] = v], r)
  BY DEF ObserveBackend, TypeOK
<1>2. g \in BOOLEAN /\ b \in BOOLEAN
  BY <1>1 DEF CallType
<1> HIDE DEF g, b
<1>3. v \in CallType /\ Tame(c, v)
  BY <1>1, <1>2 DEF CallType, Tame
<1> HIDE DEF v
<1>4. CASE call' = [call EXCEPT ![r] = v] /\ UNCHANGED <<wl, ins>>
  BY <1>3, <1>4, TameCall, RoutingQuiet
<1>5. CASE ReleaseAndDispatch([call EXCEPT ![r] = v], r)
  BY <1>3, <1>5, ReleaseTame, RoutingRelease
<1> QED BY <1>1, <1>4, <1>5

\* Evidence for the calls of S, over executors with profiles of their own.
LEMMA EvidenceRouting ==
    ASSUME TypeOK, RoutingInv, NEW S \in SUBSET Requests, NEW C, NEW D,
           NEW I \in [Instances -> InstanceType], Profiles(I),
           C = [r \in Requests |-> IF r \in S
                  THEN [call[r] EXCEPT !.backendDone = TRUE] ELSE call[r]],
           call' = Released(C, S),
           Rebuild(D, WorkloadsReleased(wl, C, S), InstancesReleased(I, C, S))
    PROVE  RoutingInv' /\ Tamed
<1> DEFINE W == WorkloadsReleased(wl, C, S)
           J == InstancesReleased(I, C, S)
<1>1. wl \in [Workloads -> WorkloadType]
  BY DEF TypeOK
<1>2. W \in [Workloads -> WorkloadType] /\ J \in [Instances -> InstanceType]
  BY <1>1, WorkloadsReleasedType, InstancesReleasedType
<1>3. Profiles(J)
  BY InstancesReleasedTarget, TargetsProfiles
<1>4. \A w \in Workloads : QueueLess(wl[w], W[w])
  BY <1>1, WorkloadsReleasedFields, QueueLessSame
<1>5. Tamed
  BY EvidenceTame
<1>6. Rebuild(D, W, J)
  OBVIOUS
<1> HIDE DEF W, J
<1> QED BY <1>2, <1>3, <1>4, <1>5, <1>6, RoutingRebuild

\* A termination report.
LEMMA ConfirmInstanceStoppedRouting ==
    ASSUME TypeOK, RoutingInv, NEW i \in Instances, ConfirmInstanceStopped(i)
    PROVE  RoutingInv' /\ Tamed
<1> DEFINE S == {r \in Requests : /\ call[r].live /\ call[r].assignment = i
                                  /\ ~call[r].backendDone}
           C == [r \in Requests |-> IF r \in S
                   THEN [call[r] EXCEPT !.backendDone = TRUE] ELSE call[r]]
           f == ins[i].fenced /\ (srv.failed \/ ~srv.up)
           v == [ins[i] EXCEPT !.ready = FALSE, !.terminated = ins[i].known,
                               !.fenced = f, !.drained = FALSE]
           I == [ins EXCEPT ![i] = v]
<1>1. /\ call' = Released(C, S)
      /\ Rebuild(Released(C, S), WorkloadsReleased(wl, C, S), InstancesReleased(I, C, S))
  BY DEF ConfirmInstanceStopped
<1>2. S \in SUBSET Requests /\ f \in BOOLEAN /\ ins[i] \in InstanceType
  BY DEF TypeOK
<1>3. C = [r \in Requests |-> IF r \in S
                   THEN [call[r] EXCEPT !.backendDone = TRUE] ELSE call[r]]
  OBVIOUS
<1> HIDE DEF f, S, C
<1>4. v \in InstanceType /\ v.profile = ins[i].profile
  BY <1>2 DEF InstanceType
<1> HIDE DEF v
<1>5. I \in [Instances -> InstanceType] /\ Profiles(I)
  BY <1>4 DEF TypeOK, RoutingInv, RouteInv, Profiles
<1> HIDE DEF I
<1> QED BY <1>1, <1>2, <1>3, <1>5, EvidenceRouting

\* installInstancesLocked gives an executor its own profile or none.
LEMMA InstalledProfile ==
    ASSUME TypeOK, RoutingInv, NEW L \in [Instances -> SourceType], NEW i \in Instances
    PROVE  Installed(L, i).profile \in {None, ProfileOf[i]}
<1> DEFINE x == ins[i]
           new == [NewInstance EXCEPT !.known = TRUE, !.fenced = srv.unknown]
           old == IF x.known THEN x ELSE new
           fenced == old.fenced /\ ~LiftsFence(L, i)
           terminated == L[i].terminated \/ old.terminated
           ready == L[i].ready /\ ~fenced /\ ~terminated
           kept == [old EXCEPT !.ready = ready, !.drained = FALSE,
                               !.fenced = fenced, !.terminated = terminated]
           profile == IF L[i].evidence THEN ProfileOf[i] ELSE None
           routing == L[i].routing
           full == [kept EXCEPT !.profile = profile, !.routing = routing]
           off == [x EXCEPT !.ready = FALSE, !.drained = FALSE]
<1>0. x \in InstanceType /\ srv.unknown \in BOOLEAN /\ x.profile \in {None, ProfileOf[i]}
  BY DEF TypeOK, ServerType, RoutingInv, RouteInv, Profiles
<1>1. Installed(L, i) \in {full, kept, off}
  BY DEF Installed
<1>2. new \in InstanceType /\ new.profile = None
  BY <1>0, NewTypes DEF InstanceType, NewInstance
<1>3. old \in InstanceType /\ old.profile \in {None, ProfileOf[i]}
  BY <1>0, <1>2
<1>4. off.profile = x.profile
  BY <1>0 DEF InstanceType
<1>5. profile \in {None, ProfileOf[i]}
  OBVIOUS
<1> HIDE DEF new, old, fenced, terminated, ready, profile, routing, off, x
<1>6. kept.profile = old.profile /\ DOMAIN kept = DOMAIN old /\ full.profile = profile
  BY <1>3 DEF InstanceType
<1> HIDE DEF kept, full
<1> QED BY <1>0, <1>1, <1>3, <1>4, <1>5, <1>6

\* publishLedger.
LEMMA PublishLedgerRouting ==
    ASSUME TypeOK, RoutingInv, NEW L \in [Instances -> SourceType], PublishLedger(L)
    PROVE  RoutingInv' /\ Tamed
<1> DEFINE S == {r \in Requests : Absent(L, r)}
           C == [r \in Requests |-> IF r \in S
                   THEN [call[r] EXCEPT !.backendDone = TRUE] ELSE call[r]]
           I == [i \in Instances |-> Installed(L, i)]
<1>1. /\ call' = Released(C, S)
      /\ Rebuild(Released(C, S), WorkloadsReleased(wl, C, S), InstancesReleased(I, C, S))
  BY DEF PublishLedger
<1>2. S \in SUBSET Requests
  OBVIOUS
<1>3. C = [r \in Requests |-> IF r \in S
                   THEN [call[r] EXCEPT !.backendDone = TRUE] ELSE call[r]]
  OBVIOUS
<1>4. I \in [Instances -> InstanceType] /\ Profiles(I)
  BY InstalledType, InstalledProfile DEF Profiles
<1> HIDE DEF S, C, I
<1> QED BY <1>1, <1>2, <1>3, <1>4, EvidenceRouting

\* Every refresh publishes a ledger, which brings no retired Pod back.
LEMMA PublishedLedger ==
    ASSUME TypeOK, NEW i \in Instances,
           PublishProbe(i) \/ PublishUnavailable(i) \/ PublishAgain(i)
    PROVE  \E L \in [Instances -> SourceType] :
              PublishLedger(L) /\ \A j \in Instances : L[j].retired = src[j].retired
<1> DEFINE s == src[i]
<1>1. s \in SourceType
  BY DEF TypeOK
<1>a. ASSUME NEW u \in SourceType, u.retired = s.retired, PublishLedger([src EXCEPT ![i] = u])
      PROVE  \E L \in [Instances -> SourceType] :
                PublishLedger(L) /\ \A j \in Instances : L[j].retired = src[j].retired
  <2> DEFINE L == [src EXCEPT ![i] = u]
  <2>1. L \in [Instances -> SourceType] /\ \A j \in Instances : L[j].retired = src[j].retired
    BY <1>a DEF TypeOK
  <2>2. PublishLedger(L)
    BY <1>a
  <2> HIDE DEF L
  <2> QED BY <2>1, <2>2
<1>2. CASE PublishProbe(i)
  <2>1. PICK ready \in BOOLEAN, routing \in Routing[i] \cup {None} :
          PublishLedger([src EXCEPT ![i] =
              [src[i] EXCEPT !.probe = "idle", !.verified = TRUE,
                        !.ready = ready /\ src[i].evidence,
                        !.routing = IF src[i].evidence THEN routing ELSE None,
                        !.ended = src[i].newEnded, !.held = src[i].newHeld]])
    BY <1>2 DEF PublishProbe
  <2> DEFINE a == ready /\ src[i].evidence
             b == IF src[i].evidence THEN routing ELSE None
             u == [s EXCEPT !.probe = "idle", !.verified = TRUE,
                            !.ready = a, !.routing = b,
                            !.ended = s.newEnded, !.held = s.newHeld]
  <2>2. a \in BOOLEAN /\ b \in Workloads \cup {None}
    BY <1>1, <2>1, ConstantsAssumption DEF SourceType
  <2>3. PublishLedger([src EXCEPT ![i] = u])
    BY <2>1
  <2> HIDE DEF a, b, s
  <2>4. u \in SourceType /\ u.retired = s.retired
    BY <1>1, <2>2 DEF SourceType
  <2> HIDE DEF u
  <2> QED BY <1>a, <2>3, <2>4
<1>3. CASE PublishUnavailable(i)
  <2> DEFINE u == [s EXCEPT !.probe = "idle", !.ready = FALSE, !.verified = FALSE]
  <2>1. PublishLedger([src EXCEPT ![i] = u])
    BY <1>3 DEF PublishUnavailable
  <2>2. u \in SourceType /\ u.retired = s.retired
    BY <1>1 DEF SourceType
  <2> HIDE DEF u, s
  <2> QED BY <1>a, <2>1, <2>2
<1>4. CASE PublishAgain(i)
  <2>1. PICK evidence \in BOOLEAN :
          PublishLedger([src EXCEPT ![i] =
              [src[i] EXCEPT !.evidence = evidence,
                             !.ready = src[i].ready /\ evidence,
                             !.routing = IF evidence THEN src[i].routing
                                                    ELSE None]])
    BY <1>4 DEF PublishAgain
  <2> DEFINE a == src[i].ready /\ evidence
             b == IF evidence THEN src[i].routing ELSE None
             u == [s EXCEPT !.evidence = evidence, !.ready = a, !.routing = b]
  <2>2. a \in BOOLEAN /\ b \in Workloads \cup {None}
    BY <1>1, <2>1 DEF SourceType
  <2>3. PublishLedger([src EXCEPT ![i] = u])
    BY <2>1
  <2> HIDE DEF a, b, s
  <2>4. u \in SourceType /\ u.retired = s.retired
    BY <1>1, <2>2 DEF SourceType
  <2> HIDE DEF u
  <2> QED BY <1>a, <2>3, <2>4
<1> QED BY <1>2, <1>3, <1>4

\* A rebuild over executors with profiles of their own.
LEMMA RebuildRouting ==
    ASSUME TypeOK, RoutingInv, NEW I \in [Instances -> InstanceType], Profiles(I),
           Rebuild(call, wl, I), UNCHANGED call
    PROVE  RoutingInv' /\ Tamed
<1>1. Tamed
  BY TameRefl DEF Tamed
<1>2. \A w \in Workloads : QueueLess(wl[w], wl[w])
  BY QueueLessSame
<1>3. wl \in [Workloads -> WorkloadType]
  BY DEF TypeOK
<1> QED BY <1>1, <1>2, <1>3, RoutingRebuild

\* Every step of the observer.
LEMMA ObserverRouting ==
    ASSUME TypeOK, RoutingInv, ObserverStep
    PROVE  RoutingInv' /\ Tamed
<1>p. ins \in [Instances -> InstanceType] /\ Profiles(ins)
  BY DEF TypeOK, RoutingInv, RouteInv
<1>q. CASE UNCHANGED <<call, wl, ins>>
  <2>1. Tamed
    BY <1>q, TameRefl DEF Tamed
  <2> QED BY <1>q, <2>1, RoutingQuiet
<1>1. ASSUME NEW r \in Requests, NEW finished \in BOOLEAN, ObserveBackend(r, finished)
      PROVE  RoutingInv' /\ Tamed
  BY <1>1, ObserveBackendRouting
<1>2. ASSUME NEW i \in Instances, ConfirmInstanceStopped(i) PROVE RoutingInv' /\ Tamed
  BY <1>2, ConfirmInstanceStoppedRouting
<1>3. ASSUME NEW i \in Instances, DisableInstance(i) PROVE RoutingInv' /\ Tamed
  <2> DEFINE v == [ins[i] EXCEPT !.ready = FALSE, !.drained = FALSE]
             I == [ins EXCEPT ![i] = v]
  <2>1. Rebuild(call, wl, I) /\ UNCHANGED call
    BY <1>3 DEF DisableInstance
  <2>2. v \in InstanceType /\ v.profile = ins[i].profile
    BY <1>p DEF InstanceType
  <2> HIDE DEF v
  <2>3. I \in [Instances -> InstanceType] /\ Profiles(I)
    BY <1>p, <2>2 DEF Profiles
  <2> HIDE DEF I
  <2> QED BY <2>1, <2>3, RebuildRouting
<1>4. ASSUME NEW i \in Instances, ProbeBegin(i) \/ ProbeRead(i) \/ RetirePodBegin(i)
      PROVE  RoutingInv' /\ Tamed
  BY <1>4, <1>q DEF ProbeBegin, ProbeRead, RetirePodBegin
<1>5. ASSUME NEW i \in Instances, PublishProbe(i) \/ PublishUnavailable(i) \/ PublishAgain(i)
      PROVE  RoutingInv' /\ Tamed
  BY <1>5, PublishedLedger, PublishLedgerRouting
<1>6. ASSUME NEW i \in Instances, RetirePodEnd(i) PROVE RoutingInv' /\ Tamed
  <2> DEFINE I == [ins EXCEPT ![i] = NewInstance]
  <2>1. UNCHANGED <<call, wl, ins>> \/ (Rebuild(call, wl, I) /\ UNCHANGED call)
    BY <1>6 DEF RetirePodEnd
  <2>2. NewInstance \in InstanceType /\ NewInstance.profile = None
    BY NewTypes DEF NewInstance
  <2>3. I \in [Instances -> InstanceType] /\ Profiles(I)
    BY <1>p, <2>2 DEF Profiles
  <2> HIDE DEF I
  <2> QED BY <1>q, <2>1, <2>3, RebuildRouting
<1>7. ASSUME NEW n \in Nodes, DetachNodeBegin(n) \/ DetachNodeEnd(n)
      PROVE  RoutingInv' /\ Tamed
  <2>1. \/ UNCHANGED <<call, wl, ins>>
        \/ \E drained \in BOOLEAN : Rebuild(call, wl, Unready(n, drained)) /\ UNCHANGED call
    BY <1>7 DEF DetachNodeBegin, DetachNodeEnd
  <2>2. ASSUME NEW drained \in BOOLEAN
        PROVE  /\ Unready(n, drained) \in [Instances -> InstanceType]
               /\ Profiles(Unready(n, drained))
    <3>1. ASSUME NEW i \in Instances
          PROVE  /\ Unready(n, drained)[i] \in InstanceType
                 /\ Unready(n, drained)[i].profile = ins[i].profile
      <4> DEFINE a == ins[i].drained \/ drained
                 b == IF drained THEN {} ELSE ins[i].bindings
                 v == [ins[i] EXCEPT !.ready = FALSE, !.drained = a, !.bindings = b]
      <4>1. Unready(n, drained)[i] = v \/ Unready(n, drained)[i] = ins[i]
        BY DEF Unready
      <4>2. a \in BOOLEAN /\ b \in SUBSET Workloads /\ ins[i] \in InstanceType
        BY <1>p DEF InstanceType
      <4> HIDE DEF a, b
      <4>3. v \in InstanceType /\ v.profile = ins[i].profile
        BY <4>2 DEF InstanceType
      <4> HIDE DEF v
      <4> QED BY <4>1, <4>2, <4>3
    <3>2. Unready(n, drained) = [i \in Instances |-> Unready(n, drained)[i]]
      BY DEF Unready
    <3> QED BY <1>p, <3>1, <3>2 DEF Profiles
  <2> QED BY <1>q, <2>1, <2>2, RebuildRouting
<1> QED BY <1>1, <1>2, <1>3, <1>4, <1>5, <1>6, <1>7 DEF ObserverStep

-----------------------------------------------------------------------------
(* Management and the process                                              *)

\* PublishEnd: what is queued keeps its contract, or nothing is queued.
LEMMA PublishEndRouting ==
    ASSUME TypeOK, ServedInv, RoutingInv, NEW w \in Workloads, PublishEnd(w)
    PROVE  RoutingInv'
<1> DEFINE d == op["mgmt"].def
<1>w. wl[w] \in WorkloadType /\ ins \in [Instances -> InstanceType] /\ Profiles(ins)
  BY DEF TypeOK, RoutingInv, RouteInv
<1>t. Tamed
  BY TameRefl DEF PublishEnd, Tamed
<1>1. CASE ~Publishable(w, d)
  BY <1>1, <1>t, RoutingQuiet DEF PublishEnd
<1>2. CASE Publishable(w, d)
  <2>1. PICK restart \in BOOLEAN :
          Rebuild(call, [wl EXCEPT ![w] =
                  [wl[w] EXCEPT !.reg = "on", !.def = d, !.stopped = TRUE,
                            !.detached = FALSE, !.restartDrain = restart]],
                  ins)
    BY <1>2 DEF PublishEnd
  <2> DEFINE v == [wl[w] EXCEPT !.reg = "on", !.def = d, !.stopped = TRUE,
                            !.detached = FALSE, !.restartDrain = restart]
             W == [wl EXCEPT ![w] = v]
  <2>2. d \in Definitions \cup {None}
    BY DEF TypeOK, OpType, Threads
  <2>3. Rebuild(call, W, ins)
    BY <2>1
  <2>4. wl[w].queue = <<>> \/ Contract[wl[w].def] = Contract[d]
    <3>1. wl[w].reg = "absent" => wl[w].queue = <<>>
      BY DEF ServedInv, QueuesInv
    <3> QED BY <1>2, <3>1 DEF Publishable, Drained, RequestsDrained
  <2> HIDE DEF d
  <2>5. v \in WorkloadType /\ v.queue = wl[w].queue /\ v.def = d
    BY <1>w, <2>2 DEF WorkloadType
  <2> HIDE DEF v
  <2>6. QueueLess(wl[w], v)
    BY <2>4, <2>5 DEF QueueLess, InQueue
  <2>7. W \in [Workloads -> WorkloadType] /\ W[w] = v /\ \A u \in Workloads \ {w} : W[u] = wl[u]
    BY <2>5 DEF TypeOK
  <2> HIDE DEF W
  <2>8. \A u \in Workloads : QueueLess(wl[u], W[u])
    BY <2>6, <2>7, QueueLessSame
  <2> QED BY <1>w, <1>t, <2>3, <2>7, <2>8, RoutingRebuild
<1> QED BY <1>1, <1>2

\* DetachEnd unbinds the Workload from every executor, and unroutes it.
LEMMA DetachEndRouting ==
    ASSUME TypeOK, RoutingInv, NEW w \in Workloads, DetachEnd(w)
    PROVE  RoutingInv'
<1>t. Tamed
  BY TameRefl DEF DetachEnd, Tamed
<1>1. CASE UNCHANGED <<wl, ins>>
  BY <1>1, <1>t, RoutingQuiet
<1>2. CASE /\ ins' = [i \in Instances |-> [ins[i] EXCEPT !.bindings = @ \ {w}]]
           /\ wl' = [wl EXCEPT ![w] = [@ EXCEPT !.route = {}, !.detached = TRUE]]
  <2> DEFINE v == [wl[w] EXCEPT !.route = {}, !.detached = TRUE]
  <2>1. wl[w] \in WorkloadType /\ wl' = [wl EXCEPT ![w] = v]
    BY <1>2 DEF TypeOK
  <2>2. v.route = {} /\ v.queue = wl[w].queue /\ v.def = wl[w].def
    BY <2>1 DEF WorkloadType
  <2> HIDE DEF v
  <2>3. wl'[w] = v /\ \A u \in Workloads \ {w} : wl'[u] = wl[u]
    BY <2>1 DEF TypeOK
  <2>4. \A u \in Workloads : QueueLess(wl[u], wl'[u])
    BY <2>2, <2>3, QueueLessSame
  <2>5. ASSUME NEW i \in Instances
        PROVE  /\ ins'[i].profile = ins[i].profile /\ ins'[i].routing = ins[i].routing
               /\ ins'[i].bindings = ins[i].bindings \ {w}
    <3> DEFINE b == ins[i].bindings \ {w}
    <3>1. ins'[i] = [ins[i] EXCEPT !.bindings = b] /\ ins[i] \in InstanceType
      BY <1>2 DEF TypeOK
    <3> HIDE DEF b
    <3>2. /\ ins'[i].profile = ins[i].profile /\ ins'[i].routing = ins[i].routing
          /\ ins'[i].bindings = b
      BY <3>1 DEF InstanceType
    <3> QED BY <3>2 DEF b
  <2>6. \A u \in Workloads : wl[u].route \in SUBSET Instances
    BY DEF TypeOK, WorkloadType
  <2>7. RouteInv'
    <3>1. Profiles(ins')
      BY <2>5 DEF RoutingInv, RouteInv, Profiles
    <3>2. ASSUME NEW u \in Workloads, NEW i \in wl'[u].route
          PROVE  Routable(wl'[u], ins'[i], u, i)
      <4>1. u # w /\ wl'[u] = wl[u] /\ i \in Instances
        BY <2>2, <2>3, <2>6, <3>2
      <4>2. Routable(wl[u], ins[i], u, i)
        BY <3>2, <4>1 DEF RoutingInv, RouteInv, Routes
      <4> QED BY <2>5, <4>1, <4>2 DEF Routable
    <3> QED BY <3>1, <3>2 DEF RouteInv, Routes
  <2> QED BY <1>t, <2>4, <2>7, ContractFrame DEF RoutingInv
<1> QED BY <1>1, <1>2 DEF DetachEnd

\* Every management step.
LEMMA ManagementRouting ==
    ASSUME TypeOK, ServedInv, RoutingInv, ManagementStep
    PROVE  RoutingInv' /\ Tamed
<1>t. Tamed
  <2>1. UNCHANGED call
    BY DEF ManagementStep, PublishBegin, PublishEnd, OpenBegin, OpenEnd, ResumeBegin, ResumeEnd,
           StopAdmission, DetachBegin, DetachEnd, ForgetBegin, ForgetEnd
  <2> QED BY <2>1, TameRefl DEF Tamed
<1> SUFFICES ASSUME NEW w \in Workloads,
                    \/ \E d \in Definitions : PublishBegin(w, d)
                    \/ PublishEnd(w) \/ OpenBegin(w) \/ OpenEnd(w)
                    \/ ResumeBegin(w) \/ ResumeEnd(w) \/ StopAdmission(w)
                    \/ DetachBegin(w) \/ DetachEnd(w)
                    \/ ForgetBegin(w) \/ ForgetEnd(w)
             PROVE  RoutingInv'
  BY <1>t DEF ManagementStep
<1>1. CASE \/ \E d \in Definitions : PublishBegin(w, d)
           \/ OpenBegin(w) \/ ResumeBegin(w) \/ DetachBegin(w) \/ ForgetBegin(w)
  BY <1>1, <1>t, RoutingQuiet
     DEF PublishBegin, OpenBegin, ResumeBegin, DetachBegin, ForgetBegin
<1>2. CASE PublishEnd(w)
  BY <1>2, PublishEndRouting
<1>3. CASE OpenEnd(w) \/ ResumeEnd(w) \/ StopAdmission(w)
  <2>1. /\ UNCHANGED ins
        /\ \/ UNCHANGED wl
           \/ \E s \in BOOLEAN :
                 wl' = [wl EXCEPT ![w] = [wl[w] EXCEPT !.stopped = s, !.restartDrain = FALSE]]
    BY <1>3 DEF OpenEnd, ResumeEnd, StopAdmission
  <2>2. CASE UNCHANGED wl
    BY <1>t, <2>1, <2>2, RoutingQuiet
  <2>3. ASSUME NEW s \in BOOLEAN,
               wl' = [wl EXCEPT ![w] = [wl[w] EXCEPT !.stopped = s, !.restartDrain = FALSE]]
        PROVE  RoutingInv'
    <3>1. \A x \in Workloads : SameRoute(wl[x], wl'[x]) /\ QueueLess(wl[x], wl'[x])
      BY <2>3, WorkloadField
    <3> QED BY <1>t, <2>1, <3>1, SameTargetsRefl, RoutingFrame
  <2> QED BY <2>1, <2>2, <2>3
<1>4. CASE DetachEnd(w)
  BY <1>4, DetachEndRouting
<1>5. CASE ForgetEnd(w)
  <2> DEFINE v == [NewWorkload EXCEPT !.reg = "forgotten"]
             W == [wl EXCEPT ![w] = v]
  <2>1. CASE Rebuild(call, W, ins)
    <3>1. v \in WorkloadType /\ v.queue = <<>>
      BY NewTypes DEF WorkloadType, NewWorkload
    <3> HIDE DEF v
    <3>2. W \in [Workloads -> WorkloadType] /\ W[w] = v
          /\ \A u \in Workloads \ {w} : W[u] = wl[u]
      BY <3>1 DEF TypeOK
    <3>3. QueueLess(wl[w], v)
      BY <3>1 DEF QueueLess, InQueue
    <3> HIDE DEF W
    <3>4. \A u \in Workloads : QueueLess(wl[u], W[u])
      BY <3>2, <3>3, QueueLessSame
    <3>5. ins \in [Instances -> InstanceType] /\ Profiles(ins)
      BY DEF TypeOK, RoutingInv, RouteInv
    <3> QED BY <1>t, <2>1, <3>2, <3>4, <3>5, RoutingRebuild
  <2>2. CASE UNCHANGED <<wl, ins>>
    BY <1>t, <2>2, RoutingQuiet
  <2> QED BY <1>5, <2>1, <2>2 DEF ForgetEnd
<1> QED BY <1>1, <1>2, <1>3, <1>4, <1>5

\* NewRuntime routes, queues and sends nothing.
LEMMA BootRouting ==
    ASSUME TypeOK, ServedInv, RoutingInv, NEW unknown, NEW disk, Boot(unknown, disk)
    PROVE  RoutingInv'
<1>1. ASSUME NEW r \in Requests PROVE call'[r].exec \notin Sending
  BY DEF Boot, NewCall, RowOnly, Sending
<1>2. ASSUME NEW w \in Workloads PROVE wl'[w].route = {} /\ wl'[w].queue = <<>>
  <2> DEFINE P == {r \in Pending(disk) : call[r].uid = w}
             d == call[CHOOSE r \in P : TRUE].def
             v == [NewWorkload EXCEPT !.reg = "on", !.stopped = TRUE,
                     !.restartDrain = TRUE, !.def = d]
  <2>1. wl'[w] \in {NewWorkload, v} \/ (wl[w].reg = "forgotten" /\ wl'[w] = wl[w])
    BY DEF Boot
  <2> HIDE DEF d
  <2>2. v.route = {} /\ v.queue = <<>> /\ NewWorkload.route = {} /\ NewWorkload.queue = <<>>
    BY DEF NewWorkload
  <2> HIDE DEF v
  <2>3. wl[w].reg = "forgotten" => wl[w].queue = <<>>
    BY DEF ServedInv, QueuesInv
  <2>4. wl[w].reg = "forgotten" => wl[w].route = {}
    BY DEF RoutingInv, RouteInv, Routes, Routable
  <2> QED BY SMTT(30), <2>1, <2>2, <2>3, <2>4
<1>3. ASSUME NEW i \in Instances PROVE ins'[i].profile = None
  <2> DEFINE P == {r \in Pending(disk) : call[r].assignment = i}
             b == {call[r].uid : r \in P}
             n == Cardinality(P)
             v == [NewInstance EXCEPT !.known = TRUE, !.fenced = unknown,
                     !.bindings = b, !.outstanding = n]
  <2>1. ins'[i] \in {NewInstance, v}
    BY DEF Boot
  <2> HIDE DEF b, n
  <2>2. v.profile = None /\ NewInstance.profile = None
    BY DEF NewInstance
  <2> QED BY <2>1, <2>2
<1>4. RouteInv'
  BY <1>2, <1>3 DEF RouteInv, Routes, Profiles
<1>5. SentContract' /\ QueueContract'
  BY <1>1, <1>2 DEF SentContract, QueueContract, InQueue
<1> QED BY <1>4, <1>5 DEF RoutingInv

\* Every step that stops, ends or starts the process: only a boot replaces calls.
LEMMA ProcessRouting ==
    ASSUME TypeOK, ServedInv, RoutingInv, ProcessStep
    PROVE  RoutingInv' /\ (Tamed \/ srv'.boots # srv.boots)
<1>a. ASSUME call' = AllCanceled \/ UNCHANGED call PROVE Tamed
  <2>1. ASSUME NEW c \in CallType PROVE Tame(c, [c EXCEPT !.canceled = TRUE])
    BY DEF Tame, CallType
  <2> QED BY <1>a, <2>1, TameRefl DEF Tamed, AllCanceled, TypeOK
<1>1. CASE BeginShutdown
  <2>t. Tamed /\ UNCHANGED ins
    BY <1>1, <1>a DEF BeginShutdown
  <2>1. ASSUME NEW w \in Workloads
        PROVE  SameRoute(wl[w], wl'[w]) /\ QueueLess(wl[w], wl'[w])
    <3>1. wl'[w] = wl[w] \/ wl'[w] = [wl[w] EXCEPT !.stopped = TRUE, !.restartDrain = FALSE]
      BY <1>1 DEF BeginShutdown
    <3>2. wl[w] \in WorkloadType
      BY DEF TypeOK
    <3>3. /\ wl'[w].queue = wl[w].queue /\ wl'[w].def = wl[w].def /\ wl'[w].reg = wl[w].reg
          /\ wl'[w].detached = wl[w].detached /\ wl'[w].route = wl[w].route
      BY <3>1, <3>2 DEF WorkloadType
    <3> QED BY <3>3, QueueLessSame DEF SameRoute
  <2> QED BY <2>t, <2>1, SameTargetsRefl, RoutingFrame
<1>2. CASE ShutdownBegin \/ ShutdownEnd \/ ShutdownTimeout \/ JoinExecutions
  <2>1. Tamed /\ UNCHANGED <<wl, ins>>
    BY <1>2, <1>a DEF ShutdownBegin, ShutdownEnd, ShutdownTimeout, JoinExecutions
  <2> QED BY <2>1, RoutingQuiet
<1>3. CASE Crash \/ CleanExit
  <2>1. PICK unknown, disk : Boot(unknown, disk)
    BY <1>3 DEF Crash, CleanExit
  <2>2. srv'.boots = srv.boots + 1 /\ srv.boots \in Nat
    BY <2>1 DEF Boot, TypeOK, ServerType
  <2> QED BY <2>1, <2>2, BootRouting
<1> QED BY <1>1, <1>2, <1>3 DEF ProcessStep

-----------------------------------------------------------------------------
(* The invariant and the theorems                                          *)

LEMMA InitRouting == Init => RoutingInv
<1> SUFFICES ASSUME Init PROVE RoutingInv
  OBVIOUS
<1>1. \A w \in Workloads : wl[w].route = {} /\ wl[w].queue = <<>>
  BY DEF Init, NewWorkload
<1>2. \A i \in Instances : ins[i].profile = None
  BY DEF Init, NewInstance
<1>3. \A r \in Requests : call[r].exec \notin Sending
  BY DEF Init, NewCall, Sending
<1> QED BY <1>1, <1>2, <1>3
        DEF RoutingInv, RouteInv, Routes, Profiles, SentContract, QueueContract, InQueue

\* Which steps do more than tame calls: a receipt, a boot, and the dispatch of the
\* head of a queue to an executor that is routed to it now.
LEMMA NextRouting ==
    ASSUME TypeOK, ServedInv, SafeInv, RoutingInv, [Next]_vars
    PROVE  RoutingInv' /\ AssignedReadyStep
<1>t. ASSUME Tamed PROVE AssignedReadyStep
  <2>1. None \notin Instances
    BY ConstantsAssumption
  <2> QED BY <1>t, <2>1 DEF Tamed, Tame, AssignedReadyStep
<1>u. ASSUME UNCHANGED <<call, wl, ins>> PROVE RoutingInv' /\ AssignedReadyStep
  <2>1. Tamed
    BY <1>u, TameRefl DEF Tamed
  <2> QED BY <1>u, <2>1, <1>t, RoutingQuiet
<1>1. ASSUME NEW r \in Requests, HandlerStep(r) PROVE RoutingInv' /\ AssignedReadyStep
  <2>1. ASSUME NEW w \in Workloads \cup {None}, Receive(r, w)
        PROVE  RoutingInv' /\ AssignedReadyStep
    BY <2>1, ReceiveRouting DEF AssignedReadyStep
  <2>2. CASE \A w \in Workloads \cup {None} : ~Receive(r, w)
    <3>1. Tamed
      BY <1>1, <2>2, HandlerTame
    <3> QED BY <1>1, <1>t, <3>1, HandlerRouting
  <2> QED BY <2>1, <2>2
<1>2. ASSUME NEW r \in Requests, ExecuteStep(r) PROVE RoutingInv' /\ AssignedReadyStep
  BY <1>2, <1>t, ExecuteRouting
<1>3. CASE DispatchStep
  <2>1. ASSUME NEW w \in Workloads, DispatchExpired(w) PROVE RoutingInv' /\ AssignedReadyStep
    BY <2>1, <1>t, DispatchExpiredRouting
  <2>2. ASSUME NEW w \in Workloads, NEW i \in Instances, DispatchAssign(w, i)
        PROVE  RoutingInv' /\ AssignedReadyStep
    <3> DEFINE r == Head(wl[w].queue)
    <3>1. /\ RoutingInv'
          /\ r \in Requests /\ call'[r].instance = i
          /\ \A x \in Requests \ {r} : call'[x] = call[x]
          /\ ins[i].ready /\ ~ins[i].fenced /\ ~ins[i].terminated
          /\ call[r].uid = w /\ Routable(wl[w], ins[i], w, i)
      BY <2>2, DispatchAssignRouting
    <3> HIDE DEF r
    <3>2. AssignedReadyStep
      BY <3>1 DEF AssignedReadyStep, Routable
    <3> QED BY <3>1, <3>2
  <2>3. CASE DispatchEnd
    BY <2>3, <1>u DEF DispatchEnd
  <2> QED BY <1>3, <2>1, <2>2, <2>3 DEF DispatchStep
<1>4. CASE WorldStep
  BY <1>4, <1>u DEF WorldStep, NativeAdmit, NativeFinish, ClientLeaves, DeadlinePasses,
                    WriteRow, NativeExit, LogFails
<1>5. CASE ObserverStep
  BY <1>5, <1>t, ObserverRouting
<1>6. CASE ManagementStep
  BY <1>6, <1>t, ManagementRouting
<1>7. CASE ProcessStep
  <2>1. srv'.boots # srv.boots => AssignedReadyStep
    BY DEF AssignedReadyStep
  <2> QED BY <1>7, <1>t, <2>1, ProcessRouting
<1>8. CASE UNCHANGED vars
  BY <1>8, <1>u DEF vars
<1> QED BY <1>1, <1>2, <1>3, <1>4, <1>5, <1>6, <1>7, <1>8 DEF Next

LEMMA RoutingKept == Spec => [](TypeOK /\ ServedInv /\ SafeInv /\ RoutingInv)
<1>1. TypeOK /\ ServedInv /\ SafeInv /\ RoutingInv /\ [Next]_vars => RoutingInv'
  BY NextRouting
<1>2. Spec => [](TypeOK /\ ServedInv /\ SafeInv)
  BY Safe
<1> QED BY <1>1, <1>2, InitRouting, PTL DEF Spec

\* dispatchLocked sends a request only to an executor that is ready, outside the
\* fence, not ended and of the Workload, and that the routing of its Pod gives to that
\* Workload now: nothing that changed while it was queued leaves a stale route.
THEOREM OnlyReadyAssigned == Spec => AssignedReady
<1>1. TypeOK /\ ServedInv /\ SafeInv /\ RoutingInv /\ [Next]_vars => [AssignedReadyStep]_vars
  BY NextRouting
<1> QED BY <1>1, RoutingKept, PTL DEF Spec, AssignedReady

\* An executor runs requests of its own model and preprocessor only, whatever was
\* published under the Workload's UID between acceptance and dispatch.
THEOREM ContractRespected == Spec => []RightContract
<1>1. RoutingInv => RightContract
  BY DEF RoutingInv, SentContract, RightContract, Sending
<1> QED BY <1>1, RoutingKept, PTL


-----------------------------------------------------------------------------
(* The finalizing counters                                                 *)

\* unlock is at work on the call, outside the lock.
Finalizing(c) == c.close \in {"closing", "rowed"}

ClosingIn(C) == {r \in Requests : Finalizing(C[r])}

ClosingOf(C, w) == {r \in ClosingIn(C) : C[r].uid = w}

ClosingAt(C, i) == {r \in ClosingIn(C) : C[r].assignment = i}

\* A registered Workload counts its closing calls; one that is not has had none
\* since the process started.
RowsOf(C, x, w) ==
    /\ x.reg = "on" => x.finalizing = Cardinality(ClosingOf(C, w))
    /\ x.reg = "absent" => /\ x.finalizing = 0
                           /\ \A r \in Requests : C[r].uid = w => C[r].close = "closed"

\* An installed executor x with ledger entry t counts its own; one that is not was
\* retired, or no call was assigned to it since the process started.
RowsAt(C, x, t, i) ==
    /\ x.known => x.finalizing = Cardinality(ClosingAt(C, i))
    /\ ~x.known /\ ~t.retired =>
          \A r \in Requests : C[r].assignment = i => C[r].close = "closed"

Counts(C, W, I, T, n) ==
    /\ n = Cardinality(ClosingIn(C))
    /\ \A w \in Workloads : RowsOf(C, W[w], w)
    /\ \A i \in Instances : RowsAt(C, I[i], T[i], i)

\* What FinalizingBalanced rests on, beside TypeOK, ServedInv, SafeInv, RoutingInv.
CountInv == Counts(call, wl, ins, src, srv.finalizing)

\* The call is counted where it was, and joins what is registered only.
SameCount(c, d, W, I) ==
    /\ d.close = c.close \/ (Finalizing(c) /\ Finalizing(d))
    /\ c.close # "open" => d.uid = c.uid /\ d.assignment = c.assignment
    /\ d.uid \in {c.uid, None} \/ W[d.uid].reg # "absent"
    /\ d.assignment \in {c.assignment, None} \/ I[d.assignment].known

\* The Workload keeps its counter, unless it is forgotten.
SameRows(x, y) ==
    \/ y.reg = "forgotten"
    \/ /\ y.finalizing = x.finalizing
       /\ y.reg = x.reg \/ (x.reg = "absent" /\ y.reg = "on")

\* The executor keeps its counter, unless it is retired or installed anew.
SameClosing(x, y, t, u) ==
    /\ t.retired => u.retired
    /\ \/ y.known = x.known /\ y.finalizing = x.finalizing
       \/ ~y.known /\ u.retired
       \/ ~x.known /\ ~t.retired /\ y.known /\ y.finalizing = 0

\* Steps that close nothing keep the counters.
LEMMA CountsFrame ==
    ASSUME NEW C, NEW D, NEW W, NEW V, NEW I, NEW J, NEW T, NEW U, NEW n,
           Counts(C, W, I, T, n),
           \A r \in Requests : SameCount(C[r], D[r], W, I),
           \A w \in Workloads : SameRows(W[w], V[w]),
           \A i \in Instances : SameClosing(I[i], J[i], T[i], U[i])
    PROVE  Counts(D, V, J, U, n)
<1>1. ClosingIn(D) = ClosingIn(C)
  BY DEF ClosingIn, SameCount, Finalizing
<1>2. ASSUME NEW w \in Workloads PROVE RowsOf(D, V[w], w)
  <2>1. ClosingOf(D, w) = ClosingOf(C, w)
    BY <1>1 DEF ClosingOf, ClosingIn, SameCount, Finalizing
  <2>2. RowsOf(C, W[w], w) /\ SameRows(W[w], V[w])
    BY DEF Counts
  <2>3. CASE V[w].reg = "on" /\ W[w].reg = "absent"
    <3>1. ClosingOf(C, w) = {}
      BY <2>2, <2>3 DEF RowsOf, ClosingOf, ClosingIn, Finalizing
    <3>2. Cardinality(ClosingOf(D, w)) = 0
      BY <2>1, <3>1, FS_EmptySet
    <3> QED BY <2>2, <2>3, <3>2 DEF RowsOf, SameRows
  <2>4. CASE V[w].reg = "absent"
    <3>1. W[w].reg = "absent" /\ V[w].finalizing = 0
      BY <2>2, <2>4 DEF RowsOf, SameRows
    <3>2. ASSUME NEW r \in Requests, D[r].uid = w PROVE D[r].close = "closed"
      <4>1. C[r].uid = w
        <5>1. None # w
          BY ConstantsAssumption
        <5> QED BY <3>1, <3>2, <5>1 DEF SameCount
      <4>2. C[r].close = "closed"
        BY <2>2, <3>1, <4>1 DEF RowsOf
      <4> QED BY <4>2 DEF SameCount, Finalizing
    <3> QED BY <2>4, <3>1, <3>2 DEF RowsOf
  <2>5. CASE V[w].reg = W[w].reg /\ V[w].reg # "absent"
    BY <2>1, <2>2, <2>5 DEF RowsOf, SameRows
  <2>6. CASE V[w].reg = "forgotten"
    BY <2>6 DEF RowsOf
  <2> QED BY <2>2, <2>3, <2>4, <2>5, <2>6 DEF SameRows
<1>3. ASSUME NEW i \in Instances PROVE RowsAt(D, J[i], U[i], i)
  <2>1. ClosingAt(D, i) = ClosingAt(C, i)
    BY <1>1 DEF ClosingAt, ClosingIn, SameCount, Finalizing
  <2>2. RowsAt(C, I[i], T[i], i) /\ SameClosing(I[i], J[i], T[i], U[i])
    BY DEF Counts
  <2>3. CASE ~I[i].known /\ ~T[i].retired /\ J[i].known
    <3>1. ClosingAt(C, i) = {}
      BY <2>2, <2>3 DEF RowsAt, ClosingAt, ClosingIn, Finalizing
    <3>2. Cardinality(ClosingAt(D, i)) = 0
      BY <2>1, <3>1, FS_EmptySet
    <3> QED BY <2>2, <2>3, <3>2 DEF RowsAt, SameClosing
  <2>4. CASE ~J[i].known /\ ~U[i].retired
    <3>1. ~I[i].known /\ ~T[i].retired
      BY <2>2, <2>4 DEF SameClosing
    <3>2. ASSUME NEW r \in Requests, D[r].assignment = i PROVE D[r].close = "closed"
      <4>1. C[r].assignment = i
        <5>1. None # i
          BY ConstantsAssumption
        <5> QED BY <3>1, <3>2, <5>1 DEF SameCount
      <4>2. C[r].close = "closed"
        BY <2>2, <3>1, <4>1 DEF RowsAt
      <4> QED BY <4>2 DEF SameCount, Finalizing
    <3> QED BY <2>4, <3>2 DEF RowsAt
  <2>5. CASE J[i].known = I[i].known /\ J[i].known /\ J[i].finalizing = I[i].finalizing
    BY <2>1, <2>2, <2>5 DEF RowsAt
  <2>6. CASE ~J[i].known /\ U[i].retired
    BY <2>6 DEF RowsAt
  <2> QED BY <2>2, <2>3, <2>4, <2>5, <2>6 DEF SameClosing
<1> QED BY <1>1, <1>2, <1>3 DEF Counts

LEMMA SameCountRefl == ASSUME NEW c, NEW W, NEW I PROVE SameCount(c, c, W, I)
BY DEF SameCount

LEMMA SameRowsRefl == ASSUME NEW x PROVE SameRows(x, x)
BY DEF SameRows

LEMMA SameClosingRefl ==
    ASSUME NEW x, NEW y, NEW t, NEW u, y.known = x.known, y.finalizing = x.finalizing,
           u.retired = t.retired
    PROVE  SameClosing(x, y, t, u)
BY DEF SameClosing

\* The calls of N that belong to Workload w, and those assigned to executor i.
CallsFor(C, N, w) == {r \in N : C[r].uid = w}

CallsAt(C, N, i) == {r \in N : C[r].assignment = i}

\* The calls of N start to be closed.
StartClosing(C, D, N) ==
    /\ \A r \in N : C[r].close = "open"
    /\ \A r \in Requests :
          /\ D[r].uid = C[r].uid /\ D[r].assignment = C[r].assignment
          /\ D[r].close = IF r \in N THEN "closing" ELSE C[r].close

\* Their Workloads and their executors count them.
StartRowsOf(C, W, V, N) ==
    \A w \in Workloads :
        /\ V[w].reg = W[w].reg
        /\ V[w].finalizing = W[w].finalizing +
              IF W[w].reg = "on" THEN Cardinality(CallsFor(C, N, w)) ELSE 0

StartRowsAt(C, I, J, N) ==
    \A i \in Instances :
        /\ J[i].known = I[i].known
        /\ J[i].finalizing = I[i].finalizing +
              IF I[i].known THEN Cardinality(CallsAt(C, N, i)) ELSE 0

\* The calls of N, all open, start to be closed: each is counted everywhere or nowhere.
LEMMA CountsClosing ==
    ASSUME NEW C, NEW D, NEW W, NEW V, NEW I, NEW J, NEW T, NEW n,
           NEW N \in SUBSET Requests, StartClosing(C, D, N), StartRowsOf(C, W, V, N),
           StartRowsAt(C, I, J, N), Counts(C, W, I, T, n)
    PROVE  Counts(D, V, J, T, n + Cardinality(N))
<1>1. ASSUME NEW P \in SUBSET Requests
      PROVE  /\ Cardinality(ClosingIn(D) \cap P) =
                   Cardinality(ClosingIn(C) \cap P) + Cardinality(N \cap P)
             /\ Cardinality(ClosingIn(C) \cap P) \in Nat /\ Cardinality(N \cap P) \in Nat
  <2>1. ClosingIn(D) \cap P = (ClosingIn(C) \cap P) \cup (N \cap P)
    BY DEF ClosingIn, Finalizing, StartClosing
  <2>2. (ClosingIn(C) \cap P) \cap (N \cap P) = {}
    BY DEF ClosingIn, Finalizing, StartClosing
  <2>3. IsFiniteSet(ClosingIn(C) \cap P) /\ IsFiniteSet(N \cap P)
    BY ConstantsAssumption, FS_Subset
  <2>4. Cardinality((ClosingIn(C) \cap P) \cup (N \cap P)) =
           Cardinality(ClosingIn(C) \cap P) + Cardinality(N \cap P)
           - Cardinality((ClosingIn(C) \cap P) \cap (N \cap P))
    BY <2>3, FS_Union
  <2>5. Cardinality((ClosingIn(C) \cap P) \cap (N \cap P)) = 0
    BY <2>2, FS_EmptySet
  <2>6. Cardinality(ClosingIn(C) \cap P) \in Nat /\ Cardinality(N \cap P) \in Nat
    BY <2>3, FS_CardinalityType
  <2>7. Cardinality((ClosingIn(C) \cap P) \cup (N \cap P)) =
           Cardinality(ClosingIn(C) \cap P) + Cardinality(N \cap P)
    BY <2>4, <2>5, <2>6
  <2> QED BY <2>1, <2>6, <2>7
<1>2. n + Cardinality(N) = Cardinality(ClosingIn(D))
  <2>1. ClosingIn(D) \cap Requests = ClosingIn(D) /\ ClosingIn(C) \cap Requests = ClosingIn(C)
        /\ N \cap Requests = N
    BY DEF ClosingIn
  <2>2. n = Cardinality(ClosingIn(C))
    BY DEF Counts
  <2> QED BY <1>1, <2>1, <2>2
<1>3. ASSUME NEW w \in Workloads PROVE RowsOf(D, V[w], w)
  <2> DEFINE P == {r \in Requests : C[r].uid = w}
             m == Cardinality(CallsFor(C, N, w))
  <2>1. Cardinality(ClosingOf(D, w)) = Cardinality(ClosingOf(C, w)) + m
    <3>1. P \in SUBSET Requests /\ N \cap P = CallsFor(C, N, w)
      BY DEF CallsFor
    <3>2. ClosingIn(D) \cap P = ClosingOf(D, w) /\ ClosingIn(C) \cap P = ClosingOf(C, w)
      BY DEF ClosingIn, ClosingOf, StartClosing
    <3> HIDE DEF P
    <3> QED BY <1>1, <3>1, <3>2
  <2>2. RowsOf(C, W[w], w)
    BY DEF Counts
  <2> HIDE DEF m
  <2>3. V[w].reg = W[w].reg
        /\ V[w].finalizing = W[w].finalizing + IF W[w].reg = "on" THEN m ELSE 0
    BY DEF m, StartRowsOf
  <2>4. CASE W[w].reg = "on"
    BY <2>1, <2>2, <2>3, <2>4 DEF RowsOf
  <2>5. CASE W[w].reg = "absent"
    <3>1. W[w].finalizing = 0 /\ \A r \in Requests : C[r].uid = w => C[r].close = "closed"
      BY <2>2, <2>5 DEF RowsOf
    <3>2. \A r \in Requests : D[r].uid = w => D[r].close = "closed"
      BY <3>1 DEF StartClosing
    <3> QED BY <2>3, <2>5, <3>1, <3>2 DEF RowsOf
  <2> QED BY <2>3, <2>4, <2>5 DEF RowsOf
<1>4. ASSUME NEW i \in Instances PROVE RowsAt(D, J[i], T[i], i)
  <2> DEFINE P == {r \in Requests : C[r].assignment = i}
             m == Cardinality(CallsAt(C, N, i))
  <2>1. Cardinality(ClosingAt(D, i)) = Cardinality(ClosingAt(C, i)) + m
    <3>1. P \in SUBSET Requests /\ N \cap P = CallsAt(C, N, i)
      BY DEF CallsAt
    <3>2. ClosingIn(D) \cap P = ClosingAt(D, i) /\ ClosingIn(C) \cap P = ClosingAt(C, i)
      BY DEF ClosingIn, ClosingAt, StartClosing
    <3> HIDE DEF P
    <3> QED BY <1>1, <3>1, <3>2
  <2>2. RowsAt(C, I[i], T[i], i)
    BY DEF Counts
  <2> HIDE DEF m
  <2>3. J[i].known = I[i].known
        /\ J[i].finalizing = I[i].finalizing + IF I[i].known THEN m ELSE 0
    BY DEF m, StartRowsAt
  <2>4. CASE I[i].known
    BY <2>1, <2>2, <2>3, <2>4 DEF RowsAt
  <2>5. CASE ~I[i].known /\ ~T[i].retired
    <3>1. \A r \in Requests : C[r].assignment = i => C[r].close = "closed"
      BY <2>2, <2>5 DEF RowsAt
    <3>2. \A r \in Requests : D[r].assignment = i => D[r].close = "closed"
      BY <3>1 DEF StartClosing
    <3> QED BY <2>3, <2>5, <3>2 DEF RowsAt
  <2> QED BY <2>3, <2>4, <2>5 DEF RowsAt
<1> QED BY <1>2, <1>3, <1>4 DEF Counts

\* releaseLocked and closeLocked of the calls of S, none of which was closing.
LEMMA CountsReleased ==
    ASSUME NEW C \in [Requests -> CallType], NEW W \in [Workloads -> WorkloadType],
           NEW I \in [Instances -> InstanceType], NEW T, NEW n,
           NEW S \in SUBSET Requests, \A r \in S : C[r].close = "open",
           Counts(C, W, I, T, n)
    PROVE  Counts(Released(C, S), WorkloadsReleased(W, C, S), InstancesReleased(I, C, S), T,
                  n + Cardinality({r \in S : Closes(C[r])}))
<1> DEFINE D == Released(C, S)
           N == {r \in S : Closes(C[r])}
           V == WorkloadsReleased(W, C, S)
           J == InstancesReleased(I, C, S)
<1>1. ASSUME NEW r \in Requests
      PROVE  /\ D[r].uid = C[r].uid /\ D[r].assignment = C[r].assignment
             /\ D[r].close = IF r \in N THEN "closing" ELSE C[r].close
  <2>1. D[r] = IF r \in S THEN ReleaseLocked(C[r]) ELSE C[r]
    BY DEF Released
  <2>2. C[r] \in CallType
    OBVIOUS
  <2>3. CASE r \in N
    <3>1. D[r] = [C[r] EXCEPT !.instance = None, !.live = FALSE, !.close = "closing"]
      BY <2>1, <2>3 DEF ReleaseLocked
    <3> QED BY <2>2, <2>3, <3>1 DEF CallType
  <2>4. CASE r \notin N
    <3>1. D[r] = C[r] \/ D[r] = [C[r] EXCEPT !.instance = None]
      BY <2>1, <2>4 DEF ReleaseLocked
    <3> QED BY <2>2, <2>4, <3>1 DEF CallType
  <2> QED BY <2>3, <2>4
<1>2. N \in SUBSET Requests /\ \A r \in N : C[r].close = "open"
  OBVIOUS
<1>3. ASSUME NEW w \in Workloads
      PROVE  /\ V[w].reg = W[w].reg
             /\ V[w].finalizing = W[w].finalizing + IF W[w].reg = "on"
                   THEN Cardinality(CallsFor(C, N, w)) ELSE 0
  <2> DEFINE k == W[w].finalizing + IF W[w].reg = "on"
                    THEN Cardinality({r \in S : Closes(C[r]) /\ C[r].uid = w}) ELSE 0
  <2>1. V[w] = [W[w] EXCEPT !.finalizing = k] /\ W[w] \in WorkloadType
    BY DEF WorkloadsReleased
  <2>2. CallsFor(C, N, w) = {r \in S : Closes(C[r]) /\ C[r].uid = w}
    BY DEF CallsFor
  <2> HIDE DEF k, V
  <2>3. V[w].reg = W[w].reg /\ V[w].finalizing = k
    BY <2>1 DEF WorkloadType
  <2> QED BY <2>2, <2>3 DEF k
<1>4. ASSUME NEW i \in Instances
      PROVE  /\ J[i].known = I[i].known
             /\ J[i].finalizing = I[i].finalizing + IF I[i].known
                   THEN Cardinality(CallsAt(C, N, i)) ELSE 0
  <2> DEFINE k == I[i].finalizing + IF I[i].known
                    THEN Cardinality({r \in S : Closes(C[r]) /\ C[r].assignment = i}) ELSE 0
             o == I[i].outstanding - Cardinality(Freed(C, S, i))
  <2>1. J[i] = [I[i] EXCEPT !.outstanding = o, !.finalizing = k] /\ I[i] \in InstanceType
    BY DEF InstancesReleased, Freed
  <2>2. CallsAt(C, N, i) = {r \in S : Closes(C[r]) /\ C[r].assignment = i}
    BY DEF CallsAt
  <2> HIDE DEF k, o, J
  <2>3. J[i].known = I[i].known /\ J[i].finalizing = k
    BY <2>1 DEF InstanceType
  <2> QED BY <2>2, <2>3 DEF k
<1> HIDE DEF D, N, V, J
<1>5. StartClosing(C, D, N) /\ StartRowsOf(C, W, V, N) /\ StartRowsAt(C, I, J, N)
  BY <1>1, <1>2, <1>3, <1>4 DEF StartClosing, StartRowsOf, StartRowsAt
<1>6. Counts(D, V, J, T, n + Cardinality(N))
  BY <1>2, <1>5, CountsClosing
<1> QED BY <1>6 DEF D, N, V, J

\* Call r, which was being closed, is closed.
EndClosing(C, D, r) ==
    /\ Finalizing(C[r]) /\ D[r].close = "closed"
    /\ D[r].uid = C[r].uid /\ D[r].assignment = C[r].assignment
    /\ \A x \in Requests \ {r} : D[x] = C[x]

\* Workload u and executor j stop counting it.
EndRowsOf(u, W, V) ==
    \A w \in Workloads :
        /\ V[w].reg = W[w].reg
        /\ V[w].finalizing = IF u = w /\ W[w].reg = "on"
              THEN W[w].finalizing - 1 ELSE W[w].finalizing

EndRowsAt(j, I, J) ==
    \A i \in Instances :
        /\ J[i].known = I[i].known
        /\ J[i].finalizing = IF j = i /\ I[i].known
              THEN I[i].finalizing - 1 ELSE I[i].finalizing

\* A closed call is counted nowhere any more.
LEMMA CountsClosed ==
    ASSUME NEW C, NEW D, NEW W, NEW V, NEW I, NEW J, NEW T, NEW n,
           NEW r \in Requests, EndClosing(C, D, r), EndRowsOf(C[r].uid, W, V),
           EndRowsAt(C[r].assignment, I, J), Counts(C, W, I, T, n)
    PROVE  Counts(D, V, J, T, n - 1)
<1>1. ASSUME NEW P \in SUBSET Requests, r \in P
      PROVE  Cardinality(ClosingIn(D) \cap P) = Cardinality(ClosingIn(C) \cap P) - 1
  <2>1. ClosingIn(D) \cap P = (ClosingIn(C) \cap P) \ {r} /\ r \in ClosingIn(C) \cap P
    BY <1>1 DEF ClosingIn, Finalizing, EndClosing
  <2>2. IsFiniteSet(ClosingIn(C) \cap P)
    BY ConstantsAssumption, FS_Subset
  <2> HIDE DEF ClosingIn
  <2>3. Cardinality((ClosingIn(C) \cap P) \ {r}) = Cardinality(ClosingIn(C) \cap P) - 1
    BY <2>1, <2>2, FS_RemoveElement
  <2> QED BY <2>1, <2>3
<1>2. n - 1 = Cardinality(ClosingIn(D))
  <2>1. ClosingIn(D) \cap Requests = ClosingIn(D) /\ ClosingIn(C) \cap Requests = ClosingIn(C)
    BY DEF ClosingIn
  <2> QED BY <1>1, <2>1 DEF Counts
<1>3. ASSUME NEW w \in Workloads PROVE RowsOf(D, V[w], w)
  <2> DEFINE P == {x \in Requests : C[x].uid = w}
  <2>1. ClosingIn(D) \cap P = ClosingOf(D, w) /\ ClosingIn(C) \cap P = ClosingOf(C, w)
    BY DEF ClosingIn, ClosingOf, EndClosing
  <2>2. RowsOf(C, W[w], w)
    BY DEF Counts
  <2>3. C[r].uid = w => Cardinality(ClosingOf(D, w)) = Cardinality(ClosingOf(C, w)) - 1
    BY <1>1, <2>1
  <2>4. C[r].uid # w => ClosingOf(D, w) = ClosingOf(C, w)
    BY DEF ClosingOf, ClosingIn, EndClosing
  <2>5. /\ V[w].reg = W[w].reg
        /\ V[w].finalizing = IF C[r].uid = w /\ W[w].reg = "on"
              THEN W[w].finalizing - 1 ELSE W[w].finalizing
    BY DEF EndRowsOf
  <2>6. CASE W[w].reg = "on"
    <3>1. Cardinality(ClosingOf(D, w)) = V[w].finalizing
      BY <2>2, <2>3, <2>4, <2>5, <2>6 DEF RowsOf
    <3> QED BY <2>5, <2>6, <3>1 DEF RowsOf
  <2>7. CASE W[w].reg = "absent"
    <3>1. \A x \in Requests : D[x].uid = w => D[x].close = "closed"
      BY <2>2, <2>7 DEF RowsOf, EndClosing
    <3> QED BY <2>2, <2>5, <2>7, <3>1 DEF RowsOf
  <2> QED BY <2>5, <2>6, <2>7 DEF RowsOf
<1>4. ASSUME NEW i \in Instances PROVE RowsAt(D, J[i], T[i], i)
  <2> DEFINE P == {x \in Requests : C[x].assignment = i}
  <2>1. ClosingIn(D) \cap P = ClosingAt(D, i) /\ ClosingIn(C) \cap P = ClosingAt(C, i)
    BY DEF ClosingIn, ClosingAt, EndClosing
  <2>2. RowsAt(C, I[i], T[i], i)
    BY DEF Counts
  <2>3. C[r].assignment = i => Cardinality(ClosingAt(D, i)) = Cardinality(ClosingAt(C, i)) - 1
    BY <1>1, <2>1
  <2>4. C[r].assignment # i => ClosingAt(D, i) = ClosingAt(C, i)
    BY DEF ClosingAt, ClosingIn, EndClosing
  <2>5. /\ J[i].known = I[i].known
        /\ J[i].finalizing = IF C[r].assignment = i /\ I[i].known
              THEN I[i].finalizing - 1 ELSE I[i].finalizing
    BY DEF EndRowsAt
  <2>6. CASE I[i].known
    <3>1. Cardinality(ClosingAt(D, i)) = J[i].finalizing
      BY <2>2, <2>3, <2>4, <2>5, <2>6 DEF RowsAt
    <3> QED BY <2>5, <2>6, <3>1 DEF RowsAt
  <2>7. CASE ~I[i].known /\ ~T[i].retired
    <3>1. \A x \in Requests : D[x].assignment = i => D[x].close = "closed"
      BY <2>2, <2>7 DEF RowsAt, EndClosing
    <3> QED BY <2>5, <2>7, <3>1 DEF RowsAt
  <2> QED BY <2>5, <2>6, <2>7 DEF RowsAt
<1> QED BY <1>2, <1>3, <1>4 DEF Counts

\* rebuildLocked counts nothing.
LEMMA PruneClosing ==
    ASSUME NEW C, NEW W, NEW I \in [Instances -> InstanceType], NEW i \in Instances
    PROVE  /\ Prune(C, W, I)[i].known = I[i].known
           /\ Prune(C, W, I)[i].finalizing = I[i].finalizing
<1> DEFINE b == {w \in I[i].bindings : KeepsBinding(C, W, I, w, i)}
<1>1. Prune(C, W, I)[i] = [I[i] EXCEPT !.bindings = b] /\ I[i] \in InstanceType
  BY DEF Prune
<1> HIDE DEF b
<1> QED BY <1>1 DEF InstanceType

LEMMA CountsRebuild ==
    ASSUME NEW C, NEW W \in [Workloads -> WorkloadType],
           NEW I \in [Instances -> InstanceType], Rebuild(C, W, I),
           NEW D, NEW U, NEW n, Counts(D, W, I, U, n)
    PROVE  Counts(D, wl', ins', U, n)
<1> DEFINE P == Prune(C, W, I)
<1>1. P \in [Instances -> InstanceType]
  BY PruneType
<1>2. wl' = [w \in Workloads |-> [W[w] EXCEPT !.route = RouteOf(W, P, w)]]
  BY DEF Rebuild, Routed
<1>3. ins' = [i \in Instances |-> [P[i] EXCEPT !.bindings =
             P[i].bindings \cup {w \in Workloads : i \in RouteOf(W, P, w)}]]
  BY DEF Rebuild, Bound
<1>4. \A i \in Instances : P[i].known = I[i].known /\ P[i].finalizing = I[i].finalizing
  BY PruneClosing
<1> HIDE DEF P
<1>5. ASSUME NEW w \in Workloads PROVE SameRows(W[w], wl'[w])
  <2> DEFINE x == RouteOf(W, P, w)
  <2>1. wl'[w] = [W[w] EXCEPT !.route = x]
    BY <1>2
  <2> HIDE DEF x
  <2>2. wl'[w].reg = W[w].reg /\ wl'[w].finalizing = W[w].finalizing
    BY <2>1 DEF WorkloadType
  <2> QED BY <2>2 DEF SameRows
<1>6. ASSUME NEW i \in Instances PROVE SameClosing(I[i], ins'[i], U[i], U[i])
  <2> DEFINE b == P[i].bindings \cup {w \in Workloads : i \in RouteOf(W, P, w)}
  <2>1. ins'[i] = [P[i] EXCEPT !.bindings = b] /\ P[i] \in InstanceType
    BY <1>1, <1>3
  <2> HIDE DEF b
  <2>2. ins'[i].known = P[i].known /\ ins'[i].finalizing = P[i].finalizing
    BY <2>1 DEF InstanceType
  <2> QED BY <1>4, <2>2, SameClosingRefl
<1>7. \A r \in Requests : SameCount(D[r], D[r], W, I)
  BY SameCountRefl
<1> QED BY <1>5, <1>6, <1>7, CountsFrame

\* One call is replaced by one that counts the same.
LEMMA SameCountCall ==
    ASSUME NEW C \in [Requests -> CallType], NEW r \in Requests, NEW v, NEW W, NEW I,
           SameCount(C[r], v, W, I)
    PROVE  \A x \in Requests : SameCount(C[x], [C EXCEPT ![r] = v][x], W, I)
BY SameCountRefl

\* The tail of Response, execute and ObserveBackend, for a call that is open.
LEMMA CountRelease ==
    ASSUME TypeOK, CountInv, NEW r \in Requests, NEW v \in CallType,
           ReleaseAndDispatch([call EXCEPT ![r] = v], r), UNCHANGED src,
           SameCount(call[r], v, wl, ins), v.close = "open"
    PROVE  CountInv'
<1> DEFINE C == [call EXCEPT ![r] = v]
           n == srv.finalizing + Cardinality({x \in {r} : Closes(C[x])})
           W == WorkloadsReleased(wl, C, {r})
           J == InstancesReleased(ins, C, {r})
<1>t. /\ C \in [Requests -> CallType] /\ C[r] = v /\ srv \in ServerType
      /\ wl \in [Workloads -> WorkloadType] /\ ins \in [Instances -> InstanceType]
      /\ call \in [Requests -> CallType]
  BY DEF TypeOK
<1>1. /\ call' = Released(C, {r}) /\ wl' = W
      /\ ins' = Prune(C, wl, J) \/ ins' = J
      /\ srv' = [srv EXCEPT !.finalizing = n]
  BY DEF ReleaseAndDispatch, ServerReleased
<1>2. srv'.finalizing = n
  <2> HIDE DEF n
  <2> QED BY <1>1, <1>t DEF ServerType
<1>3. Counts(C, wl, ins, src, srv.finalizing)
  <2>1. \A x \in Requests : SameCount(call[x], C[x], wl, ins)
    BY <1>t, SameCountCall
  <2>2. \A i \in Instances : SameClosing(ins[i], ins[i], src[i], src[i])
    BY SameClosingRefl
  <2> HIDE DEF C
  <2> QED BY <2>1, <2>2, SameRowsRefl, CountsFrame DEF CountInv
<1> HIDE DEF C
<1>4. Counts(Released(C, {r}), W, J, src, n)
  <2>1. \A x \in {r} : C[x].close = "open"
    BY <1>t
  <2> QED BY <1>t, <1>3, <2>1, CountsReleased
<1>5. J \in [Instances -> InstanceType]
  BY <1>t, InstancesReleasedType
<1> HIDE DEF J, n, W
<1>6. Counts(Released(C, {r}), W, ins', src, n)
  <2>1. \A i \in Instances : SameClosing(J[i], ins'[i], src[i], src[i])
    BY <1>1, <1>5, PruneClosing, SameClosingRefl
  <2>2. \A x \in Requests : SameCount(Released(C, {r})[x], Released(C, {r})[x], W, J)
    BY SameCountRefl
  <2> QED BY <1>4, <2>1, <2>2, SameRowsRefl, CountsFrame
<1> QED BY <1>1, <1>2, <1>6 DEF CountInv

\* Steps that release nothing.
LEMMA CountFrame ==
    ASSUME CountInv, srv'.finalizing = srv.finalizing,
           \A r \in Requests : SameCount(call[r], call'[r], wl, ins),
           \A w \in Workloads : SameRows(wl[w], wl'[w]),
           \A i \in Instances : SameClosing(ins[i], ins'[i], src[i], src'[i])
    PROVE  CountInv'
BY CountsFrame DEF CountInv

\* A step of one call that leaves the counters alone.
LEMMA CountCall ==
    ASSUME TypeOK, CountInv, srv'.finalizing = srv.finalizing, UNCHANGED src,
           NEW r \in Requests, NEW v, call' = [call EXCEPT ![r] = v],
           SameCount(call[r], v, wl, ins),
           \A w \in Workloads : SameRows(wl[w], wl'[w]),
           \A i \in Instances : SameClosing(ins[i], ins'[i], src[i], src[i])
    PROVE  CountInv'
<1>1. \A x \in Requests : SameCount(call[x], call'[x], wl, ins)
  BY SameCountCall DEF TypeOK
<1> QED BY <1>1, CountFrame

LEMMA CountQuiet ==
    ASSUME CountInv, srv'.finalizing = srv.finalizing, UNCHANGED <<call, wl, ins>>,
           \A i \in Instances : src'[i].retired = src[i].retired
    PROVE  CountInv'
<1>1. \A i \in Instances : SameClosing(ins[i], ins'[i], src[i], src'[i])
  BY SameClosingRefl
<1> QED BY <1>1, SameCountRefl, SameRowsRefl, CountFrame

-----------------------------------------------------------------------------
(* Who closes a call                                                       *)

\* What a call is counted by stays.
LEMMA SameCountFields ==
    ASSUME NEW c, NEW d, NEW W, NEW I, d.close = c.close, d.uid = c.uid,
           d.assignment = c.assignment
    PROVE  SameCount(c, d, W, I)
BY DEF SameCount

\* Workload w changes, but its registration and its counter do not.
LEMMA SameRowsCall ==
    ASSUME TypeOK, NEW w \in Workloads, NEW v, wl' = [wl EXCEPT ![w] = v],
           v.reg = wl[w].reg, v.finalizing = wl[w].finalizing
    PROVE  \A x \in Workloads : SameRows(wl[x], wl'[x])
BY DEF SameRows, TypeOK

\* Receive names a registered Workload, or none.
LEMMA ReceiveCount ==
    ASSUME TypeOK, ServedInv, CountInv, NEW r \in Requests,
           NEW w \in Workloads \cup {None}, Receive(r, w)
    PROVE  CountInv'
<1> DEFINE c == call[r]
           at == IF srv.failed \/ w = None THEN "respond" ELSE "received"
           d == IF w = None THEN None ELSE wl[w].def
           v == [c EXCEPT !.at = at, !.uid = w, !.def = d]
<1>1. /\ call' = [call EXCEPT ![r] = v] /\ UNCHANGED <<wl, ins, src, srv>>
      /\ w # None => wl[w].reg = "on"
  BY DEF Receive
<1>2. c \in CallType /\ c.at = "new"
  BY DEF Receive, TypeOK
<1>3. c.close = "open"
  BY <1>2 DEF ServedInv, CallsInv, CallInv, OpenCall
<1> HIDE DEF at, d, c
<1>4. v.close = c.close /\ v.uid = w /\ v.assignment = c.assignment
  BY <1>2 DEF CallType
<1> HIDE DEF v
<1>5. SameCount(c, v, wl, ins)
  BY <1>1, <1>3, <1>4 DEF SameCount
<1>6. SameCount(call[r], v, wl, ins)
  BY <1>5 DEF c
<1>7. \A x \in Workloads : SameRows(wl[x], wl'[x])
  BY <1>1, SameRowsRefl
<1>8. \A i \in Instances : SameClosing(ins[i], ins'[i], src[i], src[i])
  BY <1>1, SameClosingRefl
<1> QED BY <1>1, <1>6, <1>7, <1>8, CountCall

\* Response of a rejected request starts to close it.
LEMMA ResponseRejectedCount ==
    ASSUME TypeOK, ServedInv, SafeInv, CountInv, NEW r \in Requests, ResponseRejected(r)
    PROVE  CountInv'
<1> DEFINE c == call[r]
           w == c.uid
<1>1. /\ c \in CallType /\ c.at = "respond" /\ ~c.live
      /\ wl \in [Workloads -> WorkloadType] /\ ins \in [Instances -> InstanceType]
      /\ srv \in ServerType
  BY DEF ResponseRejected, TypeOK
<1>2. c.close = "open"
  BY <1>1 DEF ServedInv, CallsInv, CallInv, OpenCall
<1>3. c.assignment = None
  BY <1>1 DEF SafeInv, CallsSafe, CallSafe, UnslottedCall, EarlyCall, Early
<1>4. CASE call' = [call EXCEPT ![r].at = "done"] /\ UNCHANGED <<wl, srv>>
  <2> DEFINE v == [c EXCEPT !.at = "done"]
  <2>1. call' = [call EXCEPT ![r] = v] /\ UNCHANGED <<wl, ins, src, srv>>
    BY <1>4 DEF ResponseRejected
  <2>2. v.close = c.close /\ v.uid = c.uid /\ v.assignment = c.assignment
    BY <1>1 DEF CallType
  <2> HIDE DEF v
  <2>3. SameCount(c, v, wl, ins)
    BY <2>2, SameCountFields
  <2>4. \A i \in Instances : SameClosing(ins[i], ins'[i], src[i], src[i])
    BY <2>1, SameClosingRefl
  <2> QED BY <2>1, <2>3, <2>4, SameRowsRefl, CountCall
<1>5. CASE /\ call' = [call EXCEPT ![r] = [@ EXCEPT !.at = "done", !.responseRecorded = TRUE,
                                                    !.close = "closing"]]
           /\ wl' = IF w # None /\ wl[w].reg = "on"
                    THEN [wl EXCEPT ![w].finalizing = @ + 1] ELSE wl
           /\ srv' = [srv EXCEPT !.finalizing = @ + 1]
  <2> DEFINE v == [c EXCEPT !.at = "done", !.responseRecorded = TRUE, !.close = "closing"]
             n == srv.finalizing + 1
  <2>1. /\ call' = [call EXCEPT ![r] = v] /\ UNCHANGED <<ins, src>>
        /\ srv' = [srv EXCEPT !.finalizing = n]
    BY <1>5 DEF ResponseRejected
  <2>2. v.close = "closing" /\ v.uid = c.uid /\ v.assignment = c.assignment
    BY <1>1 DEF CallType
  <2> HIDE DEF v
  <2>3. call'[r] = v /\ \A x \in Requests \ {r} : call'[x] = call[x]
    BY <2>1 DEF TypeOK
  <2>4. \A x \in Requests : /\ call'[x].uid = call[x].uid
                            /\ call'[x].assignment = call[x].assignment
                            /\ call'[x].close = IF x \in {r} THEN "closing" ELSE call[x].close
    BY <2>2, <2>3
  <2>5. srv'.finalizing = srv.finalizing + Cardinality({r})
    <3>1. srv'.finalizing = n
      <4> HIDE DEF n
      <4> QED BY <1>1, <2>1 DEF ServerType
    <3> QED BY <3>1, FS_Singleton
  <2>6. ASSUME NEW u \in Workloads
        PROVE  /\ wl'[u].reg = wl[u].reg
               /\ wl'[u].finalizing = wl[u].finalizing + IF wl[u].reg = "on"
                     THEN Cardinality(CallsFor(call, {r}, u)) ELSE 0
    <3>1. wl[u].finalizing \in Int /\ wl[u] \in WorkloadType
      BY <1>1 DEF WorkloadType
    <3>2. CASE u = w /\ wl[w].reg = "on"
      <4> DEFINE m == wl[w].finalizing + 1
      <4>1. CallsFor(call, {r}, u) = {r}
        BY <3>2 DEF CallsFor
      <4>2. u # None
        BY ConstantsAssumption
      <4>3. wl'[u] = [wl[u] EXCEPT !.finalizing = m]
        BY <1>1, <1>5, <3>2, <4>2
      <4> HIDE DEF m
      <4>4. wl'[u].reg = wl[u].reg /\ wl'[u].finalizing = m
        BY <3>1, <4>3 DEF WorkloadType
      <4>5. Cardinality(CallsFor(call, {r}, u)) = 1
        BY <4>1, FS_Singleton
      <4> QED BY <3>2, <4>4, <4>5 DEF m
    <3>3. CASE ~(u = w /\ wl[w].reg = "on")
      <4>1. wl'[u] = wl[u]
        BY <1>1, <1>5, <3>3
      <4>2. wl[u].reg = "on" => CallsFor(call, {r}, u) = {}
        BY <3>3 DEF CallsFor
      <4>3. wl[u].reg = "on" => Cardinality(CallsFor(call, {r}, u)) = 0
        BY <4>2, FS_EmptySet
      <4> QED BY <3>1, <4>1, <4>3
    <3> QED BY <3>2, <3>3
  <2>7. ASSUME NEW i \in Instances
        PROVE  /\ ins'[i].known = ins[i].known
               /\ ins'[i].finalizing = ins[i].finalizing + IF ins[i].known
                     THEN Cardinality(CallsAt(call, {r}, i)) ELSE 0
    <3>1. CallsAt(call, {r}, i) = {}
      <4>1. None # i
        BY ConstantsAssumption
      <4> QED BY <1>3, <4>1 DEF CallsAt
    <3>2. ins[i].finalizing \in Int
      BY <1>1 DEF InstanceType
    <3>3. Cardinality(CallsAt(call, {r}, i)) = 0
      BY <3>1, FS_EmptySet
    <3> QED BY <2>1, <3>2, <3>3
  <2>8. Counts(call', wl', ins', src, srv.finalizing + Cardinality({r}))
    <3>1. {r} \in SUBSET Requests /\ StartClosing(call, call', {r})
      BY <1>2, <2>4 DEF StartClosing
    <3>2. StartRowsOf(call, wl, wl', {r}) /\ StartRowsAt(call, ins, ins', {r})
      BY <2>6, <2>7 DEF StartRowsOf, StartRowsAt
    <3> QED BY <3>1, <3>2, CountsClosing DEF CountInv
  <2> QED BY <2>1, <2>5, <2>8 DEF CountInv
<1> QED BY <1>4, <1>5 DEF ResponseRejected

\* The end of unlock.
LEMMA FinalizedCount ==
    ASSUME TypeOK, CountInv, NEW r \in Requests, Finalized(r)
    PROVE  CountInv'
<1> DEFINE c == call[r]
           w == c.uid
           i == c.assignment
           n == srv.finalizing - 1
<1>1. /\ c \in CallType /\ c.close = "rowed" /\ srv \in ServerType
      /\ call' = [call EXCEPT ![r] = RowOnly(c)] /\ UNCHANGED src
      /\ srv' = [srv EXCEPT !.finalizing = n]
      /\ wl' = IF w # None /\ wl[w].reg = "on"
               THEN [wl EXCEPT ![w].finalizing = @ - 1] ELSE wl
      /\ ins' = IF i # None /\ ins[i].known
                THEN [ins EXCEPT ![i].finalizing = @ - 1] ELSE ins
      /\ wl \in [Workloads -> WorkloadType] /\ ins \in [Instances -> InstanceType]
  BY DEF Finalized, TypeOK
<1>2. /\ RowOnly(c).close = "closed" /\ RowOnly(c).uid = c.uid
      /\ RowOnly(c).assignment = c.assignment
  BY DEF RowOnly, NewCall
<1>3. call'[r] = RowOnly(c) /\ \A x \in Requests \ {r} : call'[x] = call[x]
  BY <1>1 DEF TypeOK
<1>4. srv'.finalizing = n
  <2> HIDE DEF n
  <2> QED BY <1>1 DEF ServerType
<1>5. ASSUME NEW u \in Workloads
      PROVE  /\ wl'[u].reg = wl[u].reg
             /\ wl'[u].finalizing = IF c.uid = u /\ wl[u].reg = "on"
                   THEN wl[u].finalizing - 1 ELSE wl[u].finalizing
  <2>1. CASE u = w /\ wl[w].reg = "on"
    <3> DEFINE m == wl[u].finalizing - 1
    <3>1. u # None
      BY ConstantsAssumption
    <3>2. wl'[u] = [wl[u] EXCEPT !.finalizing = m] /\ wl[u] \in WorkloadType
      BY <1>1, <2>1, <3>1
    <3> HIDE DEF m
    <3>3. wl'[u].reg = wl[u].reg /\ wl'[u].finalizing = m
      BY <3>2 DEF WorkloadType
    <3> QED BY <2>1, <3>3 DEF m
  <2>2. CASE ~(u = w /\ wl[w].reg = "on")
    <3>1. wl'[u] = wl[u]
      BY <1>1, <2>2
    <3> QED BY <2>2, <3>1
  <2> QED BY <2>1, <2>2
<1>6. ASSUME NEW j \in Instances
      PROVE  /\ ins'[j].known = ins[j].known
             /\ ins'[j].finalizing = IF c.assignment = j /\ ins[j].known
                   THEN ins[j].finalizing - 1 ELSE ins[j].finalizing
  <2>1. CASE j = i /\ ins[i].known
    <3> DEFINE m == ins[j].finalizing - 1
    <3>1. j # None
      BY ConstantsAssumption
    <3>2. ins'[j] = [ins[j] EXCEPT !.finalizing = m] /\ ins[j] \in InstanceType
      BY <1>1, <2>1, <3>1
    <3> HIDE DEF m
    <3>3. ins'[j].known = ins[j].known /\ ins'[j].finalizing = m
      BY <3>2 DEF InstanceType
    <3> QED BY <2>1, <3>3 DEF m
  <2>2. CASE ~(j = i /\ ins[i].known)
    <3>1. ins'[j] = ins[j]
      BY <1>1, <2>2
    <3> QED BY <2>2, <3>1
  <2> QED BY <2>1, <2>2
<1>7. Counts(call', wl', ins', src, n)
  <2>1. EndClosing(call, call', r)
    BY <1>1, <1>2, <1>3 DEF EndClosing, Finalizing
  <2>2. EndRowsOf(w, wl, wl') /\ EndRowsAt(i, ins, ins')
    BY <1>5, <1>6 DEF EndRowsOf, EndRowsAt
  <2> QED BY <2>1, <2>2, CountsClosed DEF CountInv
<1> QED BY <1>1, <1>4, <1>7 DEF CountInv

\* Every handler step.
LEMMA HandlerCount ==
    ASSUME TypeOK, ServedInv, SafeInv, CountInv, NEW r \in Requests, HandlerStep(r)
    PROVE  CountInv'
<1> DEFINE c == call[r]
           w == c.uid
<1>c. c \in CallType
  BY DEF TypeOK
<1>i. UNCHANGED <<ins, src>> => \A i \in Instances : SameClosing(ins[i], ins'[i], src[i], src[i])
  BY SameClosingRefl
<1>a. ASSUME NEW at, call' = [call EXCEPT ![r].at = at], UNCHANGED <<wl, ins, src, srv>>
      PROVE  CountInv'
  <2> DEFINE v == [c EXCEPT !.at = at]
  <2>1. v.close = c.close /\ v.uid = c.uid /\ v.assignment = c.assignment
        /\ call' = [call EXCEPT ![r] = v]
    BY <1>a, <1>c DEF CallType
  <2> HIDE DEF v
  <2>2. SameCount(c, v, wl, ins)
    BY <2>1, SameCountFields
  <2> QED BY <1>a, <1>i, <2>1, <2>2, SameRowsRefl, CountCall
<1>1. CASE \E x \in Workloads \cup {None} : Receive(r, x)
  BY <1>1, ReceiveCount
<1>2. CASE Validate(r) \/ Reject(r) \/ WaitReply(r)
  <2>1. (\E at : call' = [call EXCEPT ![r].at = at]) /\ UNCHANGED <<wl, ins, src, srv>>
    BY <1>2 DEF Validate, Reject, WaitReply
  <2> QED BY <1>a, <2>1
<1>3. CASE Accept(r) \/ WaitDone(r)
  <2>1. PICK v, q : /\ call' = [call EXCEPT ![r] = v] /\ UNCHANGED <<ins, src, srv>>
                    /\ wl' = [wl EXCEPT ![w] = [wl[w] EXCEPT !.queue = q]]
                    /\ v.close = c.close /\ v.uid = c.uid /\ v.assignment = c.assignment
    <3>1. CASE Accept(r)
      <4> DEFINE v == [c EXCEPT !.at = "waiting", !.live = TRUE]
      <4>1. /\ call' = [call EXCEPT ![r] = v] /\ UNCHANGED <<ins, src, srv>>
            /\ \E q : wl' = [wl EXCEPT ![w] = [wl[w] EXCEPT !.queue = q]]
        BY <3>1 DEF Accept
      <4>2. v.close = c.close /\ v.uid = c.uid /\ v.assignment = c.assignment
        BY <1>c DEF CallType
      <4> HIDE DEF v
      <4> QED BY <4>1, <4>2
    <3>2. CASE WaitDone(r)
      <4> DEFINE a == c.backendDone \/ c.assignment = None
                 b == c.transportDone \/ c.assignment = None
                 v == [c EXCEPT !.at = "respond", !.backendDone = a, !.transportDone = b,
                                !.canceled = TRUE]
      <4>1. /\ call' = [call EXCEPT ![r] = v] /\ UNCHANGED <<ins, src, srv>>
            /\ \E q : wl' = [wl EXCEPT ![w] = [wl[w] EXCEPT !.queue = q]]
        BY <3>2 DEF WaitDone
      <4> HIDE DEF a, b
      <4>2. v.close = c.close /\ v.uid = c.uid /\ v.assignment = c.assignment
        BY <1>c DEF CallType
      <4> HIDE DEF v
      <4> QED BY <4>1, <4>2
    <3> QED BY <1>3, <3>1, <3>2
  <2>2. w \in Workloads
    <3>1. c.at \in {"validated", "waiting"}
      BY <1>3 DEF Accept, WaitDone
    <3> QED BY <3>1 DEF ServedInv, CallsInv, CallInv, NamedCall
  <2> DEFINE u == [wl[w] EXCEPT !.queue = q]
  <2>3. u.reg = wl[w].reg /\ u.finalizing = wl[w].finalizing /\ wl' = [wl EXCEPT ![w] = u]
    BY <2>1, <2>2 DEF TypeOK, WorkloadType
  <2> HIDE DEF u
  <2>4. \A x \in Workloads : SameRows(wl[x], wl'[x])
    BY <2>2, <2>3, SameRowsCall
  <2>5. SameCount(c, v, wl, ins)
    BY <2>1, SameCountFields
  <2> QED BY <1>i, <2>1, <2>4, <2>5, CountCall
<1>4. CASE ResponseLive(r)
  <2>1. CASE call' = [call EXCEPT ![r].at = "done"] /\ UNCHANGED <<wl, ins, srv>>
    BY <1>a, <1>4, <2>1 DEF ResponseLive
  <2> DEFINE v == [c EXCEPT !.at = "done", !.responseRecorded = TRUE]
  <2>2. CASE ReleaseAndDispatch([call EXCEPT ![r] = v], r)
    <3>1. UNCHANGED src /\ c.at = "respond"
      BY <1>4 DEF ResponseLive
    <3>2. c.close = "open"
      BY <3>1 DEF ServedInv, CallsInv, CallInv, OpenCall
    <3>3. v \in CallType /\ v.close = c.close /\ v.uid = c.uid /\ v.assignment = c.assignment
      BY <1>c DEF CallType, Places
    <3> HIDE DEF v
    <3>4. SameCount(c, v, wl, ins)
      BY <3>3, SameCountFields
    <3> QED BY <2>2, <3>1, <3>2, <3>3, <3>4, CountRelease
  <2> QED BY <1>4, <2>1, <2>2 DEF ResponseLive
<1>5. CASE ResponseRejected(r)
  BY <1>5, ResponseRejectedCount
<1>6. CASE RequestClosed(r)
  <2> DEFINE v == [c EXCEPT !.close = "rowed"]
  <2>1. /\ call' = [call EXCEPT ![r] = v] /\ UNCHANGED <<wl, ins, src, srv>>
        /\ c.close = "closing"
    BY <1>6 DEF RequestClosed
  <2>2. v.close = "rowed" /\ v.uid = c.uid /\ v.assignment = c.assignment
    BY <1>c DEF CallType
  <2> HIDE DEF v
  <2>3. SameCount(c, v, wl, ins)
    BY <2>1, <2>2 DEF SameCount, Finalizing
  <2> QED BY <1>i, <2>1, <2>3, SameRowsRefl, CountCall
<1>7. CASE Finalized(r)
  BY <1>7, FinalizedCount
<1> QED BY <1>1, <1>2, <1>3, <1>4, <1>5, <1>6, <1>7 DEF HandlerStep

\* dispatchLocked takes the head of a queue; it assigns it to an installed executor.
LEMMA DispatchCount ==
    ASSUME TypeOK, ServedInv, SafeInv, CountInv, DispatchStep
    PROVE  CountInv'
<1>1. CASE DispatchEnd
  BY <1>1, CountQuiet DEF DispatchEnd
<1>2. ASSUME NEW w \in Workloads, wl[w].queue # <<>>, UNCHANGED <<src, srv>>,
             NEW q, wl' = [wl EXCEPT ![w] = [wl[w] EXCEPT !.queue = q]],
             NEW v, call' = [call EXCEPT ![Head(wl[w].queue)] = v],
             LET c == call[Head(wl[w].queue)] IN
                /\ v.close = c.close /\ v.uid = c.uid
                /\ v.assignment = c.assignment \/ ins[v.assignment].known,
             \A i \in Instances : SameClosing(ins[i], ins'[i], src[i], src[i])
      PROVE  CountInv'
  <2> DEFINE r == Head(wl[w].queue)
             c == call[r]
             u == [wl[w] EXCEPT !.queue = q]
  <2>1. wl[w] \in WorkloadType
    BY DEF TypeOK
  <2>2. r \in Requests /\ c.close = "open"
    BY <1>2, HeadCall
  <2>5. SameCount(c, v, wl, ins)
    BY <1>2, <2>2 DEF SameCount
  <2>6. u.reg = wl[w].reg /\ u.finalizing = wl[w].finalizing /\ wl' = [wl EXCEPT ![w] = u]
    BY <1>2, <2>1 DEF WorkloadType
  <2> HIDE DEF u, r
  <2>7. \A x \in Workloads : SameRows(wl[x], wl'[x])
    BY <2>6, SameRowsCall
  <2>8. call' = [call EXCEPT ![r] = v]
    BY <1>2 DEF r
  <2> QED BY <1>2, <2>2, <2>5, <2>7, <2>8, CountCall
<1>3. ASSUME NEW w \in Workloads, DispatchExpired(w) PROVE CountInv'
  <2> DEFINE c == call[Head(wl[w].queue)]
             n == c.sends + 1
             v == [c EXCEPT !.backendDone = TRUE, !.transportDone = TRUE, !.sends = n]
             q == Tail(wl[w].queue)
  <2>1. /\ wl[w].queue # <<>> /\ UNCHANGED <<ins, src, srv>>
        /\ wl' = [wl EXCEPT ![w] = [wl[w] EXCEPT !.queue = q]]
        /\ call' = [call EXCEPT ![Head(wl[w].queue)] = v]
    BY <1>3 DEF DispatchExpired
  <2>2. c \in CallType
    <3>1. wl[w].queue \in Seq(Requests)
      BY DEF TypeOK, WorkloadType
    <3> QED BY <2>1, <3>1 DEF TypeOK
  <2> HIDE DEF n, q
  <2>3. v.close = c.close /\ v.uid = c.uid /\ v.assignment = c.assignment
    BY <2>2 DEF CallType
  <2>4. \A i \in Instances : SameClosing(ins[i], ins'[i], src[i], src[i])
    BY <2>1, SameClosingRefl
  <2> HIDE DEF v
  <2> QED BY <1>2, <2>1, <2>3, <2>4
<1>4. ASSUME NEW w \in Workloads, NEW i \in Instances, DispatchAssign(w, i) PROVE CountInv'
  <2> DEFINE c == call[Head(wl[w].queue)]
             v == [c EXCEPT !.assignment = i, !.instance = i, !.exec = "spawned"]
             q == Tail(wl[w].queue)
             n == ins[i].outstanding + 1
             u == [ins[i] EXCEPT !.outstanding = n]
  <2>1. /\ wl[w].queue # <<>> /\ UNCHANGED <<src, srv>> /\ ins[i].ready
        /\ wl' = [wl EXCEPT ![w] = [wl[w] EXCEPT !.queue = q]]
        /\ call' = [call EXCEPT ![Head(wl[w].queue)] = v]
        /\ ins' = [ins EXCEPT ![i] = u]
    BY <1>4 DEF DispatchAssign, Available
  <2>2. c \in CallType
    <3>1. wl[w].queue \in Seq(Requests)
      BY DEF TypeOK, WorkloadType
    <3> QED BY <2>1, <3>1 DEF TypeOK
  <2> HIDE DEF n, q
  <2>3. v.close = c.close /\ v.uid = c.uid /\ v.assignment = i
    BY <2>2 DEF CallType
  <2>4. ins[i].known
    BY <2>1 DEF SafeInv, SlotsInv, SlotInv
  <2>5. u.known = ins[i].known /\ u.finalizing = ins[i].finalizing
    BY DEF TypeOK, InstanceType
  <2> HIDE DEF u
  <2>6. ASSUME NEW j \in Instances
        PROVE  ins'[j].known = ins[j].known /\ ins'[j].finalizing = ins[j].finalizing
    BY <2>1, <2>5 DEF TypeOK
  <2>7. \A j \in Instances : SameClosing(ins[j], ins'[j], src[j], src[j])
    BY <2>6, SameClosingRefl
  <2> HIDE DEF v
  <2> QED BY <1>2, <2>1, <2>3, <2>4, <2>7
<1> QED BY <1>1, <1>3, <1>4 DEF DispatchStep

\* execute: only its end may close the call, which was open.
LEMMA ExecuteCount ==
    ASSUME TypeOK, SafeInv, CountInv, NEW r \in Requests, ExecuteStep(r)
    PROVE  CountInv'
<1> DEFINE c == call[r]
<1>c. c \in CallType
  BY DEF TypeOK
<1>1. CASE ExecuteBegin(r) \/ ExchangeComplete(r) \/ ExchangeBroken(r)
  <2>1. PICK x : call' = [call EXCEPT ![r].exec = x] /\ UNCHANGED <<wl, ins, src, srv>>
    BY <1>1 DEF ExecuteBegin, ExchangeComplete, ExchangeBroken
  <2> DEFINE v == [c EXCEPT !.exec = x]
  <2>2. v.close = c.close /\ v.uid = c.uid /\ v.assignment = c.assignment
        /\ call' = [call EXCEPT ![r] = v]
    BY <1>c, <2>1 DEF CallType
  <2> HIDE DEF v
  <2>3. SameCount(c, v, wl, ins)
    BY <2>2, SameCountFields
  <2>4. \A i \in Instances : SameClosing(ins[i], ins'[i], src[i], src[i])
    BY <2>1, SameClosingRefl
  <2> QED BY <2>1, <2>2, <2>3, <2>4, SameRowsRefl, CountCall
<1>2. CASE ExecuteEnd(r)
  <2> DEFINE x == c.exec
             a == IF x = "unlogged" THEN None ELSE c.assignment
             p == c.progress \/ (x = "complete" /\ phys[r].st = "ran")
             b == c.backendDone \/ x # "broken"
             n == c.sends + 1
             v == [c EXCEPT !.exec = "over", !.assignment = a, !.transportDone = TRUE,
                            !.progress = p, !.backendDone = b, !.sends = n]
  <2>1. ReleaseAndDispatch([call EXCEPT ![r] = v], r) /\ UNCHANGED src
        /\ x \in {"complete", "broken", "unlogged"}
    BY <1>2 DEF ExecuteEnd
  <2>2. /\ a \in {c.assignment, None} /\ a \in Instances \cup {None}
        /\ p \in BOOLEAN /\ b \in BOOLEAN /\ n \in Nat
    BY <1>c DEF CallType
  <2>3. c.close = "open"
    BY <2>1 DEF SafeInv, CallsSafe, CallSafe, UnslottedCall, ClosedCall
  <2> HIDE DEF a, p, b, n
  <2>t. v \in CallType
    BY ZenonT(60), <1>c, <2>2 DEF CallType, Executions
  <2>4. v \in CallType /\ v.close = c.close /\ v.uid = c.uid /\ v.assignment = a
    BY <1>c, <2>t DEF CallType
  <2> HIDE DEF v
  <2>5. SameCount(c, v, wl, ins)
    BY <2>2, <2>3, <2>4 DEF SameCount
  <2> QED BY <2>1, <2>3, <2>4, <2>5, CountRelease
<1> QED BY <1>1, <1>2 DEF ExecuteStep

-----------------------------------------------------------------------------
(* The observer                                                            *)

\* A step that ends in rebuildLocked and closes nothing.
LEMMA CountRebuilt ==
    ASSUME TypeOK, CountInv, UNCHANGED call, srv'.finalizing = srv.finalizing,
           NEW D, NEW W \in [Workloads -> WorkloadType],
           NEW I \in [Instances -> InstanceType], Rebuild(D, W, I),
           \A w \in Workloads : SameRows(wl[w], W[w]),
           \A i \in Instances : SameClosing(ins[i], I[i], src[i], src'[i])
    PROVE  CountInv'
<1>1. \A r \in Requests : SameCount(call[r], call[r], wl, ins)
  BY SameCountRefl
<1>2. Counts(call, W, I, src', srv.finalizing)
  BY <1>1, CountsFrame DEF CountInv
<1>3. Counts(call, wl', ins', src', srv.finalizing)
  BY <1>2, CountsRebuild
<1> QED BY <1>3 DEF CountInv

\* A progress line names a live call.
LEMMA ObserveBackendCount ==
    ASSUME TypeOK, SafeInv, CountInv, NEW r \in Requests, NEW finished \in BOOLEAN,
           ObserveBackend(r, finished)
    PROVE  CountInv'
<1> DEFINE c == call[r]
           g == c.progress \/ ~c.backendDone
           b == c.backendDone \/ finished
           v == [c EXCEPT !.progress = g, !.backendDone = b]
<1>1. /\ c \in CallType /\ c.live /\ UNCHANGED src
      /\ \/ call' = [call EXCEPT ![r] = v] /\ UNCHANGED <<wl, ins, srv>>
         \/ ReleaseAndDispatch([call EXCEPT ![r] = v], r)
  BY DEF ObserveBackend, TypeOK
<1>2. c.close = "open"
  BY <1>1 DEF SafeInv, CallsSafe, CallSafe, UnslottedCall, ClosedCall
<1>3. g \in BOOLEAN /\ b \in BOOLEAN
  BY <1>1 DEF CallType
<1> HIDE DEF g, b
<1>4. v \in CallType /\ v.close = c.close /\ v.uid = c.uid /\ v.assignment = c.assignment
  BY ZenonT(60), <1>1, <1>3 DEF CallType
<1> HIDE DEF v
<1>5. SameCount(c, v, wl, ins)
  BY <1>4, SameCountFields
<1>6. CASE call' = [call EXCEPT ![r] = v] /\ UNCHANGED <<wl, ins, srv>>
  <2>1. \A i \in Instances : SameClosing(ins[i], ins'[i], src[i], src[i])
    BY <1>6, SameClosingRefl
  <2> QED BY <1>1, <1>5, <1>6, <2>1, SameRowsRefl, CountCall
<1>7. CASE ReleaseAndDispatch([call EXCEPT ![r] = v], r)
  BY <1>1, <1>2, <1>4, <1>5, <1>7, CountRelease
<1> QED BY <1>1, <1>6, <1>7

\* Evidence for the live calls of S, over the executors of I.
LEMMA EvidenceCount ==
    ASSUME TypeOK, SafeInv, CountInv, NEW S \in SUBSET Requests,
           \A r \in S : call[r].live, NEW C, NEW D,
           NEW I \in [Instances -> InstanceType],
           C = [r \in Requests |-> IF r \in S
                  THEN [call[r] EXCEPT !.backendDone = TRUE] ELSE call[r]],
           call' = Released(C, S),
           Rebuild(D, WorkloadsReleased(wl, C, S), InstancesReleased(I, C, S)),
           srv'.finalizing = srv.finalizing + Cardinality({r \in S : Closes(C[r])}),
           \A i \in Instances : SameClosing(ins[i], I[i], src[i], src'[i])
    PROVE  CountInv'
<1> DEFINE W == WorkloadsReleased(wl, C, S)
           J == InstancesReleased(I, C, S)
           n == srv.finalizing + Cardinality({r \in S : Closes(C[r])})
<1>1. wl \in [Workloads -> WorkloadType] /\ C \in [Requests -> CallType]
  BY EvidenceType DEF TypeOK
<1>2. W \in [Workloads -> WorkloadType] /\ J \in [Instances -> InstanceType]
  BY <1>1, WorkloadsReleasedType, InstancesReleasedType
<1>3. ASSUME NEW r \in Requests
      PROVE  /\ SameCount(call[r], C[r], wl, ins)
             /\ r \in S => C[r].close = "open"
  <2>1. call[r] \in CallType /\ (call[r].live => call[r].close = "open")
    BY DEF TypeOK, SafeInv, CallsSafe, CallSafe, UnslottedCall, ClosedCall
  <2>2. C[r].close = call[r].close /\ C[r].uid = call[r].uid
        /\ C[r].assignment = call[r].assignment
    BY <2>1 DEF CallType
  <2> QED BY <2>1, <2>2, SameCountFields
<1>4. Counts(C, wl, I, src', srv.finalizing)
  BY <1>3, SameRowsRefl, CountsFrame DEF CountInv
<1>5. Counts(Released(C, S), W, J, src', n)
  <2>1. \A r \in S : C[r].close = "open"
    BY <1>3
  <2> QED BY <1>1, <1>4, <2>1, CountsReleased
<1>6. Rebuild(D, W, J) /\ srv'.finalizing = n
  OBVIOUS
<1> HIDE DEF W, J, n
<1>7. Counts(Released(C, S), wl', ins', src', n)
  BY <1>2, <1>5, <1>6, CountsRebuild
<1> QED BY <1>6, <1>7 DEF CountInv

\* A termination report closes what its executor answered for.
LEMMA ConfirmInstanceStoppedCount ==
    ASSUME TypeOK, SafeInv, CountInv, NEW i \in Instances, ConfirmInstanceStopped(i)
    PROVE  CountInv'
<1> DEFINE S == {r \in Requests : /\ call[r].live /\ call[r].assignment = i
                                  /\ ~call[r].backendDone}
           C == [r \in Requests |-> IF r \in S
                   THEN [call[r] EXCEPT !.backendDone = TRUE] ELSE call[r]]
           f == ins[i].fenced /\ (srv.failed \/ ~srv.up)
           v == [ins[i] EXCEPT !.ready = FALSE, !.terminated = ins[i].known,
                               !.fenced = f, !.drained = FALSE]
           I == [ins EXCEPT ![i] = v]
           u == [src[i] EXCEPT !.terminated = TRUE, !.probe = "idle"]
           n == srv.finalizing + Cardinality({r \in S : Closes(C[r])})
<1>1. /\ call' = Released(C, S) /\ srv' = [srv EXCEPT !.finalizing = n]
      /\ Rebuild(Released(C, S), WorkloadsReleased(wl, C, S), InstancesReleased(I, C, S))
      /\ src' = [src EXCEPT ![i] = u]
  BY DEF ConfirmInstanceStopped, ServerReleased
<1>2. /\ S \in SUBSET Requests /\ f \in BOOLEAN /\ ins[i] \in InstanceType
      /\ src[i] \in SourceType /\ srv \in ServerType /\ \A r \in S : call[r].live
  BY DEF TypeOK
<1>3. C = [r \in Requests |-> IF r \in S
                   THEN [call[r] EXCEPT !.backendDone = TRUE] ELSE call[r]]
  OBVIOUS
<1> HIDE DEF f, S, C
<1>4. v \in InstanceType /\ v.known = ins[i].known /\ v.finalizing = ins[i].finalizing
  BY <1>2 DEF InstanceType
<1>5. u.retired = src[i].retired
  BY <1>2 DEF SourceType
<1>6. srv'.finalizing = n
  <2> HIDE DEF n
  <2> QED BY <1>1, <1>2 DEF ServerType
<1> HIDE DEF v, u
<1>7. ASSUME NEW j \in Instances PROVE SameClosing(ins[j], I[j], src[j], src'[j])
  <2>1. I[j].known = ins[j].known /\ I[j].finalizing = ins[j].finalizing
    BY <1>4 DEF TypeOK
  <2>2. src'[j].retired = src[j].retired
    BY <1>1, <1>5 DEF TypeOK
  <2> QED BY <2>1, <2>2, SameClosingRefl
<1>8. I \in [Instances -> InstanceType]
  BY <1>4 DEF TypeOK
<1> HIDE DEF I
<1> QED BY <1>1, <1>2, <1>3, <1>6, <1>7, <1>8, EvidenceCount

\* installInstancesLocked keeps the counter of an executor, and installs a new one
\* that no call was assigned to.
LEMMA InstalledCount ==
    ASSUME TypeOK, NEW L \in [Instances -> SourceType], NEW i \in Instances,
           L[i].retired = src[i].retired
    PROVE  SameClosing(ins[i], Installed(L, i), src[i], L[i])
<1> DEFINE x == ins[i]
           new == [NewInstance EXCEPT !.known = TRUE, !.fenced = srv.unknown]
           old == IF x.known THEN x ELSE new
           fenced == old.fenced /\ ~LiftsFence(L, i)
           terminated == L[i].terminated \/ old.terminated
           ready == L[i].ready /\ ~fenced /\ ~terminated
           kept == [old EXCEPT !.ready = ready, !.drained = FALSE,
                               !.fenced = fenced, !.terminated = terminated]
           profile == IF L[i].evidence THEN ProfileOf[i] ELSE None
           routing == L[i].routing
           full == [kept EXCEPT !.profile = profile, !.routing = routing]
           off == [x EXCEPT !.ready = FALSE, !.drained = FALSE]
<1>0. x \in InstanceType /\ srv.unknown \in BOOLEAN
  BY DEF TypeOK, ServerType
<1>1. IF L[i].retired THEN Installed(L, i) = off ELSE Installed(L, i) \in {full, kept}
  BY DEF Installed
<1>2. new \in InstanceType /\ new.known /\ new.finalizing = 0
  BY <1>0, NewTypes DEF InstanceType, NewInstance
<1>3. /\ old \in InstanceType /\ old.known
      /\ old.finalizing = IF x.known THEN x.finalizing ELSE 0
  BY <1>0, <1>2
<1>4. off.known = x.known /\ off.finalizing = x.finalizing
  BY <1>0 DEF InstanceType
<1> HIDE DEF new, old, fenced, terminated, ready, profile, routing, off
<1>5. kept.known = old.known /\ kept.finalizing = old.finalizing /\ DOMAIN kept = DOMAIN old
  BY <1>3 DEF InstanceType
<1>6. full.known = kept.known /\ full.finalizing = kept.finalizing
  BY <1>3, <1>5 DEF InstanceType
<1> HIDE DEF kept, full
<1>7. CASE L[i].retired
  BY <1>1, <1>4, <1>7, SameClosingRefl
<1>8. CASE ~L[i].retired
  <2>1. /\ Installed(L, i).known
        /\ Installed(L, i).finalizing = IF x.known THEN x.finalizing ELSE 0
    BY <1>1, <1>3, <1>5, <1>6, <1>8
  <2> QED BY <1>0, <1>8, <2>1 DEF SameClosing, InstanceType
<1> QED BY <1>7, <1>8

\* publishLedger.
LEMMA PublishLedgerCount ==
    ASSUME TypeOK, SafeInv, CountInv, NEW L \in [Instances -> SourceType], PublishLedger(L),
           \A i \in Instances : L[i].retired = src[i].retired
    PROVE  CountInv'
<1> DEFINE S == {r \in Requests : Absent(L, r)}
           C == [r \in Requests |-> IF r \in S
                   THEN [call[r] EXCEPT !.backendDone = TRUE] ELSE call[r]]
           I == [i \in Instances |-> Installed(L, i)]
           n == srv.finalizing + Cardinality({r \in S : Closes(C[r])})
<1>1. /\ call' = Released(C, S) /\ src' = L
      /\ Rebuild(Released(C, S), WorkloadsReleased(wl, C, S), InstancesReleased(I, C, S))
      /\ srv' = ServerReleased([srv EXCEPT !.up = TRUE], C, S)
  BY DEF PublishLedger
<1>2. S \in SUBSET Requests /\ \A r \in S : call[r].live
  BY DEF Absent
<1>3. C = [r \in Requests |-> IF r \in S
                   THEN [call[r] EXCEPT !.backendDone = TRUE] ELSE call[r]]
  OBVIOUS
<1>4. I \in [Instances -> InstanceType]
  BY InstalledType
<1>5. \A i \in Instances : SameClosing(ins[i], I[i], src[i], src'[i])
  BY <1>1, InstalledCount
<1>6. srv'.finalizing = n
  <2> DEFINE s == [srv EXCEPT !.up = TRUE]
             m == s.finalizing + Cardinality({r \in S : Closes(C[r])})
  <2>1. srv' = [s EXCEPT !.finalizing = m]
    BY <1>1 DEF ServerReleased
  <2>2. s \in ServerType /\ s.finalizing = srv.finalizing
    BY DEF TypeOK, ServerType
  <2>3. m = n
    BY <2>2
  <2> HIDE DEF m, s, n
  <2> QED BY <2>1, <2>2, <2>3 DEF ServerType
<1> HIDE DEF S, C, I
<1> QED BY <1>1, <1>2, <1>3, <1>4, <1>5, <1>6, EvidenceCount

\* Every step of the observer.
LEMMA ObserverCount ==
    ASSUME TypeOK, SafeInv, CountInv, ObserverStep
    PROVE  CountInv'
<1>p. ins \in [Instances -> InstanceType] /\ wl \in [Workloads -> WorkloadType]
      /\ src \in [Instances -> SourceType]
  BY DEF TypeOK
<1>r. ASSUME NEW I \in [Instances -> InstanceType], Rebuild(call, wl, I), UNCHANGED call,
             srv'.finalizing = srv.finalizing,
             \A i \in Instances : SameClosing(ins[i], I[i], src[i], src'[i])
      PROVE  CountInv'
  BY <1>p, <1>r, SameRowsRefl, CountRebuilt
<1>1. ASSUME NEW r \in Requests, NEW finished \in BOOLEAN, ObserveBackend(r, finished)
      PROVE  CountInv'
  BY <1>1, ObserveBackendCount
<1>2. ASSUME NEW i \in Instances, ConfirmInstanceStopped(i) PROVE CountInv'
  BY <1>2, ConfirmInstanceStoppedCount
<1>3. ASSUME NEW i \in Instances, DisableInstance(i) PROVE CountInv'
  <2> DEFINE v == [ins[i] EXCEPT !.ready = FALSE, !.drained = FALSE]
             I == [ins EXCEPT ![i] = v]
  <2>1. PICK a, b : /\ Rebuild(call, wl, I) /\ UNCHANGED <<call, srv>>
                    /\ src' = [src EXCEPT ![i] = [src[i] EXCEPT !.ready = a, !.verified = b]]
    BY <1>3 DEF DisableInstance
  <2>2. v \in InstanceType /\ v.known = ins[i].known /\ v.finalizing = ins[i].finalizing
    BY ZenonT(60), <1>p DEF InstanceType
  <2> DEFINE u == [src[i] EXCEPT !.ready = a, !.verified = b]
  <2>3. u.retired = src[i].retired
    BY <1>p DEF SourceType
  <2> HIDE DEF v, u
  <2>4. src' = [src EXCEPT ![i] = u]
    BY <2>1 DEF u
  <2>5. I \in [Instances -> InstanceType]
    BY <1>p, <2>2
  <2>6. ASSUME NEW j \in Instances PROVE SameClosing(ins[j], I[j], src[j], src'[j])
    <3>1. I[j].known = ins[j].known /\ I[j].finalizing = ins[j].finalizing
          /\ src'[j].retired = src[j].retired
      BY <1>p, <2>2, <2>3, <2>4
    <3> QED BY <3>1, SameClosingRefl
  <2> HIDE DEF I
  <2> QED BY <1>r, <2>1, <2>5, <2>6
<1>4. ASSUME NEW i \in Instances, ProbeBegin(i) \/ ProbeRead(i) \/ RetirePodBegin(i)
      PROVE  CountInv'
  <2>1. UNCHANGED <<call, wl, ins, srv>>
    BY <1>4 DEF ProbeBegin, ProbeRead, RetirePodBegin
  <2>2. ASSUME NEW u, src' = [src EXCEPT ![i] = u], u.retired = src[i].retired
        PROVE  \A j \in Instances : src'[j].retired = src[j].retired
    BY <1>p, <2>2
  <2>3. CASE ProbeBegin(i)
    <3> DEFINE b == Ended(i)
               u == [src[i] EXCEPT !.probe = "begun", !.newEnded = b]
    <3>1. src' = [src EXCEPT ![i] = u]
      BY <2>3 DEF ProbeBegin
    <3> HIDE DEF b
    <3>2. u.retired = src[i].retired
      BY <1>p DEF SourceType
    <3> HIDE DEF u
    <3> QED BY <2>1, <2>2, <3>1, <3>2, CountQuiet
  <2>4. CASE ProbeRead(i)
    <3> DEFINE c == HeldAt(i)
               u == [src[i] EXCEPT !.probe = "read", !.newHeld = c]
    <3>1. src' = [src EXCEPT ![i] = u]
      BY <2>4 DEF ProbeRead
    <3> HIDE DEF c
    <3>2. u.retired = src[i].retired
      BY <1>p DEF SourceType
    <3> HIDE DEF u
    <3> QED BY <2>1, <2>2, <3>1, <3>2, CountQuiet
  <2>5. CASE RetirePodBegin(i)
    <3>1. UNCHANGED src
      BY <2>5 DEF RetirePodBegin
    <3> QED BY <2>1, <3>1, CountQuiet
  <2> QED BY <1>4, <2>3, <2>4, <2>5
<1>5. ASSUME NEW i \in Instances, PublishProbe(i) \/ PublishUnavailable(i) \/ PublishAgain(i)
      PROVE  CountInv'
  BY <1>5, PublishedLedger, PublishLedgerCount
<1>6. ASSUME NEW i \in Instances, RetirePodEnd(i) PROVE CountInv'
  <2> DEFINE I == [ins EXCEPT ![i] = NewInstance]
  <2>1. CASE UNCHANGED <<call, wl, ins, src, srv>>
    BY <2>1, CountQuiet
  <2>2. CASE /\ Rebuild(call, wl, I) /\ UNCHANGED <<call, srv>>
             /\ src' = [src EXCEPT ![i].retired = TRUE]
    <3> DEFINE u == [src[i] EXCEPT !.retired = TRUE]
    <3>1. u.retired /\ src' = [src EXCEPT ![i] = u]
      BY <1>p, <2>2 DEF SourceType
    <3> HIDE DEF u
    <3>2. NewInstance \in InstanceType /\ ~NewInstance.known
      BY NewTypes DEF NewInstance
    <3>3. I \in [Instances -> InstanceType]
      BY <1>p, <3>2
    <3>4. ASSUME NEW j \in Instances PROVE SameClosing(ins[j], I[j], src[j], src'[j])
      <4>1. CASE j = i
        BY <1>p, <3>1, <3>2, <4>1 DEF SameClosing
      <4>2. CASE j # i
        BY <1>p, <3>1, <4>2, SameClosingRefl
      <4> QED BY <4>1, <4>2
    <3> HIDE DEF I
    <3> QED BY <1>r, <2>2, <3>3, <3>4
  <2> QED BY <1>6, <2>1, <2>2 DEF RetirePodEnd
<1>7. ASSUME NEW n \in Nodes, DetachNodeBegin(n) \/ DetachNodeEnd(n)
      PROVE  CountInv'
  <2>1. /\ UNCHANGED <<call, src, srv>>
        /\ \/ UNCHANGED <<wl, ins>>
           \/ \E drained \in BOOLEAN : Rebuild(call, wl, Unready(n, drained))
    BY <1>7 DEF DetachNodeBegin, DetachNodeEnd
  <2>2. ASSUME NEW drained \in BOOLEAN
        PROVE  /\ Unready(n, drained) \in [Instances -> InstanceType]
               /\ \A i \in Instances : SameClosing(ins[i], Unready(n, drained)[i], src[i], src[i])
    <3>1. ASSUME NEW i \in Instances
          PROVE  /\ Unready(n, drained)[i] \in InstanceType
                 /\ Unready(n, drained)[i].known = ins[i].known
                 /\ Unready(n, drained)[i].finalizing = ins[i].finalizing
      <4> DEFINE a == ins[i].drained \/ drained
                 b == IF drained THEN {} ELSE ins[i].bindings
                 v == [ins[i] EXCEPT !.ready = FALSE, !.drained = a, !.bindings = b]
      <4>1. Unready(n, drained)[i] = v \/ Unready(n, drained)[i] = ins[i]
        BY DEF Unready
      <4>2. a \in BOOLEAN /\ b \in SUBSET Workloads /\ ins[i] \in InstanceType
        BY <1>p DEF InstanceType
      <4> HIDE DEF a, b
      <4>3. v \in InstanceType /\ v.known = ins[i].known /\ v.finalizing = ins[i].finalizing
        BY <4>2 DEF InstanceType
      <4> HIDE DEF v
      <4> QED BY <4>1, <4>2, <4>3
    <3>2. Unready(n, drained) = [i \in Instances |-> Unready(n, drained)[i]]
      BY DEF Unready
    <3> QED BY <1>p, <3>1, <3>2, SameClosingRefl
  <2>3. CASE UNCHANGED <<wl, ins>>
    BY <2>1, <2>3, CountQuiet
  <2>4. ASSUME NEW drained \in BOOLEAN, Rebuild(call, wl, Unready(n, drained)) PROVE CountInv'
    <3>1. \A i \in Instances : SameClosing(ins[i], Unready(n, drained)[i], src[i], src'[i])
      BY <2>1, <2>2
    <3> QED BY <1>r, <2>1, <2>2, <2>4, <3>1
  <2> QED BY <2>1, <2>3, <2>4
<1> QED BY <1>1, <1>2, <1>3, <1>4, <1>5, <1>6, <1>7 DEF ObserverStep

-----------------------------------------------------------------------------
(* Management and the process                                              *)

\* PublishEnd registers a Workload with the counter it has, and ForgetEnd forgets
\* one with all it counted.
LEMMA RegistrationCount ==
    ASSUME TypeOK, CountInv, NEW w \in Workloads, PublishEnd(w) \/ ForgetEnd(w)
    PROVE  CountInv'
<1>w. /\ wl[w] \in WorkloadType /\ wl \in [Workloads -> WorkloadType]
      /\ ins \in [Instances -> InstanceType] /\ UNCHANGED <<call, src, srv>>
  BY DEF TypeOK, PublishEnd, ForgetEnd
<1>1. ASSUME NEW v \in WorkloadType, SameRows(wl[w], v),
             Rebuild(call, [wl EXCEPT ![w] = v], ins)
      PROVE  CountInv'
  <2> DEFINE W == [wl EXCEPT ![w] = v]
  <2>1. W \in [Workloads -> WorkloadType] /\ \A u \in Workloads : SameRows(wl[u], W[u])
    BY <1>w, <1>1, SameRowsRefl
  <2>2. Rebuild(call, W, ins)
    BY <1>1
  <2>3. \A i \in Instances : SameClosing(ins[i], ins[i], src[i], src'[i])
    BY <1>w, SameClosingRefl
  <2> HIDE DEF W
  <2> QED BY <1>w, <2>1, <2>2, <2>3, CountRebuilt
<1>2. CASE UNCHANGED <<wl, ins>>
  BY <1>w, <1>2, CountQuiet
<1>3. CASE PublishEnd(w) /\ Publishable(w, op["mgmt"].def)
  <2> DEFINE d == op["mgmt"].def
  <2>1. PICK restart \in BOOLEAN :
          Rebuild(call, [wl EXCEPT ![w] =
                  [wl[w] EXCEPT !.reg = "on", !.def = d, !.stopped = TRUE,
                            !.detached = FALSE, !.restartDrain = restart]],
                  ins)
    BY <1>3 DEF PublishEnd
  <2> DEFINE v == [wl[w] EXCEPT !.reg = "on", !.def = d, !.stopped = TRUE,
                            !.detached = FALSE, !.restartDrain = restart]
  <2>2. d \in Definitions \cup {None}
    BY DEF TypeOK, OpType, Threads
  <2>3. Rebuild(call, [wl EXCEPT ![w] = v], ins)
    BY <2>1
  <2> HIDE DEF d
  <2>4. v \in WorkloadType /\ v.reg = "on" /\ v.finalizing = wl[w].finalizing
    BY <1>w, <2>2 DEF WorkloadType
  <2> HIDE DEF v
  <2>5. wl[w].reg \in {"absent", "on"}
    BY <1>3 DEF Publishable
  <2> QED BY <1>1, <2>3, <2>4, <2>5 DEF SameRows
<1>4. CASE ForgetEnd(w) /\ ~UNCHANGED <<wl, ins>>
  <2> DEFINE v == [NewWorkload EXCEPT !.reg = "forgotten"]
  <2>1. v \in WorkloadType /\ v.reg = "forgotten"
    BY NewTypes DEF WorkloadType, NewWorkload
  <2>2. Rebuild(call, [wl EXCEPT ![w] = v], ins)
    BY <1>4 DEF ForgetEnd
  <2> HIDE DEF v
  <2> QED BY <1>1, <2>1, <2>2 DEF SameRows
<1> QED BY <1>2, <1>3, <1>4 DEF PublishEnd

\* DetachEnd touches no counter.
LEMMA DetachEndCount ==
    ASSUME TypeOK, CountInv, NEW w \in Workloads, DetachEnd(w)
    PROVE  CountInv'
<1>w. wl[w] \in WorkloadType /\ UNCHANGED <<call, src, srv>>
  BY DEF TypeOK, DetachEnd
<1>1. CASE UNCHANGED <<wl, ins>>
  BY <1>w, <1>1, CountQuiet
<1>2. CASE /\ ins' = [i \in Instances |-> [ins[i] EXCEPT !.bindings = @ \ {w}]]
           /\ wl' = [wl EXCEPT ![w] = [@ EXCEPT !.route = {}, !.detached = TRUE]]
  <2> DEFINE v == [wl[w] EXCEPT !.route = {}, !.detached = TRUE]
  <2>1. v.reg = wl[w].reg /\ v.finalizing = wl[w].finalizing
    BY <1>w DEF WorkloadType
  <2>2. wl' = [wl EXCEPT ![w] = v]
    BY <1>2
  <2> HIDE DEF v
  <2>3. \A u \in Workloads : SameRows(wl[u], wl'[u])
    BY <2>1, <2>2, SameRowsCall
  <2>4. ASSUME NEW i \in Instances PROVE SameClosing(ins[i], ins'[i], src[i], src'[i])
    <3> DEFINE b == ins[i].bindings \ {w}
    <3>1. ins'[i] = [ins[i] EXCEPT !.bindings = b] /\ ins[i] \in InstanceType
      BY <1>2 DEF TypeOK
    <3> HIDE DEF b
    <3>2. ins'[i].known = ins[i].known /\ ins'[i].finalizing = ins[i].finalizing
      BY <3>1 DEF InstanceType
    <3> QED BY <1>w, <3>2, SameClosingRefl
  <2> QED BY <1>w, <2>3, <2>4, SameCountRefl, CountFrame
<1> QED BY <1>1, <1>2 DEF DetachEnd

\* Every management step.
LEMMA ManagementCount ==
    ASSUME TypeOK, CountInv, ManagementStep
    PROVE  CountInv'
<1> SUFFICES ASSUME NEW w \in Workloads,
                    \/ \E d \in Definitions : PublishBegin(w, d)
                    \/ PublishEnd(w) \/ OpenBegin(w) \/ OpenEnd(w)
                    \/ ResumeBegin(w) \/ ResumeEnd(w) \/ StopAdmission(w)
                    \/ DetachBegin(w) \/ DetachEnd(w)
                    \/ ForgetBegin(w) \/ ForgetEnd(w)
             PROVE  CountInv'
  BY DEF ManagementStep
<1>1. CASE \/ \E d \in Definitions : PublishBegin(w, d)
           \/ OpenBegin(w) \/ ResumeBegin(w) \/ DetachBegin(w) \/ ForgetBegin(w)
  BY <1>1, CountQuiet DEF PublishBegin, OpenBegin, ResumeBegin, DetachBegin, ForgetBegin
<1>2. CASE PublishEnd(w) \/ ForgetEnd(w)
  BY <1>2, RegistrationCount
<1>3. CASE OpenEnd(w) \/ ResumeEnd(w) \/ StopAdmission(w)
  <2>1. /\ UNCHANGED <<call, ins, src, srv>>
        /\ \/ UNCHANGED wl
           \/ \E s \in BOOLEAN :
                 wl' = [wl EXCEPT ![w] = [wl[w] EXCEPT !.stopped = s, !.restartDrain = FALSE]]
    BY <1>3 DEF OpenEnd, ResumeEnd, StopAdmission
  <2>2. CASE UNCHANGED wl
    BY <2>1, <2>2, CountQuiet
  <2>3. ASSUME NEW s \in BOOLEAN,
               wl' = [wl EXCEPT ![w] = [wl[w] EXCEPT !.stopped = s, !.restartDrain = FALSE]]
        PROVE  CountInv'
    <3> DEFINE v == [wl[w] EXCEPT !.stopped = s, !.restartDrain = FALSE]
    <3>1. v.reg = wl[w].reg /\ v.finalizing = wl[w].finalizing
      BY DEF TypeOK, WorkloadType
    <3>2. wl' = [wl EXCEPT ![w] = v]
      BY <2>3
    <3> HIDE DEF v
    <3>3. \A x \in Workloads : SameRows(wl[x], wl'[x])
      BY <3>1, <3>2, SameRowsCall
    <3>4. \A i \in Instances : SameClosing(ins[i], ins'[i], src[i], src'[i])
      BY <2>1, SameClosingRefl
    <3> QED BY <2>1, <3>3, <3>4, SameCountRefl, CountFrame
  <2> QED BY <2>1, <2>2, <2>3
<1>4. CASE DetachEnd(w)
  BY <1>4, DetachEndCount
<1> QED BY <1>1, <1>2, <1>3, <1>4

\* NewRuntime has no call in unlock: it restores what is pending, live and open, and
\* every other row is closed.
LEMMA BootCount ==
    ASSUME TypeOK, ServedInv, CountInv, NEW unknown, NEW disk, Boot(unknown, disk),
           \A r \in Requests : disk[r].assigned = "disk" => row[r].assigned # "none"
    PROVE  CountInv'
<1>1. ASSUME NEW r \in Requests
      PROVE  \/ /\ call'[r].close = "open" /\ call'[r].uid = None
                /\ call'[r].assignment = None
             \/ /\ call'[r].close = "open" /\ r \in Pending(disk)
                /\ call'[r].uid = call[r].uid /\ call'[r].assignment = call[r].assignment
             \/ call'[r].close = "closed"
  <2> DEFINE c == call[r]
             v == [NewCall EXCEPT
                   !.at = "done", !.uid = c.uid, !.def = c.def,
                   !.live = TRUE, !.assignment = c.assignment,
                   !.instance = c.assignment, !.exec = "over",
                   !.transportDone = TRUE, !.responseRecorded = TRUE]
  <2>1. c.at = "new" => r \notin Pending(disk)
    BY DEF ServedInv, CallsInv, CallInv, FreshCall, Pending
  <2>2. /\ v.close = "open" /\ v.uid = c.uid /\ v.assignment = c.assignment
        /\ NewCall.close = "open" /\ NewCall.uid = None /\ NewCall.assignment = None
        /\ RowOnly(c).close = "closed"
    BY SMTT(30) DEF NewCall, RowOnly
  <2>3. call'[r] = CASE c.at = "new" -> NewCall
                     [] r \in Pending(disk) -> v
                     [] OTHER -> RowOnly(c)
    BY DEF Boot
  <2> HIDE DEF c, v
  <2>4. \/ call'[r] = NewCall
        \/ r \in Pending(disk) /\ call'[r] = v
        \/ call'[r] = RowOnly(c)
    BY <2>1, <2>3
  <2> QED BY <2>2, <2>4 DEF c
<1>2. ClosingIn(call') = {}
  BY <1>1 DEF ClosingIn, Finalizing
<1>3. Cardinality(ClosingIn(call')) = 0 /\ srv'.finalizing = 0
  BY <1>2, FS_EmptySet DEF Boot
<1>4. ASSUME NEW w \in Workloads PROVE RowsOf(call', wl'[w], w)
  <2> DEFINE P == {r \in Pending(disk) : call[r].uid = w}
             d == call[CHOOSE r \in P : TRUE].def
             v == [NewWorkload EXCEPT !.reg = "on", !.stopped = TRUE,
                     !.restartDrain = TRUE, !.def = d]
  <2>1. \/ P # {} /\ wl'[w] = v
        \/ P = {} /\ wl'[w] = NewWorkload
        \/ wl[w].reg = "forgotten" /\ wl'[w] = wl[w]
    BY DEF Boot
  <2> HIDE DEF d
  <2>2. v.reg = "on" /\ v.finalizing = 0
        /\ NewWorkload.reg = "absent" /\ NewWorkload.finalizing = 0
    BY DEF NewWorkload
  <2> HIDE DEF v
  <2>3. Cardinality(ClosingOf(call', w)) = 0
    <3>1. ClosingOf(call', w) = {}
      BY <1>2 DEF ClosingOf
    <3> QED BY <3>1, FS_EmptySet
  <2>4. CASE P # {} /\ wl'[w] = v
    BY <2>2, <2>3, <2>4 DEF RowsOf
  <2>5. CASE P = {} /\ wl'[w] = NewWorkload
    <3>1. ASSUME NEW r \in Requests, call'[r].uid = w PROVE call'[r].close = "closed"
      <4>1. None # w
        BY ConstantsAssumption
      <4> QED BY <1>1, <2>5, <3>1, <4>1
    <3> QED BY <2>2, <2>5, <3>1 DEF RowsOf
  <2>6. CASE wl[w].reg = "forgotten" /\ wl'[w] = wl[w]
    BY <2>6 DEF RowsOf
  <2> QED BY SMTT(30), <2>1, <2>4, <2>5, <2>6
<1>5. ASSUME NEW i \in Instances PROVE RowsAt(call', ins'[i], src'[i], i)
  <2> DEFINE P == {r \in Pending(disk) : call[r].assignment = i}
             b == {call[r].uid : r \in P}
             n == Cardinality(P)
             v == [NewInstance EXCEPT !.known = TRUE, !.fenced = unknown,
                     !.bindings = b, !.outstanding = n]
  <2>1. ins'[i] = IF P = {} THEN NewInstance ELSE v
    BY DEF Boot
  <2> HIDE DEF b, n
  <2>2. v.known /\ v.finalizing = 0 /\ ~NewInstance.known
    BY DEF NewInstance
  <2> HIDE DEF v
  <2>3. Cardinality(ClosingAt(call', i)) = 0
    <3>1. ClosingAt(call', i) = {}
      BY <1>2 DEF ClosingAt
    <3> QED BY <3>1, FS_EmptySet
  <2>4. CASE P # {} /\ ins'[i] = v
    BY <2>2, <2>3, <2>4 DEF RowsAt
  <2>5. CASE P = {} /\ ins'[i] = NewInstance
    <3>1. ASSUME NEW r \in Requests, call'[r].assignment = i PROVE call'[r].close = "closed"
      <4>1. None # i
        BY ConstantsAssumption
      <4> QED BY <1>1, <2>5, <3>1, <4>1
    <3> QED BY <2>2, <2>5, <3>1 DEF RowsAt
  <2> QED BY SMTT(30), <2>1, <2>4, <2>5
<1> QED BY <1>3, <1>4, <1>5 DEF CountInv, Counts

\* Every step that stops, ends or starts the process.
LEMMA ProcessCount ==
    ASSUME TypeOK, ServedInv, CountInv, ProcessStep
    PROVE  CountInv'
<1>a. ASSUME call' = AllCanceled \/ UNCHANGED call
      PROVE  \A r \in Requests : SameCount(call[r], call'[r], wl, ins)
  <2>1. ASSUME NEW r \in Requests, call' = AllCanceled
        PROVE  SameCount(call[r], call'[r], wl, ins)
    <3>1. call'[r] = [call[r] EXCEPT !.canceled = TRUE] /\ call[r] \in CallType
      BY <2>1 DEF AllCanceled, TypeOK
    <3>2. call'[r].close = call[r].close /\ call'[r].uid = call[r].uid
          /\ call'[r].assignment = call[r].assignment
      BY <3>1 DEF CallType
    <3> QED BY <3>2, SameCountFields
  <2> QED BY <1>a, <2>1, SameCountRefl
<1>1. CASE BeginShutdown
  <2>1. /\ call' = AllCanceled \/ UNCHANGED call
        /\ UNCHANGED <<ins, src>> /\ srv'.finalizing = srv.finalizing
    BY <1>1 DEF BeginShutdown, TypeOK, ServerType
  <2>2. ASSUME NEW w \in Workloads PROVE SameRows(wl[w], wl'[w])
    <3>1. wl'[w] = wl[w] \/ wl'[w] = [wl[w] EXCEPT !.stopped = TRUE, !.restartDrain = FALSE]
      BY <1>1 DEF BeginShutdown
    <3>2. wl[w] \in WorkloadType
      BY DEF TypeOK
    <3>3. wl'[w].reg = wl[w].reg /\ wl'[w].finalizing = wl[w].finalizing
      BY <3>1, <3>2 DEF WorkloadType
    <3> QED BY <3>3 DEF SameRows
  <2>3. \A i \in Instances : SameClosing(ins[i], ins'[i], src[i], src'[i])
    BY <2>1, SameClosingRefl
  <2> QED BY <1>a, <2>1, <2>2, <2>3, CountFrame
<1>2. CASE ShutdownBegin \/ ShutdownEnd \/ ShutdownTimeout \/ JoinExecutions
  <2>1. /\ call' = AllCanceled \/ UNCHANGED call
        /\ UNCHANGED <<wl, ins, src>> /\ srv'.finalizing = srv.finalizing
    BY <1>2 DEF ShutdownBegin, ShutdownEnd, ShutdownTimeout, JoinExecutions, TypeOK, ServerType
  <2>2. \A i \in Instances : SameClosing(ins[i], ins'[i], src[i], src'[i])
    BY <2>1, SameClosingRefl
  <2> QED BY <1>a, <2>1, <2>2, SameRowsRefl, CountFrame
<1>3. CASE Crash
  <2> DEFINE disk == [r \in Requests |->
         [assigned |-> IF row[r].assigned = "disk" THEN "disk" ELSE "none",
          final |-> IF row[r].final = "disk" THEN "disk" ELSE "none"]]
  <2>1. \A r \in Requests : disk[r].assigned = "disk" => row[r].assigned # "none"
    OBVIOUS
  <2>2. Boot(TRUE, disk)
    BY <1>3 DEF Crash
  <2> HIDE DEF disk
  <2> QED BY <2>1, <2>2, BootCount
<1>4. CASE CleanExit
  <2> DEFINE disk == [r \in Requests |->
         [assigned |-> IF row[r].assigned = "none" THEN "none" ELSE "disk",
          final |-> IF row[r].final = "none" THEN "none" ELSE "disk"]]
  <2>1. \A r \in Requests : disk[r].assigned = "disk" => row[r].assigned # "none"
    OBVIOUS
  <2>2. Boot(srv.unknown, disk)
    BY <1>4 DEF CleanExit
  <2> HIDE DEF disk
  <2> QED BY <2>1, <2>2, BootCount
<1> QED BY <1>1, <1>2, <1>3, <1>4 DEF ProcessStep

-----------------------------------------------------------------------------
(* The counters' invariant and its theorem                                 *)

LEMMA InitCount == Init => CountInv
<1> SUFFICES ASSUME Init PROVE CountInv
  OBVIOUS
<1>1. \A r \in Requests : /\ call[r].close = "open"
                          /\ call[r].uid = None /\ call[r].assignment = None
  BY DEF Init, NewCall
<1>2. ClosingIn(call) = {}
  BY <1>1 DEF ClosingIn, Finalizing
<1>3. srv.finalizing = Cardinality(ClosingIn(call))
  <2>1. srv.finalizing = 0
    BY DEF Init
  <2>2. Cardinality(ClosingIn(call)) = 0
    BY <1>2, FS_EmptySet
  <2> QED BY <2>1, <2>2
<1>4. ASSUME NEW w \in Workloads PROVE RowsOf(call, wl[w], w)
  <2>1. wl[w].reg = "absent" /\ wl[w].finalizing = 0 /\ None # w
    BY ConstantsAssumption DEF Init, NewWorkload
  <2> QED BY <1>1, <2>1 DEF RowsOf
<1>5. ASSUME NEW i \in Instances PROVE RowsAt(call, ins[i], src[i], i)
  <2>1. ~ins[i].known /\ None # i
    BY ConstantsAssumption DEF Init, NewInstance
  <2> QED BY <1>1, <2>1 DEF RowsAt
<1> QED BY <1>3, <1>4, <1>5 DEF CountInv, Counts

LEMMA NextCount ==
    ASSUME TypeOK, ServedInv, SafeInv, CountInv, [Next]_vars
    PROVE  CountInv'
<1>1. ASSUME NEW r \in Requests, HandlerStep(r) PROVE CountInv'
  BY <1>1, HandlerCount
<1>2. ASSUME NEW r \in Requests, ExecuteStep(r) PROVE CountInv'
  BY <1>2, ExecuteCount
<1>3. CASE DispatchStep
  BY <1>3, DispatchCount
<1>4. CASE WorldStep
  <2>1. UNCHANGED <<call, wl, ins, src>> /\ srv'.finalizing = srv.finalizing
    BY <1>4 DEF WorldStep, NativeAdmit, NativeFinish, ClientLeaves, DeadlinePasses,
                WriteRow, NativeExit, LogFails, TypeOK, ServerType
  <2> QED BY <2>1, CountQuiet
<1>5. CASE ObserverStep
  BY <1>5, ObserverCount
<1>6. CASE ManagementStep
  BY <1>6, ManagementCount
<1>7. CASE ProcessStep
  BY <1>7, ProcessCount
<1>8. CASE UNCHANGED vars
  BY <1>8, CountQuiet DEF vars
<1> QED BY <1>1, <1>2, <1>3, <1>4, <1>5, <1>6, <1>7, <1>8 DEF Next

LEMMA CountKept == Spec => []CountInv
<1>1. TypeOK /\ ServedInv /\ SafeInv /\ CountInv /\ [Next]_vars => CountInv'
  BY NextCount
<1>2. Spec => [](TypeOK /\ ServedInv /\ SafeInv)
  BY Safe
<1> QED BY <1>1, <1>2, InitCount, PTL DEF Spec

\* unlock counts a call in the three counters it is entitled to from the moment it is
\* closed until it leaves, under whatever was registered, forgotten, retired or
\* restarted meanwhile: the counters that shutdown, drain and retirement wait on
\* count exactly the calls being closed.
THEOREM RowsCounted == Spec => []FinalizingBalanced
<1>1. ASSUME CountInv PROVE FinalizingBalanced
  <2>1. ClosingIn(call) = Closing
    BY DEF ClosingIn, Closing, Finalizing
  <2>2. srv.finalizing = Cardinality(Closing)
    BY <1>1, <2>1 DEF CountInv, Counts
  <2>3. ASSUME NEW w \in Workloads, wl[w].reg = "on"
        PROVE  wl[w].finalizing = Cardinality({r \in Closing : call[r].uid = w})
    <3>1. RowsOf(call, wl[w], w)
      BY <1>1 DEF CountInv, Counts
    <3> QED BY <2>1, <2>3, <3>1 DEF RowsOf, ClosingOf
  <2>4. ASSUME NEW i \in Instances, ins[i].known
        PROVE  ins[i].finalizing = Cardinality({r \in Closing : call[r].assignment = i})
    <3>1. RowsAt(call, ins[i], src[i], i)
      BY <1>1 DEF CountInv, Counts
    <3> QED BY <2>1, <2>4, <3>1 DEF RowsAt, ClosingAt
  <2> QED BY <2>2, <2>3, <2>4 DEF FinalizingBalanced
<1> QED BY <1>1, CountKept, PTL
=============================================================================
