---------------------------- MODULE RuntimeProofs ----------------------------
(***************************************************************************)
(* Theorems about Runtime, for any number of requests, Workloads,          *)
(* executors, slots and boots:                                             *)
(*   TypeCorrect    every field keeps its type,                            *)
(*   RepliesOnce    a call is answered at most once,                       *)
(*   WaitersServed  a waiting call has exactly one thing to answer it.     *)
(*                                                                         *)
(* They rest on one inductive invariant, TypeOK /\ ServedInv.  TypeOK is   *)
(* not inductive alone: NewRuntime binds a restored executor to the        *)
(* Workload its assigned row names, and that a row names one is part of    *)
(* CallsInv.                                                               *)
(***************************************************************************)
EXTENDS Runtime, FiniteSetTheorems, TLAPS

-----------------------------------------------------------------------------
(* The inductive invariant                                                 *)

\* Executions that have not sent their reply yet.
Running == {"spawned", "exchanging", "complete", "broken", "unlogged"}

\* Before acceptance nothing executes, answers or records the call.
FreshCall(c, assigned) ==
    c.at \in {"new", "received", "validated"} =>
        /\ c.exec = "none" /\ c.sends = 0 /\ ~c.live /\ c.assignment = None
        /\ assigned = "none"

\* A call is closed only after its handler has recorded the response.
OpenCall(c) == c.at # "done" => ~c.responseRecorded /\ c.close = "open"

\* What was received, executed or recorded names its Workload.
NamedCall(c, assigned) ==
    \/ c.at \in {"received", "validated", "waiting"}
    \/ c.exec # "none" \/ assigned # "none"
    => c.uid \in Workloads

\* At most one reply, and none before the execution has ended.
UnsentCall(c) == c.sends <= 1 /\ (c.exec \in Running => c.sends = 0)

\* What is known of one call and its assigned row.
CallInv(c, assigned) ==
    /\ FreshCall(c, assigned) /\ OpenCall(c)
    /\ NamedCall(c, assigned) /\ UnsentCall(c)

CallsInv == \A r \in Requests : CallInv(call[r], row[r].assigned)

\* A queued call waits, unassigned and unanswered, at its own Workload.
QueuedCall(c, w) ==
    /\ c.uid = w /\ c.at = "waiting" /\ c.exec = "none" /\ c.sends = 0
    /\ c.assignment = None

InQueue(r, q) == \E n \in DOMAIN q : q[n] = r

Distinct(q) == \A m, n \in DOMAIN q : q[m] = q[n] => m = n

\* Queues hold waiting calls once, and only registered Workloads have any.
QueuesInv ==
    \A w \in Workloads :
        /\ Distinct(wl[w].queue)
        /\ \A n \in DOMAIN wl[w].queue : QueuedCall(call[wl[w].queue[n]], w)
        /\ wl[w].reg = "on" \/ wl[w].queue = <<>>

\* A waiting call is queued, running or answered.
ServedCall(c, q, r) ==
    c.at = "waiting" => InQueue(r, q) \/ c.exec \in Running \/ c.sends = 1

WaitersInv ==
    \A r \in Requests : ServedCall(call[r], wl[call[r].uid].queue, r)

\* The strengthening that makes ReplyOnce and WaitingServed inductive.
ServedInv == CallsInv /\ QueuesInv /\ WaitersInv

-----------------------------------------------------------------------------
(* Types of the helpers                                                    *)

\* The records NewRuntime, Receive and InstallInstances start from are typed.
LEMMA NewTypes ==
    /\ NewCall \in CallType
    /\ NewWorkload \in WorkloadType
    /\ NewInstance \in InstanceType
    /\ NewSource \in SourceType
<1>1. NewCall \in CallType
  BY DEF NewCall, CallType, Places, Executions
<1>2. NewWorkload \in WorkloadType
  BY DEF NewWorkload, WorkloadType
<1>3. NewInstance \in InstanceType
  BY DEF NewInstance, InstanceType
<1>4. NewSource \in SourceType
  BY DEF NewSource, SourceType
<1> QED BY <1>1, <1>2, <1>3, <1>4

\* Counting calls gives a natural number: there are finitely many requests.
LEMMA CardinalityNat ==
    ASSUME NEW S \in SUBSET Requests
    PROVE  Cardinality(S) \in Nat
BY ConstantsAssumption, FS_Subset, FS_CardinalityType

\* Replacing one entry of a map keeps the map typed.
LEMMA UpdateType ==
    ASSUME NEW D, NEW T, NEW f \in [D -> T], NEW x, NEW v,
           x \in D => v \in T
    PROVE  [f EXCEPT ![x] = v] \in [D -> T]
OBVIOUS

\* removeQueuedLocked returns a queue of requests.
LEMMA RemoveQueuedType ==
    ASSUME NEW q \in Seq(Requests), NEW r
    PROVE  removeQueued(q, r) \in Seq(Requests)
<1> DEFINE n == CHOOSE m \in DOMAIN q : q[m] = r
<1>1. CASE r \in Range(q)
  <2>1. n \in 1 .. Len(q)
    BY <1>1 DEF Range
  <2> HIDE DEF n
  <2>2. RemoveAt(q, n) \in Seq(Requests)
    BY <2>1 DEF RemoveAt
  <2> QED BY <1>1, <2>2 DEF removeQueued, n
<1>2. CASE r \notin Range(q)
  BY <1>2 DEF removeQueued
<1> QED BY <1>1, <1>2

\* Replacing the queue of one Workload keeps the Workloads typed.
LEMMA QueueType ==
    ASSUME TypeOK, NEW w, NEW q, w \in Workloads => q \in Seq(Requests),
           wl' = [wl EXCEPT ![w] = [wl[w] EXCEPT !.queue = q]]
    PROVE  wl' \in [Workloads -> WorkloadType]
<1> DEFINE v == [wl[w] EXCEPT !.queue = q]
<1>1. w \in Workloads => v \in WorkloadType
  BY DEF TypeOK, WorkloadType
<1>2. wl' = [wl EXCEPT ![w] = v] /\ wl \in [Workloads -> WorkloadType]
  BY DEF TypeOK
<1> HIDE DEF v
<1> QED BY <1>1, <1>2, UpdateType

\* releaseLocked keeps its call typed.
LEMMA ReleaseLockedType ==
    ASSUME NEW c \in CallType
    PROVE  ReleaseLocked(c) \in CallType
BY DEF ReleaseLocked, Closes, Settled, CallType

\* Releasing a set of calls keeps all calls typed.
LEMMA ReleasedType ==
    ASSUME NEW C \in [Requests -> CallType], NEW S \in SUBSET Requests
    PROVE  Released(C, S) \in [Requests -> CallType]
BY ReleaseLockedType DEF Released

\* The executors' counters remain integers through a release.
LEMMA InstancesReleasedType ==
    ASSUME NEW I \in [Instances -> InstanceType], NEW S \in SUBSET Requests,
           NEW C
    PROVE  InstancesReleased(I, C, S) \in [Instances -> InstanceType]
<1> SUFFICES ASSUME NEW i \in Instances
             PROVE  InstancesReleased(I, C, S)[i] \in InstanceType
  BY DEF InstancesReleased
<1> DEFINE a == Cardinality({r \in S : Settled(C[r]) /\ C[r].instance = i})
           b == IF I[i].known
                THEN Cardinality(
                       {r \in S : Closes(C[r]) /\ C[r].assignment = i})
                ELSE 0
<1>1. a \in Nat /\ b \in Nat
  BY CardinalityNat
<1> DEFINE x == I[i].outstanding - a
           y == I[i].finalizing + b
<1>2. InstancesReleased(I, C, S)[i] =
        [I[i] EXCEPT !.outstanding = x, !.finalizing = y]
  BY DEF InstancesReleased
<1> HIDE DEF a, b
<1>3. x \in Int /\ y \in Int
  BY <1>1 DEF InstanceType
<1> HIDE DEF x, y
<1> QED BY <1>2, <1>3 DEF InstanceType

\* The Workloads' finalizing counters remain integers through a release.
LEMMA WorkloadsReleasedType ==
    ASSUME NEW W \in [Workloads -> WorkloadType], NEW S \in SUBSET Requests,
           NEW C
    PROVE  WorkloadsReleased(W, C, S) \in [Workloads -> WorkloadType]
<1> SUFFICES ASSUME NEW w \in Workloads
             PROVE  WorkloadsReleased(W, C, S)[w] \in WorkloadType
  BY DEF WorkloadsReleased
<1> DEFINE b == IF W[w].reg = "on"
                THEN Cardinality({r \in S : Closes(C[r]) /\ C[r].uid = w})
                ELSE 0
<1>1. b \in Nat
  BY CardinalityNat
<1>2. WorkloadsReleased(W, C, S)[w] =
        [W[w] EXCEPT !.finalizing = W[w].finalizing + b]
  BY DEF WorkloadsReleased
<1> HIDE DEF b
<1>3. W[w].finalizing + b \in Int
  BY <1>1 DEF WorkloadType
<1> QED BY <1>2, <1>3 DEF WorkloadType

\* The process's finalizing counter remains an integer through a release.
LEMMA ServerReleasedType ==
    ASSUME NEW s \in ServerType, NEW S \in SUBSET Requests, NEW C
    PROVE  ServerReleased(s, C, S) \in ServerType
<1> DEFINE b == Cardinality({r \in S : Closes(C[r])})
<1>1. b \in Nat
  BY CardinalityNat
<1>2. ServerReleased(s, C, S) = [s EXCEPT !.finalizing = @ + b]
  BY DEF ServerReleased
<1> HIDE DEF b
<1> QED BY <1>1, <1>2 DEF ServerType

\* pruneInstanceBindingsLocked keeps the executors typed.
LEMMA PruneType ==
    ASSUME NEW C, NEW W, NEW I \in [Instances -> InstanceType]
    PROVE  Prune(C, W, I) \in [Instances -> InstanceType]
BY DEF Prune, InstanceType

\* rebuildLocked keeps Workloads and executors typed.
LEMMA RebuildType ==
    ASSUME NEW C, NEW W \in [Workloads -> WorkloadType],
           NEW I \in [Instances -> InstanceType], Rebuild(C, W, I)
    PROVE  /\ wl' \in [Workloads -> WorkloadType]
           /\ ins' \in [Instances -> InstanceType]
<1>1. Routed(C, W, I) \in [Workloads -> WorkloadType]
  BY ZenonT(60) DEF Routed, WorkloadType, RouteOf
<1>2. Bound(C, W, I) \in [Instances -> InstanceType]
  <2> DEFINE P == Prune(C, W, I)
  <2>1. P \in [Instances -> InstanceType]
    BY PruneType
  <2>2. Bound(C, W, I) = [i \in Instances |-> [P[i] EXCEPT !.bindings =
                P[i].bindings \cup {w \in Workloads : i \in RouteOf(W, P, w)}]]
    BY DEF Bound
  <2> HIDE DEF P
  <2> SUFFICES ASSUME NEW i \in Instances
               PROVE  Bound(C, W, I)[i] \in InstanceType
    BY <2>2
  <2> DEFINE b == P[i].bindings \cup {w \in Workloads : i \in RouteOf(W, P, w)}
  <2>3. b \in SUBSET Workloads
    BY <2>1 DEF InstanceType
  <2>4. Bound(C, W, I)[i] = [P[i] EXCEPT !.bindings = b]
    BY <2>2
  <2> HIDE DEF b
  <2> QED BY <2>1, <2>3, <2>4 DEF InstanceType
<1> QED BY <1>1, <1>2 DEF Rebuild

\* dispatchLocked either runs or returns at once.
LEMMA DispatchingType ==
    ASSUME NEW s
    PROVE  Dispatching(s) \in {"free", "dispatch"}
BY DEF Dispatching

\* The common tail of Response, execute and ObserveBackend keeps the types.
LEMMA ReleaseAndDispatchType ==
    ASSUME TypeOK, NEW r \in Requests, NEW c \in CallType,
           ReleaseAndDispatch([call EXCEPT ![r] = c], r)
    PROVE  /\ call' \in [Requests -> CallType]
           /\ wl' \in [Workloads -> WorkloadType]
           /\ ins' \in [Instances -> InstanceType]
           /\ srv' \in ServerType
           /\ mu' \in {"free", "dispatch"}
<1> DEFINE C == [call EXCEPT ![r] = c]
<1>0. C \in [Requests -> CallType]
  BY UpdateType DEF TypeOK
<1>1. InstancesReleased(ins, C, {r}) \in [Instances -> InstanceType]
  BY InstancesReleasedType DEF TypeOK
<1>2. Prune(C, wl, InstancesReleased(ins, C, {r}))
        \in [Instances -> InstanceType]
  BY <1>1, PruneType
<1>3. Released(C, {r}) \in [Requests -> CallType]
  BY <1>0, ReleasedType
<1>4. WorkloadsReleased(wl, C, {r}) \in [Workloads -> WorkloadType]
  BY WorkloadsReleasedType DEF TypeOK
<1>5. ServerReleased(srv, C, {r}) \in ServerType
  BY ServerReleasedType DEF TypeOK
<1> HIDE DEF C
<1>6. ReleaseAndDispatch(C, r)
  BY DEF C
<1> QED
  BY <1>1, <1>2, <1>3, <1>4, <1>5, <1>6, DispatchingType DEF ReleaseAndDispatch

-----------------------------------------------------------------------------
(* Every step keeps the types                                              *)

\* Every step of the request handler keeps the types.
LEMMA HandlerType ==
    ASSUME TypeOK, NEW r \in Requests, HandlerStep(r)
    PROVE  TypeOK'
<1> DEFINE c == call[r]
<1>c. c \in CallType
  BY DEF TypeOK
<1>a. ASSUME NEW at \in Places, call' = [call EXCEPT ![r].at = at]
      PROVE  call' \in [Requests -> CallType]
  <2> DEFINE v == [c EXCEPT !.at = at]
  <2>1. call' = [call EXCEPT ![r] = v]
    BY <1>a
  <2> HIDE DEF c
  <2>2. v \in CallType
    BY <1>c, <1>a DEF CallType
  <2> HIDE DEF v
  <2> QED BY <2>1, <2>2, UpdateType DEF TypeOK
<1>1. ASSUME NEW w \in Workloads \cup {None}, Receive(r, w) PROVE TypeOK'
  <2> DEFINE at == IF srv.failed \/ w = None THEN "respond" ELSE "received"
             def == IF w = None THEN None ELSE wl[w].def
  <2>1. at \in Places /\ def \in Definitions \cup {None}
    BY DEF Places, TypeOK, WorkloadType
  <2>2. [c EXCEPT !.at = at, !.uid = w, !.def = def] \in CallType
    <3> HIDE DEF at, def, c
    <3> QED BY <1>c, <2>1 DEF CallType
  <2>3. call' \in [Requests -> CallType]
    <3> DEFINE v == [c EXCEPT !.at = at, !.uid = w, !.def = def]
    <3>1. call' = [call EXCEPT ![r] = v]
      BY <1>1 DEF Receive
    <3> HIDE DEF v
    <3> QED BY <2>2, <3>1, UpdateType DEF TypeOK, v
  <2> QED BY <1>1, <2>3 DEF Receive, TypeOK
<1>2. CASE Validate(r)
  <2>1. PICK at \in Places : call' = [call EXCEPT ![r].at = at]
    BY <1>2 DEF Validate, Places
  <2>2. call' \in [Requests -> CallType]
    BY <1>a, <2>1
  <2> QED BY <1>2, <2>2 DEF TypeOK, Validate
<1>3. CASE Accept(r)
  <2>1. [c EXCEPT !.at = "waiting", !.live = TRUE] \in CallType
    BY <1>c DEF CallType, Places
  <2>2. call' \in [Requests -> CallType]
    BY <1>3, <2>1, UpdateType DEF Accept, TypeOK
  <2>3. wl' \in [Workloads -> WorkloadType]
    <3> DEFINE w == c.uid
               q == Append(wl[w].queue, r)
    <3>1. wl' = [wl EXCEPT ![w] = [wl[w] EXCEPT !.queue = q]]
      BY <1>3 DEF Accept
    <3>2. w \in Workloads => q \in Seq(Requests)
      BY DEF TypeOK, WorkloadType
    <3> HIDE DEF w, q
    <3> QED BY <3>1, <3>2, QueueType
  <2> QED BY <1>3, <2>2, <2>3, DispatchingType DEF Accept, TypeOK
<1>4. CASE Reject(r)
  <2>1. call' \in [Requests -> CallType]
    BY <1>4, <1>a DEF Reject, Places
  <2> QED BY <1>4, <2>1 DEF Reject, TypeOK
<1>5. CASE WaitReply(r)
  <2>1. call' \in [Requests -> CallType]
    BY <1>5, <1>a DEF WaitReply, Places
  <2> QED BY <1>5, <2>1 DEF WaitReply, TypeOK
<1>6. CASE WaitDone(r)
  <2> DEFINE b == c.backendDone \/ c.assignment = None
             t == c.transportDone \/ c.assignment = None
             w == c.uid
  <2>1. [c EXCEPT !.at = "respond", !.backendDone = b, !.transportDone = t,
                  !.canceled = TRUE] \in CallType
    <3>1. b \in BOOLEAN /\ t \in BOOLEAN
      OBVIOUS
    <3> HIDE DEF b, t, c
    <3> QED BY <1>c, <3>1 DEF CallType, Places
  <2>2. call' \in [Requests -> CallType]
    <3>1. call' = [call EXCEPT ![r] =
                    [c EXCEPT !.at = "respond", !.backendDone = b,
                              !.transportDone = t, !.canceled = TRUE]]
      BY <1>6 DEF WaitDone
    <3> HIDE DEF b, t
    <3> QED BY <2>1, <3>1, UpdateType DEF TypeOK
  <2>3. wl' \in [Workloads -> WorkloadType]
    <3> DEFINE q == IF c.assignment = None
                    THEN removeQueued(wl[w].queue, r) ELSE wl[w].queue
    <3>1. w \in Workloads => q \in Seq(Requests)
      BY RemoveQueuedType DEF TypeOK, WorkloadType
    <3>2. wl' = [wl EXCEPT ![w] = [wl[w] EXCEPT !.queue = q]]
      BY <1>6 DEF WaitDone
    <3> HIDE DEF w, q
    <3> QED BY <3>1, <3>2, QueueType
  <2> QED BY <1>6, <2>2, <2>3 DEF WaitDone, TypeOK
<1>7. CASE ResponseLive(r)
  <2>1. [c EXCEPT !.at = "done", !.responseRecorded = TRUE] \in CallType
    BY <1>c DEF CallType, Places
  <2>2. CASE srv.failed
    <3>1. call' = [call EXCEPT ![r] = [c EXCEPT !.at = "done"]]
      BY <1>7, <2>2 DEF ResponseLive
    <3>2. [c EXCEPT !.at = "done"] \in CallType
      BY <1>c DEF CallType, Places
    <3>3. call' \in [Requests -> CallType]
      BY <3>1, <3>2, UpdateType DEF TypeOK
    <3> QED BY <1>7, <2>2, <3>3 DEF ResponseLive, TypeOK
  <2>3. CASE ~srv.failed
    <3>1. ReleaseAndDispatch([call EXCEPT ![r] =
            [c EXCEPT !.at = "done", !.responseRecorded = TRUE]], r)
      BY <1>7, <2>3 DEF ResponseLive
    <3> QED BY <1>7, <2>1, <3>1, ReleaseAndDispatchType DEF ResponseLive, TypeOK
  <2> QED BY <2>2, <2>3
<1>8. CASE ResponseRejected(r)
  <2>1. /\ [c EXCEPT !.at = "done", !.responseRecorded = TRUE,
                     !.close = "closing"] \in CallType
        /\ [c EXCEPT !.at = "done"] \in CallType
    BY <1>c DEF CallType, Places
  <2>2. call' \in [Requests -> CallType]
    BY <1>8, <2>1, UpdateType DEF ResponseRejected, TypeOK
  <2>3. wl' \in [Workloads -> WorkloadType]
    <3> DEFINE w == c.uid
               n == wl[w].finalizing + 1
               v == [wl[w] EXCEPT !.finalizing = n]
    <3>1. w \in Workloads => n \in Int /\ wl[w] \in WorkloadType
      BY DEF TypeOK, WorkloadType
    <3>2. wl' = wl \/ wl' = [wl EXCEPT ![w] = v]
      BY <1>8 DEF ResponseRejected
    <3> HIDE DEF n, w
    <3>3. w \in Workloads => v \in WorkloadType
      BY <3>1 DEF WorkloadType
    <3> HIDE DEF v
    <3>4. wl \in [Workloads -> WorkloadType]
      BY DEF TypeOK
    <3> QED BY SMTT(30), <3>2, <3>3, <3>4
  <2>4. srv' \in ServerType
    BY <1>8 DEF ResponseRejected, TypeOK, ServerType
  <2> QED BY <1>8, <2>2, <2>3, <2>4 DEF ResponseRejected, TypeOK
<1>9. CASE RequestClosed(r)
  <2>1. call' \in [Requests -> CallType]
    <3> DEFINE v == [c EXCEPT !.close = "rowed"]
    <3>1. call' = [call EXCEPT ![r] = v]
      BY <1>9 DEF RequestClosed
    <3> HIDE DEF c
    <3>2. v \in CallType
      BY <1>c DEF CallType
    <3> HIDE DEF v
    <3> QED BY <3>1, <3>2, UpdateType DEF TypeOK
  <2>2. row' \in [Requests -> RowType]
    <3>1. \E f \in {"mem", "late"} : row' = [row EXCEPT ![r].final = f]
      BY <1>9 DEF RequestClosed
    <3> QED BY <3>1 DEF TypeOK, RowType
  <2> QED BY <1>9, <2>1, <2>2 DEF RequestClosed, TypeOK
<1>10. CASE Finalized(r)
  <2>1. RowOnly(c) \in CallType
    BY ZenonT(180), <1>c DEF RowOnly, NewCall, CallType, Places, Executions
  <2>2. call' \in [Requests -> CallType]
    BY <1>10, <2>1, UpdateType DEF Finalized, TypeOK
  <2>3. wl' \in [Workloads -> WorkloadType]
    <3> DEFINE w == c.uid
               n == wl[w].finalizing - 1
               v == [wl[w] EXCEPT !.finalizing = n]
    <3>1. w \in Workloads => n \in Int /\ wl[w] \in WorkloadType
      BY DEF TypeOK, WorkloadType
    <3>2. wl' = wl \/ wl' = [wl EXCEPT ![w] = v]
      BY <1>10 DEF Finalized
    <3> HIDE DEF n, w
    <3>3. w \in Workloads => v \in WorkloadType
      BY <3>1 DEF WorkloadType
    <3> HIDE DEF v
    <3>4. wl \in [Workloads -> WorkloadType]
      BY DEF TypeOK
    <3> QED BY SMTT(30), <3>2, <3>3, <3>4
  <2>4. ins' \in [Instances -> InstanceType]
    <3> DEFINE i == c.assignment
               n == ins[i].finalizing - 1
               v == [ins[i] EXCEPT !.finalizing = n]
    <3>1. i \in Instances => n \in Int /\ ins[i] \in InstanceType
      BY DEF TypeOK, InstanceType
    <3>2. ins' = ins \/ ins' = [ins EXCEPT ![i] = v]
      BY <1>10 DEF Finalized
    <3> HIDE DEF n, i
    <3>3. i \in Instances => v \in InstanceType
      BY <3>1 DEF InstanceType
    <3> HIDE DEF v
    <3>4. ins \in [Instances -> InstanceType]
      BY DEF TypeOK
    <3> QED BY SMTT(30), <3>2, <3>3, <3>4
  <2>5. srv' \in ServerType
    BY <1>10 DEF Finalized, TypeOK, ServerType
  <2> QED BY <1>10, <2>2, <2>3, <2>4, <2>5 DEF Finalized, TypeOK
<1> QED
  BY <1>1, <1>2, <1>3, <1>4, <1>5, <1>6, <1>7, <1>8, <1>9, <1>10 DEF HandlerStep

\* Every step of dispatchLocked keeps the types.
LEMMA DispatchType ==
    ASSUME TypeOK, DispatchStep
    PROVE  TypeOK'
<1> DEFINE r(w) == Head(wl[w].queue)
<1>h. ASSUME NEW w \in Workloads, wl[w].queue # <<>>
      PROVE  /\ r(w) \in Requests /\ call[r(w)] \in CallType
             /\ Tail(wl[w].queue) \in Seq(Requests)
  BY <1>h DEF TypeOK, WorkloadType
<1>1. ASSUME NEW w \in Workloads, DispatchExpired(w) PROVE TypeOK'
  <2> DEFINE c == call[r(w)]
             q == Tail(wl[w].queue)
  <2>1. r(w) \in Requests /\ c \in CallType /\ q \in Seq(Requests)
    BY <1>1, <1>h DEF DispatchExpired
  <2>2. wl' \in [Workloads -> WorkloadType]
    <3>1. wl' = [wl EXCEPT ![w] = [wl[w] EXCEPT !.queue = q]]
      BY <1>1 DEF DispatchExpired
    <3> HIDE DEF q
    <3> QED BY <2>1, <3>1, QueueType
  <2>3. call' \in [Requests -> CallType]
    <3> DEFINE n == c.sends + 1
               v == [c EXCEPT !.backendDone = TRUE, !.transportDone = TRUE,
                              !.sends = n]
    <3>1. call' = [call EXCEPT ![r(w)] = v]
      BY <1>1 DEF DispatchExpired
    <3> HIDE DEF c
    <3>2. n \in Nat
      BY <2>1 DEF CallType
    <3> HIDE DEF n
    <3>3. v \in CallType
      BY <2>1, <3>2 DEF CallType
    <3> HIDE DEF v, r
    <3> QED BY <3>1, <3>3, UpdateType DEF TypeOK
  <2> QED BY <1>1, <2>2, <2>3 DEF DispatchExpired, TypeOK
<1>2. ASSUME NEW w \in Workloads, NEW i \in Instances, DispatchAssign(w, i)
      PROVE  TypeOK'
  <2> DEFINE c == call[r(w)]
             q == Tail(wl[w].queue)
  <2>1. r(w) \in Requests /\ c \in CallType /\ q \in Seq(Requests)
    BY <1>2, <1>h DEF DispatchAssign
  <2>2. wl' \in [Workloads -> WorkloadType]
    <3>1. wl' = [wl EXCEPT ![w] = [wl[w] EXCEPT !.queue = q]]
      BY <1>2 DEF DispatchAssign
    <3> HIDE DEF q
    <3> QED BY <2>1, <3>1, QueueType
  <2>3. call' \in [Requests -> CallType]
    <3> DEFINE v == [c EXCEPT !.assignment = i, !.instance = i,
                              !.exec = "spawned"]
    <3>1. call' = [call EXCEPT ![r(w)] = v]
      BY <1>2 DEF DispatchAssign
    <3> HIDE DEF c
    <3>2. v \in CallType
      BY <2>1 DEF CallType, Executions
    <3> HIDE DEF v, r
    <3> QED BY <3>1, <3>2, UpdateType DEF TypeOK
  <2>4. ins' \in [Instances -> InstanceType]
    <3> DEFINE n == ins[i].outstanding + 1
               v == [ins[i] EXCEPT !.outstanding = n]
    <3>1. ins' = [ins EXCEPT ![i] = v]
      BY <1>2 DEF DispatchAssign
    <3>i. i \in Instances => ins[i] \in InstanceType
      BY DEF TypeOK
    <3>2. n \in Int
      BY <3>i DEF InstanceType
    <3> HIDE DEF n
    <3>3. v \in InstanceType
      BY <3>2, <3>i DEF InstanceType
    <3> HIDE DEF v
    <3> QED BY <3>1, <3>3, UpdateType DEF TypeOK
  <2> QED BY <1>2, <2>2, <2>3, <2>4 DEF DispatchAssign, TypeOK
<1>3. CASE DispatchEnd
  BY <1>3 DEF DispatchEnd, TypeOK
<1> QED BY <1>1, <1>2, <1>3 DEF DispatchStep

\* Every step of execute keeps the types.
LEMMA ExecuteType ==
    ASSUME TypeOK, NEW r \in Requests, ExecuteStep(r)
    PROVE  TypeOK'
<1> DEFINE c == call[r]
<1>c. c \in CallType
  BY DEF TypeOK
<1>e. ASSUME NEW x \in Executions, call' = [call EXCEPT ![r].exec = x]
      PROVE  call' \in [Requests -> CallType]
  <2> DEFINE v == [c EXCEPT !.exec = x]
  <2>1. v \in CallType
    BY <1>c, <1>e DEF CallType
  <2>2. call' = [call EXCEPT ![r] = v]
    BY <1>e
  <2> HIDE DEF v
  <2> QED BY <2>1, <2>2, UpdateType DEF TypeOK
<1>1. CASE ExecuteBegin(r)
  <2>1. PICK x \in Executions : call' = [call EXCEPT ![r].exec = x]
    BY <1>1 DEF ExecuteBegin, Executions
  <2>2. call' \in [Requests -> CallType]
    BY <1>e, <2>1
  <2>3. row' \in [Requests -> RowType]
    <3>1. row' = row \/ row' = [row EXCEPT ![r].assigned = "mem"]
      BY <1>1 DEF ExecuteBegin
    <3> QED BY <3>1 DEF TypeOK, RowType
  <2> QED BY <1>1, <2>2, <2>3 DEF ExecuteBegin, TypeOK
<1>2. CASE ExchangeComplete(r)
  <2>1. call' \in [Requests -> CallType]
    BY <1>2, <1>e DEF ExchangeComplete, Executions
  <2>2. phys' \in [Requests -> PhysType]
    BY <1>2 DEF ExchangeComplete, TypeOK, PhysType
  <2> QED BY <1>2, <2>1, <2>2 DEF ExchangeComplete, TypeOK
<1>3. CASE ExchangeBroken(r)
  <2>1. call' \in [Requests -> CallType]
    BY <1>3, <1>e DEF ExchangeBroken, Executions
  <2>2. phys' \in [Requests -> PhysType]
    BY <1>3 DEF ExchangeBroken, TypeOK, PhysType
  <2> QED BY <1>3, <2>1, <2>2 DEF ExchangeBroken, TypeOK
<1>4. CASE ExecuteEnd(r)
  <2> DEFINE x == c.exec
             a == IF x = "unlogged" THEN None ELSE c.assignment
             p == c.progress \/ (x = "complete" /\ phys[r].st = "ran")
             b == c.backendDone \/ x # "broken"
             n == c.sends + 1
             v == [c EXCEPT !.exec = "over", !.assignment = a,
                            !.transportDone = TRUE, !.progress = p,
                            !.backendDone = b, !.sends = n]
  <2>1. /\ a \in Instances \cup {None} /\ p \in BOOLEAN /\ b \in BOOLEAN
        /\ n \in Nat
    BY <1>c DEF CallType
  <2>2. ReleaseAndDispatch([call EXCEPT ![r] = v], r)
    BY <1>4 DEF ExecuteEnd
  <2> HIDE DEF c, a, p, b, n
  <2>3. v \in CallType
    BY ZenonT(60), <1>c, <2>1 DEF CallType, Executions
  <2> HIDE DEF v
  <2> QED BY <1>4, <2>2, <2>3, ReleaseAndDispatchType DEF ExecuteEnd, TypeOK
<1> QED BY <1>1, <1>2, <1>3, <1>4 DEF ExecuteStep

\* Every step of executors, clients and log keeps the types.
LEMMA WorldType ==
    ASSUME TypeOK, WorldStep
    PROVE  TypeOK'
<1>1. ASSUME NEW r \in Requests, NativeAdmit(r) PROVE TypeOK'
  <2>1. call[r].assignment \in Instances
    BY <1>1 DEF NativeAdmit, TypeOK
  <2>2. phys' \in [Requests -> PhysType]
    BY <1>1, <2>1 DEF NativeAdmit, TypeOK, PhysType
  <2> QED BY <1>1, <2>2 DEF NativeAdmit, TypeOK
<1>2. ASSUME NEW r \in Requests, NativeFinish(r) PROVE TypeOK'
  <2>1. phys' \in [Requests -> PhysType]
    BY <1>2 DEF NativeFinish, TypeOK, PhysType
  <2> QED BY <1>2, <2>1 DEF NativeFinish, TypeOK
<1>3. ASSUME NEW r \in Requests, ClientLeaves(r) \/ DeadlinePasses(r)
      PROVE  TypeOK'
  <2>1. client' \in [Requests -> ClientType]
    BY ZenonT(60), <1>3 DEF ClientLeaves, DeadlinePasses, TypeOK, ClientType
  <2> QED BY <1>3, <2>1 DEF ClientLeaves, DeadlinePasses, TypeOK
<1>4. ASSUME NEW r \in Requests, WriteRow(r) PROVE TypeOK'
  <2>1. row' \in [Requests -> RowType]
    BY <1>4 DEF WriteRow, TypeOK, RowType
  <2> QED BY <1>4, <2>1 DEF WriteRow, TypeOK
<1>5. ASSUME NEW i \in Instances, NativeExit(i) PROVE TypeOK'
  <2>1. phys' \in [Requests -> PhysType]
    BY <1>5 DEF NativeExit, TypeOK, PhysType
  <2>2. alive' \in SUBSET Instances
    BY <1>5 DEF NativeExit, TypeOK
  <2> QED BY <1>5, <2>1, <2>2 DEF NativeExit, TypeOK
<1>6. CASE LogFails
  <2>1. srv' \in ServerType
    BY <1>6 DEF LogFails, TypeOK, ServerType
  <2> QED BY <1>6, <2>1 DEF LogFails, TypeOK
<1> QED BY <1>1, <1>2, <1>3, <1>4, <1>5, <1>6 DEF WorldStep

\* Replacing one executor keeps the executors typed.
LEMMA InstanceUpdateType ==
    ASSUME TypeOK, NEW i \in Instances, NEW v \in InstanceType
    PROVE  [ins EXCEPT ![i] = v] \in [Instances -> InstanceType]
BY UpdateType DEF TypeOK

\* Replacing one ledger entry keeps the observer's ledger typed.
LEMMA SourceUpdateType ==
    ASSUME TypeOK, NEW i \in Instances, NEW v \in SourceType
    PROVE  [src EXCEPT ![i] = v] \in [Instances -> SourceType]
BY UpdateType DEF TypeOK

\* installInstancesLocked produces a typed executor.
LEMMA InstalledType ==
    ASSUME TypeOK, NEW L \in [Instances -> SourceType], NEW i \in Instances
    PROVE  Installed(L, i) \in InstanceType
<1> DEFINE old == IF ins[i].known THEN ins[i]
                  ELSE [NewInstance EXCEPT !.known = TRUE,
                                           !.fenced = srv.unknown]
           fenced == old.fenced /\ ~LiftsFence(L, i)
           terminated == L[i].terminated \/ old.terminated
           ready == L[i].ready /\ ~fenced /\ ~terminated
           kept == [old EXCEPT !.ready = ready, !.drained = FALSE,
                               !.fenced = fenced, !.terminated = terminated]
           profile == IF L[i].evidence THEN ProfileOf[i] ELSE None
           routing == L[i].routing
           full == [kept EXCEPT !.profile = profile, !.routing = routing]
           off == [ins[i] EXCEPT !.ready = FALSE, !.drained = FALSE]
<1>1. old \in InstanceType
  <2>1. NewInstance \in InstanceType /\ srv.unknown \in BOOLEAN
    BY NewTypes DEF TypeOK, ServerType
  <2>2. [NewInstance EXCEPT !.known = TRUE, !.fenced = srv.unknown]
          \in InstanceType
    BY <2>1 DEF InstanceType
  <2> QED BY <2>2 DEF TypeOK
<1>2. fenced \in BOOLEAN /\ terminated \in BOOLEAN /\ ready \in BOOLEAN
  OBVIOUS
<1>3. profile \in Contracts \cup {None} /\ routing \in Workloads \cup {None}
  BY ConstantsAssumption DEF SourceType
<1>4. Installed(L, i) = full \/ Installed(L, i) = kept \/ Installed(L, i) = off
  BY DEF Installed
<1>5. off \in InstanceType
  BY ZenonT(60) DEF TypeOK, InstanceType
<1> HIDE DEF old, fenced, terminated, ready, profile, routing, off
<1>6. kept \in InstanceType
  BY <1>1, <1>2 DEF InstanceType
<1> HIDE DEF kept
<1>7. full \in InstanceType
  BY <1>3, <1>6 DEF InstanceType
<1> QED BY <1>4, <1>5, <1>6, <1>7

\* Evidence that ends the backend part of the calls in S.
LEMMA EvidenceType ==
    ASSUME TypeOK, NEW S \in SUBSET Requests
    PROVE  [r \in Requests |-> IF r \in S
              THEN [call[r] EXCEPT !.backendDone = TRUE] ELSE call[r]]
           \in [Requests -> CallType]
<1>1. ASSUME NEW c \in CallType
      PROVE  [c EXCEPT !.backendDone = TRUE] \in CallType
  BY DEF CallType
<1> QED BY <1>1 DEF TypeOK

\* publishLedger keeps the types.
LEMMA PublishLedgerType ==
    ASSUME TypeOK, NEW L \in [Instances -> SourceType], PublishLedger(L)
    PROVE  TypeOK'
<1> DEFINE S == {r \in Requests : Absent(L, r)}
           C == [r \in Requests |-> IF r \in S
                   THEN [call[r] EXCEPT !.backendDone = TRUE] ELSE call[r]]
           I == [i \in Instances |-> Installed(L, i)]
           s == [srv EXCEPT !.up = TRUE]
<1>0. /\ call' = Released(C, S)
      /\ Rebuild(Released(C, S), WorkloadsReleased(wl, C, S),
                 InstancesReleased(I, C, S))
      /\ srv' = ServerReleased(s, C, S)
  BY DEF PublishLedger
<1>1. S \in SUBSET Requests
  OBVIOUS
<1>2. C \in [Requests -> CallType]
  <2> HIDE DEF S
  <2> QED BY <1>1, EvidenceType
<1>3. I \in [Instances -> InstanceType]
  BY InstalledType
<1>4. s \in ServerType
  BY DEF TypeOK, ServerType
<1> HIDE DEF S, C, I, s
<1>5. call' \in [Requests -> CallType]
  BY <1>0, <1>1, <1>2, ReleasedType
<1>6. /\ WorkloadsReleased(wl, C, S) \in [Workloads -> WorkloadType]
      /\ InstancesReleased(I, C, S) \in [Instances -> InstanceType]
  BY <1>1, <1>3, WorkloadsReleasedType, InstancesReleasedType DEF TypeOK
<1>7. /\ wl' \in [Workloads -> WorkloadType]
      /\ ins' \in [Instances -> InstanceType]
  BY <1>0, <1>6, RebuildType
<1>8. srv' \in ServerType
  BY <1>0, <1>1, <1>4, ServerReleasedType
<1>9. src' \in [Instances -> SourceType] /\ mu' \in {"free", "dispatch"}
  BY DispatchingType DEF PublishLedger
<1> QED BY <1>5, <1>7, <1>8, <1>9 DEF PublishLedger, TypeOK

\* A thread without operation is typed.
LEMMA IdleType == Idle \in OpType
BY DEF Idle, OpType

\* Starting an operation of several lock sections keeps the threads typed.
LEMMA StartType ==
    ASSUME TypeOK, NEW t \in Threads,
           NEW k \in {"publish", "open", "resume", "detach",
                     "forget", "retire", "node", "shutdown"},
           NEW g \in Workloads \cup Instances \cup Nodes \cup {None},
           NEW d \in Definitions \cup {None}, Start(t, k, g, d)
    PROVE  op' \in [Threads -> OpType]
<1>1. InMemory \in SUBSET Requests
  BY DEF InMemory
<1>2. [kind |-> k, target |-> g, def |-> d, bar |-> InMemory] \in OpType
  BY <1>1 DEF OpType
<1> QED BY <1>2, UpdateType DEF Start, TypeOK

\* Finishing such an operation keeps the threads typed.
LEMMA FinishType ==
    ASSUME TypeOK, NEW t \in Threads, NEW k, NEW g, Finish(t, k, g)
    PROVE  op' \in [Threads -> OpType]
BY IdleType, UpdateType DEF Finish, TypeOK

\* Every step of the observer keeps the types.
LEMMA ObserverType ==
    ASSUME TypeOK, ObserverStep
    PROVE  TypeOK'
<1>1. ASSUME NEW r \in Requests, NEW finished \in BOOLEAN,
             ObserveBackend(r, finished)
      PROVE  TypeOK'
  <2> DEFINE c == call[r]
             p == c.progress \/ ~c.backendDone
             b == c.backendDone \/ finished
             v == [c EXCEPT !.progress = p, !.backendDone = b]
             C == [call EXCEPT ![r] = v]
  <2>1. c \in CallType /\ p \in BOOLEAN /\ b \in BOOLEAN
    BY DEF TypeOK
  <2>2. \/ srv.failed /\ call' = C /\ UNCHANGED <<wl, ins, srv, mu>>
        \/ ReleaseAndDispatch(C, r)
    BY <1>1 DEF ObserveBackend
  <2> HIDE DEF c, p, b
  <2>3. v \in CallType
    BY <2>1 DEF CallType
  <2> HIDE DEF v
  <2>4. C \in [Requests -> CallType]
    BY <2>3, UpdateType DEF TypeOK
  <2>5. CASE ReleaseAndDispatch(C, r)
    BY <1>1, <2>3, <2>5, ReleaseAndDispatchType DEF ObserveBackend, TypeOK
  <2>6. CASE call' = C /\ UNCHANGED <<wl, ins, srv, mu>>
    BY <1>1, <2>4, <2>6 DEF ObserveBackend, TypeOK
  <2> QED BY <2>2, <2>5, <2>6
<1>2. ASSUME NEW i \in Instances, ConfirmInstanceStopped(i) PROVE TypeOK'
  <2> DEFINE S == {r \in Requests : /\ call[r].live /\ call[r].assignment = i
                                    /\ ~call[r].backendDone}
             C == [r \in Requests |-> IF r \in S
                     THEN [call[r] EXCEPT !.backendDone = TRUE] ELSE call[r]]
             f == ins[i].fenced /\ (srv.failed \/ ~srv.up)
             v == [ins[i] EXCEPT !.ready = FALSE, !.terminated = ins[i].known,
                                 !.fenced = f, !.drained = FALSE]
             I == [ins EXCEPT ![i] = v]
             u == [src[i] EXCEPT !.terminated = TRUE, !.probe = "idle"]
  <2>0. /\ call' = Released(C, S)
        /\ Rebuild(Released(C, S), WorkloadsReleased(wl, C, S),
                   InstancesReleased(I, C, S))
        /\ srv' = ServerReleased(srv, C, S)
        /\ src' = [src EXCEPT ![i] = u]
        /\ mu' \in {"free", "dispatch"}
    BY <1>2, DispatchingType DEF ConfirmInstanceStopped
  <2>1. S \in SUBSET Requests
    OBVIOUS
  <2>2. C \in [Requests -> CallType]
    <3> HIDE DEF S
    <3> QED BY <2>1, EvidenceType
  <2>3. I \in [Instances -> InstanceType]
    <3>1. f \in BOOLEAN
      OBVIOUS
    <3> HIDE DEF f
    <3>2. v \in InstanceType
      BY ZenonT(60), <3>1 DEF TypeOK, InstanceType
    <3> HIDE DEF v
    <3> QED BY <3>2, InstanceUpdateType
  <2>4. src' \in [Instances -> SourceType]
    <3>1. u \in SourceType
      BY ZenonT(60) DEF TypeOK, SourceType
    <3> HIDE DEF u
    <3> QED BY <2>0, <3>1, SourceUpdateType
  <2> HIDE DEF S, C, I, u
  <2>5. call' \in [Requests -> CallType]
    BY <2>0, <2>1, <2>2, ReleasedType
  <2>6. /\ WorkloadsReleased(wl, C, S) \in [Workloads -> WorkloadType]
        /\ InstancesReleased(I, C, S) \in [Instances -> InstanceType]
    BY <2>1, <2>3, WorkloadsReleasedType, InstancesReleasedType DEF TypeOK
  <2>7. /\ wl' \in [Workloads -> WorkloadType]
        /\ ins' \in [Instances -> InstanceType]
    BY <2>0, <2>6, RebuildType
  <2>8. srv' \in ServerType
    BY <2>0, <2>1, ServerReleasedType DEF TypeOK
  <2> QED BY <1>2, <2>0, <2>4, <2>5, <2>7, <2>8
          DEF ConfirmInstanceStopped, TypeOK
<1>3. ASSUME NEW i \in Instances, DisableInstance(i) PROVE TypeOK'
  <2> DEFINE v == [ins[i] EXCEPT !.ready = FALSE, !.drained = FALSE]
             I == [ins EXCEPT ![i] = v]
  <2>1. I \in [Instances -> InstanceType]
    <3>1. v \in InstanceType
      BY ZenonT(60) DEF TypeOK, InstanceType
    <3> HIDE DEF v
    <3> QED BY <3>1, InstanceUpdateType
  <2>2. Rebuild(call, wl, I)
    BY <1>3 DEF DisableInstance
  <2> HIDE DEF I
  <2>3. /\ wl' \in [Workloads -> WorkloadType]
        /\ ins' \in [Instances -> InstanceType]
    BY <2>1, <2>2, RebuildType DEF TypeOK
  <2>4. src' \in [Instances -> SourceType]
    <3>1. PICK lost \in BOOLEAN : src' = [src EXCEPT ![i] =
             [src[i] EXCEPT !.ready = src[i].ready /\ ~lost,
                            !.verified = src[i].verified /\ ~lost]]
      BY <1>3 DEF DisableInstance
    <3> DEFINE a == src[i].ready /\ ~lost
               b == src[i].verified /\ ~lost
               u == [src[i] EXCEPT !.ready = a, !.verified = b]
    <3>2. a \in BOOLEAN /\ b \in BOOLEAN /\ src' = [src EXCEPT ![i] = u]
      BY <3>1
    <3> HIDE DEF a, b
    <3>3. u \in SourceType
      BY ZenonT(60), <3>2 DEF TypeOK, SourceType
    <3> HIDE DEF u
    <3> QED BY <3>2, <3>3, SourceUpdateType
  <2> QED BY <1>3, <2>3, <2>4, DispatchingType DEF DisableInstance, TypeOK
<1>4. ASSUME NEW i \in Instances, ProbeBegin(i) PROVE TypeOK'
  <2> DEFINE u == [src[i] EXCEPT !.probe = "begun", !.newEnded = Ended(i)]
  <2>1. u \in SourceType
    <3>1. Ended(i) \in SUBSET Requests
      BY DEF Ended
    <3> QED BY ZenonT(60), <3>1 DEF TypeOK, SourceType
  <2>2. src' = [src EXCEPT ![i] = u]
    BY <1>4 DEF ProbeBegin
  <2> HIDE DEF u
  <2> QED BY <1>4, <2>1, <2>2, SourceUpdateType DEF ProbeBegin, TypeOK
<1>5. ASSUME NEW i \in Instances, ProbeRead(i) PROVE TypeOK'
  <2> DEFINE u == [src[i] EXCEPT !.probe = "read", !.newHeld = HeldAt(i)]
  <2>1. u \in SourceType
    <3>1. HeldAt(i) \in SUBSET Requests
      BY DEF HeldAt
    <3> QED BY ZenonT(60), <3>1 DEF TypeOK, SourceType
  <2>2. src' = [src EXCEPT ![i] = u]
    BY <1>5 DEF ProbeRead
  <2> HIDE DEF u
  <2> QED BY <1>5, <2>1, <2>2, SourceUpdateType DEF ProbeRead, TypeOK
<1>6. ASSUME NEW i \in Instances, PublishProbe(i) PROVE TypeOK'
  <2>1. PICK ready \in BOOLEAN, routing \in Routing[i] \cup {None} :
          PublishLedger([src EXCEPT ![i] =
              [src[i] EXCEPT !.probe = "idle", !.verified = TRUE,
                        !.ready = ready /\ src[i].evidence,
                        !.routing = IF src[i].evidence THEN routing ELSE None,
                        !.ended = src[i].newEnded, !.held = src[i].newHeld]])
    BY <1>6 DEF PublishProbe
  <2> DEFINE a == ready /\ src[i].evidence
             b == IF src[i].evidence THEN routing ELSE None
             s == src[i]
             u == [s EXCEPT !.probe = "idle", !.verified = TRUE,
                            !.ready = a, !.routing = b,
                            !.ended = s.newEnded, !.held = s.newHeld]
  <2>t. s \in SourceType
    BY DEF TypeOK
  <2>b. a \in BOOLEAN /\ b \in Workloads \cup {None}
    BY <2>1, <2>t, ConstantsAssumption DEF SourceType
  <2>2. PublishLedger([src EXCEPT ![i] = u])
    BY <2>1
  <2> HIDE DEF a, b, s
  <2>3. u \in SourceType
    BY <2>t, <2>b DEF SourceType
  <2> HIDE DEF u
  <2>4. [src EXCEPT ![i] = u] \in [Instances -> SourceType]
    BY <2>3, SourceUpdateType
  <2> QED BY <2>2, <2>4, PublishLedgerType
<1>7. ASSUME NEW i \in Instances, PublishUnavailable(i) PROVE TypeOK'
  <2> DEFINE u == [src[i] EXCEPT !.probe = "idle", !.ready = FALSE,
                                 !.verified = FALSE]
  <2>1. PublishLedger([src EXCEPT ![i] = u])
    BY <1>7 DEF PublishUnavailable
  <2>2. u \in SourceType
    BY ZenonT(60) DEF TypeOK, SourceType
  <2> HIDE DEF u
  <2>3. [src EXCEPT ![i] = u] \in [Instances -> SourceType]
    BY <2>2, SourceUpdateType
  <2> QED BY <2>1, <2>3, PublishLedgerType
<1>8. ASSUME NEW i \in Instances, PublishAgain(i) PROVE TypeOK'
  <2>1. PICK evidence \in BOOLEAN :
          PublishLedger([src EXCEPT ![i] =
              [src[i] EXCEPT !.evidence = evidence,
                             !.ready = src[i].ready /\ evidence,
                             !.routing = IF evidence THEN src[i].routing
                                                    ELSE None]])
    BY <1>8 DEF PublishAgain
  <2> DEFINE a == src[i].ready /\ evidence
             b == IF evidence THEN src[i].routing ELSE None
             s == src[i]
             u == [s EXCEPT !.evidence = evidence, !.ready = a, !.routing = b]
  <2>t. s \in SourceType
    BY DEF TypeOK
  <2>b. a \in BOOLEAN /\ b \in Workloads \cup {None}
    BY <2>1, <2>t, ConstantsAssumption DEF SourceType
  <2>2. PublishLedger([src EXCEPT ![i] = u])
    BY <2>1
  <2> HIDE DEF a, b, s
  <2>3. u \in SourceType
    BY <2>t, <2>b DEF SourceType
  <2> HIDE DEF u
  <2>4. [src EXCEPT ![i] = u] \in [Instances -> SourceType]
    BY <2>3, SourceUpdateType
  <2> QED BY <2>2, <2>4, PublishLedgerType
<1>9. ASSUME NEW i \in Instances, RetirePodBegin(i) PROVE TypeOK'
  <2>1. op' \in [Threads -> OpType]
    BY <1>9, StartType DEF RetirePodBegin, Threads
  <2> QED BY <1>9, <2>1 DEF RetirePodBegin, TypeOK
<1>10. ASSUME NEW i \in Instances, RetirePodEnd(i) PROVE TypeOK'
  <2>1. op' \in [Threads -> OpType]
    BY <1>10, FinishType DEF RetirePodEnd, Threads
  <2>2. CASE /\ Rebuild(call, wl, [ins EXCEPT ![i] = NewInstance])
             /\ src' = [src EXCEPT ![i].retired = TRUE]
    <3>2. [ins EXCEPT ![i] = NewInstance] \in [Instances -> InstanceType]
      BY NewTypes, InstanceUpdateType
    <3>3. /\ wl' \in [Workloads -> WorkloadType]
          /\ ins' \in [Instances -> InstanceType]
      BY ZenonT(60), <2>2, <3>2, RebuildType DEF TypeOK
    <3>4. src' \in [Instances -> SourceType]
      <4> DEFINE u == [src[i] EXCEPT !.retired = TRUE]
      <4>1. u \in SourceType /\ src' = [src EXCEPT ![i] = u]
        BY ZenonT(60), <2>2 DEF TypeOK, SourceType
      <4> HIDE DEF u
      <4> QED BY <4>1, SourceUpdateType
    <3> QED BY <1>10, <2>1, <3>3, <3>4 DEF RetirePodEnd, TypeOK
  <2>3. CASE UNCHANGED <<wl, ins, src>>
    BY <1>10, <2>1, <2>3 DEF RetirePodEnd, TypeOK
  <2> QED BY <1>10, <2>2, <2>3 DEF RetirePodEnd
<1>u. ASSUME NEW n \in Nodes, NEW drained \in BOOLEAN
      PROVE  Unready(n, drained) \in [Instances -> InstanceType]
  <2> SUFFICES ASSUME NEW i \in Instances
               PROVE  Unready(n, drained)[i] \in InstanceType
    BY DEF Unready
  <2> DEFINE a == ins[i].drained \/ drained
             b == IF drained THEN {} ELSE ins[i].bindings
             v == [ins[i] EXCEPT !.ready = FALSE, !.drained = a,
                                 !.bindings = b]
  <2>1. Unready(n, drained)[i] \in {v, ins[i]}
    BY DEF Unready
  <2>2. a \in BOOLEAN /\ b \in SUBSET Workloads
    BY DEF TypeOK, InstanceType
  <2> HIDE DEF a, b
  <2>3. v \in InstanceType
    BY ZenonT(60), <2>2 DEF TypeOK, InstanceType
  <2> HIDE DEF v
  <2> QED BY <2>1, <2>3 DEF TypeOK
<1>11. ASSUME NEW n \in Nodes, DetachNodeBegin(n) PROVE TypeOK'
  <2>1. op' \in [Threads -> OpType]
    BY <1>11, StartType DEF DetachNodeBegin, Threads
  <2>2. /\ wl' \in [Workloads -> WorkloadType]
        /\ ins' \in [Instances -> InstanceType]
    BY <1>11, <1>u, RebuildType DEF DetachNodeBegin, TypeOK
  <2> QED BY <1>11, <2>1, <2>2 DEF DetachNodeBegin, TypeOK
<1>12. ASSUME NEW n \in Nodes, DetachNodeEnd(n) PROVE TypeOK'
  <2>1. op' \in [Threads -> OpType]
    BY <1>12, FinishType DEF DetachNodeEnd, Threads
  <2>2. CASE Rebuild(call, wl, Unready(n, TRUE)) /\ mu' = Dispatching(srv)
    <3>1. /\ wl' \in [Workloads -> WorkloadType]
          /\ ins' \in [Instances -> InstanceType]
      BY <2>2, <1>u, RebuildType DEF TypeOK
    <3> QED BY <1>12, <2>1, <2>2, <3>1, DispatchingType
            DEF DetachNodeEnd, TypeOK
  <2>3. CASE UNCHANGED <<wl, ins, mu>>
    BY <1>12, <2>1, <2>3 DEF DetachNodeEnd, TypeOK
  <2> QED BY <1>12, <2>2, <2>3 DEF DetachNodeEnd
<1> QED
  BY <1>1, <1>2, <1>3, <1>4, <1>5, <1>6, <1>7, <1>8, <1>9, <1>10, <1>11, <1>12
  DEF ObserverStep

\* Replacing one Workload keeps the Workloads typed.
LEMMA WorkloadUpdateType ==
    ASSUME TypeOK, NEW w \in Workloads, NEW v \in WorkloadType
    PROVE  [wl EXCEPT ![w] = v] \in [Workloads -> WorkloadType]
BY UpdateType DEF TypeOK

\* Every management step keeps the types.
LEMMA ManagementType ==
    ASSUME TypeOK, ManagementStep
    PROVE  TypeOK'
<1> SUFFICES ASSUME NEW w \in Workloads,
                    \/ \E d \in Definitions : PublishBegin(w, d)
                    \/ PublishEnd(w) \/ OpenBegin(w) \/ OpenEnd(w)
                    \/ ResumeBegin(w) \/ ResumeEnd(w) \/ StopAdmission(w)
                    \/ DetachBegin(w) \/ DetachEnd(w)
                    \/ ForgetBegin(w) \/ ForgetEnd(w)
             PROVE  TypeOK'
  BY DEF ManagementStep
<1>w. wl[w] \in WorkloadType
  BY DEF TypeOK
<1>1. ASSUME NEW d \in Definitions, PublishBegin(w, d) PROVE TypeOK'
  <2>1. op' \in [Threads -> OpType]
    BY <1>1, StartType DEF PublishBegin, Threads
  <2> QED BY <1>1, <2>1 DEF PublishBegin, TypeOK
<1>2. CASE PublishEnd(w)
  <2> DEFINE d == op["mgmt"].def
  <2>1. op' \in [Threads -> OpType]
    BY <1>2, IdleType, UpdateType DEF PublishEnd, TypeOK
  <2>2. CASE ~Publishable(w, d)
    BY <1>2, <2>1, <2>2 DEF PublishEnd, TypeOK
  <2>3. CASE Publishable(w, d)
    <3>1. PICK restart \in BOOLEAN :
            Rebuild(call, [wl EXCEPT ![w] =
                    [wl[w] EXCEPT !.reg = "on", !.def = d, !.stopped = TRUE,
                              !.detached = FALSE, !.restartDrain = restart]],
                    ins)
      BY <1>2, <2>3 DEF PublishEnd
    <3> DEFINE v == [wl[w] EXCEPT !.reg = "on", !.def = d, !.stopped = TRUE,
                              !.detached = FALSE, !.restartDrain = restart]
               W == [wl EXCEPT ![w] = v]
    <3>2. d \in Definitions \cup {None}
      BY DEF TypeOK, OpType, Threads
    <3>3. Rebuild(call, W, ins)
      BY <3>1
    <3> HIDE DEF d
    <3>4. v \in WorkloadType
      BY <1>w, <3>2 DEF WorkloadType
    <3> HIDE DEF v
    <3>5. W \in [Workloads -> WorkloadType]
      BY <3>4, WorkloadUpdateType
    <3> HIDE DEF W
    <3>6. /\ wl' \in [Workloads -> WorkloadType]
          /\ ins' \in [Instances -> InstanceType]
      BY <3>3, <3>5, RebuildType DEF TypeOK
    <3> QED BY <1>2, <2>1, <2>3, <3>6, DispatchingType DEF PublishEnd, TypeOK, d
  <2> QED BY <2>2, <2>3
<1>3. CASE OpenBegin(w)
  <2>1. op' \in [Threads -> OpType]
    BY <1>3, StartType DEF OpenBegin, Threads
  <2> QED BY <1>3, <2>1 DEF OpenBegin, TypeOK
<1>o. [wl EXCEPT ![w] = [wl[w] EXCEPT !.stopped = FALSE,
                                      !.restartDrain = FALSE]]
        \in [Workloads -> WorkloadType]
  <2> DEFINE v == [wl[w] EXCEPT !.stopped = FALSE, !.restartDrain = FALSE]
  <2>1. v \in WorkloadType
    BY <1>w DEF WorkloadType
  <2> HIDE DEF v
  <2>2. [wl EXCEPT ![w] = v] \in [Workloads -> WorkloadType]
    BY <2>1, WorkloadUpdateType
  <2> QED BY <2>2 DEF v
<1>4. CASE OpenEnd(w)
  <2>1. op' \in [Threads -> OpType]
    BY <1>4, FinishType DEF OpenEnd, Threads
  <2>2. wl' \in [Workloads -> WorkloadType]
    BY <1>4, <1>o DEF OpenEnd, TypeOK
  <2> QED BY <1>4, <2>1, <2>2 DEF OpenEnd, TypeOK
<1>5. CASE ResumeBegin(w)
  <2>1. op' \in [Threads -> OpType]
    BY <1>5, StartType DEF ResumeBegin, Threads
  <2> QED BY <1>5, <2>1 DEF ResumeBegin, TypeOK
<1>6. CASE ResumeEnd(w)
  <2>1. op' \in [Threads -> OpType]
    BY <1>6, FinishType DEF ResumeEnd, Threads
  <2>2. wl' \in [Workloads -> WorkloadType]
    BY <1>6, <1>o DEF ResumeEnd, TypeOK
  <2> QED BY <1>6, <2>1, <2>2 DEF ResumeEnd, TypeOK
<1>7. CASE StopAdmission(w)
  <2> DEFINE v == [wl[w] EXCEPT !.stopped = TRUE, !.restartDrain = FALSE]
  <2>1. v \in WorkloadType
    BY <1>w DEF WorkloadType
  <2>2. wl' = [wl EXCEPT ![w] = v]
    BY <1>7 DEF StopAdmission
  <2> HIDE DEF v
  <2>3. wl' \in [Workloads -> WorkloadType]
    BY <2>1, <2>2, WorkloadUpdateType
  <2> QED BY <1>7, <2>3 DEF StopAdmission, TypeOK
<1>8. CASE DetachBegin(w)
  <2>1. op' \in [Threads -> OpType]
    BY <1>8, StartType DEF DetachBegin, Threads
  <2> QED BY <1>8, <2>1 DEF DetachBegin, TypeOK
<1>9. CASE DetachEnd(w)
  <2>1. op' \in [Threads -> OpType]
    BY <1>9, FinishType DEF DetachEnd, Threads
  <2> DEFINE v == [wl[w] EXCEPT !.route = {}, !.detached = TRUE]
             I == [i \in Instances |->
                    [ins[i] EXCEPT !.bindings = ins[i].bindings \ {w}]]
  <2>2. CASE ins' = I /\ wl' = [wl EXCEPT ![w] = v]
    <3>1. v \in WorkloadType
      BY <1>w DEF WorkloadType
    <3> HIDE DEF v
    <3>2. wl' \in [Workloads -> WorkloadType]
      BY <2>2, <3>1, WorkloadUpdateType
    <3>3. I \in [Instances -> InstanceType]
      BY DEF TypeOK, InstanceType
    <3> QED BY <1>9, <2>1, <2>2, <3>2, <3>3 DEF DetachEnd, TypeOK
  <2>3. CASE UNCHANGED <<ins, wl>>
    BY <1>9, <2>1, <2>3 DEF DetachEnd, TypeOK
  <2> QED BY <1>9, <2>2, <2>3 DEF DetachEnd
<1>10. CASE ForgetBegin(w)
  <2>1. op' \in [Threads -> OpType]
    BY <1>10, StartType DEF ForgetBegin, Threads
  <2> QED BY <1>10, <2>1 DEF ForgetBegin, TypeOK
<1>11. CASE ForgetEnd(w)
  <2>1. op' \in [Threads -> OpType]
    BY <1>11, FinishType DEF ForgetEnd, Threads
  <2> DEFINE v == [NewWorkload EXCEPT !.reg = "forgotten"]
             W == [wl EXCEPT ![w] = v]
  <2>2. CASE Rebuild(call, W, ins) /\ mu' = Dispatching(srv)
    <3>1. v \in WorkloadType
      BY NewTypes DEF WorkloadType
    <3> HIDE DEF v
    <3>2. W \in [Workloads -> WorkloadType]
      BY <3>1, WorkloadUpdateType
    <3> HIDE DEF W
    <3>3. /\ wl' \in [Workloads -> WorkloadType]
          /\ ins' \in [Instances -> InstanceType]
      BY ZenonT(60), <2>2, <3>2, RebuildType DEF TypeOK
    <3> QED BY <1>11, <2>1, <2>2, <3>3, DispatchingType DEF ForgetEnd, TypeOK
  <2>3. CASE UNCHANGED <<ins, wl, mu>>
    BY <1>11, <2>1, <2>3 DEF ForgetEnd, TypeOK
  <2> QED BY <1>11, <2>2, <2>3 DEF ForgetEnd
<1> QED
  BY <1>1, <1>2, <1>3, <1>4, <1>5, <1>6, <1>7, <1>8, <1>9, <1>10, <1>11

\* NewRuntime produces a typed state from what the log holds: a restored
\* call names a Workload because only an accepted one has an assigned row.
LEMMA BootType ==
    ASSUME TypeOK, CallsInv, NEW unknown \in BOOLEAN,
           NEW disk \in [Requests -> RowType],
           \A r \in Requests :
              disk[r].assigned # "none" => row[r].assigned # "none",
           Boot(unknown, disk)
    PROVE  TypeOK'
<1>2. call' \in [Requests -> CallType]
  <2> SUFFICES ASSUME NEW r \in Requests PROVE call'[r] \in CallType
    BY ZenonT(60) DEF Boot
  <2> DEFINE c == call[r]
             v == [NewCall EXCEPT
                   !.at = "done", !.uid = c.uid, !.def = c.def,
                   !.live = TRUE, !.assignment = c.assignment,
                   !.instance = c.assignment, !.exec = "over",
                   !.transportDone = TRUE, !.responseRecorded = TRUE]
  <2>1. call'[r] \in {NewCall, v, RowOnly(c)}
    BY DEF Boot
  <2>2. c \in CallType
    BY DEF TypeOK
  <2> HIDE DEF c
  <2>3. RowOnly(c) \in CallType
    BY ZenonT(180), <2>2 DEF RowOnly, NewCall, CallType, Places, Executions
  <2>4. v \in CallType
    BY ZenonT(180), <2>2 DEF NewCall, CallType, Places, Executions
  <2> HIDE DEF v
  <2> QED BY SMTT(30), <2>1, <2>3, <2>4, NewTypes
<1>3. wl' \in [Workloads -> WorkloadType]
  <2> SUFFICES ASSUME NEW w \in Workloads PROVE wl'[w] \in WorkloadType
    BY ZenonT(60) DEF Boot
  <2> DEFINE P == {r \in Pending(disk) : call[r].uid = w}
             d == call[CHOOSE r \in P : TRUE].def
             v == [NewWorkload EXCEPT !.reg = "on", !.stopped = TRUE,
                     !.restartDrain = TRUE, !.def = d]
  <2>1. wl'[w] \in {wl[w], NewWorkload} \/ (P # {} /\ wl'[w] = v)
    BY DEF Boot
  <2>2. P # {} => d \in Definitions \cup {None}
    <3>1. P # {} => (CHOOSE r \in P : TRUE) \in Requests
      BY DEF Pending
    <3> QED BY <3>1 DEF TypeOK, CallType
  <2> HIDE DEF d, P
  <2>3. P # {} => v \in WorkloadType
    BY <2>2, NewTypes DEF WorkloadType
  <2> HIDE DEF v
  <2> QED BY <2>1, <2>3, NewTypes DEF TypeOK
<1>4. ins' \in [Instances -> InstanceType]
  <2> SUFFICES ASSUME NEW i \in Instances PROVE ins'[i] \in InstanceType
    BY DEF Boot
  <2> DEFINE P == {r \in Pending(disk) : call[r].assignment = i}
             b == {call[r].uid : r \in P}
             n == Cardinality(P)
             v == [NewInstance EXCEPT !.known = TRUE, !.fenced = unknown,
                     !.bindings = b, !.outstanding = n]
  <2>1. ins'[i] \in {NewInstance, v}
    BY DEF Boot
  <2>2. n \in Int
    BY CardinalityNat DEF Pending
  <2>3. b \in SUBSET Workloads
    BY DEF CallsInv, CallInv, NamedCall, Pending
  <2> HIDE DEF b, n, P
  <2>4. v \in InstanceType
    BY <2>2, <2>3, NewTypes DEF InstanceType
  <2> HIDE DEF v
  <2> QED BY <2>1, <2>4, NewTypes
<1>5. src' \in [Instances -> SourceType]
  <2> SUFFICES ASSUME NEW i \in Instances PROVE src'[i] \in SourceType
    BY DEF Boot
  <2> DEFINE a == src[i].retired
             b == src[i].evidence
  <2>1. src'[i] = [NewSource EXCEPT !.retired = a, !.evidence = b]
    BY DEF Boot
  <2>2. a \in BOOLEAN /\ b \in BOOLEAN
    BY DEF TypeOK, SourceType
  <2> HIDE DEF a, b
  <2>3. ASSUME NEW u \in SourceType
        PROVE  [u EXCEPT !.retired = a, !.evidence = b] \in SourceType
    BY <2>2 DEF SourceType
  <2> QED BY <2>1, <2>3, NewTypes
<1>6. srv' \in ServerType
  <2>1. srv' = [boots |-> srv.boots + 1, up |-> FALSE, unknown |-> unknown,
               failed |-> FALSE, shuttingDown |-> FALSE,
               executionsStopped |-> FALSE, drained |-> FALSE,
               finalizing |-> 0]
    BY DEF Boot
  <2> QED BY <2>1 DEF ServerType, TypeOK
<1>7. op' \in [Threads -> OpType]
  BY ZenonT(60), IdleType DEF Boot
<1>8. phys' \in [Requests -> PhysType]
  BY ZenonT(60) DEF Boot, TypeOK, PhysType
<1> QED BY <1>2, <1>3, <1>4, <1>5, <1>6, <1>7, <1>8 DEF Boot, TypeOK

\* Every step that stops, ends or starts the process keeps the types.
LEMMA ProcessType ==
    ASSUME TypeOK, CallsInv, ProcessStep
    PROVE  TypeOK'
<1>a. AllCanceled \in [Requests -> CallType]
  <2>1. ASSUME NEW c \in CallType
        PROVE  [c EXCEPT !.canceled = TRUE] \in CallType
    BY DEF CallType
  <2> QED BY <2>1 DEF AllCanceled, TypeOK
<1>1. CASE BeginShutdown
  <2>1. ASSUME NEW c \in WorkloadType
        PROVE  [c EXCEPT !.stopped = TRUE, !.restartDrain = FALSE]
                  \in WorkloadType
    BY DEF WorkloadType
  <2>2. wl' \in [Workloads -> WorkloadType]
    BY <1>1, <2>1 DEF BeginShutdown, TypeOK
  <2>3. srv' \in ServerType
    BY <1>1 DEF BeginShutdown, TypeOK, ServerType
  <2> QED BY <1>1, <2>2, <2>3 DEF BeginShutdown, TypeOK
<1>2. CASE ShutdownBegin
  <2>1. op' \in [Threads -> OpType]
    BY <1>2, StartType DEF ShutdownBegin, Threads
  <2> QED BY <1>2, <2>1 DEF ShutdownBegin, TypeOK
<1>3. CASE ShutdownEnd
  <2>1. op' \in [Threads -> OpType]
    BY <1>3, FinishType DEF ShutdownEnd, Threads
  <2>2. srv' \in ServerType
    BY <1>3 DEF ShutdownEnd, TypeOK, ServerType
  <2>3. call' \in [Requests -> CallType]
    BY <1>3, <1>a DEF ShutdownEnd, TypeOK
  <2> QED BY <1>3, <2>1, <2>2, <2>3 DEF ShutdownEnd, TypeOK
<1>4. CASE ShutdownTimeout
  <2>1. op' \in [Threads -> OpType]
    BY <1>4, IdleType, UpdateType DEF ShutdownTimeout, TypeOK
  <2> QED BY <1>4, <1>a, <2>1 DEF ShutdownTimeout, TypeOK
<1>5. CASE JoinExecutions
  <2>1. srv' \in ServerType
    BY <1>5 DEF JoinExecutions, TypeOK, ServerType
  <2> QED BY <1>5, <1>a, <2>1 DEF JoinExecutions, TypeOK
<1>6. CASE Crash
  <2> DEFINE disk == [r \in Requests |->
         [assigned |-> IF row[r].assigned = "disk" THEN "disk" ELSE "none",
          final |-> IF row[r].final = "disk" THEN "disk" ELSE "none"]]
  <2>1. /\ disk \in [Requests -> RowType]
        /\ \A r \in Requests :
              disk[r].assigned # "none" => row[r].assigned # "none"
    BY DEF RowType
  <2>2. Boot(TRUE, disk)
    BY <1>6 DEF Crash
  <2> HIDE DEF disk
  <2> QED BY <2>1, <2>2, BootType
<1>7. CASE CleanExit
  <2> DEFINE disk == [r \in Requests |->
         [assigned |-> IF row[r].assigned = "none" THEN "none" ELSE "disk",
          final |-> IF row[r].final = "none" THEN "none" ELSE "disk"]]
  <2>1. /\ disk \in [Requests -> RowType]
        /\ \A r \in Requests :
              disk[r].assigned # "none" => row[r].assigned # "none"
    BY DEF RowType
  <2>2. Boot(srv.unknown, disk) /\ srv.unknown \in BOOLEAN
    BY <1>7 DEF CleanExit, TypeOK, ServerType
  <2> HIDE DEF disk
  <2> QED BY <2>1, <2>2, BootType
<1> QED BY <1>1, <1>2, <1>3, <1>4, <1>5, <1>6, <1>7 DEF ProcessStep

-----------------------------------------------------------------------------
(* Every step keeps the waiters served                                     *)

\* A change of a call that touches neither its place nor its reply.
Neutral(c, d) ==
    /\ d.at = c.at /\ d.uid = c.uid /\ d.exec = c.exec /\ d.sends = c.sends
    /\ d.assignment = c.assignment /\ (d.live => c.live)
    /\ c.at # "done" => /\ d.responseRecorded = c.responseRecorded
                        /\ d.close = c.close

\* The queues are kept, and a Workload leaves only with an empty one.
SameQueues ==
    \A w \in Workloads :
        /\ wl'[w].queue = wl[w].queue
        /\ wl'[w].reg = wl[w].reg \/ wl'[w].reg = "on" \/ wl[w].queue = <<>>

SameRow(r) == row'[r].assigned = "none" <=> row[r].assigned = "none"

Unqueued(r) == \A w \in Workloads : ~InQueue(r, wl[w].queue)

\* A call in no queue that is served without one afterwards.
Replaced(r) ==
    /\ Unqueued(r)
    /\ CallInv(call'[r], row'[r].assigned)
    /\ call'[r].at = "waiting" =>
         call'[r].exec \in Running \/ call'[r].sends = 1

\* A neutral change keeps what is known of a call.
LEMMA NeutralInv ==
    ASSUME NEW c, NEW d, NEW a, NEW b, Neutral(c, d), CallInv(c, a),
           a = "none" <=> b = "none"
    PROVE  CallInv(d, b)
BY DEF Neutral, CallInv, FreshCall, OpenCall, NamedCall, UnsentCall

\* A call that no longer waits for an executor is in no queue.
LEMMA UnqueuedCall ==
    ASSUME QueuesInv, NEW r,
           \/ call[r].at # "waiting" \/ call[r].exec # "none"
           \/ call[r].sends # 0 \/ call[r].assignment # None
    PROVE  Unqueued(r)
BY DEF QueuesInv, Unqueued, InQueue, QueuedCall

\* A step that keeps the queues, and changes calls neutrally or replaces
\* unqueued ones by served ones, keeps the invariant.
LEMMA Frame ==
    ASSUME TypeOK, ServedInv, SameQueues,
           \A r \in Requests :
               \/ Neutral(call[r], call'[r]) /\ SameRow(r)
               \/ Replaced(r)
    PROVE  ServedInv'
<1>1. CallsInv'
  <2> SUFFICES ASSUME NEW r \in Requests
               PROVE  CallInv(call'[r], row'[r].assigned)
    BY DEF CallsInv
  <2>1. CASE Neutral(call[r], call'[r]) /\ SameRow(r)
    BY <2>1, NeutralInv DEF ServedInv, CallsInv, SameRow
  <2>2. CASE Replaced(r)
    BY <2>2 DEF Replaced
  <2> QED BY <2>1, <2>2
<1>2. QueuesInv'
  <2> SUFFICES ASSUME NEW w \in Workloads
               PROVE  /\ Distinct(wl'[w].queue)
                      /\ \A n \in DOMAIN wl'[w].queue :
                            QueuedCall(call'[wl'[w].queue[n]], w)
                      /\ wl'[w].reg = "on" \/ wl'[w].queue = <<>>
    BY DEF QueuesInv
  <2>1. wl'[w].queue = wl[w].queue /\ wl[w].queue \in Seq(Requests)
    BY DEF SameQueues, TypeOK, WorkloadType
  <2>2. ASSUME NEW n \in DOMAIN wl[w].queue
        PROVE  QueuedCall(call'[wl[w].queue[n]], w)
    <3> DEFINE r == wl[w].queue[n]
    <3>1. r \in Requests
      BY <2>1
    <3>2. ~Replaced(r)
      BY DEF Replaced, Unqueued, InQueue
    <3>3. Neutral(call[r], call'[r])
      BY <3>1, <3>2
    <3>4. QueuedCall(call[r], w)
      BY DEF ServedInv, QueuesInv
    <3> QED BY <3>3, <3>4 DEF Neutral, QueuedCall
  <2> QED BY <2>1, <2>2 DEF ServedInv, QueuesInv, SameQueues
<1>3. WaitersInv'
  <2> SUFFICES ASSUME NEW r \in Requests
               PROVE  ServedCall(call'[r], wl'[call'[r].uid].queue, r)
    BY DEF WaitersInv
  <2>1. CASE Neutral(call[r], call'[r])
    <3>1. call[r].at = "waiting" => call[r].uid \in Workloads
      BY DEF ServedInv, CallsInv, CallInv, NamedCall
    <3>2. ServedCall(call[r], wl[call[r].uid].queue, r)
      BY DEF ServedInv, WaitersInv
    <3> QED BY <2>1, <3>1, <3>2 DEF ServedCall, Neutral, SameQueues
  <2>2. CASE Replaced(r)
    BY <2>2 DEF Replaced, ServedCall
  <2> QED BY <2>1, <2>2
<1> QED BY <1>1, <1>2, <1>3 DEF ServedInv

\* Steps that leave every call and every queue alone.
LEMMA IdleFrame ==
    ASSUME TypeOK, ServedInv, SameQueues, call' = call,
           \A r \in Requests : SameRow(r)
    PROVE  ServedInv'
BY Frame DEF Neutral

\* A step that leaves the Workloads alone leaves the queues alone.
LEMMA SameQueuesUnchanged ==
    ASSUME UNCHANGED wl
    PROVE  SameQueues
BY DEF SameQueues

\* rebuildLocked changes no queue and no registration.
LEMMA RebuildQueues ==
    ASSUME NEW C, NEW W \in [Workloads -> WorkloadType], NEW I,
           Rebuild(C, W, I), NEW w \in Workloads
    PROVE  wl'[w].queue = W[w].queue /\ wl'[w].reg = W[w].reg
<1> DEFINE x == RouteOf(W, Prune(C, W, I), w)
<1>1. wl'[w] = [W[w] EXCEPT !.route = x]
  BY DEF Rebuild, Routed
<1> HIDE DEF x
<1> QED BY <1>1 DEF WorkloadType

\* closeLocked changes no queue and no registration.
LEMMA ReleasedQueues ==
    ASSUME NEW W \in [Workloads -> WorkloadType], NEW C, NEW S,
           NEW w \in Workloads
    PROVE  /\ WorkloadsReleased(W, C, S)[w].queue = W[w].queue
           /\ WorkloadsReleased(W, C, S)[w].reg = W[w].reg
<1> DEFINE n == W[w].finalizing + IF W[w].reg = "on"
                THEN Cardinality({r \in S : Closes(C[r]) /\ C[r].uid = w})
                ELSE 0
<1>1. WorkloadsReleased(W, C, S)[w] = [W[w] EXCEPT !.finalizing = n]
  BY DEF WorkloadsReleased
<1> HIDE DEF n
<1> QED BY <1>1 DEF WorkloadType

\* releaseLocked closes only a call whose response is recorded.
LEMMA ReleaseLockedNeutral ==
    ASSUME NEW c \in CallType, OpenCall(c)
    PROVE  Neutral(c, ReleaseLocked(c))
BY DEF ReleaseLocked, Closes, Settled, OpenCall, Neutral, CallType

\* Two neutral changes make one.
LEMMA NeutralTrans ==
    ASSUME NEW c, NEW d, NEW e, Neutral(c, d), Neutral(d, e)
    PROVE  Neutral(c, e)
BY DEF Neutral

\* The common tail of Response, execute and ObserveBackend keeps the
\* invariant if the call it finishes is in no queue.
LEMMA ReleaseServed ==
    ASSUME TypeOK, ServedInv, NEW r \in Requests, NEW v \in CallType,
           ReleaseAndDispatch([call EXCEPT ![r] = v], r), UNCHANGED row,
           Unqueued(r), CallInv(v, row[r].assigned),
           v.at = "waiting" => v.exec \in Running \/ v.sends = 1
    PROVE  ServedInv'
<1> DEFINE C == [call EXCEPT ![r] = v]
<1>1. call' = Released(C, {r}) /\ wl' = WorkloadsReleased(wl, C, {r})
  BY DEF ReleaseAndDispatch
<1>2. C[r] = v /\ \A x \in Requests \ {r} : C[x] = call[x]
  BY DEF TypeOK
<1> HIDE DEF C
<1>3. SameQueues
  BY <1>1, ReleasedQueues DEF SameQueues, TypeOK
<1>4. /\ call'[r] = ReleaseLocked(v)
      /\ \A x \in Requests \ {r} : call'[x] = call[x]
  BY <1>1, <1>2 DEF Released
<1>5. Neutral(v, call'[r])
  BY <1>4, ReleaseLockedNeutral DEF CallInv
<1>6. Replaced(r)
  <2>1. CallInv(call'[r], row'[r].assigned)
    BY <1>5, NeutralInv
  <2> QED BY <1>5, <2>1 DEF Replaced, Neutral
<1>7. ASSUME NEW x \in Requests \ {r}
      PROVE  Neutral(call[x], call'[x]) /\ SameRow(x)
  BY <1>4 DEF Neutral, SameRow
<1> QED BY <1>3, <1>6, <1>7, Frame

\* A step that only replaces call r, which no queue holds.
LEMMA ReplaceServed ==
    ASSUME TypeOK, ServedInv, NEW r \in Requests, NEW v, SameQueues,
           call' = [call EXCEPT ![r] = v],
           \A x \in Requests \ {r} : SameRow(x),
           Unqueued(r), CallInv(v, row'[r].assigned),
           v.at = "waiting" => v.exec \in Running \/ v.sends = 1
    PROVE  ServedInv'
<1>1. call'[r] = v /\ \A x \in Requests \ {r} : call'[x] = call[x]
  BY DEF TypeOK
<1>2. Replaced(r)
  BY <1>1 DEF Replaced
<1>3. ASSUME NEW x \in Requests \ {r}
      PROVE  Neutral(call[x], call'[x]) /\ SameRow(x)
  BY <1>1 DEF Neutral
<1> QED BY <1>2, <1>3, Frame

\* Accept puts a call that is in no queue at the end of one.
LEMMA AppendQueue ==
    ASSUME NEW q \in Seq(Requests), NEW r \in Requests, Distinct(q),
           ~InQueue(r, q)
    PROVE  /\ Distinct(Append(q, r)) /\ InQueue(r, Append(q, r))
           /\ \A x \in Requests \ {r} :
                 InQueue(x, Append(q, r)) <=> InQueue(x, q)
<1> DEFINE p == Append(q, r)
<1>1. /\ p \in Seq(Requests) /\ Len(p) = Len(q) + 1
      /\ DOMAIN p = 1 .. Len(q) + 1 /\ DOMAIN q = 1 .. Len(q)
      /\ \A n \in 1 .. Len(q) : p[n] = q[n]
      /\ p[Len(q) + 1] = r /\ Len(q) \in Nat
  OBVIOUS
<1> HIDE DEF p
<1>2. Distinct(p)
  BY <1>1 DEF Distinct, InQueue
<1>3. InQueue(r, p)
  BY <1>1 DEF InQueue
<1>4. ASSUME NEW x \in Requests \ {r} PROVE InQueue(x, p) <=> InQueue(x, q)
  BY <1>1 DEF InQueue
<1> QED BY <1>2, <1>3, <1>4 DEF p

\* dispatchLocked takes the head, and nothing else, out of a queue.
LEMMA TailQueue ==
    ASSUME NEW q \in Seq(Requests), q # <<>>, Distinct(q)
    PROVE  /\ Distinct(Tail(q)) /\ ~InQueue(Head(q), Tail(q))
           /\ InQueue(Head(q), q)
           /\ \A x \in Requests \ {Head(q)} :
                 InQueue(x, Tail(q)) <=> InQueue(x, q)
<1> DEFINE p == Tail(q)
           h == Head(q)
<1>1. /\ p \in Seq(Requests) /\ Len(q) \in Nat \ {0}
      /\ DOMAIN p = 1 .. Len(q) - 1 /\ DOMAIN q = 1 .. Len(q)
      /\ \A n \in 1 .. Len(q) - 1 : p[n] = q[n + 1]
      /\ h = q[1]
  OBVIOUS
<1> HIDE DEF p, h
<1>2. Distinct(p)
  <2> SUFFICES ASSUME NEW m \in DOMAIN p, NEW n \in DOMAIN p, p[m] = p[n] PROVE m = n
    BY Zenon DEF Distinct
  <2>1. /\ m \in Int /\ n \in Int /\ m + 1 \in DOMAIN q /\ n + 1 \in DOMAIN q
        /\ p[m] = q[m + 1] /\ p[n] = q[n + 1]
    BY <1>1
  <2>2. m + 1 = n + 1
    BY Zenon, <2>1 DEF Distinct
  <2> QED BY <2>1, <2>2
<1>3. ~InQueue(h, p) /\ InQueue(h, q)
  <2>1. 1 \in DOMAIN q
    BY <1>1
  <2>2. ASSUME NEW n \in DOMAIN p, p[n] = h PROVE FALSE
    <3>1. n \in Nat \ {0} /\ n + 1 \in DOMAIN q /\ q[n + 1] = q[1]
      BY <1>1, <2>2
    <3>2. n + 1 = 1
      BY Zenon, <2>1, <3>1 DEF Distinct
    <3> QED BY <3>1, <3>2
  <2> QED BY Zenon, <1>1, <2>1, <2>2 DEF InQueue
<1>4. ASSUME NEW x \in Requests \ {h} PROVE InQueue(x, p) <=> InQueue(x, q)
  <2>1. ASSUME NEW n \in DOMAIN q, q[n] = x PROVE InQueue(x, p)
    <3>1. n - 1 \in DOMAIN p /\ p[n - 1] = x
      BY <1>1, <2>1
    <3> QED BY <3>1 DEF InQueue
  <2>2. ASSUME NEW n \in DOMAIN p, p[n] = x PROVE InQueue(x, q)
    <3>1. n + 1 \in DOMAIN q /\ q[n + 1] = x
      BY <1>1, <2>2
    <3> QED BY <3>1 DEF InQueue
  <2> QED BY <2>1, <2>2 DEF InQueue
<1> QED BY <1>2, <1>3, <1>4 DEF p, h

\* removeQueuedLocked takes the call, and nothing else, out of a queue.
LEMMA RemoveQueue ==
    ASSUME NEW q \in Seq(Requests), NEW r \in Requests, Distinct(q)
    PROVE  /\ Distinct(removeQueued(q, r)) /\ ~InQueue(r, removeQueued(q, r))
           /\ \A x \in Requests \ {r} :
                 InQueue(x, removeQueued(q, r)) <=> InQueue(x, q)
<1>1. CASE r \notin Range(q)
  BY <1>1 DEF removeQueued, Range, InQueue
<1>2. CASE r \in Range(q)
  <2> DEFINE k == CHOOSE m \in DOMAIN q : q[m] = r
             p == removeQueued(q, r)
  <2>1. k \in 1 .. Len(q) /\ q[k] = r /\ Len(q) \in Nat
    BY <1>2 DEF Range
  <2>2. p = RemoveAt(q, k)
    BY <1>2 DEF removeQueued
  <2> HIDE DEF k
  <2>3. /\ DOMAIN p = 1 .. Len(q) - 1 /\ DOMAIN q = 1 .. Len(q)
        /\ \A n \in 1 .. Len(q) - 1 : p[n] = IF n < k THEN q[n] ELSE q[n + 1]
    <3> DEFINE a == SubSeq(q, 1, k - 1)
               b == SubSeq(q, k + 1, Len(q))
    <3>1. /\ a \in Seq(Requests) /\ Len(a) = k - 1
          /\ \A n \in 1 .. k - 1 : a[n] = q[n]
      BY <2>1
    <3>2. /\ b \in Seq(Requests) /\ Len(b) = Len(q) - k
          /\ \A n \in 1 .. Len(q) - k : b[n] = q[k + n]
      BY <2>1
    <3>3. p = a \o b
      BY <2>2 DEF RemoveAt
    <3> HIDE DEF a, b, p
    <3>4. Len(p) = Len(q) - 1 /\ DOMAIN p = 1 .. Len(q) - 1
      BY <2>1, <3>1, <3>2, <3>3
    <3>5. ASSUME NEW n \in 1 .. Len(q) - 1
          PROVE  p[n] = IF n < k THEN q[n] ELSE q[n + 1]
      <4>1. CASE n < k
        BY <2>1, <3>1, <3>2, <3>3, <4>1
      <4>2. CASE ~(n < k)
        <5>1. p[n] = b[n - (k - 1)]
          BY <2>1, <3>1, <3>2, <3>3, <4>2
        <5>2. n - (k - 1) \in 1 .. Len(q) - k /\ k + (n - (k - 1)) = n + 1
          BY <2>1, <4>2
        <5> QED BY <3>2, <4>2, <5>1, <5>2
      <4> QED BY <4>1, <4>2
    <3> QED BY <3>4, <3>5
  <2> HIDE DEF p
  <2> DEFINE Old(n) == IF n < k THEN n ELSE n + 1
  <2>o. \A n \in DOMAIN p : /\ n \in Int /\ Old(n) \in DOMAIN q /\ p[n] = q[Old(n)]
                           /\ Old(n) # k
    BY <2>1, <2>3
  <2>4. Distinct(p)
    <3> SUFFICES ASSUME NEW m \in DOMAIN p, NEW n \in DOMAIN p, p[m] = p[n] PROVE m = n
      BY Zenon DEF Distinct
    <3>1. Old(m) = Old(n)
      BY Zenon, <2>o DEF Distinct
    <3> QED BY <2>1, <2>o, <3>1
  <2>5. ~InQueue(r, p)
    <3> SUFFICES ASSUME NEW n \in DOMAIN p, p[n] = r PROVE FALSE
      BY Zenon DEF InQueue
    <3>1. k \in DOMAIN q /\ q[Old(n)] = q[k]
      BY <2>1, <2>3, <2>o
    <3>2. Old(n) = k
      BY Zenon, <2>o, <3>1 DEF Distinct
    <3> QED BY Zenon, <2>o, <3>2
  <2>6. ASSUME NEW x \in Requests \ {r} PROVE InQueue(x, p) <=> InQueue(x, q)
    <3>1. ASSUME NEW n \in DOMAIN q, q[n] = x PROVE InQueue(x, p)
      <4>1. n # k
        BY <2>1, <3>1
      <4>2. CASE n < k
        <5>1. n \in DOMAIN p /\ p[n] = x
          BY <2>1, <2>3, <3>1, <4>2
        <5> QED BY <5>1 DEF InQueue
      <4>3. CASE n > k
        <5>1. n - 1 \in DOMAIN p /\ p[n - 1] = x
          BY <2>1, <2>3, <3>1, <4>3
        <5> QED BY <5>1 DEF InQueue
      <4> QED BY <2>1, <2>3, <4>1, <4>2, <4>3
    <3>2. ASSUME NEW n \in DOMAIN p, p[n] = x PROVE InQueue(x, q)
      <4>1. n \in DOMAIN q /\ n + 1 \in DOMAIN q /\ (q[n] = x \/ q[n + 1] = x)
        BY <2>1, <2>3, <3>2
      <4> QED BY <4>1 DEF InQueue
    <3> QED BY <3>1, <3>2 DEF InQueue
  <2> QED BY <2>4, <2>5, <2>6 DEF p
<1> QED BY <1>1, <1>2

\* A step that replaces call r and the queue of r's own Workload.
LEMMA QueueServed ==
    ASSUME TypeOK, ServedInv, NEW r \in Requests, NEW v, NEW w \in Workloads,
           NEW q \in Seq(Requests),
           call' = [call EXCEPT ![r] = v], UNCHANGED row,
           wl' = [wl EXCEPT ![w] = [wl[w] EXCEPT !.queue = q]],
           wl[w].reg = "on",
           call[r].uid = w, v.uid = w, CallInv(v, row[r].assigned),
           Distinct(q), InQueue(r, q) => QueuedCall(v, w),
           \A x \in Requests \ {r} : InQueue(x, q) <=> InQueue(x, wl[w].queue),
           v.at = "waiting" =>
              InQueue(r, q) \/ v.exec \in Running \/ v.sends = 1
    PROVE  ServedInv'
<1>1. call'[r] = v /\ \A x \in Requests \ {r} : call'[x] = call[x]
  BY DEF TypeOK
<1>2. /\ wl'[w].queue = q /\ wl'[w].reg = "on"
      /\ \A u \in Workloads \ {w} : wl'[u] = wl[u]
  BY DEF TypeOK, WorkloadType
<1>3. CallsInv'
  BY <1>1 DEF ServedInv, CallsInv
<1>4. QueuesInv'
  <2> SUFFICES ASSUME NEW u \in Workloads
               PROVE  /\ Distinct(wl'[u].queue)
                      /\ \A n \in DOMAIN wl'[u].queue :
                            QueuedCall(call'[wl'[u].queue[n]], u)
                      /\ wl'[u].reg = "on" \/ wl'[u].queue = <<>>
    BY DEF QueuesInv
  <2>1. CASE u = w
    <3>1. ASSUME NEW n \in DOMAIN q PROVE QueuedCall(call'[q[n]], w)
      <4>1. q[n] \in Requests /\ InQueue(q[n], q)
        BY DEF InQueue
      <4>2. CASE q[n] = r
        BY <1>1, <4>1, <4>2
      <4>3. CASE q[n] # r
        <5>1. PICK m \in DOMAIN wl[w].queue : wl[w].queue[m] = q[n]
          BY <4>1, <4>3 DEF InQueue
        <5>2. QueuedCall(call[q[n]], w)
          BY <5>1 DEF ServedInv, QueuesInv
        <5> QED BY <1>1, <4>1, <4>3, <5>2
      <4> QED BY <4>2, <4>3
    <3> QED BY <1>2, <2>1, <3>1
  <2>2. CASE u # w
    <3>1. wl'[u] = wl[u]
      BY <1>2, <2>2
    <3>2. ASSUME NEW n \in DOMAIN wl[u].queue
          PROVE  QueuedCall(call'[wl[u].queue[n]], u)
      <4>1. QueuedCall(call[wl[u].queue[n]], u) /\ wl[u].queue[n] \in Requests
        BY DEF ServedInv, QueuesInv, TypeOK, WorkloadType
      <4>2. wl[u].queue[n] # r
        BY <2>2, <4>1 DEF QueuedCall
      <4> QED BY <1>1, <4>1, <4>2
    <3> QED BY <3>1, <3>2 DEF ServedInv, QueuesInv
  <2> QED BY <2>1, <2>2
<1>5. WaitersInv'
  <2> SUFFICES ASSUME NEW x \in Requests
               PROVE  ServedCall(call'[x], wl'[call'[x].uid].queue, x)
    BY DEF WaitersInv
  <2>1. CASE x = r
    BY <1>1, <1>2, <2>1 DEF ServedCall
  <2>2. CASE x # r
    <3>1. call'[x] = call[x]
      BY <1>1, <2>2
    <3>2. ServedCall(call[x], wl[call[x].uid].queue, x)
      BY DEF ServedInv, WaitersInv
    <3>3. call[x].at = "waiting" => call[x].uid \in Workloads
      BY DEF ServedInv, CallsInv, CallInv, NamedCall
    <3>4. CASE call[x].uid = w
      BY <1>2, <2>2, <3>1, <3>2, <3>4 DEF ServedCall
    <3>5. CASE call[x].uid # w
      BY <1>2, <3>1, <3>2, <3>3, <3>5 DEF ServedCall
    <3> QED BY <3>4, <3>5
  <2> QED BY <2>1, <2>2
<1> QED BY <1>3, <1>4, <1>5 DEF ServedInv

\* Every step of the request handler keeps the invariant.
LEMMA HandlerServed ==
    ASSUME TypeOK, ServedInv, NEW r \in Requests, HandlerStep(r)
    PROVE  ServedInv'
<1> DEFINE c == call[r]
           a == row[r].assigned
<1>c. c \in CallType /\ CallInv(c, a)
  BY DEF TypeOK, ServedInv, CallsInv
<1>r. ASSUME UNCHANGED row
      PROVE  row'[r].assigned = a /\ \A x \in Requests : SameRow(x)
  BY <1>r DEF SameRow
<1>s. ASSUME UNCHANGED wl PROVE SameQueues
  BY <1>s, SameQueuesUnchanged
<1>q. ASSUME c.at # "waiting" \/ c.sends # 0 PROVE Unqueued(r)
  BY <1>q, UnqueuedCall DEF ServedInv
<1>1. ASSUME NEW w \in Workloads \cup {None}, Receive(r, w) PROVE ServedInv'
  <2> DEFINE at == IF srv.failed \/ w = None THEN "respond" ELSE "received"
             d == IF w = None THEN None ELSE wl[w].def
             v == [c EXCEPT !.at = at, !.uid = w, !.def = d]
  <2>1. /\ call' = [call EXCEPT ![r] = v] /\ c.at = "new"
        /\ UNCHANGED <<wl, row>>
    BY <1>1 DEF Receive
  <2>2. at = "respond" \/ (at = "received" /\ w \in Workloads)
    BY <1>1
  <2> HIDE DEF at, d, c
  <2>3. /\ v.at = at /\ v.uid = w /\ v.exec = c.exec /\ v.sends = c.sends
        /\ v.live = c.live /\ v.assignment = c.assignment
        /\ v.responseRecorded = c.responseRecorded /\ v.close = c.close
    BY <1>c DEF CallType
  <2> HIDE DEF v, a
  <2>4. CallInv(v, a)
    BY <1>c, <2>1, <2>2, <2>3
       DEF CallInv, FreshCall, OpenCall, NamedCall, UnsentCall, Running
  <2> QED BY <1>q, <1>r, <1>s, <2>1, <2>2, <2>3, <2>4, ReplaceServed
<1>a. ASSUME NEW at, call' = [call EXCEPT ![r] = [c EXCEPT !.at = at]],
             UNCHANGED <<wl, row>>,
             \/ c.at = "received" /\ at = "validated"
             \/ c.at \in {"received", "validated"} /\ at = "respond"
             \/ c.at = "waiting" /\ c.sends > 0 /\ at = "respond"
             \/ c.at = "respond" /\ at = "done"
      PROVE  ServedInv'
  <2> DEFINE v == [c EXCEPT !.at = at]
  <2> HIDE DEF c
  <2>1. /\ v.at = at /\ v.uid = c.uid /\ v.exec = c.exec /\ v.sends = c.sends
        /\ v.live = c.live /\ v.assignment = c.assignment
        /\ v.responseRecorded = c.responseRecorded /\ v.close = c.close
    BY <1>c DEF CallType
  <2>2. call' = [call EXCEPT ![r] = v]
    BY <1>a
  <2> HIDE DEF v, a
  <2>3. CallInv(v, a)
    BY <1>a, <1>c, <2>1
       DEF CallInv, FreshCall, OpenCall, NamedCall, UnsentCall
  <2>4. Unqueued(r)
    BY <1>a, <1>q, <1>c DEF CallType
  <2> QED BY <1>a, <1>r, <1>s, <2>1, <2>2, <2>3, <2>4, ReplaceServed
<1>2. CASE Validate(r)
  <2>1. PICK at \in {"validated", "respond"} :
          call' = [call EXCEPT ![r] = [c EXCEPT !.at = at]]
    BY <1>2 DEF Validate
  <2> QED BY <1>2, <1>a, <2>1 DEF Validate
<1>3. CASE Accept(r)
  <2> DEFINE w == c.uid
             q == Append(wl[w].queue, r)
             v == [c EXCEPT !.at = "waiting", !.live = TRUE]
  <2>1. /\ call' = [call EXCEPT ![r] = v]
        /\ wl' = [wl EXCEPT ![w] = [wl[w] EXCEPT !.queue = q]]
        /\ wl[w].reg = "on" /\ c.at = "validated" /\ UNCHANGED row
    BY <1>3 DEF Accept, Admissible
  <2>2. w \in Workloads
    BY <1>c, <2>1 DEF CallInv, NamedCall
  <2>3. wl[w].queue \in Seq(Requests) /\ q \in Seq(Requests)
    BY <2>2 DEF TypeOK, WorkloadType
  <2>4. ~InQueue(r, wl[w].queue)
    BY <1>q, <2>1, <2>2 DEF Unqueued
  <2>5. /\ Distinct(q) /\ InQueue(r, q)
        /\ \A x \in Requests \ {r} : InQueue(x, q) <=> InQueue(x, wl[w].queue)
    BY <2>2, <2>3, <2>4, AppendQueue DEF ServedInv, QueuesInv
  <2>u. call[r].uid = w
    OBVIOUS
  <2> HIDE DEF w, q
  <2>6. /\ v.at = "waiting" /\ v.uid = c.uid /\ v.exec = c.exec
        /\ v.sends = c.sends /\ v.assignment = c.assignment
        /\ v.responseRecorded = c.responseRecorded /\ v.close = c.close
    BY <1>c DEF CallType
  <2>7. v.uid = w
    BY <2>6, <2>u
  <2> HIDE DEF v, c, a
  <2>8. CallInv(v, a) /\ QueuedCall(v, w)
    BY <1>c, <2>1, <2>2, <2>6, <2>7
       DEF CallInv, FreshCall, OpenCall, NamedCall, UnsentCall, QueuedCall
  <2>9. CallInv(v, row[r].assigned)
    BY <2>8 DEF a
  <2> QED
    BY <2>1, <2>2, <2>3, <2>5, <2>u, <2>7, <2>8, <2>9, QueueServed
<1>4. CASE Reject(r)
  BY <1>4, <1>a DEF Reject
<1>5. CASE WaitReply(r)
  BY <1>5, <1>a DEF WaitReply
<1>6. CASE WaitDone(r)
  <2> DEFINE w == c.uid
             b == c.backendDone \/ c.assignment = None
             t == c.transportDone \/ c.assignment = None
             v == [c EXCEPT !.at = "respond", !.backendDone = b,
                            !.transportDone = t, !.canceled = TRUE]
             q == IF c.assignment = None
                  THEN removeQueued(wl[w].queue, r) ELSE wl[w].queue
  <2>1. /\ call' = [call EXCEPT ![r] = v]
        /\ wl' = [wl EXCEPT ![w] = [wl[w] EXCEPT !.queue = q]]
        /\ c.at = "waiting" /\ UNCHANGED row
    BY <1>6 DEF WaitDone
  <2>2. w \in Workloads
    BY <1>c, <2>1 DEF CallInv, NamedCall
  <2>3. wl[w].queue \in Seq(Requests) /\ Distinct(wl[w].queue)
    BY <2>2 DEF TypeOK, WorkloadType, ServedInv, QueuesInv
  <2>4. q \in Seq(Requests)
    BY <2>3, RemoveQueuedType
  <2>5. /\ Distinct(q) /\ ~InQueue(r, q)
        /\ \A x \in Requests \ {r} : InQueue(x, q) <=> InQueue(x, wl[w].queue)
    <3>1. CASE c.assignment = None
      BY <2>3, <3>1, RemoveQueue
    <3>2. CASE c.assignment # None
      <4>1. Unqueued(r)
        BY <3>2, UnqueuedCall DEF ServedInv
      <4> QED BY <2>2, <2>3, <3>2, <4>1 DEF Unqueued
    <3> QED BY <3>1, <3>2
  <2>u. call[r].uid = w
    OBVIOUS
  <2>6. wl[w].reg = "on" \/ wl[w].queue = <<>>
    BY <2>2 DEF ServedInv, QueuesInv
  <2> HIDE DEF w, q, b, t
  <2>7. /\ v.at = "respond" /\ v.uid = c.uid /\ v.exec = c.exec
        /\ v.sends = c.sends /\ v.assignment = c.assignment
        /\ v.responseRecorded = c.responseRecorded /\ v.close = c.close
    BY <1>c DEF CallType
  <2>8. v.uid = w
    BY <2>7, <2>u
  <2> HIDE DEF v, c, a
  <2>9. CallInv(v, a)
    BY <1>c, <2>1, <2>2, <2>7, <2>8
       DEF CallInv, FreshCall, OpenCall, NamedCall, UnsentCall
  <2>10. CallInv(v, row[r].assigned)
    BY <2>9 DEF a
  <2>11. CASE wl[w].reg = "on"
    BY <2>1, <2>2, <2>4, <2>5, <2>u, <2>7, <2>8, <2>10, <2>11, QueueServed
  <2>12. CASE wl[w].queue = <<>>
    <3>1. q = <<>>
      <4>1. \A x \in Requests : ~InQueue(x, q)
        BY <2>5, <2>12 DEF InQueue
      <4> QED BY <2>4, <4>1 DEF InQueue
    <3>2. SameQueues
      BY <2>1, <2>2, <2>12, <3>1 DEF SameQueues, TypeOK, WorkloadType
    <3>3. Unqueued(r)
      BY <2>12, <2>u DEF Unqueued, InQueue, ServedInv, QueuesInv, QueuedCall
    <3> QED BY <1>r, <2>1, <2>7, <2>9, <3>2, <3>3, ReplaceServed
  <2> QED BY <2>6, <2>11, <2>12
<1>7. CASE ResponseLive(r)
  <2>1. CASE srv.failed
    BY <1>7, <1>a, <2>1 DEF ResponseLive
  <2>2. CASE ~srv.failed
    <3> DEFINE v == [c EXCEPT !.at = "done", !.responseRecorded = TRUE]
    <3>1. /\ ReleaseAndDispatch([call EXCEPT ![r] = v], r)
          /\ c.at = "respond" /\ UNCHANGED row
      BY <1>7, <2>2 DEF ResponseLive
    <3> HIDE DEF c
    <3>2. /\ v.at = "done" /\ v.uid = c.uid /\ v.exec = c.exec
          /\ v.sends = c.sends /\ v \in CallType
      BY <1>c DEF CallType, Places
    <3> HIDE DEF v, a
    <3>3. CallInv(v, a)
      BY <1>c, <3>1, <3>2
         DEF CallInv, FreshCall, OpenCall, NamedCall, UnsentCall
    <3>4. CallInv(v, row[r].assigned)
      BY <3>3 DEF a
    <3>5. Unqueued(r)
      BY <1>q, <3>1
    <3> QED BY <3>1, <3>2, <3>4, <3>5, ReleaseServed
  <2> QED BY <2>1, <2>2
<1>f. ASSUME NEW n, NEW w,
             wl' = [wl EXCEPT ![w] = [wl[w] EXCEPT !.finalizing = n]]
      PROVE  SameQueues
  BY <1>f DEF SameQueues, TypeOK, WorkloadType
<1>8. CASE ResponseRejected(r)
  <2>1. CASE srv.failed
    BY <1>8, <1>a, <2>1 DEF ResponseRejected
  <2>2. CASE ~srv.failed
    <3> DEFINE v == [c EXCEPT !.at = "done", !.responseRecorded = TRUE,
                              !.close = "closing"]
    <3>1. /\ call' = [call EXCEPT ![r] = v]
          /\ c.at = "respond" /\ UNCHANGED row
      BY <1>8, <2>2 DEF ResponseRejected
    <3>s. SameQueues
      BY <1>8, <1>s, <1>f, <2>2 DEF ResponseRejected
    <3> HIDE DEF c
    <3>2. /\ v.at = "done" /\ v.uid = c.uid /\ v.exec = c.exec
          /\ v.sends = c.sends
      BY <1>c DEF CallType
    <3> HIDE DEF v, a
    <3>3. CallInv(v, a)
      BY <1>c, <3>1, <3>2
         DEF CallInv, FreshCall, OpenCall, NamedCall, UnsentCall
    <3> QED BY <1>q, <1>r, <3>1, <3>2, <3>3, <3>s, ReplaceServed
  <2> QED BY <2>1, <2>2
<1>9. CASE RequestClosed(r)
  <2> DEFINE v == [c EXCEPT !.close = "rowed"]
  <2>1. call' = [call EXCEPT ![r] = v] /\ c.close = "closing" /\ UNCHANGED wl
    BY <1>9 DEF RequestClosed
  <2>2. \A x \in Requests : row'[x].assigned = row[x].assigned
    BY <1>9 DEF RequestClosed, TypeOK, RowType
  <2>3. c.at = "done"
    BY <1>c, <2>1 DEF CallInv, OpenCall
  <2> HIDE DEF c
  <2>4. /\ v.at = "done" /\ v.uid = c.uid /\ v.exec = c.exec
        /\ v.sends = c.sends
    BY <1>c, <2>3 DEF CallType
  <2> HIDE DEF v, a
  <2>5. CallInv(v, a)
    BY <1>c, <2>3, <2>4
       DEF CallInv, FreshCall, OpenCall, NamedCall, UnsentCall
  <2>6. CallInv(v, row'[r].assigned) /\ \A x \in Requests : SameRow(x)
    BY <2>2, <2>5 DEF a, SameRow
  <2> QED BY <1>q, <1>s, <2>1, <2>3, <2>4, <2>6, ReplaceServed
<1>10. CASE Finalized(r)
  <2> DEFINE v == RowOnly(c)
  <2>1. call' = [call EXCEPT ![r] = v] /\ c.close = "rowed" /\ UNCHANGED row
    BY <1>10 DEF Finalized
  <2>2. SameQueues
    BY <1>10, <1>s, <1>f DEF Finalized
  <2>3. c.at = "done"
    BY <1>c, <2>1 DEF CallInv, OpenCall
  <2> HIDE DEF c
  <2>4. /\ v.at = "done" /\ v.uid = c.uid /\ v.exec = "none" /\ v.sends = 0
    BY DEF RowOnly, NewCall
  <2> HIDE DEF v, a
  <2>5. CallInv(v, a)
    BY <1>c, <2>3, <2>4
       DEF CallInv, FreshCall, OpenCall, NamedCall, UnsentCall, Running
  <2> QED BY <1>q, <1>r, <2>1, <2>2, <2>3, <2>4, <2>5, ReplaceServed
<1> QED
  BY <1>1, <1>2, <1>3, <1>4, <1>5, <1>6, <1>7, <1>8, <1>9, <1>10 DEF HandlerStep

\* Every step of dispatchLocked keeps the invariant.
LEMMA DispatchServed ==
    ASSUME TypeOK, ServedInv, DispatchStep
    PROVE  ServedInv'
<1>h. ASSUME NEW w \in Workloads, wl[w].queue # <<>>
      PROVE  LET q == wl[w].queue
                 r == Head(q) IN
             /\ q \in Seq(Requests) /\ Tail(q) \in Seq(Requests)
             /\ r \in Requests /\ call[r] \in CallType
             /\ CallInv(call[r], row[r].assigned) /\ QueuedCall(call[r], w)
             /\ wl[w].reg = "on" /\ Distinct(Tail(q)) /\ ~InQueue(r, Tail(q))
             /\ \A x \in Requests \ {r} : InQueue(x, Tail(q)) <=> InQueue(x, q)
  <2> DEFINE q == wl[w].queue
             r == Head(q)
  <2>1. q \in Seq(Requests) /\ Tail(q) \in Seq(Requests) /\ r \in Requests
    BY <1>h DEF TypeOK, WorkloadType
  <2>2. Distinct(q) /\ wl[w].reg = "on"
    BY <1>h DEF ServedInv, QueuesInv
  <2>3. /\ Distinct(Tail(q)) /\ ~InQueue(r, Tail(q)) /\ InQueue(r, q)
        /\ \A x \in Requests \ {r} : InQueue(x, Tail(q)) <=> InQueue(x, q)
    BY <1>h, <2>1, <2>2, TailQueue
  <2>4. QueuedCall(call[r], w)
    BY <2>3 DEF InQueue, ServedInv, QueuesInv
  <2> QED BY <2>1, <2>2, <2>3, <2>4 DEF TypeOK, ServedInv, CallsInv
<1>1. ASSUME NEW w \in Workloads, DispatchExpired(w) PROVE ServedInv'
  <2> DEFINE r == Head(wl[w].queue)
             c == call[r]
             q == Tail(wl[w].queue)
             n == c.sends + 1
             v == [c EXCEPT !.backendDone = TRUE, !.transportDone = TRUE,
                            !.sends = n]
  <2>1. /\ call' = [call EXCEPT ![r] = v]
        /\ wl' = [wl EXCEPT ![w] = [wl[w] EXCEPT !.queue = q]]
        /\ UNCHANGED row
    BY <1>1 DEF DispatchExpired
  <2>2. /\ q \in Seq(Requests) /\ r \in Requests /\ c \in CallType
        /\ CallInv(c, row[r].assigned) /\ QueuedCall(c, w)
        /\ wl[w].reg = "on" /\ Distinct(q) /\ ~InQueue(r, q)
        /\ \A x \in Requests \ {r} : InQueue(x, q) <=> InQueue(x, wl[w].queue)
    BY <1>1, <1>h DEF DispatchExpired
  <2>3. n = 1 /\ call[r].uid = w
    BY <2>2 DEF QueuedCall
  <2> HIDE DEF c, n
  <2>4. /\ v.at = c.at /\ v.uid = c.uid /\ v.exec = c.exec
        /\ v.sends = n /\ v.assignment = c.assignment /\ v.live = c.live
        /\ v.responseRecorded = c.responseRecorded /\ v.close = c.close
    BY <2>2 DEF CallType
  <2> HIDE DEF v, q, r
  <2>5. CallInv(v, row[r].assigned) /\ v.uid = w /\ v.sends = 1
    BY <2>2, <2>3, <2>4 DEF CallInv, FreshCall, OpenCall, NamedCall, UnsentCall,
                            QueuedCall, Running
  <2> QED BY <2>1, <2>2, <2>3, <2>5, QueueServed
<1>2. ASSUME NEW w \in Workloads, NEW i \in Instances, DispatchAssign(w, i)
      PROVE  ServedInv'
  <2> DEFINE r == Head(wl[w].queue)
             c == call[r]
             q == Tail(wl[w].queue)
             v == [c EXCEPT !.assignment = i, !.instance = i,
                            !.exec = "spawned"]
  <2>1. /\ call' = [call EXCEPT ![r] = v]
        /\ wl' = [wl EXCEPT ![w] = [wl[w] EXCEPT !.queue = q]]
        /\ UNCHANGED row
    BY <1>2 DEF DispatchAssign
  <2>2. /\ q \in Seq(Requests) /\ r \in Requests /\ c \in CallType
        /\ CallInv(c, row[r].assigned) /\ QueuedCall(c, w)
        /\ wl[w].reg = "on" /\ Distinct(q) /\ ~InQueue(r, q)
        /\ \A x \in Requests \ {r} : InQueue(x, q) <=> InQueue(x, wl[w].queue)
    BY <1>2, <1>h DEF DispatchAssign
  <2>3. call[r].uid = w
    BY <2>2 DEF QueuedCall
  <2> HIDE DEF c
  <2>4. /\ v.at = c.at /\ v.uid = c.uid /\ v.exec = "spawned"
        /\ v.sends = c.sends /\ v.live = c.live
        /\ v.responseRecorded = c.responseRecorded /\ v.close = c.close
    BY <2>2 DEF CallType
  <2> HIDE DEF v, q, r
  <2>5. CallInv(v, row[r].assigned) /\ v.uid = w /\ v.exec \in Running
    BY <2>2, <2>3, <2>4 DEF CallInv, FreshCall, OpenCall, NamedCall, UnsentCall,
                            QueuedCall, Running
  <2> QED BY <2>1, <2>2, <2>3, <2>5, QueueServed
<1>3. CASE DispatchEnd
  BY <1>3, IdleFrame, SameQueuesUnchanged DEF DispatchEnd, SameRow
<1> QED BY <1>1, <1>2, <1>3 DEF DispatchStep

\* Every step of execute keeps the invariant.
LEMMA ExecuteServed ==
    ASSUME TypeOK, ServedInv, NEW r \in Requests, ExecuteStep(r)
    PROVE  ServedInv'
<1> DEFINE c == call[r]
<1>c. c \in CallType /\ CallInv(c, row[r].assigned)
  BY DEF TypeOK, ServedInv, CallsInv
<1>q. ASSUME c.exec \in Running PROVE Unqueued(r)
  BY <1>q, UnqueuedCall DEF ServedInv, Running
<1>e. ASSUME NEW x \in Running,
             call' = [call EXCEPT ![r] = [c EXCEPT !.exec = x]],
             c.exec \in Running, UNCHANGED wl,
             \A y \in Requests \ {r} : SameRow(y)
      PROVE  ServedInv'
  <2> DEFINE v == [c EXCEPT !.exec = x]
             b == row'[r].assigned
  <2>1. call' = [call EXCEPT ![r] = v]
    BY <1>e
  <2>2. Unqueued(r) /\ SameQueues
    BY <1>e, <1>q, SameQueuesUnchanged
  <2> HIDE DEF c
  <2>3. /\ v.at = c.at /\ v.uid = c.uid /\ v.exec = x /\ v.sends = c.sends
        /\ v.responseRecorded = c.responseRecorded /\ v.close = c.close
    BY <1>c DEF CallType
  <2> HIDE DEF v, b
  <2>4. CallInv(v, b)
    BY <1>c, <1>e, <2>3
       DEF CallInv, FreshCall, OpenCall, NamedCall, UnsentCall, Running
  <2>5. CallInv(v, row'[r].assigned)
    BY <2>4 DEF b
  <2> QED BY <1>e, <2>1, <2>2, <2>3, <2>5, ReplaceServed
<1>1. CASE ExecuteBegin(r)
  <2>1. PICK x \in Running : call' = [call EXCEPT ![r] = [c EXCEPT !.exec = x]]
    BY <1>1 DEF ExecuteBegin, Running
  <2>2. \A y \in Requests \ {r} : SameRow(y)
    BY <1>1 DEF ExecuteBegin, SameRow, TypeOK
  <2> QED BY <1>1, <1>e, <2>1, <2>2 DEF ExecuteBegin, Running
<1>2. CASE ExchangeComplete(r)
  BY <1>2, <1>e DEF ExchangeComplete, Running, SameRow
<1>3. CASE ExchangeBroken(r)
  BY <1>3, <1>e DEF ExchangeBroken, Running, SameRow
<1>4. CASE ExecuteEnd(r)
  <2> DEFINE x == c.exec
             a == IF x = "unlogged" THEN None ELSE c.assignment
             p == c.progress \/ (x = "complete" /\ phys[r].st = "ran")
             b == c.backendDone \/ x # "broken"
             n == c.sends + 1
             v == [c EXCEPT !.exec = "over", !.assignment = a,
                            !.transportDone = TRUE, !.progress = p,
                            !.backendDone = b, !.sends = n]
  <2>1. /\ a \in Instances \cup {None} /\ p \in BOOLEAN /\ b \in BOOLEAN
        /\ n \in Nat
    BY <1>c DEF CallType
  <2>2. /\ ReleaseAndDispatch([call EXCEPT ![r] = v], r) /\ UNCHANGED row
        /\ c.exec \in Running
    BY <1>4 DEF ExecuteEnd, Running
  <2>3. n = 1
    BY <1>c, <2>2 DEF CallInv, UnsentCall
  <2>4. Unqueued(r)
    BY <1>q, <2>2
  <2> HIDE DEF c, a, p, b, n
  <2>5. v \in CallType
    BY ZenonT(60), <1>c, <2>1 DEF CallType, Executions
  <2>6. /\ v.at = c.at /\ v.uid = c.uid /\ v.exec = "over" /\ v.sends = n
        /\ v.responseRecorded = c.responseRecorded /\ v.close = c.close
    BY <1>c DEF CallType
  <2> HIDE DEF v
  <2>7. CallInv(v, row[r].assigned)
    BY <1>c, <2>2, <2>3, <2>6
       DEF CallInv, FreshCall, OpenCall, NamedCall, UnsentCall, Running
  <2> QED BY <2>2, <2>3, <2>4, <2>5, <2>6, <2>7, ReleaseServed
<1> QED BY <1>1, <1>2, <1>3, <1>4 DEF ExecuteStep

\* Executors, clients and the log writer do not touch calls and queues.
LEMMA WorldServed ==
    ASSUME TypeOK, ServedInv, WorldStep
    PROVE  ServedInv'
<1>1. call' = call /\ wl' = wl
  BY DEF WorldStep, NativeAdmit, NativeFinish, ClientLeaves, DeadlinePasses,
         WriteRow, NativeExit, LogFails
<1>2. ASSUME NEW x \in Requests PROVE SameRow(x)
  <2>1. row' = row \/ \E r \in Requests : WriteRow(r)
    BY DEF WorldStep, NativeAdmit, NativeFinish, ClientLeaves, DeadlinePasses,
           NativeExit, LogFails
  <2>2. CASE row' = row
    BY <2>2 DEF SameRow
  <2>3. ASSUME NEW r \in Requests, WriteRow(r) PROVE SameRow(x)
    BY SMTT(30), <2>3 DEF WriteRow, SameRow, TypeOK, RowType
  <2> QED BY <2>1, <2>2, <2>3
<1> QED BY <1>1, <1>2, IdleFrame, SameQueuesUnchanged

\* Backend evidence for the calls in S, then the releases it allows.
LEMMA EvidenceServed ==
    ASSUME TypeOK, ServedInv, NEW S \in SUBSET Requests,
           NEW C,
           C = [r \in Requests |-> IF r \in S
                  THEN [call[r] EXCEPT !.backendDone = TRUE] ELSE call[r]],
           call' = Released(C, S), SameQueues, UNCHANGED row
    PROVE  ServedInv'
<1>1. ASSUME NEW r \in Requests PROVE Neutral(call[r], call'[r]) /\ SameRow(r)
  <2> DEFINE c == call[r]
             d == [c EXCEPT !.backendDone = TRUE]
  <2>1. c \in CallType /\ CallInv(c, row[r].assigned)
    BY DEF TypeOK, ServedInv, CallsInv
  <2>2. call'[r] = c \/ call'[r] = ReleaseLocked(d)
    BY DEF Released
  <2> HIDE DEF c
  <2>3. d \in CallType /\ Neutral(c, d)
    BY <2>1 DEF CallType, Neutral
  <2>4. OpenCall(d)
    BY <2>1, <2>3 DEF CallInv, OpenCall, Neutral
  <2> HIDE DEF d
  <2>5. Neutral(c, ReleaseLocked(d))
    BY <2>3, <2>4, ReleaseLockedNeutral, NeutralTrans
  <2>6. Neutral(c, c)
    BY DEF Neutral
  <2>7. Neutral(c, call'[r])
    BY <2>2, <2>5, <2>6
  <2> QED BY <2>7 DEF c, SameRow
<1> QED BY <1>1, Frame

\* publishLedger keeps the invariant.
LEMMA PublishLedgerServed ==
    ASSUME TypeOK, ServedInv, NEW L, PublishLedger(L)
    PROVE  ServedInv'
<1> DEFINE S == {r \in Requests : Absent(L, r)}
           C == [r \in Requests |-> IF r \in S
                   THEN [call[r] EXCEPT !.backendDone = TRUE] ELSE call[r]]
           I == [i \in Instances |-> Installed(L, i)]
           W == WorkloadsReleased(wl, C, S)
<1>1. /\ call' = Released(C, S)
      /\ Rebuild(Released(C, S), W, InstancesReleased(I, C, S))
      /\ UNCHANGED row
  BY DEF PublishLedger
<1>2. S \in SUBSET Requests
  OBVIOUS
<1>3. W \in [Workloads -> WorkloadType]
  <2> HIDE DEF S, C
  <2> QED BY <1>2, WorkloadsReleasedType DEF TypeOK
<1>4. \A w \in Workloads : W[w].queue = wl[w].queue /\ W[w].reg = wl[w].reg
  <2> HIDE DEF S, C
  <2> QED BY ReleasedQueues DEF TypeOK
<1>5. SameQueues
  <2> HIDE DEF W, S, C, I
  <2> QED BY <1>1, <1>3, <1>4, RebuildQueues DEF SameQueues
<1> QED
  <2> HIDE DEF S
  <2> QED BY <1>1, <1>2, <1>5, EvidenceServed

\* A step that rebuilds routes over the same queues keeps the invariant.
LEMMA RebuildServed ==
    ASSUME TypeOK, ServedInv, NEW W \in [Workloads -> WorkloadType], NEW I,
           Rebuild(call, W, I), UNCHANGED <<call, row>>,
           \A w \in Workloads :
               /\ W[w].queue = wl[w].queue
               /\ W[w].reg = wl[w].reg \/ W[w].reg = "on" \/ wl[w].queue = <<>>
    PROVE  ServedInv'
<1>1. SameQueues
  BY RebuildQueues DEF SameQueues
<1> QED BY <1>1, IdleFrame DEF SameRow

\* A step that leaves calls, Workloads and rows alone keeps the invariant.
LEMMA UnchangedServed ==
    ASSUME TypeOK, ServedInv, UNCHANGED <<call, wl, row>>
    PROVE  ServedInv'
BY IdleFrame, SameQueuesUnchanged DEF SameRow

\* Every step of the observer keeps the invariant.
LEMMA ObserverServed ==
    ASSUME TypeOK, ServedInv, ObserverStep
    PROVE  ServedInv'
<1>w. wl \in [Workloads -> WorkloadType]
  BY DEF TypeOK
<1>1. ASSUME NEW r \in Requests, NEW finished \in BOOLEAN,
             ObserveBackend(r, finished)
      PROVE  ServedInv'
  <2> DEFINE c == call[r]
             p == c.progress \/ ~c.backendDone
             b == c.backendDone \/ finished
             v == [c EXCEPT !.progress = p, !.backendDone = b]
  <2>1. /\ c \in CallType /\ CallInv(c, row[r].assigned)
        /\ p \in BOOLEAN /\ b \in BOOLEAN
    BY DEF TypeOK, ServedInv, CallsInv
  <2>2. /\ \/ call' = [call EXCEPT ![r] = v] /\ UNCHANGED wl
           \/ ReleaseAndDispatch([call EXCEPT ![r] = v], r)
        /\ UNCHANGED row /\ c.assignment # None
    BY <1>1 DEF ObserveBackend
  <2>3. Unqueued(r)
    BY <2>2, UnqueuedCall DEF ServedInv
  <2>4. c.at = "waiting" => c.exec \in Running \/ c.sends = 1
    <3>1. ServedCall(c, wl[c.uid].queue, r)
      BY DEF ServedInv, WaitersInv
    <3>2. c.at = "waiting" => c.uid \in Workloads
      BY <2>1 DEF CallInv, NamedCall
    <3> QED BY <2>3, <3>1, <3>2 DEF ServedCall, Unqueued
  <2> HIDE DEF c, p, b
  <2>5. v \in CallType /\ Neutral(c, v)
    BY <2>1 DEF CallType, Neutral
  <2> HIDE DEF v
  <2>6. CallInv(v, row[r].assigned)
    BY <2>1, <2>5, NeutralInv
  <2>7. v.at = "waiting" => v.exec \in Running \/ v.sends = 1
    BY <2>4, <2>5 DEF Neutral
  <2>8. CASE ReleaseAndDispatch([call EXCEPT ![r] = v], r)
    BY <2>2, <2>3, <2>5, <2>6, <2>7, <2>8, ReleaseServed
  <2>9. CASE call' = [call EXCEPT ![r] = v] /\ UNCHANGED wl
    BY <2>2, <2>3, <2>6, <2>7, <2>9, ReplaceServed, SameQueuesUnchanged
       DEF SameRow
  <2> QED BY <2>2, <2>8, <2>9
<1>2. ASSUME NEW i \in Instances, ConfirmInstanceStopped(i) PROVE ServedInv'
  <2> DEFINE S == {r \in Requests : /\ call[r].live /\ call[r].assignment = i
                                    /\ ~call[r].backendDone}
             C == [r \in Requests |-> IF r \in S
                     THEN [call[r] EXCEPT !.backendDone = TRUE] ELSE call[r]]
             W == WorkloadsReleased(wl, C, S)
  <2>1. PICK I : /\ call' = Released(C, S)
                 /\ Rebuild(Released(C, S), W, I)
                 /\ UNCHANGED row
    BY <1>2 DEF ConfirmInstanceStopped
  <2>2. S \in SUBSET Requests
    OBVIOUS
  <2>3. W \in [Workloads -> WorkloadType]
    <3> HIDE DEF S, C
    <3> QED BY <2>2, <1>w, WorkloadsReleasedType
  <2>4. \A w \in Workloads : W[w].queue = wl[w].queue /\ W[w].reg = wl[w].reg
    <3> HIDE DEF S, C
    <3> QED BY <1>w, ReleasedQueues
  <2>5. SameQueues
    <3> HIDE DEF W, S, C
    <3> QED BY <2>1, <2>3, <2>4, RebuildQueues DEF SameQueues
  <2> QED
    <3> HIDE DEF S
    <3> QED BY <2>1, <2>2, <2>5, EvidenceServed
<1>3. ASSUME NEW i \in Instances, DisableInstance(i) PROVE ServedInv'
  BY <1>3, <1>w, RebuildServed DEF DisableInstance
<1>4. ASSUME NEW i \in Instances,
             ProbeBegin(i) \/ ProbeRead(i) \/ RetirePodBegin(i)
      PROVE  ServedInv'
  BY <1>4, UnchangedServed DEF ProbeBegin, ProbeRead, RetirePodBegin
<1>5. ASSUME NEW i \in Instances,
             PublishProbe(i) \/ PublishUnavailable(i) \/ PublishAgain(i)
      PROVE  ServedInv'
  <2>1. PICK L : PublishLedger(L)
    BY <1>5 DEF PublishProbe, PublishUnavailable, PublishAgain
  <2> QED BY <2>1, PublishLedgerServed
<1>6. ASSUME NEW i \in Instances, RetirePodEnd(i) PROVE ServedInv'
  <2>1. CASE Rebuild(call, wl, [ins EXCEPT ![i] = NewInstance])
    BY <1>6, <1>w, <2>1, RebuildServed DEF RetirePodEnd
  <2>2. CASE UNCHANGED wl
    BY <1>6, <2>2, UnchangedServed DEF RetirePodEnd
  <2> QED BY <1>6, <2>1, <2>2 DEF RetirePodEnd
<1>7. ASSUME NEW n \in Nodes, DetachNodeBegin(n) PROVE ServedInv'
  BY <1>7, <1>w, RebuildServed DEF DetachNodeBegin
<1>8. ASSUME NEW n \in Nodes, DetachNodeEnd(n) PROVE ServedInv'
  <2>1. CASE Rebuild(call, wl, Unready(n, TRUE))
    BY <1>8, <1>w, <2>1, RebuildServed DEF DetachNodeEnd
  <2>2. CASE UNCHANGED wl
    BY <1>8, <2>2, UnchangedServed DEF DetachNodeEnd
  <2> QED BY <1>8, <2>1, <2>2 DEF DetachNodeEnd
<1> QED
  BY <1>1, <1>2, <1>3, <1>4, <1>5, <1>6, <1>7, <1>8 DEF ObserverStep

\* Every management step keeps the invariant; Forget finds an empty queue.
LEMMA ManagementServed ==
    ASSUME TypeOK, ServedInv, ManagementStep
    PROVE  ServedInv'
<1> SUFFICES ASSUME NEW w \in Workloads,
                    \/ \E d \in Definitions : PublishBegin(w, d)
                    \/ PublishEnd(w) \/ OpenBegin(w) \/ OpenEnd(w)
                    \/ ResumeBegin(w) \/ ResumeEnd(w) \/ StopAdmission(w)
                    \/ DetachBegin(w) \/ DetachEnd(w)
                    \/ ForgetBegin(w) \/ ForgetEnd(w)
             PROVE  ServedInv'
  BY DEF ManagementStep
<1>w. wl[w] \in WorkloadType /\ wl \in [Workloads -> WorkloadType]
  BY DEF TypeOK
<1>v. ASSUME NEW v, wl' = [wl EXCEPT ![w] = v], v.queue = wl[w].queue,
             v.reg = wl[w].reg, UNCHANGED <<call, row>>
      PROVE  ServedInv'
  <2>1. SameQueues
    BY <1>v, <1>w DEF SameQueues
  <2> QED BY <1>v, <2>1, IdleFrame DEF SameRow
<1>1. CASE \/ \E d \in Definitions : PublishBegin(w, d)
           \/ OpenBegin(w) \/ ResumeBegin(w) \/ DetachBegin(w) \/ ForgetBegin(w)
  BY <1>1, UnchangedServed
     DEF PublishBegin, OpenBegin, ResumeBegin, DetachBegin, ForgetBegin
<1>2. CASE PublishEnd(w)
  <2> DEFINE d == op["mgmt"].def
  <2>1. CASE ~Publishable(w, d)
    BY <1>2, <2>1, UnchangedServed DEF PublishEnd
  <2>2. CASE Publishable(w, d)
    <3>1. PICK restart \in BOOLEAN :
            Rebuild(call, [wl EXCEPT ![w] =
                    [wl[w] EXCEPT !.reg = "on", !.def = d, !.stopped = TRUE,
                              !.detached = FALSE, !.restartDrain = restart]],
                    ins)
      BY <1>2, <2>2 DEF PublishEnd
    <3> DEFINE v == [wl[w] EXCEPT !.reg = "on", !.def = d, !.stopped = TRUE,
                              !.detached = FALSE, !.restartDrain = restart]
               W == [wl EXCEPT ![w] = v]
    <3>2. d \in Definitions \cup {None}
      BY DEF TypeOK, OpType, Threads
    <3>3. Rebuild(call, W, ins) /\ UNCHANGED <<call, row>>
      BY <1>2, <3>1 DEF PublishEnd
    <3> HIDE DEF d
    <3>4. v \in WorkloadType /\ v.queue = wl[w].queue /\ v.reg = "on"
      BY <1>w, <3>2 DEF WorkloadType
    <3> HIDE DEF v
    <3>5. W \in [Workloads -> WorkloadType]
      BY <3>4, WorkloadUpdateType
    <3>6. \A u \in Workloads : /\ W[u].queue = wl[u].queue
                               /\ W[u].reg = wl[u].reg \/ W[u].reg = "on"
      BY <1>w, <3>4
    <3> HIDE DEF W
    <3> QED BY <3>3, <3>5, <3>6, RebuildServed
  <2> QED BY <2>1, <2>2
<1>3. CASE OpenEnd(w) \/ ResumeEnd(w)
  <2> DEFINE v == [wl[w] EXCEPT !.stopped = FALSE, !.restartDrain = FALSE]
  <2>1. v.queue = wl[w].queue /\ v.reg = wl[w].reg
    BY <1>w DEF WorkloadType
  <2>2. (wl' = [wl EXCEPT ![w] = v] \/ wl' = wl) /\ UNCHANGED <<call, row>>
    BY <1>3 DEF OpenEnd, ResumeEnd
  <2> HIDE DEF v
  <2> QED BY <1>v, <2>1, <2>2, UnchangedServed
<1>4. CASE StopAdmission(w)
  <2> DEFINE v == [wl[w] EXCEPT !.stopped = TRUE, !.restartDrain = FALSE]
  <2>1. v.queue = wl[w].queue /\ v.reg = wl[w].reg
    BY <1>w DEF WorkloadType
  <2>2. wl' = [wl EXCEPT ![w] = v] /\ UNCHANGED <<call, row>>
    BY <1>4 DEF StopAdmission
  <2> HIDE DEF v
  <2> QED BY <1>v, <2>1, <2>2
<1>5. CASE DetachEnd(w)
  <2> DEFINE v == [wl[w] EXCEPT !.route = {}, !.detached = TRUE]
  <2>1. v.queue = wl[w].queue /\ v.reg = wl[w].reg
    BY <1>w DEF WorkloadType
  <2>2. (wl' = [wl EXCEPT ![w] = v] \/ wl' = wl) /\ UNCHANGED <<call, row>>
    BY <1>5 DEF DetachEnd
  <2> HIDE DEF v
  <2> QED BY <1>v, <2>1, <2>2, UnchangedServed
<1>6. CASE ForgetEnd(w)
  <2> DEFINE v == [NewWorkload EXCEPT !.reg = "forgotten"]
             W == [wl EXCEPT ![w] = v]
  <2>1. CASE Drained(w) /\ Rebuild(call, W, ins)
    <3>1. wl[w].queue = <<>>
      BY <2>1 DEF Drained, RequestsDrained
    <3>2. v \in WorkloadType /\ v.queue = <<>>
      BY NewTypes DEF WorkloadType, NewWorkload
    <3> HIDE DEF v
    <3>3. W \in [Workloads -> WorkloadType]
      BY <3>2, WorkloadUpdateType
    <3>4. \A u \in Workloads :
            /\ W[u].queue = wl[u].queue
            /\ W[u].reg = wl[u].reg \/ wl[u].queue = <<>>
      BY <1>w, <3>1, <3>2
    <3> HIDE DEF W
    <3> QED BY <1>6, <2>1, <3>3, <3>4, RebuildServed DEF ForgetEnd
  <2>2. CASE UNCHANGED wl
    BY <1>6, <2>2, UnchangedServed DEF ForgetEnd
  <2> QED BY <1>6, <2>1, <2>2 DEF ForgetEnd
<1> QED BY <1>1, <1>2, <1>3, <1>4, <1>5, <1>6

\* NewRuntime restores no waiting call and no queue.
LEMMA BootServed ==
    ASSUME TypeOK, ServedInv, NEW unknown, NEW disk,
           \A r \in Requests :
              disk[r].assigned # "none" => row[r].assigned # "none",
           Boot(unknown, disk)
    PROVE  ServedInv'
<1>1. ASSUME NEW r \in Requests
      PROVE  /\ CallInv(call'[r], row'[r].assigned)
             /\ call'[r].at # "waiting"
  <2> DEFINE c == call[r]
             v == [NewCall EXCEPT
                   !.at = "done", !.uid = c.uid, !.def = c.def,
                   !.live = TRUE, !.assignment = c.assignment,
                   !.instance = c.assignment, !.exec = "over",
                   !.transportDone = TRUE, !.responseRecorded = TRUE]
             a == row[r].assigned
             b == row'[r].assigned
  <2>1. CallInv(c, a) /\ (b # "none" => a # "none")
    BY DEF ServedInv, CallsInv, Boot
  <2>2. \/ c.at = "new" /\ call'[r] = NewCall
        \/ c.at # "new" /\ b # "none" /\ call'[r] = v
        \/ c.at # "new" /\ call'[r] = RowOnly(c)
    <3>1. r \in Pending(disk) => b # "none"
      BY DEF Boot, Pending
    <3>2. c.at = "new" => b = "none"
      BY SMTT(30), <2>1 DEF CallInv, FreshCall
    <3>3. call'[r] = CASE c.at = "new" -> NewCall
                       [] r \in Pending(disk) -> v
                       [] OTHER -> RowOnly(c)
      BY DEF Boot
    <3> HIDE DEF c, v, b
    <3> QED BY SMTT(30), <3>1, <3>2, <3>3
  <2> HIDE DEF c, a, b
  <2>3. CASE c.at = "new" /\ call'[r] = NewCall
    <3>1. b = "none"
      BY <2>1, <2>3 DEF CallInv, FreshCall
    <3>2. CallInv(call'[r], b) /\ call'[r].at # "waiting"
      BY <2>3, <3>1 DEF CallInv, FreshCall, OpenCall, NamedCall, UnsentCall,
                        NewCall, Running
    <3> QED BY <3>2 DEF b
  <2>4. CASE b # "none" /\ call'[r] = v
    <3>1. v.at = "done" /\ v.uid = c.uid /\ v.exec = "over" /\ v.sends = 0
      BY DEF NewCall
    <3> HIDE DEF v
    <3>2. c.uid \in Workloads
      BY <2>1, <2>4 DEF CallInv, NamedCall
    <3>3. CallInv(call'[r], b) /\ call'[r].at # "waiting"
      BY <2>4, <3>1, <3>2 DEF CallInv, FreshCall, OpenCall, NamedCall,
                              UnsentCall, Running
    <3> QED BY <3>3 DEF b
  <2>5. CASE call'[r] = RowOnly(c)
    <3> DEFINE d == RowOnly(c)
    <3>1. d.at = "done" /\ d.uid = c.uid /\ d.exec = "none" /\ d.sends = 0
      BY DEF RowOnly, NewCall
    <3>2. call'[r] = d
      BY <2>5
    <3> HIDE DEF d
    <3>3. b # "none" => c.uid \in Workloads
      BY <2>1 DEF CallInv, NamedCall
    <3>4. CallInv(call'[r], b) /\ call'[r].at # "waiting"
      BY <3>1, <3>2, <3>3 DEF CallInv, FreshCall, OpenCall, NamedCall,
                              UnsentCall, Running
    <3> QED BY <3>4 DEF b
  <2> QED BY <2>2, <2>3, <2>4, <2>5
<1>2. ASSUME NEW w \in Workloads PROVE wl'[w].queue = <<>>
  <2> DEFINE P == {r \in Pending(disk) : call[r].uid = w}
             d == call[CHOOSE r \in P : TRUE].def
             v == [NewWorkload EXCEPT !.reg = "on", !.stopped = TRUE,
                     !.restartDrain = TRUE, !.def = d]
  <2>1. \/ wl[w].reg = "forgotten" /\ wl'[w] = wl[w]
        \/ wl'[w] = NewWorkload
        \/ wl'[w] = v
    BY DEF Boot
  <2>2. wl[w].reg = "forgotten" => wl[w].queue = <<>>
    BY DEF ServedInv, QueuesInv
  <2> HIDE DEF d
  <2>3. v.queue = <<>> /\ NewWorkload.queue = <<>>
    BY DEF NewWorkload
  <2> QED BY <2>1, <2>2, <2>3
<1>3. CallsInv' /\ WaitersInv'
  BY <1>1 DEF CallsInv, WaitersInv, ServedCall
<1>4. QueuesInv'
  BY <1>2 DEF QueuesInv, Distinct
<1> QED BY <1>3, <1>4 DEF ServedInv

\* Every step that stops, ends or starts the process keeps the invariant.
LEMMA ProcessServed ==
    ASSUME TypeOK, ServedInv, ProcessStep
    PROVE  ServedInv'
<1>a. ASSUME call' = AllCanceled, UNCHANGED <<wl, row>> PROVE ServedInv'
  <2>1. ASSUME NEW c \in CallType PROVE Neutral(c, [c EXCEPT !.canceled = TRUE])
    BY DEF Neutral, CallType
  <2>2. ASSUME NEW r \in Requests PROVE Neutral(call[r], call'[r]) /\ SameRow(r)
    BY <1>a, <2>1 DEF AllCanceled, TypeOK, SameRow
  <2> QED BY <1>a, <2>2, Frame, SameQueuesUnchanged
<1>1. CASE BeginShutdown
  <2>1. ASSUME NEW c \in WorkloadType
        PROVE  LET d == [c EXCEPT !.stopped = TRUE, !.restartDrain = FALSE]
               IN  d.queue = c.queue /\ d.reg = c.reg
    BY DEF WorkloadType
  <2>2. SameQueues
    BY <1>1, <2>1 DEF BeginShutdown, SameQueues, TypeOK
  <2> QED BY <1>1, <2>2, IdleFrame DEF BeginShutdown, SameRow
<1>2. CASE ShutdownBegin
  BY <1>2, UnchangedServed DEF ShutdownBegin
<1>3. CASE ShutdownEnd
  BY <1>3, <1>a, UnchangedServed DEF ShutdownEnd
<1>4. CASE ShutdownTimeout
  BY <1>4, <1>a DEF ShutdownTimeout
<1>5. CASE JoinExecutions
  BY <1>5, <1>a DEF JoinExecutions
<1>6. CASE Crash
  <2> DEFINE disk == [r \in Requests |->
         [assigned |-> IF row[r].assigned = "disk" THEN "disk" ELSE "none",
          final |-> IF row[r].final = "disk" THEN "disk" ELSE "none"]]
  <2>1. \A r \in Requests :
           disk[r].assigned # "none" => row[r].assigned # "none"
    OBVIOUS
  <2>2. Boot(TRUE, disk)
    BY <1>6 DEF Crash
  <2> HIDE DEF disk
  <2> QED BY <2>1, <2>2, BootServed
<1>7. CASE CleanExit
  <2> DEFINE disk == [r \in Requests |->
         [assigned |-> IF row[r].assigned = "none" THEN "none" ELSE "disk",
          final |-> IF row[r].final = "none" THEN "none" ELSE "disk"]]
  <2>1. \A r \in Requests :
           disk[r].assigned # "none" => row[r].assigned # "none"
    OBVIOUS
  <2>2. Boot(srv.unknown, disk)
    BY <1>7 DEF CleanExit
  <2> HIDE DEF disk
  <2> QED BY <2>1, <2>2, BootServed
<1> QED BY <1>1, <1>2, <1>3, <1>4, <1>5, <1>6, <1>7 DEF ProcessStep

-----------------------------------------------------------------------------
(* The theorems                                                            *)

\* The first boot satisfies the inductive invariant.
LEMMA InitInv == Init => TypeOK /\ ServedInv
<1> SUFFICES ASSUME Init PROVE TypeOK /\ ServedInv
  OBVIOUS
<1>1. TypeOK
  <2>1. srv \in ServerType
    BY DEF Init, ServerType
  <2> QED BY <2>1, IdleType, NewTypes
          DEF Init, TypeOK, ClientType, RowType, PhysType
<1>2. \A w \in Workloads : wl[w].queue = <<>>
  BY DEF Init, NewWorkload
<1>3. \A r \in Requests : /\ CallInv(call[r], row[r].assigned)
                          /\ call[r].at # "waiting"
  BY DEF Init, NewCall, CallInv, FreshCall, OpenCall, NamedCall, UnsentCall,
         Running
<1> QED BY <1>1, <1>2, <1>3
        DEF ServedInv, CallsInv, QueuesInv, WaitersInv, ServedCall, Distinct

\* Every step keeps the inductive invariant.
LEMMA NextInv == TypeOK /\ ServedInv /\ [Next]_vars => TypeOK' /\ ServedInv'
<1> SUFFICES ASSUME TypeOK, ServedInv, [Next]_vars
             PROVE  TypeOK' /\ ServedInv'
  OBVIOUS
<1>i. CallsInv
  BY DEF ServedInv
<1>1. ASSUME NEW r \in Requests, HandlerStep(r) PROVE TypeOK' /\ ServedInv'
  BY <1>1, HandlerType, HandlerServed
<1>2. ASSUME NEW r \in Requests, ExecuteStep(r) PROVE TypeOK' /\ ServedInv'
  BY <1>2, ExecuteType, ExecuteServed
<1>3. CASE DispatchStep
  BY <1>3, DispatchType, DispatchServed
<1>4. CASE WorldStep
  BY <1>4, WorldType, WorldServed
<1>5. CASE ObserverStep
  BY <1>5, ObserverType, ObserverServed
<1>6. CASE ManagementStep
  BY <1>6, ManagementType, ManagementServed
<1>7. CASE ProcessStep
  BY <1>i, <1>7, ProcessType, ProcessServed
<1>8. CASE UNCHANGED vars
  BY <1>8, UnchangedServed DEF vars, TypeOK
<1> QED BY <1>1, <1>2, <1>3, <1>4, <1>5, <1>6, <1>7, <1>8 DEF Next

\* Every field keeps the type the code gives it, through every interleaving
\* of handlers, dispatch, observer, management, crash and boot.  In particular
\* NewRuntime never binds a restored executor to a Workload without a name.
THEOREM TypeCorrect == Spec => []TypeOK
BY InitInv, NextInv, PTL DEF Spec

\* No call is ever answered twice: the sends on its one-slot reply channel by
\* dispatchLocked (expiry) and by execute exclude each other, so a send under
\* Runtime.mu never blocks.
THEOREM RepliesOnce == Spec => []ReplyOnce
<1>1. ServedInv => ReplyOnce
  BY DEF ServedInv, CallsInv, CallInv, UnsentCall, ReplyOnce
<1> QED BY <1>1, InitInv, NextInv, PTL DEF Spec

\* A handler blocked in Call.Wait always has exactly one of a queue place, a
\* running execution and a buffered reply: no step of any goroutine strands it.
THEOREM WaitersServed == Spec => []WaitingServed
<1>1. TypeOK /\ ServedInv => WaitingServed
  <2> SUFFICES ASSUME TypeOK, ServedInv, NEW r \in Requests,
                      call[r].at = "waiting"
               PROVE  LET queued == r \in Range(wl[call[r].uid].queue)
                          running == call[r].exec \in Running
                      IN  /\ queued \/ running \/ call[r].sends = 1
                          /\ ~(queued /\ running)
                          /\ queued \/ running => call[r].sends = 0
    BY DEF WaitingServed, Running
  <2> DEFINE q == wl[call[r].uid].queue
  <2>1. call[r].uid \in Workloads /\ CallInv(call[r], row[r].assigned)
    BY DEF ServedInv, CallsInv, CallInv, NamedCall
  <2>2. r \in Range(q) <=> InQueue(r, q)
    BY DEF Range, InQueue
  <2>3. InQueue(r, q) => call[r].exec = "none" /\ call[r].sends = 0
    BY <2>1 DEF InQueue, ServedInv, QueuesInv, QueuedCall
  <2>4. ServedCall(call[r], q, r)
    BY DEF ServedInv, WaitersInv
  <2> QED
    BY <2>1, <2>2, <2>3, <2>4 DEF ServedCall, CallInv, UnsentCall, Running
<1> QED BY <1>1, InitInv, NextInv, PTL DEF Spec
=============================================================================
