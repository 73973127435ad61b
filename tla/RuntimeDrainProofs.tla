------------------------- MODULE RuntimeDrainProofs -------------------------
(***************************************************************************)
(* What Runtime promises when it reports that nothing is left, for any     *)
(* number of requests, Workloads, executors, Nodes and boots:              *)
(*   ShutdownWritten  a Shutdown that returns nil left every accepted      *)
(*                    request with its final row on disk, and nothing on   *)
(*                    an executor outside the recovery fence,              *)
(*   NodeLeftQuiet    a Node reported drained executes, routes and owes    *)
(*                    nothing.                                             *)
(*   DetachedIsDone   a Workload that was detached or forgotten has        *)
(*                    nothing left, if its admission was stopped first.    *)
(*                                                                         *)
(* Each drain checks in one lock section, waits for the log outside the    *)
(* lock, and checks again.  What the barrier waited for are the rows in    *)
(* memory when it began; that no other row can be owed when it ends is     *)
(* what the invariants say (Waited), one per drain, and Written what the   *)
(* second check makes of it.                                               *)
(***************************************************************************)
EXTENDS RuntimeControlProofs

-----------------------------------------------------------------------------
(* The inductive invariant                                                 *)

\* The log's writer has a row of the request in memory.
InMem(w) == w.assigned = "mem" \/ w.final = "mem"

\* Call c and its rows w among Workloads W: what was assigned is live or being
\* closed, what was closed has its final row, and what is live is of a registered
\* Workload and unfinished, unless the log failed (f).
RowCall(c, w, W, f) ==
    /\ w.assigned # "none" => c.live \/ c.close # "open"
    /\ c.close \in {"rowed", "closed"} /\ w.assigned # "none" => w.final # "none"
    /\ w.final = "late" => f
    /\ c.live => c.uid \in Workloads /\ W[c.uid].reg = "on" /\ (Closes(c) => f)
    /\ c.instance # None => c.live

RowsInv == \A r \in Requests : RowCall(call[r], row[r], wl, srv.failed)

\* Nothing executes for the call, and what the log owes it is in a barrier (b).
Waited(c, w, b) ==
    ~c.live /\ (w.assigned # "none" => w.final # "none" /\ (InMem(w) => b))

\* Nothing executes for the call, and its final row is on disk.
Written(c, w) == ~c.live /\ (w.assigned # "none" => w.final = "disk")

\* Shutdown: between its two checks, and after it returned nil.
ShutdownInv ==
    /\ op["stop"].kind = "shutdown" =>
          /\ srv.shuttingDown
          /\ ~srv.failed =>
                \A r \in Requests : Waited(call[r], row[r], r \in op["stop"].bar)
    /\ srv.drained =>
          /\ srv.shuttingDown
          /\ \A r \in Requests : Written(call[r], row[r])

\* DetachNode: between its two checks, and while its executors are drained.
NodeInv ==
    /\ op["obs"].kind = "node" =>
          \A i \in Instances : ins[i].known /\ NodeOf[i] = op["obs"].target =>
             /\ ~ins[i].ready
             /\ ~srv.failed =>
                   \A r \in Requests : call[r].assignment = i =>
                      Waited(call[r], row[r], r \in op["obs"].bar)
    /\ \A i \in Instances : ins[i].drained =>
          /\ ins[i].known /\ ~ins[i].ready /\ ~ins[i].fenced
          /\ \A w \in Workloads : i \notin wl[w].route
          /\ \A r \in Requests : call[r].assignment = i => Written(call[r], row[r])

\* What ShutdownSound and NodeQuiet rest on, beside the invariants of the modules
\* above.
DrainInv == RowsInv /\ ShutdownInv /\ NodeInv

\* Detach and Forget: between the two checks, and after the second.
DetachInv ==
    /\ op["mgmt"].kind \in {"detach", "forget"} =>
          \A w \in Workloads : op["mgmt"].target = w =>
             /\ wl[w].stopped
             /\ ~srv.failed =>
                   \A r \in Requests : call[r].uid = w =>
                      Waited(call[r], row[r], r \in op["mgmt"].bar)
    /\ \A w \in Workloads : wl[w].detached \/ wl[w].reg = "forgotten" =>
          \A r \in Requests : call[r].uid = w => Written(call[r], row[r])

-----------------------------------------------------------------------------
(* What a step may do                                                      *)

\* A call that nothing executes and whose final row was submitted stays so.
Still(c, w, d, v) ==
    ~c.live /\ (w.assigned # "none" => w.final # "none") =>
        /\ ~d.live
        /\ v.assigned # "none" =>
              /\ w.assigned # "none" /\ v.final # "none"
              /\ w.final = "disk" => v.final = "disk"
              /\ InMem(v) => InMem(w)

\* Accept: the process and the Workload admit the call.
Opens(d) ==
    /\ ~srv.shuttingDown /\ d.assignment = None /\ d.uid \in Workloads
    /\ wl[d.uid].reg = "on" /\ ~wl[d.uid].stopped /\ ~wl[d.uid].detached

\* A call is assigned to a ready executor only, and gets its Workload before it has
\* any row.
CallStep(c, w, d, v) ==
    /\ Still(c, w, d, v) \/ Opens(d)
    /\ \/ d.assignment \in {c.assignment, None}
       \/ d.assignment \in Instances /\ ins[d.assignment].ready
    /\ d.uid = c.uid \/ (~d.live /\ v.assigned = "none")

CallsStep == \A r \in Requests : CallStep(call[r], row[r], call'[r], row'[r])

\* The log stays failed and the process shutting down.
ServerStep == (srv.failed => srv'.failed) /\ (srv.shuttingDown => srv'.shuttingDown)

\* An executor that is reported drained was so and is no more ready than before.
SameDrain(x, y) ==
    /\ y.drained => x.drained
    /\ y.ready => x.ready
    /\ y.fenced => x.fenced
    /\ y.known = x.known

\* Executors: installed anew only while the observer drains no Node.
InstancesStep ==
    /\ \A i \in Instances :
          SameDrain(ins[i], ins'[i]) \/ (~ins'[i].drained /\ op["obs"].kind # "node")
    /\ \A w \in Workloads : \A i \in wl'[w].route : i \in wl[w].route \/ ins'[i].ready

Gone(x) == x.detached \/ x.reg = "forgotten"

\* Workloads: opened only while management drains none.
WorkloadsStep ==
    \A w \in Workloads :
        /\ Gone(wl'[w]) => Gone(wl[w])
        /\ op["mgmt"].kind \in {"detach", "forget"} /\ wl[w].stopped => wl'[w].stopped

\* Thread t begins no drain.
OpStep(t) ==
    op'[t] = op[t] \/ op'[t].kind \notin {"shutdown", "node", "detach", "forget"}

-----------------------------------------------------------------------------
(* The steps keep the invariants                                           *)

LEMMA StillWaited ==
    ASSUME NEW c, NEW w, NEW d, NEW v, NEW b, Still(c, w, d, v), Waited(c, w, b)
    PROVE  Waited(d, v, b)
BY DEF Still, Waited

LEMMA StillWritten ==
    ASSUME NEW c, NEW w, NEW d, NEW v, Still(c, w, d, v), Written(c, w)
    PROVE  Written(d, v)
BY DEF Still, Written

\* Shutdown keeps what it found: nothing is accepted any more.
LEMMA ShutdownFrame ==
    ASSUME ShutdownInv, CallsStep, ServerStep, OpStep("stop"), srv'.drained => srv.drained
    PROVE  ShutdownInv'
<1>1. ASSUME NEW r \in Requests, srv.shuttingDown
      PROVE  Still(call[r], row[r], call'[r], row'[r])
  BY <1>1 DEF CallsStep, CallStep, Opens
<1>2. CASE op'["stop"] = op["stop"]
  BY <1>1, <1>2, StillWaited, StillWritten DEF ShutdownInv, ServerStep
<1>3. CASE op'["stop"].kind # "shutdown"
  BY <1>1, <1>3, StillWritten DEF ShutdownInv, ServerStep
<1> QED BY <1>2, <1>3 DEF OpStep

\* DetachNode keeps what it found: its executors get nothing new.
LEMMA NodeFrame ==
    ASSUME NodeInv, CallsStep, ServerStep, InstancesStep, OpStep("obs")
    PROVE  NodeInv'
<1>1. ASSUME NEW r \in Requests, NEW i \in Instances, ~ins[i].ready,
             call'[r].assignment = i
      PROVE  call[r].assignment = i /\ Still(call[r], row[r], call'[r], row'[r])
  <2>1. i # None
    BY ConstantsAssumption
  <2> QED BY <1>1, <2>1 DEF CallsStep, CallStep, Opens
<1>2. op'["obs"].kind = "node" =>
        \A i \in Instances : ins'[i].known /\ NodeOf[i] = op'["obs"].target =>
           /\ ~ins'[i].ready
           /\ ~srv'.failed =>
                 \A r \in Requests : call'[r].assignment = i =>
                    Waited(call'[r], row'[r], r \in op'["obs"].bar)
  <2> SUFFICES ASSUME op'["obs"].kind = "node", NEW i \in Instances, ins'[i].known,
                      NodeOf[i] = op'["obs"].target
               PROVE  /\ ~ins'[i].ready
                      /\ ~srv'.failed =>
                            \A r \in Requests : call'[r].assignment = i =>
                               Waited(call'[r], row'[r], r \in op'["obs"].bar)
    OBVIOUS
  <2>1. op'["obs"] = op["obs"]
    BY DEF OpStep
  <2>2. SameDrain(ins[i], ins'[i])
    BY <2>1 DEF InstancesStep
  <2>3. /\ ~ins[i].ready
        /\ ~srv.failed => \A r \in Requests : call[r].assignment = i =>
                             Waited(call[r], row[r], r \in op["obs"].bar)
    BY <2>1, <2>2 DEF NodeInv, SameDrain
  <2>4. ASSUME NEW r \in Requests, call'[r].assignment = i, ~srv'.failed
        PROVE  Waited(call'[r], row'[r], r \in op["obs"].bar)
    <3>1. call[r].assignment = i /\ Still(call[r], row[r], call'[r], row'[r])
      BY <1>1, <2>3, <2>4
    <3>2. Waited(call[r], row[r], r \in op["obs"].bar)
      BY <2>3, <2>4, <3>1 DEF ServerStep
    <3> QED BY <3>1, <3>2, StillWaited
  <2> QED BY <2>1, <2>2, <2>3, <2>4 DEF SameDrain
<1>3. ASSUME NEW i \in Instances, ins'[i].drained
      PROVE  /\ ins'[i].known /\ ~ins'[i].ready /\ ~ins'[i].fenced
             /\ \A w \in Workloads : i \notin wl'[w].route
             /\ \A r \in Requests : call'[r].assignment = i => Written(call'[r], row'[r])
  <2>1. SameDrain(ins[i], ins'[i])
    BY <1>3 DEF InstancesStep
  <2>2. /\ ins[i].known /\ ~ins[i].ready /\ ~ins[i].fenced
        /\ \A w \in Workloads : i \notin wl[w].route
        /\ \A r \in Requests : call[r].assignment = i => Written(call[r], row[r])
    BY <1>3, <2>1 DEF NodeInv, SameDrain
  <2>3. ins'[i].known /\ ~ins'[i].ready /\ ~ins'[i].fenced
    BY <2>1, <2>2 DEF SameDrain
  <2>4. \A w \in Workloads : i \notin wl'[w].route
    BY <2>2, <2>3 DEF InstancesStep
  <2>5. ASSUME NEW r \in Requests, call'[r].assignment = i
        PROVE  Written(call'[r], row'[r])
    <3>1. call[r].assignment = i /\ Still(call[r], row[r], call'[r], row'[r])
      BY <1>1, <2>2, <2>5
    <3> QED BY <2>2, <3>1, StillWritten
  <2> QED BY <2>3, <2>4, <2>5
<1> QED BY <1>2, <1>3 DEF NodeInv

\* Detach and Forget keep what they found: the Workload admits nothing.
LEMMA DetachFrame ==
    ASSUME DetachInv, CallsStep, ServerStep, WorkloadsStep, OpStep("mgmt")
    PROVE  DetachInv'
<1>1. ASSUME NEW r \in Requests, NEW w \in Workloads, wl[w].stopped \/ Gone(wl[w]),
             call'[r].uid = w
      PROVE  \/ call[r].uid = w /\ Still(call[r], row[r], call'[r], row'[r])
             \/ ~call'[r].live /\ row'[r].assigned = "none"
  <2>1. ~Opens(call'[r])
    BY <1>1 DEF Opens, Gone
  <2> QED BY <1>1, <2>1 DEF CallsStep, CallStep
<1>2. op'["mgmt"].kind \in {"detach", "forget"} =>
        \A w \in Workloads : op'["mgmt"].target = w =>
           /\ wl'[w].stopped
           /\ ~srv'.failed =>
                 \A r \in Requests : call'[r].uid = w =>
                    Waited(call'[r], row'[r], r \in op'["mgmt"].bar)
  <2> SUFFICES ASSUME op'["mgmt"].kind \in {"detach", "forget"}, NEW w \in Workloads,
                      op'["mgmt"].target = w
               PROVE  /\ wl'[w].stopped
                      /\ ~srv'.failed =>
                            \A r \in Requests : call'[r].uid = w =>
                               Waited(call'[r], row'[r], r \in op'["mgmt"].bar)
    OBVIOUS
  <2>1. op'["mgmt"] = op["mgmt"]
    BY DEF OpStep
  <2>2. /\ wl[w].stopped
        /\ ~srv.failed => \A r \in Requests : call[r].uid = w =>
                             Waited(call[r], row[r], r \in op["mgmt"].bar)
    BY <2>1 DEF DetachInv
  <2>3. ASSUME NEW r \in Requests, call'[r].uid = w, ~srv'.failed
        PROVE  Waited(call'[r], row'[r], r \in op["mgmt"].bar)
    <3>1. CASE call[r].uid = w /\ Still(call[r], row[r], call'[r], row'[r])
      BY <2>2, <2>3, <3>1, StillWaited DEF ServerStep
    <3>2. CASE ~call'[r].live /\ row'[r].assigned = "none"
      BY <3>2 DEF Waited
    <3> QED BY <1>1, <2>2, <2>3, <3>1, <3>2
  <2> QED BY <2>1, <2>2, <2>3 DEF WorkloadsStep
<1>3. ASSUME NEW w \in Workloads, Gone(wl'[w]), NEW r \in Requests, call'[r].uid = w
      PROVE  Written(call'[r], row'[r])
  <2>1. Gone(wl[w])
    BY <1>3 DEF WorkloadsStep
  <2>2. CASE call[r].uid = w /\ Still(call[r], row[r], call'[r], row'[r])
    BY <2>1, <2>2, StillWritten DEF DetachInv, Gone
  <2>3. CASE ~call'[r].live /\ row'[r].assigned = "none"
    BY <2>3 DEF Written
  <2> QED BY <1>1, <1>3, <2>1, <2>2, <2>3
<1> QED BY <1>2, <1>3 DEF DetachInv, Gone

-----------------------------------------------------------------------------
(* The calls                                                               *)

\* A step of call c that accepts, assigns and finally closes nothing.
CallKept(c, d, f) ==
    /\ d.live => c.live /\ d.uid = c.uid /\ (Closes(d) => f)
    /\ d.instance # None => d.live
    /\ d.close = c.close \/ (c.close = "open" /\ d.close = "closing")
    /\ c.live /\ ~d.live => d.close = "closing"
    /\ d.assignment \in {c.assignment, None}
    /\ d.uid = c.uid \/ (~d.live /\ c.at = "new")

\* Every registered Workload remains registered.
SameRegistered(W, V) == \A w \in Workloads : W[w].reg = "on" => V[w].reg = "on"

\* Such a step without a row.
LEMMA KeptCall ==
    ASSUME NEW c, NEW d, NEW w, NEW W, NEW V, NEW f, NEW g, f => g, SameRegistered(W, V),
           RowCall(c, w, W, f), CallKept(c, d, g), FreshCall(c, w.assigned)
    PROVE  RowCall(d, w, V, g) /\ CallStep(c, w, d, w)
<1>1. RowCall(d, w, V, g)
  BY DEF RowCall, CallKept, SameRegistered
<1>2. Still(c, w, d, w)
  BY DEF CallKept, Still
<1> QED BY <1>1, <1>2 DEF CallStep, CallKept, FreshCall

\* A call that does not change.
LEMMA KeptRefl ==
    ASSUME NEW c, NEW w, NEW W, NEW f, NEW g, f => g, RowCall(c, w, W, f)
    PROVE  CallKept(c, c, g)
BY DEF CallKept, RowCall

\* Steps that write no row.
LEMMA CallsQuiet ==
    ASSUME ServedInv, RowsInv, UNCHANGED row, SameRegistered(wl, wl'), ServerStep,
           \A r \in Requests : CallKept(call[r], call'[r], srv'.failed)
    PROVE  RowsInv' /\ CallsStep
<1> SUFFICES ASSUME NEW r \in Requests
             PROVE  /\ RowCall(call'[r], row'[r], wl', srv'.failed)
                    /\ CallStep(call[r], row[r], call'[r], row'[r])
  BY DEF RowsInv, CallsStep
<1>1. FreshCall(call[r], row[r].assigned)
  BY DEF ServedInv, CallsInv, CallInv
<1>2. RowCall(call[r], row[r], wl, srv.failed)
  BY DEF RowsInv
<1> QED BY <1>1, <1>2, KeptCall DEF ServerStep

\* Steps that touch neither calls nor rows.
LEMMA CallsIdle ==
    ASSUME ServedInv, RowsInv, UNCHANGED <<call, row>>, SameRegistered(wl, wl'), ServerStep
    PROVE  RowsInv' /\ CallsStep
<1>1. \A r \in Requests : CallKept(call[r], call'[r], srv'.failed)
  BY KeptRefl DEF RowsInv, ServerStep
<1> QED BY <1>1, CallsQuiet

\* A step of one call.
LEMMA CallsOne ==
    ASSUME TypeOK, ServedInv, RowsInv, UNCHANGED row, SameRegistered(wl, wl'), ServerStep,
           NEW r \in Requests, NEW v, call' = [call EXCEPT ![r] = v],
           CallKept(call[r], v, srv'.failed)
    PROVE  RowsInv' /\ CallsStep
<1>1. call'[r] = v /\ \A x \in Requests \ {r} : call'[x] = call[x]
  BY DEF TypeOK
<1>2. \A x \in Requests \ {r} : CallKept(call[x], call[x], srv'.failed)
  BY KeptRefl DEF RowsInv, ServerStep
<1>3. \A x \in Requests : CallKept(call[x], call'[x], srv'.failed)
  BY <1>1, <1>2
<1> QED BY <1>3, CallsQuiet

\* A step of one call that may write a row.
LEMMA CallsRow ==
    ASSUME TypeOK, RowsInv, SameRegistered(wl, wl'), ServerStep,
           NEW r \in Requests, NEW v, call' = [call EXCEPT ![r] = v],
           \A x \in Requests \ {r} : row'[x] = row[x],
           RowCall(v, row'[r], wl', srv'.failed), CallStep(call[r], row[r], v, row'[r])
    PROVE  RowsInv' /\ CallsStep
<1>1. call'[r] = v /\ \A x \in Requests \ {r} : call'[x] = call[x]
  BY DEF TypeOK
<1>2. ASSUME NEW x \in Requests \ {r}
      PROVE  /\ RowCall(call[x], row[x], wl', srv'.failed)
             /\ CallStep(call[x], row[x], call[x], row[x])
  <2>1. RowCall(call[x], row[x], wl, srv.failed)
    BY DEF RowsInv
  <2>2. RowCall(call[x], row[x], wl', srv'.failed)
    BY <2>1 DEF RowCall, SameRegistered, ServerStep
  <2> QED BY <2>2 DEF CallStep, Still
<1> QED BY <1>1, <1>2 DEF RowsInv, CallsStep

\* releaseLocked on a call that was live and open before its flags changed.
LEMMA ReleaseKept ==
    ASSUME NEW c, NEW d \in CallType, NEW f, c.live, c.close = "open",
           d.live, d.uid = c.uid, d.close = "open", d.assignment \in {c.assignment, None}
    PROVE  CallKept(c, ReleaseLocked(d), f)
<1> DEFINE e == ReleaseLocked(d)
<1>1. CASE Closes(d)
  <2>1. e = [d EXCEPT !.instance = None, !.live = FALSE, !.close = "closing"]
    BY <1>1 DEF ReleaseLocked
  <2>2. /\ e.instance = None /\ ~e.live /\ e.close = "closing"
        /\ e.assignment = d.assignment /\ e.uid = d.uid
    BY <2>1 DEF CallType
  <2> HIDE DEF e
  <2>3. CallKept(c, e, f)
    BY <2>2 DEF CallKept
  <2> QED BY <2>3 DEF e
<1>2. CASE ~Closes(d)
  <2>1. e = d \/ e = [d EXCEPT !.instance = None]
    BY <1>2 DEF ReleaseLocked
  <2>2. /\ e.live /\ e.close = "open" /\ e.assignment = d.assignment /\ e.uid = d.uid
        /\ e.backendDone = d.backendDone /\ e.transportDone = d.transportDone
        /\ e.responseRecorded = d.responseRecorded
    BY <2>1 DEF CallType
  <2> HIDE DEF e
  <2>3. ~Closes(e)
    BY <1>2, <2>2 DEF Closes, Settled
  <2>4. CallKept(c, e, f)
    BY <2>2, <2>3 DEF CallKept
  <2> QED BY <2>4 DEF e
<1> QED BY <1>1, <1>2

\* Every call of S is released, with the flags that C carries.
LEMMA CallsReleased ==
    ASSUME TypeOK, ServedInv, RowsInv, UNCHANGED row, SameRegistered(wl, wl'), ServerStep,
           NEW S \in SUBSET Requests, NEW C \in [Requests -> CallType],
           call' = Released(C, S), \A r \in Requests \ S : C[r] = call[r],
           \A r \in S : /\ call[r].live /\ call[r].close = "open"
                        /\ C[r].live /\ C[r].uid = call[r].uid /\ C[r].close = "open"
                        /\ C[r].assignment \in {call[r].assignment, None}
    PROVE  RowsInv' /\ CallsStep
<1>1. ASSUME NEW r \in Requests PROVE CallKept(call[r], call'[r], srv'.failed)
  <2>1. CASE r \in S
    <3>1. call'[r] = ReleaseLocked(C[r])
      BY <2>1 DEF Released
    <3> QED BY <2>1, <3>1, ReleaseKept
  <2>2. CASE r \notin S
    <3>1. call'[r] = call[r]
      BY <2>2 DEF Released
    <3> QED BY <3>1, KeptRefl DEF RowsInv, ServerStep
  <2> QED BY <2>1, <2>2
<1> QED BY <1>1, CallsQuiet

-----------------------------------------------------------------------------
(* Executors and Workloads                                                 *)

SameDrains(I, J) == \A i \in Instances : SameDrain(I[i], J[i])

LEMMA SameDrainsRefl == ASSUME NEW I PROVE SameDrains(I, I)
BY DEF SameDrains, SameDrain

LEMMA SameDrainsTrans ==
    ASSUME NEW I, NEW J, NEW K, SameDrains(I, J), SameDrains(J, K)
    PROVE  SameDrains(I, K)
BY DEF SameDrains, SameDrain

\* One executor changes.
LEMMA SameDrainsOne ==
    ASSUME TypeOK, NEW i \in Instances, NEW v, SameDrain(ins[i], v)
    PROVE  SameDrains(ins, [ins EXCEPT ![i] = v])
BY DEF SameDrains, SameDrain, TypeOK

\* closeLocked and releaseLocked change an executor's counters only.
LEMMA InstancesReleasedDrain ==
    ASSUME NEW I \in [Instances -> InstanceType], NEW C, NEW S
    PROVE  SameDrains(I, InstancesReleased(I, C, S))
<1> SUFFICES ASSUME NEW i \in Instances
             PROVE  SameDrain(I[i], InstancesReleased(I, C, S)[i])
  BY DEF SameDrains
<1> DEFINE x == I[i].outstanding - Cardinality(Freed(C, S, i))
           y == I[i].finalizing + IF I[i].known
                THEN Cardinality({r \in S : Closes(C[r]) /\ C[r].assignment = i})
                ELSE 0
<1>1. InstancesReleased(I, C, S)[i] = [I[i] EXCEPT !.outstanding = x, !.finalizing = y]
      /\ I[i] \in InstanceType
  BY DEF InstancesReleased, Freed
<1> HIDE DEF x, y
<1> QED BY <1>1 DEF InstanceType, SameDrain

\* pruneInstanceBindingsLocked changes bindings only.
LEMMA PruneDrain ==
    ASSUME NEW C, NEW W, NEW I \in [Instances -> InstanceType]
    PROVE  SameDrains(I, Prune(C, W, I))
<1> SUFFICES ASSUME NEW i \in Instances PROVE SameDrain(I[i], Prune(C, W, I)[i])
  BY DEF SameDrains
<1> DEFINE b == {w \in I[i].bindings : KeepsBinding(C, W, I, w, i)}
<1>1. Prune(C, W, I)[i] = [I[i] EXCEPT !.bindings = b] /\ I[i] \in InstanceType
  BY DEF Prune
<1> HIDE DEF b
<1> QED BY <1>1 DEF InstanceType, SameDrain

\* rebuildLocked routes to ready executors only.
LEMMA RebuildDrain ==
    ASSUME NEW C, NEW W \in [Workloads -> WorkloadType],
           NEW I \in [Instances -> InstanceType], Rebuild(C, W, I)
    PROVE  /\ SameDrains(I, ins')
           /\ \A w \in Workloads : \A i \in wl'[w].route : ins'[i].ready
           /\ \A w \in Workloads : /\ wl'[w].reg = W[w].reg /\ wl'[w].stopped = W[w].stopped
                                   /\ wl'[w].detached = W[w].detached
<1> DEFINE P == Prune(C, W, I)
<1>1. P \in [Instances -> InstanceType] /\ SameDrains(I, P)
  BY PruneType, PruneDrain
<1>2. wl' = [w \in Workloads |-> [W[w] EXCEPT !.route = RouteOf(W, P, w)]]
  BY DEF Rebuild, Routed
<1>3. ins' = [i \in Instances |-> [P[i] EXCEPT !.bindings =
             P[i].bindings \cup {w \in Workloads : i \in RouteOf(W, P, w)}]]
  BY DEF Rebuild, Bound
<1> HIDE DEF P
<1>4. ASSUME NEW i \in Instances
      PROVE  /\ ins'[i].ready = P[i].ready /\ ins'[i].drained = P[i].drained
             /\ ins'[i].fenced = P[i].fenced /\ ins'[i].known = P[i].known
  <2> DEFINE b == P[i].bindings \cup {w \in Workloads : i \in RouteOf(W, P, w)}
  <2>1. ins'[i] = [P[i] EXCEPT !.bindings = b] /\ P[i] \in InstanceType
    BY <1>1, <1>3
  <2> HIDE DEF b
  <2> QED BY <2>1 DEF InstanceType
<1>5. SameDrains(I, ins')
  BY <1>1, <1>4 DEF SameDrains, SameDrain
<1>6. ASSUME NEW w \in Workloads
      PROVE  /\ wl'[w].route = RouteOf(W, P, w) /\ wl'[w].reg = W[w].reg
             /\ wl'[w].stopped = W[w].stopped /\ wl'[w].detached = W[w].detached
  <2> DEFINE x == RouteOf(W, P, w)
  <2>1. wl'[w] = [W[w] EXCEPT !.route = x] /\ W[w] \in WorkloadType
    BY <1>2
  <2> HIDE DEF x
  <2>2. /\ wl'[w].route = x /\ wl'[w].reg = W[w].reg
        /\ wl'[w].stopped = W[w].stopped /\ wl'[w].detached = W[w].detached
    BY <2>1 DEF WorkloadType
  <2> QED BY <2>2 DEF x
<1>7. ASSUME NEW w \in Workloads, NEW i \in RouteOf(W, P, w) PROVE i \in Instances /\ P[i].ready
  BY <1>7 DEF RouteOf
<1> QED BY <1>4, <1>5, <1>6, <1>7

\* A lock section that ends in rebuildLocked.
LEMMA RebuildStep ==
    ASSUME NEW C, NEW W \in [Workloads -> WorkloadType],
           NEW I \in [Instances -> InstanceType], Rebuild(C, W, I), SameDrains(ins, I)
    PROVE  InstancesStep
<1>1. SameDrains(ins, ins')
  BY RebuildDrain, SameDrainsTrans
<1> QED BY <1>1, RebuildDrain DEF InstancesStep, SameDrains

\* A lock section that computes no route.
LEMMA RoutedStep ==
    ASSUME SameDrains(ins, ins'),
           \A w \in Workloads : wl'[w].route \in SUBSET wl[w].route
    PROVE  InstancesStep
BY DEF InstancesStep, SameDrains

\* A Workload that keeps its registration, its stop and its route.
SameAdmission(x, y) ==
    /\ y.reg = x.reg /\ y.detached = x.detached /\ (x.stopped => y.stopped)
    /\ y.route \in SUBSET x.route

SameAdmissions == \A w \in Workloads : SameAdmission(wl[w], wl'[w])

LEMMA AdmissionsStep ==
    ASSUME SameAdmissions
    PROVE  /\ WorkloadsStep /\ SameRegistered(wl, wl')
           /\ \A w \in Workloads : wl'[w].route \in SUBSET wl[w].route
BY DEF SameAdmissions, SameAdmission, WorkloadsStep, SameRegistered, Gone

\* Nothing of a Workload changes.
LEMMA AdmissionsRefl == ASSUME UNCHANGED wl PROVE SameAdmissions
BY DEF SameAdmissions, SameAdmission

\* A Workload's queue or counter changes.
LEMMA AdmissionsField ==
    ASSUME TypeOK, NEW w, NEW n,
           \/ wl' = [wl EXCEPT ![w] = [wl[w] EXCEPT !.finalizing = n]]
           \/ wl' = [wl EXCEPT ![w] = [wl[w] EXCEPT !.queue = n]]
    PROVE  SameAdmissions
<1>1. ASSUME w \in Workloads
      PROVE  /\ SameAdmission(wl[w], [wl[w] EXCEPT !.finalizing = n])
             /\ SameAdmission(wl[w], [wl[w] EXCEPT !.queue = n])
  BY <1>1 DEF TypeOK, WorkloadType, SameAdmission
<1>2. \A x \in Workloads : SameAdmission(wl[x], wl[x])
  BY DEF SameAdmission
<1>3. CASE wl' = [wl EXCEPT ![w] = [wl[w] EXCEPT !.finalizing = n]]
  <2> DEFINE v == [wl[w] EXCEPT !.finalizing = n]
  <2>1. w \in Workloads => SameAdmission(wl[w], v)
    BY <1>1
  <2>2. wl' = [wl EXCEPT ![w] = v]
    BY <1>3
  <2> HIDE DEF v
  <2> QED BY <1>2, <2>1, <2>2 DEF SameAdmissions, TypeOK
<1>4. CASE wl' = [wl EXCEPT ![w] = [wl[w] EXCEPT !.queue = n]]
  <2> DEFINE v == [wl[w] EXCEPT !.queue = n]
  <2>1. w \in Workloads => SameAdmission(wl[w], v)
    BY <1>1
  <2>2. wl' = [wl EXCEPT ![w] = v]
    BY <1>4
  <2> HIDE DEF v
  <2> QED BY <1>2, <2>1, <2>2 DEF SameAdmissions, TypeOK
<1> QED BY <1>3, <1>4

\* closeLocked counts on the Workload only.
LEMMA AdmissionsReleased ==
    ASSUME TypeOK, NEW C, NEW S, wl' = WorkloadsReleased(wl, C, S)
    PROVE  SameAdmissions
<1> SUFFICES ASSUME NEW w \in Workloads PROVE SameAdmission(wl[w], wl'[w])
  BY DEF SameAdmissions
<1> DEFINE n == wl[w].finalizing + IF wl[w].reg = "on"
                THEN Cardinality({r \in S : Closes(C[r]) /\ C[r].uid = w})
                ELSE 0
<1>1. wl'[w] = [wl[w] EXCEPT !.finalizing = n] /\ wl[w] \in WorkloadType
  BY DEF WorkloadsReleased, TypeOK
<1> HIDE DEF n
<1> QED BY <1>1 DEF WorkloadType, SameAdmission

\* A release counts, and changes nothing else of the process.
LEMMA ServerReleasedStep ==
    ASSUME NEW s \in ServerType, NEW C, NEW S
    PROVE  /\ ServerReleased(s, C, S).failed = s.failed
           /\ ServerReleased(s, C, S).shuttingDown = s.shuttingDown
           /\ ServerReleased(s, C, S).drained = s.drained
<1> DEFINE n == s.finalizing + Cardinality({r \in S : Closes(C[r])})
<1>1. ServerReleased(s, C, S) = [s EXCEPT !.finalizing = n]
  BY DEF ServerReleased
<1> HIDE DEF n
<1> QED BY <1>1 DEF ServerType

-----------------------------------------------------------------------------
(* Steps that begin and end no drain                                       *)

\* What the three invariants need of such a step.
CalmStep ==
    /\ RowsInv' /\ CallsStep /\ ServerStep /\ InstancesStep /\ WorkloadsStep
    /\ srv'.drained => srv.drained
    /\ \A t \in Threads : OpStep(t)

\* The process, its operations and its executors are untouched.
LEMMA LocalCalm ==
    ASSUME RowsInv', CallsStep, UNCHANGED <<ins, op>>, SameAdmissions,
           srv'.failed = srv.failed, srv'.shuttingDown = srv.shuttingDown,
           srv'.drained = srv.drained
    PROVE  CalmStep
<1>1. InstancesStep
  BY SameDrainsRefl, RoutedStep, AdmissionsStep
<1> QED BY <1>1, AdmissionsStep DEF CalmStep, ServerStep, OpStep

\* The tail of Response, execute and ObserveBackend.
LEMMA ReleaseCalm ==
    ASSUME TypeOK, ServedInv, RowsInv, NEW r \in Requests, NEW v \in CallType,
           ReleaseAndDispatch([call EXCEPT ![r] = v], r), UNCHANGED <<row, op>>,
           call[r].live, call[r].close = "open",
           v.live, v.uid = call[r].uid, v.close = "open",
           v.assignment \in {call[r].assignment, None}
    PROVE  CalmStep
<1> DEFINE C == [call EXCEPT ![r] = v]
           I == InstancesReleased(ins, C, {r})
<1>1. /\ call' = Released(C, {r}) /\ srv' = ServerReleased(srv, C, {r})
      /\ wl' = WorkloadsReleased(wl, C, {r})
      /\ ins' \in {Prune(C, wl, I), I}
  BY DEF ReleaseAndDispatch
<1>2. C[r] = v /\ C \in [Requests -> CallType] /\ \A x \in Requests \ {r} : C[x] = call[x]
  BY DEF TypeOK
<1>3. {r} \in SUBSET Requests /\ I \in [Instances -> InstanceType] /\ SameDrains(ins, I)
  BY InstancesReleasedType, InstancesReleasedDrain DEF TypeOK
<1> HIDE DEF C, I
<1>4. SameAdmissions
  BY <1>1, AdmissionsReleased
<1>5. /\ srv'.failed = srv.failed /\ srv'.shuttingDown = srv.shuttingDown
      /\ srv'.drained = srv.drained
  BY <1>1, ServerReleasedStep DEF TypeOK
<1>6. SameDrains(ins, ins')
  BY <1>1, <1>3, PruneDrain, SameDrainsTrans
<1>7. RowsInv' /\ CallsStep
  BY <1>1, <1>2, <1>3, <1>4, <1>5, AdmissionsStep, CallsReleased DEF ServerStep
<1> QED BY <1>4, <1>5, <1>6, <1>7, AdmissionsStep, RoutedStep DEF CalmStep, ServerStep, OpStep

\* Accept: the Workload is registered, open and not detached.
LEMMA AcceptCalm ==
    ASSUME TypeOK, ServedInv, SafeInv, RowsInv, NEW r \in Requests, Accept(r)
    PROVE  CalmStep
<1> DEFINE c == call[r]
           w == c.uid
           v == [c EXCEPT !.at = "waiting", !.live = TRUE]
<1>1. /\ call' = [call EXCEPT ![r] = v] /\ c \in CallType /\ c.at = "validated"
      /\ wl' = [wl EXCEPT ![w] = [wl[w] EXCEPT !.queue = Append(wl[w].queue, r)]]
      /\ Admissible(r, w) /\ UNCHANGED <<row, srv, ins, op>>
  BY DEF Accept, TypeOK
<1>2. /\ v.live /\ v.uid = w /\ v.close = c.close /\ v.instance = c.instance
      /\ v.assignment = c.assignment /\ v.backendDone = c.backendDone
  BY <1>1 DEF CallType
<1>3. /\ c.assignment = None /\ row[r].assigned = "none" /\ w \in Workloads
  BY <1>1 DEF ServedInv, CallsInv, CallInv, FreshCall, NamedCall
<1>4. ~c.backendDone
  BY <1>1 DEF SafeInv, CallsSafe, CallSafe, UnslottedCall, EarlyCall, Early
<1> HIDE DEF v
<1>5. SameAdmissions
  BY <1>1, AdmissionsField
<1>6. wl'[w].reg = "on"
  BY <1>1, <1>3, <1>5 DEF Admissible, SameAdmissions, SameAdmission
<1>7. RowCall(v, row'[r], wl', srv'.failed)
  <2>1. RowCall(c, row[r], wl, srv.failed)
    BY DEF RowsInv
  <2> QED BY <1>1, <1>2, <1>3, <1>4, <1>6, <2>1 DEF RowCall, Closes, Settled
<1>8. CallStep(c, row[r], v, row'[r])
  BY <1>1, <1>2, <1>3 DEF CallStep, Opens, Admissible
<1>9. RowsInv' /\ CallsStep
  BY <1>1, <1>5, <1>7, <1>8, AdmissionsStep, CallsRow DEF ServerStep
<1> QED BY <1>1, <1>5, <1>9, LocalCalm

\* The end of unlock: the final row, then the counters.
LEMMA ClosedCalm ==
    ASSUME TypeOK, SafeInv, RowsInv, NEW r \in Requests, RequestClosed(r) \/ Finalized(r)
    PROVE  CalmStep
<1> DEFINE c == call[r]
           w == row[r]
<1>1. c \in CallType /\ w \in RowType /\ RowCall(c, w, wl, srv.failed)
      /\ FinalCall(c, phys[r], w) /\ ClosedCall(c)
  BY DEF TypeOK, RowsInv, SafeInv, CallsSafe, CallSafe, UnslottedCall
<1>2. CASE RequestClosed(r)
  <2> DEFINE v == [c EXCEPT !.close = "rowed"]
             s == IF srv.failed THEN "late" ELSE "mem"
             x == [w EXCEPT !.final = s]
  <2>1. /\ call' = [call EXCEPT ![r] = v] /\ c.close = "closing"
        /\ row' = [row EXCEPT ![r] = x] /\ UNCHANGED <<wl, ins, srv, op>>
    BY <1>2 DEF RequestClosed
  <2>2. /\ v.close = "rowed" /\ v.live = c.live /\ v.uid = c.uid
        /\ v.instance = c.instance /\ v.assignment = c.assignment
    BY <1>1 DEF CallType
  <2>3. x.assigned = w.assigned /\ x.final = s
    BY <1>1 DEF RowType
  <2>4. row'[r] = x /\ \A y \in Requests \ {r} : row'[y] = row[y]
    BY <2>1 DEF TypeOK
  <2>5. s # "none" /\ (s = "late" => srv.failed)
    OBVIOUS
  <2> HIDE DEF v, x, s
  <2>6. ~c.live /\ w.final = "none" /\ c.instance = None
    BY <1>1, <2>1 DEF ClosedCall, FinalCall
  <2>7. RowCall(v, x, wl', srv'.failed)
    BY <1>1, <2>1, <2>2, <2>3, <2>5, <2>6 DEF RowCall
  <2>8. CallStep(c, w, v, x)
    BY <2>2, <2>3, <2>6 DEF CallStep, Still
  <2>9. SameAdmissions
    BY <2>1, AdmissionsRefl
  <2>10. RowsInv' /\ CallsStep
    BY <2>1, <2>4, <2>7, <2>8, <2>9, AdmissionsStep, CallsRow DEF ServerStep
  <2> QED BY <2>1, <2>9, <2>10, LocalCalm
<1>3. CASE Finalized(r)
  <2> DEFINE v == RowOnly(c)
             i == c.assignment
             n == srv.finalizing - 1
             k == ins[i].finalizing - 1
  <2>1. /\ call' = [call EXCEPT ![r] = v] /\ c.close = "rowed"
        /\ srv' = [srv EXCEPT !.finalizing = n]
        /\ \/ UNCHANGED wl
           \/ wl' = [wl EXCEPT ![c.uid] = [wl[c.uid] EXCEPT !.finalizing = wl[c.uid].finalizing - 1]]
        /\ \/ UNCHANGED ins
           \/ i # None /\ ins' = [ins EXCEPT ![i] = [ins[i] EXCEPT !.finalizing = k]]
        /\ UNCHANGED <<row, op>>
    BY <1>3 DEF Finalized
  <2>2. /\ v.close = "closed" /\ ~v.live /\ v.uid = c.uid
        /\ v.instance = None /\ v.assignment = i
    BY DEF RowOnly, NewCall
  <2>3. /\ srv'.failed = srv.failed /\ srv'.shuttingDown = srv.shuttingDown
        /\ srv'.drained = srv.drained
    BY <2>1 DEF TypeOK, ServerType
  <2>4. i \in Instances \cup {None}
    BY <1>1 DEF CallType
  <2> HIDE DEF v, n
  <2>5. SameDrains(ins, ins')
    <3>1. CASE UNCHANGED ins
      BY <3>1, SameDrainsRefl
    <3>2. CASE i # None /\ ins' = [ins EXCEPT ![i] = [ins[i] EXCEPT !.finalizing = k]]
      <4> DEFINE y == [ins[i] EXCEPT !.finalizing = k]
      <4> HIDE DEF k
      <4>1. i \in Instances /\ ins[i] \in InstanceType
        BY <2>4, <3>2 DEF TypeOK
      <4>2. SameDrain(ins[i], y)
        BY <4>1 DEF InstanceType, SameDrain
      <4>3. ins' = [ins EXCEPT ![i] = y]
        BY <3>2
      <4> HIDE DEF y
      <4> QED BY <4>1, <4>2, <4>3, SameDrainsOne
    <3> QED BY <2>1, <3>1, <3>2
  <2>6. SameAdmissions
    BY <2>1, AdmissionsRefl, AdmissionsField
  <2>7. RowCall(v, row'[r], wl', srv'.failed)
    BY <1>1, <2>1, <2>2, <2>3 DEF RowCall
  <2>8. CallStep(c, w, v, row'[r])
    BY <2>1, <2>2 DEF CallStep, Still
  <2>9. RowsInv' /\ CallsStep
    BY <2>1, <2>3, <2>6, <2>7, <2>8, AdmissionsStep, CallsRow DEF ServerStep
  <2> QED BY <2>1, <2>3, <2>5, <2>6, <2>9, AdmissionsStep, RoutedStep
         DEF CalmStep, ServerStep, OpStep
<1> QED BY <1>2, <1>3

\* Every step of a handler.
LEMMA HandlerCalm ==
    ASSUME TypeOK, ServedInv, SafeInv, RowsInv, NEW r \in Requests, HandlerStep(r)
    PROVE  CalmStep
<1> DEFINE c == call[r]
<1>1. c \in CallType /\ RowCall(c, row[r], wl, srv.failed) /\ OpenCall(c)
      /\ FreshCall(c, row[r].assigned)
  BY DEF TypeOK, RowsInv, ServedInv, CallsInv, CallInv
<1>a. ASSUME NEW at, call' = [call EXCEPT ![r].at = at], UNCHANGED <<row, wl, ins, srv, op>>
      PROVE  CalmStep
  <2> DEFINE v == [c EXCEPT !.at = at]
  <2>1. /\ call' = [call EXCEPT ![r] = v]
        /\ v.live = c.live /\ v.uid = c.uid /\ v.close = c.close /\ v.instance = c.instance
        /\ v.assignment = c.assignment /\ v.backendDone = c.backendDone
        /\ v.transportDone = c.transportDone /\ v.responseRecorded = c.responseRecorded
    BY <1>1, <1>a DEF CallType
  <2> HIDE DEF v
  <2>2. CallKept(c, v, srv'.failed)
    BY <1>1, <1>a, <2>1 DEF CallKept, RowCall, Closes, Settled
  <2>3. SameAdmissions
    BY <1>a, AdmissionsRefl
  <2>4. RowsInv' /\ CallsStep
    BY <1>a, <2>1, <2>2, <2>3, AdmissionsStep, CallsOne DEF ServerStep
  <2> QED BY <1>a, <2>3, <2>4, LocalCalm
<1>2. CASE \E w \in Workloads \cup {None} : Receive(r, w)
  <2>1. PICK w : Receive(r, w)
    BY <1>2
  <2>2. PICK at, u, d : call' = [call EXCEPT ![r] =
                                   [call[r] EXCEPT !.at = at, !.uid = u, !.def = d]]
    BY <2>1 DEF Receive
  <2> DEFINE v == [c EXCEPT !.at = at, !.uid = u, !.def = d]
  <2>3. call' = [call EXCEPT ![r] = v] /\ c.at = "new" /\ UNCHANGED <<row, wl, ins, srv, op>>
    BY <2>1, <2>2 DEF Receive
  <2>4. /\ v.live = c.live /\ v.close = c.close /\ v.instance = c.instance
        /\ v.assignment = c.assignment
    BY <1>1 DEF CallType
  <2> HIDE DEF v
  <2>5. CallKept(c, v, srv'.failed)
    BY <1>1, <2>3, <2>4 DEF CallKept, RowCall, FreshCall
  <2>6. SameAdmissions
    BY <2>3, AdmissionsRefl
  <2>7. RowsInv' /\ CallsStep
    BY <2>3, <2>5, <2>6, AdmissionsStep, CallsOne DEF ServerStep
  <2> QED BY <2>3, <2>6, <2>7, LocalCalm
<1>3. CASE Validate(r) \/ Reject(r) \/ WaitReply(r)
  <2>1. (\E at : call' = [call EXCEPT ![r].at = at]) /\ UNCHANGED <<row, wl, ins, srv, op>>
    BY <1>3 DEF Validate, Reject, WaitReply
  <2> QED BY <2>1, <1>a
<1>4. CASE Accept(r)
  BY <1>4, AcceptCalm
<1>5. CASE WaitDone(r)
  <2> DEFINE w == c.uid
             a == c.backendDone \/ c.assignment = None
             b == c.transportDone \/ c.assignment = None
             q == IF c.assignment = None THEN removeQueued(wl[w].queue, r) ELSE wl[w].queue
             v == [c EXCEPT !.at = "respond", !.backendDone = a, !.transportDone = b,
                            !.canceled = TRUE]
  <2>1. /\ call' = [call EXCEPT ![r] = v] /\ c.at = "waiting"
        /\ wl' = [wl EXCEPT ![w] = [wl[w] EXCEPT !.queue = q]]
        /\ UNCHANGED <<row, ins, srv, op>>
    BY <1>5 DEF WaitDone
  <2> HIDE DEF a, b, q
  <2>2. /\ v.live = c.live /\ v.uid = c.uid /\ v.close = c.close /\ v.instance = c.instance
        /\ v.assignment = c.assignment /\ v.responseRecorded = c.responseRecorded
    BY <1>1 DEF CallType
  <2> HIDE DEF v
  <2>3. CallKept(c, v, srv'.failed)
    BY <1>1, <2>1, <2>2 DEF CallKept, RowCall, Closes, OpenCall
  <2>4. SameAdmissions
    BY <2>1, AdmissionsField
  <2>5. RowsInv' /\ CallsStep
    BY <2>1, <2>3, <2>4, AdmissionsStep, CallsOne DEF ServerStep
  <2> QED BY <2>1, <2>4, <2>5, LocalCalm
<1>6. CASE ResponseLive(r)
  <2>1. CASE call' = [call EXCEPT ![r].at = "done"] /\ UNCHANGED <<wl, ins, srv, mu>>
    BY <1>6, <2>1, <1>a DEF ResponseLive
  <2> DEFINE v == [c EXCEPT !.at = "done", !.responseRecorded = TRUE]
  <2>2. CASE ReleaseAndDispatch([call EXCEPT ![r] = v], r)
    <3>1. /\ v \in CallType /\ v.live = c.live /\ v.uid = c.uid /\ v.close = c.close
          /\ v.assignment = c.assignment
      BY <1>1 DEF CallType, Places
    <3>2. c.live /\ c.close = "open" /\ UNCHANGED <<row, op>>
      BY <1>1, <1>6 DEF ResponseLive, OpenCall
    <3> HIDE DEF v
    <3> QED BY <2>2, <3>1, <3>2, ReleaseCalm
  <2> QED BY <1>6, <2>1, <2>2 DEF ResponseLive
<1>7. CASE ResponseRejected(r)
  <2>1. CASE call' = [call EXCEPT ![r].at = "done"] /\ UNCHANGED <<wl, srv>>
    BY <1>7, <2>1, <1>a DEF ResponseRejected
  <2> DEFINE v == [c EXCEPT !.at = "done", !.responseRecorded = TRUE, !.close = "closing"]
             w == c.uid
             n == srv.finalizing + 1
  <2>2. CASE /\ call' = [call EXCEPT ![r] = v]
             /\ srv' = [srv EXCEPT !.finalizing = n]
             /\ \/ UNCHANGED wl
                \/ wl' = [wl EXCEPT ![w] = [wl[w] EXCEPT !.finalizing = wl[w].finalizing + 1]]
    <3>1. ~c.live /\ c.close = "open" /\ UNCHANGED <<row, ins, op>>
      BY <1>1, <1>7 DEF ResponseRejected, OpenCall
    <3>2. /\ v.live = c.live /\ v.uid = c.uid /\ v.close = "closing" /\ v.instance = c.instance
          /\ v.assignment = c.assignment
      BY <1>1 DEF CallType
    <3> HIDE DEF v, n
    <3>3. /\ srv'.failed = srv.failed /\ srv'.shuttingDown = srv.shuttingDown
          /\ srv'.drained = srv.drained
      BY <2>2 DEF TypeOK, ServerType
    <3>4. CallKept(c, v, srv'.failed)
      BY <1>1, <3>1, <3>2 DEF CallKept, RowCall
    <3>5. SameAdmissions
      BY <2>2, AdmissionsRefl, AdmissionsField
    <3>6. RowsInv' /\ CallsStep
      BY <2>2, <3>1, <3>3, <3>4, <3>5, AdmissionsStep, CallsOne DEF ServerStep
    <3> QED BY <3>1, <3>3, <3>5, <3>6, LocalCalm
  <2> QED BY <1>7, <2>1, <2>2 DEF ResponseRejected
<1>8. CASE RequestClosed(r) \/ Finalized(r)
  BY <1>8, ClosedCalm
<1> QED BY <1>2, <1>3, <1>4, <1>5, <1>6, <1>7, <1>8 DEF HandlerStep

\* dispatchLocked: a timeout, a slot of a ready executor, or the end.
LEMMA DispatchCalm ==
    ASSUME TypeOK, ServedInv, SafeInv, RowsInv, DispatchStep
    PROVE  CalmStep
<1>1. ASSUME NEW w \in Workloads, DispatchExpired(w) PROVE CalmStep
  <2> DEFINE r == Head(wl[w].queue)
             c == call[r]
             n == c.sends + 1
             v == [c EXCEPT !.backendDone = TRUE, !.transportDone = TRUE, !.sends = n]
  <2>1. /\ call' = [call EXCEPT ![r] = v] /\ UNCHANGED <<row, ins, srv, op>>
        /\ wl' = [wl EXCEPT ![w] = [wl[w] EXCEPT !.queue = Tail(wl[w].queue)]]
    BY <1>1 DEF DispatchExpired
  <2>2. /\ r \in Requests /\ c \in CallType /\ c.at = "waiting" /\ c.live
        /\ c.close = "open"
    BY <1>1, HeadCall DEF DispatchExpired
  <2> HIDE DEF r, n
  <2>3. ~c.responseRecorded /\ RowCall(c, row[r], wl, srv.failed)
    BY <2>2 DEF ServedInv, CallsInv, CallInv, OpenCall, RowsInv
  <2>4. /\ v.live /\ v.uid = c.uid /\ v.close = c.close
        /\ v.assignment = c.assignment /\ ~v.responseRecorded
    BY <2>2, <2>3 DEF CallType
  <2> HIDE DEF v
  <2>5. CallKept(c, v, srv'.failed)
    BY <2>2, <2>4 DEF CallKept, Closes
  <2>6. SameAdmissions
    BY <2>1, AdmissionsField
  <2>7. RowsInv' /\ CallsStep
    BY <2>1, <2>2, <2>5, <2>6, AdmissionsStep, CallsOne DEF ServerStep
  <2> QED BY <2>1, <2>6, <2>7, LocalCalm
<1>2. ASSUME NEW w \in Workloads, NEW i \in Instances, DispatchAssign(w, i) PROVE CalmStep
  <2> DEFINE r == Head(wl[w].queue)
             c == call[r]
             n == ins[i].outstanding + 1
             u == [ins[i] EXCEPT !.outstanding = n]
             v == [c EXCEPT !.assignment = i, !.instance = i, !.exec = "spawned"]
  <2>1. /\ call' = [call EXCEPT ![r] = v] /\ UNCHANGED <<row, srv, op>>
        /\ wl' = [wl EXCEPT ![w] = [wl[w] EXCEPT !.queue = Tail(wl[w].queue)]]
        /\ ins' = [ins EXCEPT ![i] = u] /\ ins[i].ready
    BY <1>2 DEF DispatchAssign, Available
  <2>2. /\ r \in Requests /\ c \in CallType /\ c.live
    BY <1>2, HeadCall DEF DispatchAssign
  <2> HIDE DEF r, n
  <2>3. SameDrain(ins[i], u)
    BY DEF TypeOK, InstanceType, SameDrain
  <2>4. /\ v.live /\ v.uid = c.uid /\ v.close = c.close /\ v.assignment = i
        /\ v.responseRecorded = c.responseRecorded
        /\ v.backendDone = c.backendDone /\ v.transportDone = c.transportDone
    BY <2>2 DEF CallType
  <2> HIDE DEF v, u
  <2>5. SameAdmissions /\ SameDrains(ins, ins')
    BY <2>1, <2>3, AdmissionsField, SameDrainsOne
  <2>6. RowCall(c, row[r], wl, srv.failed)
    BY <2>2 DEF RowsInv
  <2>7. RowCall(v, row'[r], wl', srv'.failed)
    <3>1. SameRegistered(wl, wl')
      BY <2>5, AdmissionsStep
    <3> QED BY <2>1, <2>2, <2>4, <2>6, <3>1 DEF RowCall, Closes, Settled, SameRegistered
  <2>8. CallStep(c, row[r], v, row'[r])
    BY <2>1, <2>2, <2>4 DEF CallStep, Still
  <2>9. RowsInv' /\ CallsStep
    BY <2>1, <2>2, <2>5, <2>7, <2>8, AdmissionsStep, CallsRow DEF ServerStep
  <2> QED BY <2>1, <2>5, <2>9, AdmissionsStep, RoutedStep DEF CalmStep, ServerStep, OpStep
<1>3. CASE DispatchEnd
  <2>1. UNCHANGED <<call, row, wl, ins, srv, op>>
    BY <1>3 DEF DispatchEnd
  <2>2. RowsInv' /\ CallsStep /\ SameAdmissions
    BY <2>1, AdmissionsRefl, AdmissionsStep, CallsIdle DEF ServerStep
  <2> QED BY <2>1, <2>2, LocalCalm
<1> QED BY <1>1, <1>2, <1>3 DEF DispatchStep

\* The execution goroutine: the assigned row is that of a live call.
LEMMA ExecuteCalm ==
    ASSUME TypeOK, ServedInv, SafeInv, RowsInv, NEW r \in Requests, ExecuteStep(r)
    PROVE  CalmStep
<1> DEFINE c == call[r]
<1>1. /\ c \in CallType /\ c.live /\ c.close = "open" /\ row[r] \in RowType
      /\ RowCall(c, row[r], wl, srv.failed)
  <2>1. c.exec \in Running
    BY DEF ExecuteStep, ExecuteBegin, ExchangeComplete, ExchangeBroken, ExecuteEnd, Running
  <2>2. RunningCall(c) /\ ClosedCall(c)
    BY DEF SafeInv, CallsSafe, CallSafe, UnslottedCall
  <2> QED BY <2>1, <2>2 DEF TypeOK, RunningCall, ClosedCall, RowsInv
<1>2. CASE ExecuteBegin(r) \/ ExchangeComplete(r) \/ ExchangeBroken(r)
  <2>1. PICK x : call' = [call EXCEPT ![r] = [call[r] EXCEPT !.exec = x]]
    BY <1>2 DEF ExecuteBegin, ExchangeComplete, ExchangeBroken
  <2> DEFINE y == [row[r] EXCEPT !.assigned = "mem"]
             v == [c EXCEPT !.exec = x]
  <2>2. /\ call' = [call EXCEPT ![r] = v] /\ UNCHANGED <<wl, ins, srv, op>>
        /\ UNCHANGED row \/ row' = [row EXCEPT ![r] = y]
    BY <1>2, <2>1 DEF ExecuteBegin, ExchangeComplete, ExchangeBroken
  <2>3. /\ v.live = c.live /\ v.uid = c.uid /\ v.close = c.close /\ v.instance = c.instance
        /\ v.assignment = c.assignment /\ v.backendDone = c.backendDone
        /\ v.transportDone = c.transportDone /\ v.responseRecorded = c.responseRecorded
    BY <1>1 DEF CallType
  <2>4. row'[r].final = row[r].final /\ \A z \in Requests \ {r} : row'[z] = row[z]
    BY <1>1, <2>2 DEF TypeOK, RowType
  <2> HIDE DEF v
  <2>5. RowCall(v, row'[r], wl', srv'.failed)
    BY <1>1, <2>2, <2>3, <2>4 DEF RowCall, Closes, Settled
  <2>6. CallStep(c, row[r], v, row'[r])
    BY <1>1, <2>3 DEF CallStep, Still
  <2>7. SameAdmissions
    BY <2>2, AdmissionsRefl
  <2>8. RowsInv' /\ CallsStep
    BY <2>2, <2>4, <2>5, <2>6, <2>7, AdmissionsStep, CallsRow DEF ServerStep
  <2> QED BY <2>2, <2>7, <2>8, LocalCalm
<1>3. CASE ExecuteEnd(r)
  <2> DEFINE x == c.exec
             a == IF x = "unlogged" THEN None ELSE c.assignment
             p == c.progress \/ (x = "complete" /\ phys[r].st = "ran")
             b == c.backendDone \/ x # "broken"
             n == c.sends + 1
             v == [c EXCEPT !.exec = "over", !.assignment = a, !.transportDone = TRUE,
                            !.progress = p, !.backendDone = b, !.sends = n]
  <2>1. ReleaseAndDispatch([call EXCEPT ![r] = v], r) /\ UNCHANGED <<row, op>>
    BY <1>3 DEF ExecuteEnd
  <2>2. /\ a \in Instances \cup {None} /\ p \in BOOLEAN /\ b \in BOOLEAN /\ n \in Nat
        /\ a \in {c.assignment, None}
    BY <1>1 DEF CallType
  <2> HIDE DEF a, p, b, n
  <2>3. v \in CallType
    BY ZenonT(60), <1>1, <2>2 DEF CallType, Executions
  <2>4. v.live = c.live /\ v.uid = c.uid /\ v.close = c.close /\ v.assignment = a
    BY <1>1 DEF CallType
  <2> HIDE DEF v
  <2> QED BY <1>1, <2>1, <2>2, <2>3, <2>4, ReleaseCalm
<1> QED BY <1>2, <1>3 DEF ExecuteStep

\* The machines, the clients and the log's writer.
LEMMA WorldCalm ==
    ASSUME TypeOK, ServedInv, RowsInv, WorldStep
    PROVE  CalmStep
<1>1. CASE UNCHANGED <<call, row, wl, ins, srv, op>>
  <2>1. RowsInv' /\ CallsStep /\ SameAdmissions
    BY <1>1, AdmissionsRefl, AdmissionsStep, CallsIdle DEF ServerStep
  <2> QED BY <1>1, <2>1, LocalCalm
<1>2. ASSUME NEW r \in Requests, WriteRow(r) PROVE CalmStep
  <2> DEFINE c == call[r]
             w == row[r]
  <2>1. /\ UNCHANGED <<call, wl, ins, srv, op>> /\ call' = [call EXCEPT ![r] = c]
        /\ \/ w.assigned = "mem" /\ row' = [row EXCEPT ![r] = [w EXCEPT !.assigned = "disk"]]
           \/ w.assigned # "mem" /\ w.final # "none"
              /\ row' = [row EXCEPT ![r] = [w EXCEPT !.final = "disk"]]
    BY <1>2 DEF WriteRow, TypeOK
  <2>2. w \in RowType /\ RowCall(c, w, wl, srv.failed)
    BY DEF TypeOK, RowsInv
  <2>3. /\ \A z \in Requests \ {r} : row'[z] = row[z]
        /\ \/ w.assigned = "mem" /\ row'[r].assigned = "disk" /\ row'[r].final = w.final
           \/ row'[r].assigned = w.assigned /\ w.assigned # "mem"
              /\ w.final # "none" /\ row'[r].final = "disk"
    BY <2>1, <2>2 DEF TypeOK, RowType
  <2>4. RowCall(c, row'[r], wl', srv'.failed)
    BY <2>1, <2>2, <2>3 DEF RowCall
  <2>5. CallStep(c, w, c, row'[r])
    BY <2>2, <2>3 DEF CallStep, Still, InMem
  <2>6. SameAdmissions
    BY <2>1, AdmissionsRefl
  <2>7. RowsInv' /\ CallsStep
    BY <2>1, <2>3, <2>4, <2>5, <2>6, AdmissionsStep, CallsRow DEF ServerStep
  <2> QED BY <2>1, <2>6, <2>7, LocalCalm
<1>3. CASE LogFails
  <2>1. /\ UNCHANGED <<call, row, wl, ins, op>> /\ ServerStep /\ srv'.drained = srv.drained
    BY <1>3 DEF LogFails, TypeOK, ServerType, ServerStep
  <2>2. RowsInv' /\ CallsStep /\ SameAdmissions
    BY <2>1, AdmissionsRefl, AdmissionsStep, CallsIdle
  <2> QED BY <2>1, <2>2, SameDrainsRefl, RoutedStep, AdmissionsStep DEF CalmStep, OpStep
<1> QED BY <1>1, <1>2, <1>3
       DEF WorldStep, NativeAdmit, NativeFinish, NativeExit, ClientLeaves, DeadlinePasses

-----------------------------------------------------------------------------
(* The observer                                                            *)

\* Executors I are those before, no more ready, or installed anew.
Installs(I) ==
    \A i \in Instances : SameDrain(ins[i], I[i])
                         \/ (~I[i].drained /\ op["obs"].kind # "node")

\* Workload x stays registered, detached and stopped as it was, or is opened while
\* management drains none.
Stands(x, y) ==
    /\ x.reg = "on" => y.reg = "on"
    /\ Gone(y) => Gone(x)
    /\ op["mgmt"].kind \in {"detach", "forget"} /\ x.stopped => y.stopped

LEMMA StandsSame ==
    ASSUME NEW x, NEW y, SameAdmission(x, y) PROVE Stands(x, y)
BY DEF SameAdmission, Stands, Gone

\* rebuildLocked over such Workloads and executors.
LEMMA RebuildDrains ==
    ASSUME NEW C, NEW W \in [Workloads -> WorkloadType],
           NEW I \in [Instances -> InstanceType], Rebuild(C, W, I), Installs(I),
           \A w \in Workloads : Stands(wl[w], W[w])
    PROVE  InstancesStep /\ WorkloadsStep /\ SameRegistered(wl, wl')
<1>1. /\ SameDrains(I, ins')
      /\ \A w \in Workloads : \A i \in wl'[w].route : ins'[i].ready
      /\ \A w \in Workloads : /\ wl'[w].reg = W[w].reg /\ wl'[w].stopped = W[w].stopped
                              /\ wl'[w].detached = W[w].detached
  BY RebuildDrain
<1>2. \A i \in Instances : SameDrain(ins[i], ins'[i])
                           \/ (~ins'[i].drained /\ op["obs"].kind # "node")
  BY <1>1 DEF Installs, SameDrains, SameDrain
<1>3. WorkloadsStep /\ SameRegistered(wl, wl')
  BY <1>1 DEF Stands, WorkloadsStep, SameRegistered, Gone
<1> QED BY <1>1, <1>2, <1>3 DEF InstancesStep

\* The process starts or ends an operation that drains nothing.
LEMMA OpsStep ==
    ASSUME TypeOK, NEW t \in Threads, NEW o, op' = [op EXCEPT ![t] = o],
           o.kind \notin {"shutdown", "node", "detach", "forget"}
    PROVE  \A u \in Threads : OpStep(u)
BY DEF TypeOK, OpStep

LEMMA FinishStep ==
    ASSUME TypeOK, NEW t \in Threads, NEW k, NEW g, Finish(t, k, g)
    PROVE  \A u \in Threads : OpStep(u)
BY OpsStep DEF Finish, Idle

\* A rebuild that touches neither calls nor rows.
LEMMA RebuildCalm ==
    ASSUME ServedInv, RowsInv, UNCHANGED <<call, row, srv>>,
           NEW C, NEW W \in [Workloads -> WorkloadType],
           NEW I \in [Instances -> InstanceType], Rebuild(C, W, I), Installs(I),
           \A w \in Workloads : Stands(wl[w], W[w]), \A t \in Threads : OpStep(t)
    PROVE  CalmStep
<1>1. InstancesStep /\ WorkloadsStep /\ SameRegistered(wl, wl')
  BY RebuildDrains
<1>2. RowsInv' /\ CallsStep
  BY <1>1, CallsIdle DEF ServerStep
<1> QED BY <1>1, <1>2 DEF CalmStep, ServerStep

\* A step of one operation, and of nothing else.
LEMMA IdleCalm ==
    ASSUME ServedInv, RowsInv, UNCHANGED <<call, row, wl, ins, srv>>,
           \A t \in Threads : OpStep(t)
    PROVE  CalmStep
<1>1. RowsInv' /\ CallsStep /\ SameAdmissions
  BY AdmissionsRefl, AdmissionsStep, CallsIdle DEF ServerStep
<1> QED BY <1>1, SameDrainsRefl, RoutedStep, AdmissionsStep DEF CalmStep, ServerStep

\* A step of one operation and one Workload.
LEMMA WorkloadCalm ==
    ASSUME TypeOK, ServedInv, RowsInv, UNCHANGED <<call, row, ins, srv>>,
           \A t \in Threads : OpStep(t), NEW w \in Workloads, NEW v,
           wl' = [wl EXCEPT ![w] = v], Stands(wl[w], v), v.route \in SUBSET wl[w].route
    PROVE  CalmStep
<1>1. ASSUME NEW u \in Workloads
      PROVE  Stands(wl[u], wl'[u]) /\ wl'[u].route \in SUBSET wl[u].route
  BY DEF TypeOK, Stands
<1>2. WorkloadsStep /\ SameRegistered(wl, wl')
  BY <1>1 DEF Stands, WorkloadsStep, SameRegistered
<1>3. RowsInv' /\ CallsStep
  BY <1>2, CallsIdle DEF ServerStep
<1>4. InstancesStep
  BY <1>1, SameDrainsRefl, RoutedStep
<1> QED BY <1>2, <1>3, <1>4 DEF CalmStep, ServerStep

\* closeLocked counts on a Workload only.
LEMMA ReleasedStands ==
    ASSUME TypeOK, NEW C, NEW S, NEW w \in Workloads
    PROVE  Stands(wl[w], WorkloadsReleased(wl, C, S)[w])
<1> DEFINE n == wl[w].finalizing + IF wl[w].reg = "on"
                THEN Cardinality({r \in S : Closes(C[r]) /\ C[r].uid = w})
                ELSE 0
           y == WorkloadsReleased(wl, C, S)[w]
<1>1. y = [wl[w] EXCEPT !.finalizing = n] /\ wl[w] \in WorkloadType
  BY DEF WorkloadsReleased, TypeOK
<1> HIDE DEF n, y
<1>2. SameAdmission(wl[w], y)
  BY <1>1 DEF WorkloadType, SameAdmission
<1> QED BY <1>2, StandsSame DEF y

\* Evidence for the live calls of S.
LEMMA EvidenceCalm ==
    ASSUME TypeOK, ServedInv, SafeInv, RowsInv, UNCHANGED <<row, op>>,
           NEW S \in SUBSET Requests, \A r \in S : call[r].live,
           NEW C, NEW D, NEW s \in ServerType, srv' = ServerReleased(s, C, S),
           s.failed = srv.failed, s.shuttingDown = srv.shuttingDown,
           s.drained = srv.drained,
           C = [r \in Requests |-> IF r \in S
                  THEN [call[r] EXCEPT !.backendDone = TRUE] ELSE call[r]],
           call' = Released(C, S),
           NEW I \in [Instances -> InstanceType], Installs(I),
           Rebuild(D, WorkloadsReleased(wl, C, S), InstancesReleased(I, C, S))
    PROVE  CalmStep
<1> DEFINE W == WorkloadsReleased(wl, C, S)
           J == InstancesReleased(I, C, S)
<1>1. W \in [Workloads -> WorkloadType] /\ \A w \in Workloads : Stands(wl[w], W[w])
  BY WorkloadsReleasedType, ReleasedStands DEF TypeOK
<1>2. J \in [Instances -> InstanceType] /\ SameDrains(I, J)
  BY InstancesReleasedType, InstancesReleasedDrain
<1>3. Rebuild(D, W, J)
  OBVIOUS
<1> HIDE DEF W, J
<1>4. Installs(J)
  BY <1>2 DEF Installs, SameDrains, SameDrain
<1>5. InstancesStep /\ WorkloadsStep /\ SameRegistered(wl, wl')
  BY <1>1, <1>2, <1>3, <1>4, RebuildDrains
<1>6. srv'.failed = srv.failed /\ srv'.shuttingDown = srv.shuttingDown
      /\ srv'.drained = srv.drained
  BY ServerReleasedStep
<1>7. C \in [Requests -> CallType]
  BY EvidenceType
<1>8. ASSUME NEW r \in S
      PROVE  /\ call[r].live /\ call[r].close = "open"
             /\ C[r].live /\ C[r].uid = call[r].uid /\ C[r].close = "open"
             /\ C[r].assignment \in {call[r].assignment, None}
  <2>1. /\ C[r] = [call[r] EXCEPT !.backendDone = TRUE] /\ call[r] \in CallType
        /\ ClosedCall(call[r])
    BY <1>8 DEF TypeOK, SafeInv, CallsSafe, CallSafe, UnslottedCall
  <2>2. call[r].live /\ call[r].close = "open"
    BY <1>8, <2>1 DEF ClosedCall
  <2> QED BY <2>1, <2>2 DEF CallType
<1>9. \A r \in Requests \ S : C[r] = call[r]
  OBVIOUS
<1>10. RowsInv' /\ CallsStep
  BY <1>5, <1>6, <1>7, <1>8, <1>9, CallsReleased DEF ServerStep
<1> QED BY <1>5, <1>6, <1>10 DEF CalmStep, ServerStep, OpStep

\* installInstancesLocked withdraws the report that the Node is drained.
LEMMA InstalledUndrained ==
    ASSUME TypeOK, NEW L, NEW i \in Instances
    PROVE  ~Installed(L, i).drained
<1> DEFINE x == ins[i]
           new == [NewInstance EXCEPT !.known = TRUE, !.fenced = srv.unknown]
           old == IF x.known THEN x ELSE new
           fenced == old.fenced /\ ~LiftsFence(L, i)
           terminated == L[i].terminated \/ old.terminated
           ready == L[i].ready /\ ~fenced /\ ~terminated
           kept == [old EXCEPT !.ready = ready, !.drained = FALSE,
                               !.fenced = fenced, !.terminated = terminated]
           profile == IF L[i].evidence THEN ProfileOf[i] ELSE None
           routing == L[i].routing
           full == [kept EXCEPT !.profile = profile, !.routing = routing]
           off == [x EXCEPT !.ready = FALSE, !.drained = FALSE]
<1>1. x \in InstanceType /\ Installed(L, i) \in {full, kept, off}
  BY DEF TypeOK, Installed
<1>2. "drained" \in DOMAIN old
  BY <1>1 DEF InstanceType, NewInstance
<1>3. ~off.drained
  BY <1>1 DEF InstanceType
<1> HIDE DEF old, fenced, terminated, ready, profile, routing, off
<1>4. ~kept.drained /\ "drained" \in DOMAIN kept
  BY <1>2
<1> HIDE DEF kept
<1>5. ~full.drained
  BY <1>4
<1> QED BY <1>1, <1>3, <1>4, <1>5

\* Every step of the observer but DetachNode.
LEMMA ObserverCalm ==
    ASSUME TypeOK, ServedInv, SafeInv, RowsInv, ObserverStep,
           ~\E n \in Nodes : DetachNodeBegin(n) \/ DetachNodeEnd(n)
    PROVE  CalmStep
<1>p. /\ wl \in [Workloads -> WorkloadType] /\ ins \in [Instances -> InstanceType]
      /\ srv \in ServerType
  BY DEF TypeOK
<1>s. \A w \in Workloads : Stands(wl[w], wl[w])
  BY DEF Stands
<1>1. ASSUME NEW r \in Requests, NEW finished \in BOOLEAN, ObserveBackend(r, finished)
      PROVE  CalmStep
  <2> DEFINE c == call[r]
             g == c.progress \/ ~c.backendDone
             b == c.backendDone \/ finished
             v == [c EXCEPT !.progress = g, !.backendDone = b]
  <2>1. /\ c \in CallType /\ c.live /\ UNCHANGED <<row, op>>
        /\ \/ srv.failed /\ call' = [call EXCEPT ![r] = v] /\ UNCHANGED <<wl, ins, srv>>
           \/ ReleaseAndDispatch([call EXCEPT ![r] = v], r)
    BY <1>1 DEF ObserveBackend, TypeOK
  <2>2. g \in BOOLEAN /\ b \in BOOLEAN
    BY <2>1 DEF CallType
  <2> HIDE DEF g, b
  <2>3. /\ v \in CallType /\ v.live = c.live /\ v.uid = c.uid /\ v.close = c.close
        /\ v.assignment = c.assignment
    BY ZenonT(60), <2>1, <2>2 DEF CallType
  <2>4. c.close = "open"
    BY <2>1 DEF SafeInv, CallsSafe, CallSafe, UnslottedCall, ClosedCall
  <2> HIDE DEF v
  <2>5. CASE srv.failed /\ call' = [call EXCEPT ![r] = v] /\ UNCHANGED <<wl, ins, srv>>
    <3>1. CallKept(c, v, srv'.failed)
      BY <2>1, <2>3, <2>5 DEF CallKept
    <3>2. SameAdmissions
      BY <2>5, AdmissionsRefl
    <3>3. RowsInv' /\ CallsStep
      BY <2>1, <2>5, <3>1, <3>2, AdmissionsStep, CallsOne DEF ServerStep
    <3> QED BY <2>1, <2>5, <3>2, <3>3, LocalCalm
  <2>6. CASE ReleaseAndDispatch([call EXCEPT ![r] = v], r)
    BY <2>1, <2>3, <2>4, <2>6, ReleaseCalm
  <2> QED BY <2>1, <2>5, <2>6
<1>2. ASSUME NEW i \in Instances, ConfirmInstanceStopped(i) PROVE CalmStep
  <2> DEFINE S == {r \in Requests : /\ call[r].live /\ call[r].assignment = i
                                    /\ ~call[r].backendDone}
             C == [r \in Requests |-> IF r \in S
                     THEN [call[r] EXCEPT !.backendDone = TRUE] ELSE call[r]]
             f == ins[i].fenced /\ (srv.failed \/ ~srv.up)
             v == [ins[i] EXCEPT !.ready = FALSE, !.terminated = ins[i].known,
                                 !.fenced = f, !.drained = FALSE]
             I == [ins EXCEPT ![i] = v]
  <2>1. /\ call' = Released(C, S) /\ srv' = ServerReleased(srv, C, S)
        /\ Rebuild(Released(C, S), WorkloadsReleased(wl, C, S), InstancesReleased(I, C, S))
        /\ UNCHANGED <<row, op>>
    BY <1>2 DEF ConfirmInstanceStopped
  <2>2. /\ S \in SUBSET Requests /\ \A r \in S : call[r].live
        /\ f \in BOOLEAN /\ (f => ins[i].fenced) /\ ins[i] \in InstanceType
    BY <1>p
  <2>3. C = [r \in Requests |-> IF r \in S
                     THEN [call[r] EXCEPT !.backendDone = TRUE] ELSE call[r]]
    OBVIOUS
  <2> HIDE DEF f, S, C
  <2>4. v \in InstanceType /\ SameDrain(ins[i], v)
    BY <2>2 DEF InstanceType, SameDrain
  <2> HIDE DEF v
  <2>5. I \in [Instances -> InstanceType] /\ Installs(I)
    BY <1>p, <2>4, SameDrainsOne DEF SameDrains, Installs
  <2> HIDE DEF I
  <2> QED BY <1>p, <2>1, <2>2, <2>3, <2>5, EvidenceCalm
<1>3. ASSUME NEW i \in Instances, DisableInstance(i) PROVE CalmStep
  <2> DEFINE v == [ins[i] EXCEPT !.ready = FALSE, !.drained = FALSE]
             I == [ins EXCEPT ![i] = v]
  <2>1. Rebuild(call, wl, I) /\ UNCHANGED <<call, row, srv, op>>
    BY <1>3 DEF DisableInstance
  <2>2. v \in InstanceType /\ SameDrain(ins[i], v)
    BY <1>p DEF InstanceType, SameDrain
  <2> HIDE DEF v
  <2>3. I \in [Instances -> InstanceType] /\ Installs(I)
    BY <1>p, <2>2, SameDrainsOne DEF SameDrains, Installs
  <2> HIDE DEF I
  <2> QED BY <1>p, <1>s, <2>1, <2>3, RebuildCalm DEF OpStep
<1>4. ASSUME NEW i \in Instances, ProbeBegin(i) \/ ProbeRead(i) \/ RetirePodBegin(i)
      PROVE  CalmStep
  <2>1. UNCHANGED <<call, row, wl, ins, srv>>
    BY <1>4 DEF ProbeBegin, ProbeRead, RetirePodBegin
  <2>2. \A t \in Threads : OpStep(t)
    <3>1. CASE RetirePodBegin(i)
      BY <3>1, OpsStep DEF RetirePodBegin, Start, Threads
    <3> QED BY <1>4, <3>1 DEF ProbeBegin, ProbeRead, OpStep
  <2> QED BY <2>1, <2>2, IdleCalm
<1>5. ASSUME NEW i \in Instances, PublishProbe(i) \/ PublishUnavailable(i) \/ PublishAgain(i)
      PROVE  CalmStep
  <2>1. PICK L \in [Instances -> SourceType] : PublishLedger(L)
    BY <1>5, PublishedLedger
  <2> DEFINE S == {r \in Requests : Absent(L, r)}
             C == [r \in Requests |-> IF r \in S
                     THEN [call[r] EXCEPT !.backendDone = TRUE] ELSE call[r]]
             I == [j \in Instances |-> Installed(L, j)]
             s == [srv EXCEPT !.up = TRUE]
  <2>2. /\ call' = Released(C, S) /\ srv' = ServerReleased(s, C, S)
        /\ Rebuild(Released(C, S), WorkloadsReleased(wl, C, S), InstancesReleased(I, C, S))
        /\ UNCHANGED <<row, op>> /\ op["obs"] = Idle
    BY <2>1 DEF PublishLedger
  <2>3. S \in SUBSET Requests /\ \A r \in S : call[r].live
    BY DEF Absent
  <2>4. C = [r \in Requests |-> IF r \in S
                     THEN [call[r] EXCEPT !.backendDone = TRUE] ELSE call[r]]
    OBVIOUS
  <2>5. I \in [Instances -> InstanceType] /\ Installs(I)
    BY <2>2, InstalledType, InstalledUndrained DEF Installs, Idle
  <2>6. /\ s \in ServerType /\ s.failed = srv.failed /\ s.drained = srv.drained
        /\ s.shuttingDown = srv.shuttingDown
    BY <1>p DEF ServerType
  <2> HIDE DEF S, C, I, s
  <2> QED BY <2>2, <2>3, <2>4, <2>5, <2>6, EvidenceCalm
<1>6. ASSUME NEW i \in Instances, RetirePodEnd(i) PROVE CalmStep
  <2> DEFINE I == [ins EXCEPT ![i] = NewInstance]
  <2>1. /\ UNCHANGED <<call, row, srv>> /\ op["obs"].kind = "retire"
        /\ UNCHANGED <<wl, ins>> \/ Rebuild(call, wl, I)
        /\ \A t \in Threads : OpStep(t)
    <3>1. \A t \in Threads : OpStep(t)
      BY <1>6, FinishStep DEF RetirePodEnd, Threads
    <3> QED BY <1>6, <3>1 DEF RetirePodEnd, Finish
  <2>2. NewInstance \in InstanceType /\ ~NewInstance.drained
    BY NewTypes DEF NewInstance
  <2>3. I \in [Instances -> InstanceType] /\ Installs(I)
    BY <1>p, <2>1, <2>2 DEF Installs, SameDrain
  <2> HIDE DEF I
  <2>4. CASE Rebuild(call, wl, I)
    BY <1>p, <1>s, <2>1, <2>3, <2>4, RebuildCalm
  <2>5. CASE UNCHANGED <<wl, ins>>
    BY <2>1, <2>5, IdleCalm
  <2> QED BY <2>1, <2>4, <2>5
<1> QED BY <1>1, <1>2, <1>3, <1>4, <1>5, <1>6 DEF ObserverStep

-----------------------------------------------------------------------------
(* Management and the process                                              *)

\* publish, OpenAdmission, ResumeAfterRestart and StopAdmission.
LEMMA ManagementCalm ==
    ASSUME TypeOK, ServedInv, RowsInv, NEW w \in Workloads,
           \/ \E d \in Definitions : PublishBegin(w, d)
           \/ PublishEnd(w) \/ OpenBegin(w) \/ OpenEnd(w)
           \/ ResumeBegin(w) \/ ResumeEnd(w) \/ StopAdmission(w)
    PROVE  CalmStep
<1>p. /\ wl \in [Workloads -> WorkloadType] /\ ins \in [Instances -> InstanceType]
      /\ wl[w] \in WorkloadType
  BY DEF TypeOK
<1>1. CASE \/ \E d \in Definitions : PublishBegin(w, d)
           \/ OpenBegin(w) \/ ResumeBegin(w)
  <2>1. UNCHANGED <<call, row, wl, ins, srv>>
    BY <1>1 DEF PublishBegin, OpenBegin, ResumeBegin
  <2>2. \E k \in {"publish", "open", "resume"} : \E g, d : Start("mgmt", k, g, d)
    BY <1>1 DEF PublishBegin, OpenBegin, ResumeBegin
  <2>3. \A t \in Threads : OpStep(t)
    BY <2>2, OpsStep DEF Start, Threads
  <2> QED BY <2>1, <2>3, IdleCalm
<1>2. CASE PublishEnd(w)
  <2> DEFINE d == op["mgmt"].def
  <2>1. /\ UNCHANGED <<call, row, srv>> /\ op["mgmt"].kind = "publish"
        /\ op' = [op EXCEPT !["mgmt"] = Idle]
    BY <1>2 DEF PublishEnd
  <2>2. \A t \in Threads : OpStep(t)
    BY <2>1, OpsStep DEF Idle, Threads
  <2>3. CASE UNCHANGED <<wl, ins>>
    BY <2>1, <2>2, <2>3, IdleCalm
  <2>4. ASSUME NEW restart \in BOOLEAN,
               Rebuild(call, [wl EXCEPT ![w] =
                    [wl[w] EXCEPT !.reg = "on", !.def = d, !.stopped = TRUE,
                              !.detached = FALSE, !.restartDrain = restart]], ins)
        PROVE  CalmStep
    <3> DEFINE v == [wl[w] EXCEPT !.reg = "on", !.def = d, !.stopped = TRUE,
                              !.detached = FALSE, !.restartDrain = restart]
               W == [wl EXCEPT ![w] = v]
    <3>1. d \in Definitions \cup {None}
      BY DEF TypeOK, OpType, Threads
    <3>2. Rebuild(call, W, ins)
      BY <2>4
    <3> HIDE DEF d
    <3>3. v \in WorkloadType /\ v.reg = "on" /\ v.stopped /\ ~v.detached
      BY <1>p, <3>1 DEF WorkloadType
    <3> HIDE DEF v
    <3>4. Stands(wl[w], v)
      BY <3>3 DEF Stands, Gone
    <3>5. W \in [Workloads -> WorkloadType] /\ \A u \in Workloads : Stands(wl[u], W[u])
      BY <1>p, <3>3, <3>4 DEF Stands
    <3>6. Installs(ins)
      BY DEF Installs, SameDrain
    <3> HIDE DEF W
    <3> QED BY <1>p, <2>1, <2>2, <3>2, <3>5, <3>6, RebuildCalm
  <2> QED BY <1>2, <2>3, <2>4 DEF PublishEnd
<1>3. CASE OpenEnd(w) \/ ResumeEnd(w) \/ StopAdmission(w)
  <2> DEFINE on == [wl[w] EXCEPT !.stopped = FALSE, !.restartDrain = FALSE]
             off == [wl[w] EXCEPT !.stopped = TRUE, !.restartDrain = FALSE]
  <2>1. /\ UNCHANGED <<call, row, ins, srv>>
        /\ \/ UNCHANGED wl \/ wl' = [wl EXCEPT ![w] = off]
           \/ wl' = [wl EXCEPT ![w] = on] /\ op["mgmt"].kind \in {"open", "resume"}
    BY <1>3 DEF OpenEnd, ResumeEnd, StopAdmission, Finish
  <2>2. \A t \in Threads : OpStep(t)
    <3>1. CASE StopAdmission(w)
      BY <3>1 DEF StopAdmission, OpStep
    <3> QED BY <1>3, <3>1, FinishStep DEF OpenEnd, ResumeEnd, Threads
  <2>3. /\ off.route = wl[w].route /\ on.route = wl[w].route
        /\ Stands(wl[w], off)
        /\ op["mgmt"].kind \in {"open", "resume"} => Stands(wl[w], on)
    BY <1>p DEF WorkloadType, Stands, Gone
  <2> HIDE DEF on, off
  <2>4. CASE UNCHANGED wl
    BY <2>1, <2>2, <2>4, IdleCalm
  <2> QED BY <2>1, <2>2, <2>3, <2>4, WorkloadCalm
<1> QED BY <1>1, <1>2, <1>3

\* r.cancel keeps every call.
LEMMA CanceledCalls ==
    ASSUME TypeOK, ServedInv, RowsInv, call' = AllCanceled, UNCHANGED row,
           SameRegistered(wl, wl'), ServerStep
    PROVE  RowsInv' /\ CallsStep
<1>1. ASSUME NEW r \in Requests PROVE CallKept(call[r], call'[r], srv'.failed)
  <2> DEFINE c == call[r]
             v == [c EXCEPT !.canceled = TRUE]
  <2>1. call'[r] = v /\ c \in CallType
    BY DEF AllCanceled, TypeOK
  <2>2. /\ v.live = c.live /\ v.uid = c.uid /\ v.close = c.close /\ v.instance = c.instance
        /\ v.assignment = c.assignment /\ v.backendDone = c.backendDone
        /\ v.transportDone = c.transportDone /\ v.responseRecorded = c.responseRecorded
    BY <2>1 DEF CallType
  <2> HIDE DEF v
  <2>3. RowCall(c, row[r], wl, srv.failed)
    BY DEF RowsInv
  <2>4. CallKept(c, v, srv'.failed)
    BY <2>2, <2>3 DEF CallKept, RowCall, Closes, Settled, ServerStep
  <2> QED BY <2>1, <2>4
<1> QED BY <1>1, CallsQuiet

\* BeginShutdown, a Shutdown that gives up, and the join of the executions.
LEMMA ProcessCalm ==
    ASSUME TypeOK, ServedInv, RowsInv, BeginShutdown \/ ShutdownTimeout \/ JoinExecutions
    PROVE  CalmStep
<1>1. /\ UNCHANGED <<row, ins>> /\ call' \in {call, AllCanceled} /\ ServerStep
      /\ srv'.drained = srv.drained
  BY DEF BeginShutdown, ShutdownTimeout, JoinExecutions, ServerStep, TypeOK, ServerType
<1>2. \A t \in Threads : OpStep(t)
  <2>1. CASE ShutdownTimeout
    BY <2>1, OpsStep DEF ShutdownTimeout, Idle, Threads
  <2> QED BY <2>1 DEF BeginShutdown, JoinExecutions, OpStep
<1>3. SameAdmissions
  <2>1. CASE BeginShutdown
    <3> SUFFICES ASSUME NEW w \in Workloads PROVE SameAdmission(wl[w], wl'[w])
      BY DEF SameAdmissions
    <3>1. /\ wl[w] \in WorkloadType
          /\ wl'[w] \in {wl[w], [wl[w] EXCEPT !.stopped = TRUE, !.restartDrain = FALSE]}
      BY <2>1 DEF BeginShutdown, TypeOK
    <3> QED BY <3>1 DEF WorkloadType, SameAdmission
  <2> QED BY <2>1, AdmissionsRefl DEF ShutdownTimeout, JoinExecutions
<1>4. SameRegistered(wl, wl')
  BY <1>3, AdmissionsStep
<1>5. RowsInv' /\ CallsStep
  BY <1>1, <1>4, CanceledCalls, CallsIdle
<1> QED BY <1>1, <1>2, <1>3, <1>5, SameDrainsRefl, AdmissionsStep, RoutedStep DEF CalmStep

-----------------------------------------------------------------------------
(* The drains                                                              *)

\* A step that begins and ends no drain keeps what the drains found.
LEMMA CalmDrain ==
    ASSUME DrainInv, CalmStep
    PROVE  DrainInv'
BY ShutdownFrame, NodeFrame DEF DrainInv, CalmStep, Threads

\* The first check: what is not live and not being closed has its final row.
LEMMA DrainedWaits ==
    ASSUME NEW c \in CallType, NEW w \in RowType, NEW W, NEW f, RowCall(c, w, W, f), ~f,
           c.live => Closes(c), ~Finalizing(c)
    PROVE  ~c.live /\ (w.assigned # "none" => w.final # "none")
BY DEF CallType, RowType, RowCall, Finalizing

\* After the barrier that row is on disk.
LEMMA WaitedWritten ==
    ASSUME NEW c, NEW w \in RowType, NEW W, NEW f, RowCall(c, w, W, f), ~f, ~c.live,
           w.assigned # "none" => w.final # "none" /\ ~InMem(w)
    PROVE  Written(c, w)
BY DEF RowType, RowCall, InMem, Written

\* Nothing of an empty set is counted.
LEMMA NoneCounted ==
    ASSUME NEW S \in SUBSET Requests, Cardinality(S) = 0
    PROVE  S = {}
<1>1. IsFiniteSet(S)
  BY ConstantsAssumption, FS_Subset
<1> QED BY <1>1, FS_EmptySet

\* The barrier of an operation that starts takes every row in memory.
LEMMA StartBar ==
    ASSUME TypeOK, NEW t \in Threads, NEW k, NEW g, NEW d, Start(t, k, g, d)
    PROVE  /\ op'[t].kind = k /\ op'[t].target = g /\ op'[t].bar = InMemory
           /\ \A u \in Threads \ {t} : op'[u] = op[u]
           /\ \A r \in Requests : InMem(row[r]) => r \in op'[t].bar
<1> DEFINE o == [kind |-> k, target |-> g, def |-> d, bar |-> InMemory]
<1>1. op' = [op EXCEPT ![t] = o]
  BY DEF Start
<1>2. op'[t] = o /\ \A u \in Threads \ {t} : op'[u] = op[u]
  BY <1>1 DEF TypeOK
<1> QED BY <1>2 DEF InMemory, InMem

\* The barrier of an operation that ends is over, unless the log failed.
LEMMA FinishBar ==
    ASSUME TypeOK, NEW t \in Threads, NEW k, NEW g, Finish(t, k, g)
    PROVE  /\ op[t].kind = k /\ op[t].target = g /\ op'[t] = Idle
           /\ \A u \in Threads \ {t} : op'[u] = op[u]
           /\ ~srv.failed => \A r \in Requests : r \in op[t].bar => ~InMem(row[r])
BY DEF TypeOK, Finish, BarrierDone, InMemory, InMem

\* Shutdown, before and after the barrier.
LEMMA ShutdownDrain ==
    ASSUME TypeOK, ServedInv, CountInv, DrainInv, ShutdownBegin \/ ShutdownEnd
    PROVE  /\ DrainInv' /\ CallsStep /\ ServerStep /\ UNCHANGED wl
           /\ op'["mgmt"] = op["mgmt"]
<1>1. /\ UNCHANGED <<row, wl, ins>> /\ call' \in {call, AllCanceled} /\ ServerStep
      /\ srv'.failed = srv.failed
  BY DEF ShutdownBegin, ShutdownEnd, ServerStep, TypeOK, ServerType
<1>2. RowsInv' /\ CallsStep
  BY <1>1, AdmissionsRefl, AdmissionsStep, CanceledCalls, CallsIdle DEF DrainInv
<1>3. op'["obs"] = op["obs"] /\ op'["mgmt"] = op["mgmt"]
  BY StartBar, FinishBar DEF ShutdownBegin, ShutdownEnd, Threads
<1>4. NodeInv'
  BY <1>1, <1>2, <1>3, SameDrainsRefl, AdmissionsRefl, AdmissionsStep, RoutedStep, NodeFrame
     DEF DrainInv, OpStep
<1>r. \A r \in Requests :
         call[r] \in CallType /\ row[r] \in RowType /\ RowCall(call[r], row[r], wl, srv.failed)
  BY DEF TypeOK, DrainInv, RowsInv
<1>5. CASE ShutdownBegin
  <2>1. /\ UNCHANGED <<call, srv>> /\ srv.shuttingDown /\ ~srv.drained /\ AllDrained
        /\ op'["stop"].kind = "shutdown"
        /\ \A r \in Requests : InMem(row[r]) => r \in op'["stop"].bar
    BY <1>5, StartBar DEF ShutdownBegin, Threads
  <2>2. ASSUME NEW r \in Requests, ~srv.failed
        PROVE  Waited(call[r], row[r], r \in op'["stop"].bar)
    <3>1. call[r].live => Closes(call[r])
      BY <1>r, <2>1, <2>2 DEF RowCall, AllDrained, Drained, RequestsDrained, CallsOf, Unfinished
    <3>2. ClosingIn(call) = {}
      BY <2>1, NoneCounted DEF AllDrained, CountInv, Counts, ClosingIn
    <3>3. ~Finalizing(call[r])
      BY <3>2 DEF ClosingIn
    <3> QED BY <1>r, <2>1, <2>2, <3>1, <3>3, DrainedWaits DEF Waited
  <2>3. ShutdownInv'
    BY <1>1, <2>1, <2>2 DEF ShutdownInv
  <2> QED BY <1>1, <1>2, <1>3, <1>4, <2>3 DEF DrainInv
<1>6. CASE ShutdownEnd
  <2>1. /\ op["stop"].kind = "shutdown" /\ op'["stop"] = Idle
        /\ ~srv.failed => \A r \in Requests : r \in op["stop"].bar => ~InMem(row[r])
        /\ srv'.drained => srv.drained \/ ~srv.failed
    BY <1>6, FinishBar DEF ShutdownEnd, Threads
  <2>2. /\ srv.shuttingDown
        /\ ~srv.failed =>
              \A r \in Requests : Waited(call[r], row[r], r \in op["stop"].bar)
        /\ srv.drained => \A r \in Requests : Written(call[r], row[r])
    BY <2>1 DEF DrainInv, ShutdownInv
  <2>3. ASSUME NEW r \in Requests, srv'.drained PROVE Written(call'[r], row'[r])
    <3>1. Written(call[r], row[r])
      <4>1. CASE ~srv.failed
        BY <1>r, <2>1, <2>2, <4>1, WaitedWritten DEF Waited
      <4> QED BY <2>1, <2>2, <2>3, <4>1
    <3>2. Still(call[r], row[r], call'[r], row'[r])
      BY <1>2, <2>2 DEF CallsStep, CallStep, Opens
    <3> QED BY <3>1, <3>2, StillWritten
  <2>4. ShutdownInv'
    BY <1>1, <2>1, <2>2, <2>3 DEF ShutdownInv, ServerStep, Idle
  <2> QED BY <1>1, <1>2, <1>3, <1>4, <2>4 DEF DrainInv
<1> QED BY <1>5, <1>6

\* DetachNode's disabled executors: ready no more, unbound if the drain is reported.
LEMMA UnreadyFields ==
    ASSUME TypeOK, NEW n, NEW drained \in BOOLEAN
    PROVE  /\ Unready(n, drained) \in [Instances -> InstanceType]
           /\ \A i \in Instances : LET x == ins[i]
                                       y == Unready(n, drained)[i]
                                   IN  /\ y.known = x.known /\ y.fenced = x.fenced
                                       /\ IF x.known /\ NodeOf[i] = n
                                          THEN ~y.ready /\ (y.drained => x.drained \/ drained)
                                          ELSE y = x
<1>1. ASSUME NEW i \in Instances
      PROVE  LET x == ins[i]
                 y == Unready(n, drained)[i]
             IN  /\ y \in InstanceType /\ y.known = x.known /\ y.fenced = x.fenced
                 /\ IF x.known /\ NodeOf[i] = n
                    THEN ~y.ready /\ (y.drained => x.drained \/ drained)
                    ELSE y = x
  <2> DEFINE a == ins[i].drained \/ drained
             b == IF drained THEN {} ELSE ins[i].bindings
             v == [ins[i] EXCEPT !.ready = FALSE, !.drained = a, !.bindings = b]
  <2>1. Unready(n, drained)[i] = IF ins[i].known /\ NodeOf[i] = n THEN v ELSE ins[i]
    BY DEF Unready
  <2>2. a \in BOOLEAN /\ b \in SUBSET Workloads /\ ins[i] \in InstanceType
    BY DEF TypeOK, InstanceType
  <2>3. a => ins[i].drained \/ drained
    OBVIOUS
  <2> HIDE DEF a, b
  <2>4. /\ v \in InstanceType /\ v.known = ins[i].known /\ v.fenced = ins[i].fenced
        /\ ~v.ready /\ v.drained = a
    BY <2>2 DEF InstanceType
  <2> HIDE DEF v
  <2> QED BY <2>1, <2>2, <2>3, <2>4
<1>2. Unready(n, drained) = [i \in Instances |-> Unready(n, drained)[i]]
  BY DEF Unready
<1> QED BY <1>1, <1>2

\* What a drained Node's executors are is not undone by disabling a Node's.
LEMMA NodeRebuilt ==
    ASSUME TypeOK, NodeInv, NEW n, NEW drained \in BOOLEAN, UNCHANGED <<call, row>>,
           Rebuild(call, wl, Unready(n, drained))
    PROVE  /\ \A i \in Instances :
                 /\ ins'[i].known = ins[i].known
                 /\ ins[i].known /\ NodeOf[i] = n => ~ins'[i].ready
                 /\ ins'[i].drained => ins[i].drained \/ (drained /\ ins[i].known /\ NodeOf[i] = n)
           /\ \A i \in Instances : ins'[i].drained /\ ins[i].drained =>
                 /\ ins'[i].known /\ ~ins'[i].ready /\ ~ins'[i].fenced
                 /\ \A w \in Workloads : i \notin wl'[w].route
                 /\ \A r \in Requests : call'[r].assignment = i => Written(call'[r], row'[r])
           /\ \A w \in Workloads : \A i \in wl'[w].route : ins'[i].ready
           /\ \A i \in Instances : ins'[i].fenced => ins[i].fenced
           /\ WorkloadsStep /\ SameRegistered(wl, wl')
<1> DEFINE I == Unready(n, drained)
<1>1. I \in [Instances -> InstanceType] /\ wl \in [Workloads -> WorkloadType]
  BY UnreadyFields DEF TypeOK
<1>2. \A i \in Instances : /\ I[i].known = ins[i].known /\ I[i].fenced = ins[i].fenced
                           /\ IF ins[i].known /\ NodeOf[i] = n
                              THEN ~I[i].ready /\ (I[i].drained => ins[i].drained \/ drained)
                              ELSE I[i] = ins[i]
  BY UnreadyFields
<1>3. Rebuild(call, wl, I)
  OBVIOUS
<1> HIDE DEF I
<1>4. /\ SameDrains(I, ins')
      /\ \A w \in Workloads : \A i \in wl'[w].route : ins'[i].ready
      /\ \A w \in Workloads : /\ wl'[w].reg = wl[w].reg /\ wl'[w].stopped = wl[w].stopped
                              /\ wl'[w].detached = wl[w].detached
  BY <1>1, <1>3, RebuildDrain
<1>5. WorkloadsStep /\ SameRegistered(wl, wl')
  BY <1>4 DEF WorkloadsStep, SameRegistered, Gone
<1>6. ASSUME NEW i \in Instances
      PROVE  /\ ins'[i].known = ins[i].known
             /\ ins[i].known /\ NodeOf[i] = n => ~ins'[i].ready
             /\ ins'[i].drained => ins[i].drained \/ (drained /\ ins[i].known /\ NodeOf[i] = n)
             /\ ins'[i].ready => ins[i].ready \/ ~ins[i].known
             /\ ins'[i].fenced => ins[i].fenced
  <2>1. SameDrain(I[i], ins'[i])
    BY <1>4 DEF SameDrains
  <2> QED BY <1>2, <2>1 DEF SameDrain
<1>7. ASSUME NEW i \in Instances, ins'[i].drained, ins[i].drained
      PROVE  /\ ins'[i].known /\ ~ins'[i].ready /\ ~ins'[i].fenced
             /\ \A w \in Workloads : i \notin wl'[w].route
             /\ \A r \in Requests : call'[r].assignment = i => Written(call'[r], row'[r])
  <2>1. /\ ins[i].known /\ ~ins[i].ready /\ ~ins[i].fenced
        /\ \A r \in Requests : call[r].assignment = i => Written(call[r], row[r])
    BY <1>7 DEF NodeInv
  <2> QED BY <1>4, <1>6, <2>1
<1> QED BY <1>4, <1>5, <1>6, <1>7

\* The drained check of a Node's executors.
LEMMA NodeChecked ==
    ASSUME TypeOK, CountInv, RowsInv, NEW n, NodeDrained(n), ~srv.failed,
           NEW i \in Instances, ins[i].known, NodeOf[i] = n,
           NEW r \in Requests, call[r].assignment = i
    PROVE  ~call[r].live /\ (row[r].assigned # "none" => row[r].final # "none")
<1>1. /\ call[r] \in CallType /\ row[r] \in RowType
      /\ RowCall(call[r], row[r], wl, srv.failed)
  BY DEF TypeOK, RowsInv
<1>2. call[r].live => Closes(call[r])
  <2>1. i # None
    BY ConstantsAssumption
  <2> QED BY <2>1 DEF NodeDrained, Unfinished
<1>3. ClosingAt(call, i) = {}
  BY ZenonT(180), NoneCounted DEF NodeDrained, CountInv, Counts, RowsAt, ClosingAt, ClosingIn
<1>4. ~Finalizing(call[r])
  BY <1>3 DEF ClosingAt, ClosingIn
<1> QED BY <1>1, <1>2, <1>4, DrainedWaits

\* DetachNode, before and after the barrier.
LEMMA NodeDrain ==
    ASSUME TypeOK, ServedInv, CountInv, DrainInv, NEW n \in Nodes,
           DetachNodeBegin(n) \/ DetachNodeEnd(n)
    PROVE  /\ DrainInv' /\ UNCHANGED <<call, row, srv>> /\ op'["mgmt"] = op["mgmt"]
           /\ WorkloadsStep /\ SameRegistered(wl, wl')
<1>1. UNCHANGED <<call, row, srv>>
  BY DEF DetachNodeBegin, DetachNodeEnd
<1>2. /\ op'["stop"] = op["stop"] /\ op'["mgmt"] = op["mgmt"]
  BY StartBar, FinishBar DEF DetachNodeBegin, DetachNodeEnd, Threads
<1>r. \A r \in Requests :
         call[r] \in CallType /\ row[r] \in RowType /\ RowCall(call[r], row[r], wl, srv.failed)
  BY DEF TypeOK, DrainInv, RowsInv
<1>3. ASSUME SameRegistered(wl, wl'), NodeInv' PROVE DrainInv'
  <2>1. RowsInv' /\ CallsStep
    BY <1>1, <1>3, CallsIdle DEF DrainInv, ServerStep
  <2>2. ShutdownInv'
    BY <1>1, <1>2, <2>1, ShutdownFrame DEF DrainInv, ServerStep, OpStep
  <2> QED BY <1>3, <2>1, <2>2 DEF DrainInv
<1>4. CASE DetachNodeBegin(n)
  <2>1. /\ op'["obs"].kind = "node" /\ op'["obs"].target = n /\ NodeDrained(n)
        /\ \A r \in Requests : InMem(row[r]) => r \in op'["obs"].bar
        /\ Rebuild(call, wl, Unready(n, FALSE))
    BY <1>4, StartBar DEF DetachNodeBegin, Threads
  <2>2. /\ \A i \in Instances :
              /\ ins'[i].known = ins[i].known
              /\ ins[i].known /\ NodeOf[i] = n => ~ins'[i].ready
              /\ ins'[i].drained => ins[i].drained
        /\ \A i \in Instances : ins'[i].drained /\ ins[i].drained =>
              /\ ins'[i].known /\ ~ins'[i].ready /\ ~ins'[i].fenced
              /\ \A w \in Workloads : i \notin wl'[w].route
              /\ \A r \in Requests : call'[r].assignment = i => Written(call'[r], row'[r])
        /\ WorkloadsStep /\ SameRegistered(wl, wl')
    BY <1>1, <2>1, NodeRebuilt DEF DrainInv
  <2>3. ASSUME NEW i \in Instances, ins[i].known, NodeOf[i] = n, ~srv.failed,
               NEW r \in Requests, call[r].assignment = i
        PROVE  Waited(call[r], row[r], r \in op'["obs"].bar)
    BY <2>1, <2>3, NodeChecked DEF DrainInv, Waited
  <2>4. NodeInv'
    BY <1>1, <2>1, <2>2, <2>3 DEF NodeInv
  <2> QED BY <1>1, <1>2, <1>3, <2>2, <2>4
<1>5. CASE DetachNodeEnd(n)
  <2>1. /\ op["obs"].kind = "node" /\ op["obs"].target = n /\ op'["obs"] = Idle
        /\ ~srv.failed => \A r \in Requests : r \in op["obs"].bar => ~InMem(row[r])
        /\ \/ UNCHANGED <<wl, ins>>
           \/ /\ ~srv.failed /\ NodeDrained(n)
              /\ Rebuild(call, wl, Unready(n, TRUE))
    BY <1>5, FinishBar DEF DetachNodeEnd, Threads
  <2>2. CASE UNCHANGED <<wl, ins>>
    <3>1. WorkloadsStep /\ SameRegistered(wl, wl')
      BY <2>2, AdmissionsRefl, AdmissionsStep
    <3>2. NodeInv'
      BY <1>1, <2>1, <2>2 DEF DrainInv, NodeInv, Idle
    <3> QED BY <1>1, <1>2, <1>3, <3>1, <3>2
  <2>3. CASE /\ ~srv.failed /\ NodeDrained(n)
             /\ Rebuild(call, wl, Unready(n, TRUE))
    <3>1. /\ \A i \in Instances :
                /\ ins'[i].known = ins[i].known
                /\ ins[i].known /\ NodeOf[i] = n => ~ins'[i].ready
                /\ ins'[i].drained => ins[i].drained \/ (ins[i].known /\ NodeOf[i] = n)
          /\ \A i \in Instances : ins'[i].drained /\ ins[i].drained =>
                /\ ins'[i].known /\ ~ins'[i].ready /\ ~ins'[i].fenced
                /\ \A w \in Workloads : i \notin wl'[w].route
                /\ \A r \in Requests : call'[r].assignment = i => Written(call'[r], row'[r])
          /\ \A w \in Workloads : \A i \in wl'[w].route : ins'[i].ready
          /\ \A i \in Instances : ins'[i].fenced => ins[i].fenced
          /\ WorkloadsStep /\ SameRegistered(wl, wl')
      BY <1>1, <2>3, NodeRebuilt DEF DrainInv
    <3>2. ASSUME NEW i \in Instances, ins[i].known, NodeOf[i] = n,
                 NEW r \in Requests, call[r].assignment = i
          PROVE  Written(call[r], row[r])
      <4>1. Waited(call[r], row[r], r \in op["obs"].bar)
        BY <2>1, <2>3, <3>2 DEF DrainInv, NodeInv
      <4> QED BY <1>r, <2>1, <2>3, <4>1, WaitedWritten DEF Waited
    <3>3. \A i \in Instances : ins[i].known /\ NodeOf[i] = n => ~ins[i].fenced
      BY <2>3 DEF NodeDrained
    <3>4. NodeInv'
      BY <1>1, <2>1, <3>1, <3>2, <3>3 DEF NodeInv, Idle
    <3> QED BY <1>1, <1>2, <1>3, <3>1, <3>4
  <2> QED BY <2>1, <2>2, <2>3
<1> QED BY <1>4, <1>5

\* No call of a drained Workload is live.
LEMMA NoneLive ==
    ASSUME RowsInv, ~srv.failed, NEW w \in Workloads, RequestsDrained(w),
           NEW r \in Requests, call[r].uid = w
    PROVE  ~call[r].live
BY DEF RowsInv, RowCall, RequestsDrained, CallsOf, Unfinished

\* Detach and Forget leave the other drains alone.
LEMMA DetachDrain ==
    ASSUME TypeOK, ServedInv, DrainInv, NEW w \in Workloads,
           DetachBegin(w) \/ DetachEnd(w) \/ ForgetBegin(w) \/ ForgetEnd(w)
    PROVE  DrainInv'
<1>1. UNCHANGED <<call, row, srv>>
  BY DEF DetachBegin, DetachEnd, ForgetBegin, ForgetEnd
<1>2. op'["stop"] = op["stop"] /\ op'["obs"] = op["obs"]
  BY StartBar, FinishBar DEF DetachBegin, DetachEnd, ForgetBegin, ForgetEnd, Threads
<1>p. /\ wl \in [Workloads -> WorkloadType] /\ ins \in [Instances -> InstanceType]
  BY DEF TypeOK
<1>3. ASSUME InstancesStep, RowsInv', CallsStep PROVE DrainInv'
  BY <1>1, <1>2, <1>3, ShutdownFrame, NodeFrame DEF DrainInv, ServerStep, OpStep
<1>4. ASSUME InstancesStep, SameRegistered(wl, wl') PROVE DrainInv'
  BY <1>1, <1>3, <1>4, CallsIdle DEF DrainInv, ServerStep
<1>5. CASE UNCHANGED <<wl, ins>>
  BY <1>4, <1>5, SameDrainsRefl, AdmissionsRefl, AdmissionsStep, RoutedStep
<1>6. CASE /\ ins' = [i \in Instances |-> [ins[i] EXCEPT !.bindings = @ \ {w}]]
           /\ wl' = [wl EXCEPT ![w] = [@ EXCEPT !.route = {}, !.detached = TRUE]]
  <2> DEFINE v == [wl[w] EXCEPT !.route = {}, !.detached = TRUE]
  <2>1. wl[w] \in WorkloadType /\ wl' = [wl EXCEPT ![w] = v]
    BY <1>p, <1>6
  <2>2. v.route = {} /\ v.reg = wl[w].reg
    BY <2>1 DEF WorkloadType
  <2> HIDE DEF v
  <2>3. wl'[w] = v /\ \A u \in Workloads \ {w} : wl'[u] = wl[u]
    BY <1>p, <2>1
  <2>4. ASSUME NEW i \in Instances PROVE SameDrain(ins[i], ins'[i])
    <3> DEFINE b == ins[i].bindings \ {w}
    <3>1. ins'[i] = [ins[i] EXCEPT !.bindings = b] /\ ins[i] \in InstanceType
      BY <1>p, <1>6
    <3> HIDE DEF b
    <3> QED BY <3>1 DEF InstanceType, SameDrain
  <2>5. InstancesStep
    <3>1. \A u \in Workloads : wl'[u].route \in SUBSET wl[u].route
      BY <2>2, <2>3
    <3> QED BY <2>4, <3>1, RoutedStep DEF SameDrains
  <2>6. SameRegistered(wl, wl')
    BY <2>2, <2>3 DEF SameRegistered
  <2> QED BY <1>4, <2>5, <2>6
<1>7. CASE /\ ForgetEnd(w) /\ ~srv.failed /\ RequestsDrained(w)
           /\ Rebuild(call, [wl EXCEPT ![w] = [NewWorkload EXCEPT !.reg = "forgotten"]], ins)
  <2> DEFINE v == [NewWorkload EXCEPT !.reg = "forgotten"]
             W == [wl EXCEPT ![w] = v]
  <2>1. Rebuild(call, W, ins)
    BY <1>7
  <2>2. v \in WorkloadType
    BY NewTypes DEF WorkloadType
  <2> HIDE DEF v
  <2>3. W \in [Workloads -> WorkloadType] /\ \A u \in Workloads \ {w} : W[u] = wl[u]
    BY <1>p, <2>2
  <2> HIDE DEF W
  <2>4. InstancesStep
    BY <1>p, <2>1, <2>3, SameDrainsRefl, RebuildStep
  <2>5. \A u \in Workloads : wl'[u].reg = W[u].reg
    BY <1>p, <2>1, <2>3, RebuildDrain
  <2>6. ASSUME NEW r \in Requests
        PROVE  /\ RowCall(call[r], row[r], wl', srv.failed)
               /\ CallStep(call[r], row[r], call[r], row[r])
    <3>1. RowCall(call[r], row[r], wl, srv.failed)
      BY DEF DrainInv, RowsInv
    <3>2. call[r].live => call[r].uid # w
      BY <1>7, NoneLive DEF DrainInv
    <3> QED BY <2>3, <2>5, <3>1, <3>2 DEF RowCall, CallStep, Still
  <2>7. RowsInv' /\ CallsStep
    BY <1>1, <2>6 DEF RowsInv, CallsStep
  <2> QED BY <1>3, <2>4, <2>7
<1> QED BY <1>5, <1>6, <1>7 DEF DetachBegin, DetachEnd, ForgetBegin, ForgetEnd, Drained

\* Detach and Forget, before and after the barrier, of a Workload that is stopped.
LEMMA DetachKept ==
    ASSUME TypeOK, CountInv, DrainInv, DetachInv, NEW w \in Workloads,
           DetachBegin(w) \/ DetachEnd(w) \/ ForgetBegin(w) \/ ForgetEnd(w),
           DetachBegin(w) \/ ForgetBegin(w) => wl[w].stopped
    PROVE  DetachInv'
<1>1. UNCHANGED <<call, row, srv>>
  BY DEF DetachBegin, DetachEnd, ForgetBegin, ForgetEnd
<1>r. \A r \in Requests :
         call[r] \in CallType /\ row[r] \in RowType /\ RowCall(call[r], row[r], wl, srv.failed)
  BY DEF TypeOK, DrainInv, RowsInv
<1>p. /\ wl \in [Workloads -> WorkloadType] /\ ins \in [Instances -> InstanceType]
  BY DEF TypeOK
<1>2. CASE DetachBegin(w) \/ ForgetBegin(w)
  <2>1. /\ UNCHANGED wl /\ wl[w].reg = "on" /\ wl[w].stopped /\ RequestsDrained(w)
        /\ op'["mgmt"].target = w
        /\ \A r \in Requests : InMem(row[r]) => r \in op'["mgmt"].bar
    BY <1>2, StartBar DEF DetachBegin, ForgetBegin, Threads, Drained
  <2>2. ASSUME NEW r \in Requests, ~srv.failed, call[r].uid = w
        PROVE  Waited(call[r], row[r], r \in op'["mgmt"].bar)
    <3>1. ~call[r].live
      BY <2>1, <2>2, NoneLive DEF DrainInv
    <3>2. ClosingOf(call, w) = {}
      BY <2>1, NoneCounted DEF RequestsDrained, CountInv, Counts, RowsOf, ClosingOf, ClosingIn
    <3>3. ~Finalizing(call[r])
      BY <2>2, <3>2 DEF ClosingOf, ClosingIn
    <3> QED BY <1>r, <2>1, <2>2, <3>1, <3>3, DrainedWaits DEF Waited
  <2> QED BY <1>1, <2>1, <2>2 DEF DetachInv
<1>3. CASE DetachEnd(w) \/ ForgetEnd(w)
  <2>1. /\ op["mgmt"].kind \in {"detach", "forget"} /\ op["mgmt"].target = w
        /\ op'["mgmt"] = Idle
        /\ ~srv.failed => \A r \in Requests : r \in op["mgmt"].bar => ~InMem(row[r])
    BY <1>3, FinishBar DEF DetachEnd, ForgetEnd, Threads
  <2>2. CASE UNCHANGED wl
    BY <1>1, <2>1, <2>2 DEF DetachInv, Idle
  <2>3. CASE ~srv.failed /\ \A u \in Workloads \ {w} : Gone(wl'[u]) => Gone(wl[u])
    <3>1. ASSUME NEW r \in Requests, call[r].uid = w PROVE Written(call[r], row[r])
      <4>1. Waited(call[r], row[r], r \in op["mgmt"].bar)
        BY <2>1, <2>3, <3>1 DEF DetachInv
      <4> QED BY <1>r, <2>1, <2>3, <4>1, WaitedWritten DEF Waited
    <3> QED BY <1>1, <2>1, <2>3, <3>1 DEF DetachInv, Gone, Idle
  <2>4. UNCHANGED wl \/ (~srv.failed /\ \A u \in Workloads \ {w} : Gone(wl'[u]) => Gone(wl[u]))
    <3>1. CASE DetachEnd(w)
      BY <1>p, <3>1 DEF DetachEnd
    <3>2. CASE ForgetEnd(w)
      <4> DEFINE v == [NewWorkload EXCEPT !.reg = "forgotten"]
                 W == [wl EXCEPT ![w] = v]
      <4>1. UNCHANGED wl \/ (~srv.failed /\ Rebuild(call, W, ins))
        BY <3>2 DEF ForgetEnd
      <4>2. v \in WorkloadType
        BY NewTypes DEF WorkloadType
      <4> HIDE DEF v
      <4>3. W \in [Workloads -> WorkloadType] /\ \A u \in Workloads \ {w} : W[u] = wl[u]
        BY <1>p, <4>2
      <4> HIDE DEF W
      <4>4. Rebuild(call, W, ins) =>
              \A u \in Workloads : wl'[u].reg = W[u].reg /\ wl'[u].detached = W[u].detached
        BY <1>p, <4>3, RebuildDrain
      <4> QED BY <4>1, <4>3, <4>4 DEF Gone
    <3> QED BY <1>3, <3>1, <3>2
  <2> QED BY <2>2, <2>3, <2>4
<1> QED BY <1>2, <1>3

-----------------------------------------------------------------------------
(* The next boot                                                           *)

\* NewRuntime: what it restores is live, of a registered Workload and open, and every
\* other row it reads is final; no drain survives.
LEMMA BootDrain ==
    ASSUME TypeOK, ServedInv, NEW unknown, NEW disk, Boot(unknown, disk),
           \A r \in Requests :
              /\ disk[r].assigned \in {"none", "disk"} /\ disk[r].final \in {"none", "disk"}
              /\ disk[r].assigned = "disk" => row[r].assigned # "none"
    PROVE  DrainInv' /\ DetachInv'
<1>p. \A r \in Requests : r \in Pending(disk) <=> disk[r].assigned = "disk" /\ disk[r].final # "disk"
  BY DEF Pending
<1>1. row' = disk /\ ~srv'.failed /\ ~srv'.drained
  <2>1. srv' = [boots |-> srv.boots + 1, up |-> FALSE, unknown |-> unknown,
                failed |-> FALSE, shuttingDown |-> FALSE,
                executionsStopped |-> FALSE, drained |-> FALSE,
                finalizing |-> 0]
    BY ZenonT(60) DEF Boot
  <2>2. row' = disk
    BY DEF Boot
  <2>3. ~srv'.failed /\ ~srv'.drained
    BY SMTT(30), <2>1
  <2> QED BY <2>2, <2>3
<1>2. \A t \in Threads : op'[t].kind = "idle"
  <2>1. op' = [t \in Threads |-> Idle]
    BY DEF Boot
  <2> QED BY SMTT(30), <2>1 DEF Idle
<1>3. ASSUME NEW r \in Requests
      PROVE  LET c == call[r]
                 d == call'[r] IN
             \/ c.at = "new" /\ disk[r].assigned = "none" /\ d = NewCall
             \/ /\ r \in Pending(disk) /\ c.uid \in Workloads
                /\ d.uid = c.uid /\ d.live /\ d.assignment = c.assignment
                /\ d.instance = c.assignment /\ ~d.backendDone /\ d.close = "open"
             \/ r \notin Pending(disk) /\ d = RowOnly(c)
  <2> DEFINE c == call[r]
             v == [NewCall EXCEPT
                   !.at = "done", !.uid = c.uid, !.def = c.def,
                   !.live = TRUE, !.assignment = c.assignment,
                   !.instance = c.assignment, !.exec = "over",
                   !.transportDone = TRUE, !.responseRecorded = TRUE]
  <2>1. /\ c.at = "new" => disk[r].assigned = "none"
        /\ r \in Pending(disk) => c.uid \in Workloads
    BY <1>p DEF ServedInv, CallsInv, CallInv, FreshCall, NamedCall
  <2>2. /\ v.live /\ v.uid = c.uid /\ v.assignment = c.assignment
        /\ v.instance = c.assignment /\ ~v.backendDone /\ v.close = "open"
    BY SMTT(30) DEF NewCall
  <2>3. call'[r] = CASE c.at = "new" -> NewCall
                     [] r \in Pending(disk) -> v
                     [] OTHER -> RowOnly(c)
    BY DEF Boot
  <2> HIDE DEF c, v
  <2>4. \/ c.at = "new" /\ call'[r] = NewCall
        \/ r \in Pending(disk) /\ call'[r] = v
        \/ r \notin Pending(disk) /\ call'[r] = RowOnly(c)
    BY <2>3
  <2> QED BY <2>1, <2>2, <2>4 DEF c
<1>4. /\ ~NewCall.live /\ NewCall.instance = None /\ NewCall.close = "open"
      /\ NewCall.uid = None
  BY DEF NewCall
<1>5. ASSUME NEW r \in Requests
      PROVE  \/ /\ call'[r].live /\ r \in Pending(disk) /\ call'[r].uid = call[r].uid
                /\ call[r].uid \in Workloads /\ ~Closes(call'[r]) /\ call'[r].close = "open"
             \/ /\ ~call'[r].live /\ call'[r].instance = None
                /\ Written(call'[r], disk[r])
                /\ disk[r].assigned # "none" => call'[r].close = "closed"
                /\ call'[r].uid = None \/ call'[r].uid = call[r].uid
  <2>1. CASE call[r].at = "new" /\ disk[r].assigned = "none" /\ call'[r] = NewCall
    BY <1>4, <2>1 DEF Written
  <2>2. CASE /\ r \in Pending(disk) /\ call[r].uid \in Workloads
             /\ call'[r].uid = call[r].uid /\ call'[r].live
             /\ ~call'[r].backendDone /\ call'[r].close = "open"
    BY <2>2 DEF Closes, Settled
  <2>3. CASE r \notin Pending(disk) /\ call'[r] = RowOnly(call[r])
    <3>1. RowOnly(call[r]).uid = call[r].uid
      BY DEF RowOnly, NewCall
    <3> QED BY <1>p, <2>3, <3>1, RowOnlyFields DEF Written
  <2> QED BY <1>3, <2>1, <2>2, <2>3
<1>6. ASSUME NEW w \in Workloads
      PROVE  (\E r \in Pending(disk) : call[r].uid = w) => wl'[w].reg = "on" /\ ~Gone(wl'[w])
  <2> DEFINE P == {r \in Pending(disk) : call[r].uid = w}
             d == call[CHOOSE r \in P : TRUE].def
             v == [NewWorkload EXCEPT !.reg = "on", !.stopped = TRUE,
                     !.restartDrain = TRUE, !.def = d]
  <2>1. P # {} => wl'[w] = v
    BY DEF Boot
  <2> HIDE DEF d
  <2>2. v.reg = "on" /\ ~v.detached
    BY DEF NewWorkload
  <2> QED BY <2>1, <2>2 DEF Gone
<1>7. ASSUME NEW i \in Instances PROVE ~ins'[i].drained
  <2> DEFINE P == {r \in Pending(disk) : call[r].assignment = i}
             b == {call[r].uid : r \in P}
             n == Cardinality(P)
             v == [NewInstance EXCEPT !.known = TRUE, !.fenced = unknown,
                     !.bindings = b, !.outstanding = n]
  <2>1. ins'[i] = IF P = {} THEN NewInstance ELSE v
    BY DEF Boot
  <2> HIDE DEF P, b, n
  <2>2. ~v.drained /\ ~NewInstance.drained
    BY DEF NewInstance
  <2> QED BY SMTT(30), <2>1, <2>2
<1>8. RowsInv'
  <2> SUFFICES ASSUME NEW r \in Requests
               PROVE  RowCall(call'[r], disk[r], wl', srv'.failed)
    BY <1>1 DEF RowsInv
  <2>1. disk[r].assigned \in {"none", "disk"} /\ disk[r].final \in {"none", "disk"}
    OBVIOUS
  <2>2. r \in Pending(disk) /\ call'[r].uid \in Workloads /\ call'[r].uid = call[r].uid
           => wl'[call'[r].uid].reg = "on"
    BY <1>6
  <2> QED BY <1>5, <2>1, <2>2 DEF RowCall, Written
<1>9. ASSUME NEW w \in Workloads, Gone(wl'[w]), NEW r \in Requests, call'[r].uid = w
      PROVE  Written(call'[r], disk[r])
  <2>1. None # w
    BY ConstantsAssumption
  <2> QED BY <1>5, <1>6, <1>9, <2>1
<1> QED BY <1>1, <1>2, <1>7, <1>8, <1>9
     DEF DrainInv, ShutdownInv, NodeInv, DetachInv, Gone, Threads
\* A crash and an orderly exit both boot from what is on disk.
LEMMA BootsDrain ==
    ASSUME TypeOK, ServedInv, Crash \/ CleanExit
    PROVE  DrainInv' /\ DetachInv'
<1>1. CASE Crash
  <2> DEFINE disk == [r \in Requests |->
         [assigned |-> IF row[r].assigned = "disk" THEN "disk" ELSE "none",
          final |-> IF row[r].final = "disk" THEN "disk" ELSE "none"]]
  <2>1. \A r \in Requests :
           /\ disk[r].assigned \in {"none", "disk"} /\ disk[r].final \in {"none", "disk"}
           /\ disk[r].assigned = "disk" => row[r].assigned # "none"
    OBVIOUS
  <2>2. Boot(TRUE, disk)
    BY <1>1 DEF Crash
  <2> HIDE DEF disk
  <2> QED BY <2>1, <2>2, BootDrain
<1>2. CASE CleanExit
  <2> DEFINE disk == [r \in Requests |->
         [assigned |-> IF row[r].assigned = "none" THEN "none" ELSE "disk",
          final |-> IF row[r].final = "none" THEN "none" ELSE "disk"]]
  <2>1. \A r \in Requests :
           /\ disk[r].assigned \in {"none", "disk"} /\ disk[r].final \in {"none", "disk"}
           /\ disk[r].assigned = "disk" => row[r].assigned # "none"
    OBVIOUS
  <2>2. Boot(srv.unknown, disk)
    BY <1>2 DEF CleanExit
  <2> HIDE DEF disk
  <2> QED BY <2>1, <2>2, BootDrain
<1> QED BY <1>1, <1>2

-----------------------------------------------------------------------------
(* The invariants and the theorems                                         *)

LEMMA InitDrain == Init => DrainInv /\ DetachInv
<1> SUFFICES ASSUME Init PROVE DrainInv /\ DetachInv
  OBVIOUS
<1>1. ASSUME NEW r \in Requests
      PROVE  /\ ~call[r].live /\ call[r].instance = None /\ call[r].close = "open"
             /\ row[r].assigned = "none" /\ row[r].final = "none"
  BY DEF Init, NewCall
<1>2. \A t \in Threads : op[t].kind = "idle"
  BY DEF Init, Idle
<1>3. ~srv.drained
  BY DEF Init
<1>4. \A i \in Instances : ~ins[i].drained
  BY DEF Init, NewInstance
<1>5. \A w \in Workloads : ~Gone(wl[w])
  BY DEF Init, NewWorkload, Gone
<1> QED BY <1>1, <1>2, <1>3, <1>4, <1>5
     DEF DrainInv, RowsInv, RowCall, ShutdownInv, NodeInv, DetachInv, Gone, Threads

\* Every step that begins and ends no drain and starts no boot.
LEMMA NextCalm ==
    ASSUME TypeOK, ServedInv, SafeInv, CountInv, RowsInv, [Next]_vars
    PROVE  \/ CalmStep
           \/ ShutdownBegin \/ ShutdownEnd
           \/ \E n \in Nodes : DetachNodeBegin(n) \/ DetachNodeEnd(n)
           \/ \E w \in Workloads : \/ DetachBegin(w) \/ DetachEnd(w)
                                   \/ ForgetBegin(w) \/ ForgetEnd(w)
           \/ Crash \/ CleanExit
<1>1. ASSUME NEW r \in Requests, HandlerStep(r) PROVE CalmStep
  BY <1>1, HandlerCalm
<1>2. ASSUME NEW r \in Requests, ExecuteStep(r) PROVE CalmStep
  BY <1>2, ExecuteCalm
<1>3. ASSUME DispatchStep PROVE CalmStep
  BY <1>3, DispatchCalm
<1>4. ASSUME WorldStep PROVE CalmStep
  BY <1>4, WorldCalm
<1>5. ASSUME ObserverStep, ~\E n \in Nodes : DetachNodeBegin(n) \/ DetachNodeEnd(n)
      PROVE  CalmStep
  BY <1>5, ObserverCalm
<1>6. ASSUME NEW w \in Workloads,
             \/ \E d \in Definitions : PublishBegin(w, d)
             \/ PublishEnd(w) \/ OpenBegin(w) \/ OpenEnd(w)
             \/ ResumeBegin(w) \/ ResumeEnd(w) \/ StopAdmission(w)
      PROVE  CalmStep
  BY <1>6, ManagementCalm
<1>7. ASSUME BeginShutdown \/ ShutdownTimeout \/ JoinExecutions PROVE CalmStep
  BY <1>7, ProcessCalm
<1>8. ASSUME UNCHANGED vars PROVE CalmStep
  <2>1. RowsInv' /\ CallsStep
    BY <1>8, AdmissionsRefl, AdmissionsStep, CallsIdle DEF vars, ServerStep
  <2> QED BY <1>8, <2>1, AdmissionsRefl, LocalCalm DEF vars
<1> QED BY <1>1, <1>2, <1>3, <1>4, <1>5, <1>6, <1>7, <1>8
     DEF Next, ManagementStep, ProcessStep

LEMMA NextDrain ==
    ASSUME TypeOK, ServedInv, SafeInv, CountInv, DrainInv, [Next]_vars
    PROVE  DrainInv'
<1>1. CASE CalmStep
  BY <1>1, CalmDrain
<1>2. CASE ShutdownBegin \/ ShutdownEnd
  BY <1>2, ShutdownDrain
<1>3. ASSUME NEW n \in Nodes, DetachNodeBegin(n) \/ DetachNodeEnd(n) PROVE DrainInv'
  BY <1>3, NodeDrain
<1>4. ASSUME NEW w \in Workloads,
             DetachBegin(w) \/ DetachEnd(w) \/ ForgetBegin(w) \/ ForgetEnd(w)
      PROVE  DrainInv'
  BY <1>4, DetachDrain
<1>5. CASE Crash \/ CleanExit
  BY <1>5, BootsDrain
<1> QED BY <1>1, <1>2, <1>3, <1>4, <1>5, NextCalm DEF DrainInv

LEMMA Drains == Spec => [](TypeOK /\ ServedInv /\ SafeInv /\ CountInv /\ DrainInv)
<1>1. TypeOK /\ ServedInv /\ SafeInv /\ CountInv /\ DrainInv /\ [Next]_vars => DrainInv'
  BY NextDrain
<1>2. Init => DrainInv
  BY InitDrain
<1>3. Spec => [](TypeOK /\ ServedInv /\ SafeInv)
  BY Safe
<1> QED BY <1>1, <1>2, <1>3, CountKept, PTL DEF Spec

\* Shutdown returns nil only with the final row of every accepted request on disk, and
\* what an executor still holds is an older boot's: whatever was accepted, answered,
\* closed or written while the drain waited for the log outside the lock.
THEOREM ShutdownWritten == Spec => []ShutdownSound
<1>1. ASSUME TypeOK, SafeInv, DrainInv PROVE ShutdownSound
  <2> SUFFICES ASSUME srv.drained, NEW r \in Requests
               PROVE  /\ row[r].assigned # "none" => row[r].final = "disk"
                      /\ phys[r].st = "held" => ~ins[phys[r].at].known
                                                \/ ins[phys[r].at].fenced
    BY DEF ShutdownSound
  <2>1. Written(call[r], row[r]) /\ RowCall(call[r], row[r], wl, srv.failed)
    BY <1>1 DEF DrainInv, ShutdownInv, RowsInv
  <2>2. ASSUME phys[r].st = "held" PROVE ~ins[phys[r].at].known \/ ins[phys[r].at].fenced
    <3>1. phys[r].at \in Instances
      BY <1>1, <2>2 DEF TypeOK, SafeInv, CallsSafe, CallSafe, UnslottedCall, HeldCall
    <3>2. call[r].instance # phys[r].at
      BY <2>1, <3>1, ConstantsAssumption DEF RowCall, Written
    <3> QED BY <1>1, <2>2, <3>1, <3>2 DEF SafeInv, LostInv
  <2> QED BY <2>1, <2>2 DEF Written
<1> QED BY <1>1, Drains, PTL

\* A Node is reported drained, the condition for changing its power, only if its
\* executors execute nothing, are routed nothing and owe the log nothing: whatever
\* was assigned, probed or installed while DetachNode waited outside the lock.
THEOREM NodeLeftQuiet == Spec => []NodeQuiet
<1>1. ASSUME TypeOK, SafeInv, DrainInv PROVE NodeQuiet
  <2> SUFFICES ASSUME NEW i \in Instances, ins[i].drained
               PROVE  /\ HeldAt(i) = {} /\ ins[i].outstanding = 0
                      /\ \A w \in Workloads : i \notin wl[w].route
                      /\ \A r \in Requests : call[r].assignment = i /\ row[r].assigned # "none"
                            => row[r].final = "disk"
    BY DEF NodeQuiet
  <2>1. /\ ins[i].known /\ ~ins[i].fenced
        /\ \A w \in Workloads : i \notin wl[w].route
        /\ \A r \in Requests : call[r].assignment = i => Written(call[r], row[r])
    BY <1>1 DEF DrainInv, NodeInv
  <2>2. ASSUME NEW r \in Requests PROVE call[r].instance # i
    <3>1. call[r].instance # None => call[r].live
      BY <1>1 DEF DrainInv, RowsInv, RowCall
    <3>2. call[r].instance \in {None, call[r].assignment}
      BY <1>1 DEF SafeInv, CallsSafe, CallSafe, UnslottedCall, OwnedCall
    <3> QED BY <2>1, <3>1, <3>2, ConstantsAssumption DEF Written
  <2>3. HeldAt(i) = {}
    BY <1>1, <2>1, <2>2 DEF HeldAt, SafeInv, LostInv
  <2>4. ins[i].outstanding = 0
    <3>1. OwnedBy(call, i) = {}
      BY <2>2 DEF OwnedBy
    <3> QED BY <1>1, <3>1, FS_EmptySet DEF SafeInv, SlotsInv, SlotInv
  <2> QED BY <2>1, <2>3, <2>4 DEF Written
<1> QED BY <1>1, Drains, PTL

-----------------------------------------------------------------------------
(* Detach and Forget                                                       *)

\* The Workload manager, their only caller, stops the admission of a Workload before
\* it detaches or forgets it.
StopsFirst == \A w \in Workloads : DetachBegin(w) \/ ForgetBegin(w) => wl[w].stopped

LEMMA NextDetach ==
    ASSUME TypeOK, ServedInv, SafeInv, CountInv, DrainInv, DetachInv,
           [Next]_vars, [StopsFirst]_vars
    PROVE  DetachInv'
<1>1. CASE CalmStep
  BY <1>1, DetachFrame DEF CalmStep, Threads
<1>2. CASE UNCHANGED vars
  BY <1>2, AdmissionsRefl, AdmissionsStep, CallsIdle, DetachFrame
     DEF vars, ServerStep, OpStep, DrainInv
<1>3. CASE ShutdownBegin \/ ShutdownEnd
  BY <1>3, ShutdownDrain, AdmissionsRefl, AdmissionsStep, DetachFrame DEF OpStep
<1>4. ASSUME NEW n \in Nodes, DetachNodeBegin(n) \/ DetachNodeEnd(n) PROVE DetachInv'
  <2>1. /\ UNCHANGED <<call, row, srv>> /\ op'["mgmt"] = op["mgmt"]
        /\ WorkloadsStep /\ SameRegistered(wl, wl')
    BY <1>4, NodeDrain
  <2>2. CallsStep
    BY <2>1, CallsIdle DEF ServerStep, DrainInv
  <2> QED BY <2>1, <2>2, DetachFrame DEF ServerStep, OpStep
<1>5. ASSUME NEW w \in Workloads,
             DetachBegin(w) \/ DetachEnd(w) \/ ForgetBegin(w) \/ ForgetEnd(w), StopsFirst
      PROVE  DetachInv'
  <2>1. DetachBegin(w) \/ ForgetBegin(w) => wl[w].stopped
    BY <1>5 DEF StopsFirst
  <2> QED BY <1>5, <2>1, DetachKept
<1>6. CASE Crash \/ CleanExit
  BY <1>6, BootsDrain
<1> QED BY <1>1, <1>2, <1>3, <1>4, <1>5, <1>6, NextCalm DEF DrainInv

\* A Workload that was detached or forgotten has no request left on any executor and
\* no row in memory, if its admission was stopped before the first check and if no
\* older boot ended without saying what it had sent (srv.unknown: of those executors
\* Runtime knows that they may hold requests it has no record of).
THEOREM DetachedIsDone ==
    Spec /\ [][StopsFirst]_vars => [](~srv.unknown => DrainSound)
<1>1. TypeOK /\ ServedInv /\ SafeInv /\ CountInv /\ DrainInv /\ DetachInv
        /\ [Next]_vars /\ [StopsFirst]_vars => DetachInv'
  BY NextDetach
<1>2. ASSUME TypeOK, SafeInv, DrainInv, DetachInv, ~srv.unknown PROVE DrainSound
  <2> SUFFICES ASSUME NEW w \in Workloads, wl[w].detached \/ wl[w].reg = "forgotten",
                      NEW r \in Requests, call[r].uid = w
               PROVE  /\ phys[r].st # "held"
                      /\ row[r].assigned # "none" => row[r].final = "disk"
    BY DEF DrainSound
  <2>1. Written(call[r], row[r]) /\ RowCall(call[r], row[r], wl, srv.failed)
    BY <1>2 DEF DetachInv, DrainInv, RowsInv
  <2>2. ASSUME phys[r].st = "held" PROVE FALSE
    <3>1. phys[r].at \in Instances
      BY <1>2, <2>2 DEF TypeOK, SafeInv, CallsSafe, CallSafe, UnslottedCall, HeldCall
    <3>2. call[r].instance # phys[r].at
      BY <2>1, <3>1, ConstantsAssumption DEF RowCall, Written
    <3> QED BY <1>2, <2>2, <3>1, <3>2 DEF SafeInv, LostInv
  <2> QED BY <2>1, <2>2 DEF Written
<1>3. Init => DetachInv
  BY InitDrain
<1>4. TypeOK /\ SafeInv /\ DrainInv /\ DetachInv => (~srv.unknown => DrainSound)
  BY <1>2
<1> QED BY <1>1, <1>3, <1>4, Drains, PTL DEF Spec
=============================================================================
