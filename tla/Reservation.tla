----------------------------- MODULE Reservation -----------------------------
(* The reservation ledger of the scheduler controller: internal/serving/kube, *)
(* reservation.go, cluster_state_transitions.go, scheduler_state_reconcile.go *)
(* and scheduler_operations_launch.go.                                        *)
(*                                                                            *)
(* An owner is an admitted target: a parent run and one run for each action   *)
(* of its DAG.  Actions execute outside the lock and end late, fail, or lose  *)
(* their answer; a tick reads the Pods, gives back the Nodes it has seen      *)
(* settled, judges the owners and starts what is ready.  One Workload; a Pod, *)
(* its slot and its container are one instance; routing weights, power modes, *)
(* resizing, cancellation, the intermediate route to a ready subset, manual   *)
(* operations and reset are left out.                                         *)

CONSTANTS Owners, Actions, Instances,
          OwnerOf, KindOf,   \* of an action: "prepare", "route", "stop", "drain", "remove", "undo"
          Touches,           \* the instances an action writes: all its policies for a route, one otherwise
          DependsOn, NodeOf,
          Initial,           \* instances that serve at the start
          Env                \* "startfail", "fail", "lost", "bad", "foreign", "crash", "delete"

Kinds == {"prepare", "route", "stop", "drain", "remove", "undo"}

\* Every run has an ID of its own, the parent's and each action's.
ASSUME ReservationAssumption ==
    /\ Owners \cap Actions = {}
    /\ OwnerOf \in [Actions -> Owners] /\ KindOf \in [Actions -> Kinds]
    /\ Touches \in [Actions -> SUBSET Instances] /\ DependsOn \in [Actions -> SUBSET Actions]
    /\ Initial \subseteq Instances
    /\ \A a \in Actions : KindOf[a] # "route" => \E i \in Instances : Touches[a] = {i}

\* b is before a in every order the dependencies allow.
Precedes(b, a) == \A past \in SUBSET Actions : a \in past /\ (\A c \in past : DependsOn[c] \subseteq past) => b \in past

\* The remove of the instance that a stop stops, in the same plan.
RemoveAfter(s) == {m \in Actions : /\ KindOf[m] = "remove" /\ OwnerOf[m] = OwnerOf[s]
                                   /\ Touches[m] = Touches[s] /\ Precedes(s, m)}

\* Who plans a stop plans, after its drain, the remove (changeNodes,
\* retirePreparationBlocker, retireOld).
ASSUME RemoveAssumption == \A a \in Actions : KindOf[a] = "stop" => RemoveAfter(a) # {}

VARIABLES ledger,    \* owner or action -> its run: status and reserved scope
          memo,      \* owner -> returnObserved, mayTouch, Before
          bound,     \* prepares with a prepareIdentity
          exec,      \* action -> how far Execute is and what it found
          pod,       \* instance -> what Kubernetes and the executor are
          seen,      \* instance -> pod as the last observation read it
          recent,    \* actions that ended since the observation began
          pc, todo,  \* the tick, and the owners it still has to sweep
          deletion   \* the Workload's deletion: "none", "held", "over"

vars == <<ledger, memo, bound, exec, pod, seen, recent, pc, todo, deletion>>

----------------------------------------------------------------------------
DAG(o) == {a \in Actions : OwnerOf[a] = o /\ KindOf[a] # "undo"}
Members(o) == {o} \cup {a \in Actions : OwnerOf[a] = o}
NodesOf(is) == {NodeOf[i] : i \in is}
InstanceOf(a) == CHOOSE i \in Touches[a] : TRUE

Active(r) == ledger[r].status = "running"
Terminal(r) == ledger[r].status \in {"complete", "failed"}
Reserved(o) == {r \in Members(o) : ledger[r].reserved}
Visible(i) == seen[i] \notin {"absent", "lost"}

\* The evidence of a created Pod, from the moment it is in the ledger.
CreationKnown(a) == exec[a].created /\ exec[a].at \in {"recorded", "done"}

NoRun == [status |-> "none", reserved |-> FALSE, nodes |-> {}, insts |-> {}, routing |-> FALSE, owns |-> FALSE]
NoExec == [at |-> "idle", started |-> FALSE, ok |-> FALSE, created |-> FALSE, actual |-> FALSE, captured |-> FALSE]

Init == /\ ledger = [r \in Owners \cup Actions |-> NoRun]
        /\ memo = [o \in Owners |-> [returned |-> FALSE, mayTouch |-> {}, before |-> {}]]
        /\ bound = {}
        /\ exec = [a \in Actions |-> NoExec]
        /\ pod = [i \in Instances |-> IF i \in Initial THEN "good" ELSE "absent"]
        /\ seen = pod
        /\ recent = {} /\ pc = "idle" /\ todo = {} /\ deletion = "none"

\* operationScope: the Nodes it writes and whatever the snapshot shows there.
\* A transition with local actions reserves their Nodes, one without the routing.
LocalNodes(o) == NodesOf(UNION {Touches[a] : a \in {b \in DAG(o) : KindOf[b] # "route"}})
Scope(nodes, insts, routing) ==
    [status |-> "running", reserved |-> TRUE, nodes |-> nodes, routing |-> routing, owns |-> TRUE,
     insts |-> insts \cup {i \in Instances : Visible(i) /\ NodeOf[i] \in nodes}]
TransitionScope(o) == Scope(LocalNodes(o), {}, LocalNodes(o) = {})
ActionScope(a) == Scope(NodesOf(Touches[a]), Touches[a], KindOf[a] = "route")

Overlaps(s, t) == s.nodes \cap t.nodes # {} \/ s.insts \cap t.insts # {} \/ (s.routing /\ t.routing)

\* Mutant: a Workload's deletion does not refuse the next execution.
ConflictsNotWithDeletion(o, s) == \E p \in Owners \ {o} : \E r \in Reserved(p) : Overlaps(s, ledger[r])

\* reserveRun's refusal.  Owners of one Workload conflict with its deletion and
\* not with each other.
Conflicts(o, s) == \/ deletion = "held"
                   \/ \E p \in Owners \ {o} : \E r \in Reserved(p) : Overlaps(s, ledger[r])

\* Mutant: what a failed owner has still to remove does not hold its Nodes.
PendingCleanupForgotten(o) == {}

\* Drains and removals of a completed stop that a failed owner still dispatches.
Cleanup(o) == {a \in DAG(o) : /\ KindOf[a] \in {"drain", "remove"}
                              /\ \E s \in DAG(o) : /\ KindOf[s] = "stop" /\ Touches[s] = Touches[a]
                                                   /\ ledger[s].status = "complete"}
PendingCleanup(o) == {a \in Cleanup(o) : ledger[o].status = "failed" /\ ledger[a].status = "none"}

----------------------------------------------------------------------------
(* A tick: observe, release, reconcile, sweep.  tickMu keeps ticks apart;     *)
(* mu is held by each step below and through the sweep.                       *)

TickBegin == /\ pc = "idle" /\ deletion # "over"  \* the story ends with the Workload
             /\ recent' = {} /\ pc' = "read"
             /\ UNCHANGED <<ledger, memo, bound, exec, pod, seen, todo, deletion>>

TickRead == /\ pc = "read"
            /\ seen' = pod /\ pc' = "release"
            /\ UNCHANGED <<ledger, memo, bound, exec, pod, recent, todo, deletion>>

\* Mutant: an executor the owner prepared itself proves nothing.
ConfirmedUntouched(o, i) == seen[i] = "good" /\ i \in memo[o].before \ memo[o].mayTouch

\* knownOwnerEffectConfirmed: the executor is ready under a policy this owner
\* can account for: untouched, prepared by it, routed by it, or unchanged.
Confirmed(o, i) ==
    /\ seen[i] = "good"
    /\ \/ i \in memo[o].before \ memo[o].mayTouch
       \/ \E a \in Members(o) \ {o} :
              /\ Terminal(a) /\ NodeOf[i] \in ledger[a].nodes
              /\ \/ KindOf[a] = "prepare" /\ Touches[a] = {i} /\ (a \in bound \/ exec[a].actual)
                 \/ KindOf[a] = "prepare" /\ i \in memo[o].before /\ exec[a].captured
                 \/ KindOf[a] = "route" /\ i \in Touches[a] /\ exec[a].captured

\* Mutant: only the parent's end is awaited.
WritingUnseen(o, n) == FALSE

\* A sibling that can still write, on this Node.
Writing(o, n) == \E a \in Members(o) \ {o} : Active(a) /\ n \in NodesOf(Touches[a])

\* Mutant: no Pod is taken for no creation.
NodeReturnedBlind(o, n) ==
    /\ ~Writing(o, n)
    /\ \A a \in PendingCleanup(o) : NodeOf[InstanceOf(a)] # n
    /\ \A i \in Instances : NodeOf[i] = n /\ Visible(i) => Confirmed(o, i)

\* ownerNodeReturned.
NodeReturned(o, n) ==
    /\ ~Writing(o, n)
    /\ \A a \in PendingCleanup(o) : NodeOf[InstanceOf(a)] # n
    /\ \A a \in Reserved(o) \ {o} : KindOf[a] = "prepare" /\ NodeOf[InstanceOf(a)] = n => CreationKnown(a)
    /\ \A i \in Instances : NodeOf[i] = n /\ Visible(i) => Confirmed(o, i)

Held(o) == UNION {ledger[r].nodes : r \in {q \in Reserved(o) : Terminal(q)}}

\* observedReturnParent, and every reserved resource on a Node still held.
Releasable(o) == /\ Reserved(o) # {} /\ recent \cap Members(o) = {} /\ Terminal(o)
                 /\ \A r \in Reserved(o) : Terminal(r) => NodesOf(ledger[r].insts) \subseteq Held(o)

\* pruneReturnedOwnerScopes.
Pruned(o, r, back) ==
    LET run == [ledger[r] EXCEPT !.nodes = @ \ back, !.insts = {i \in @ : NodeOf[i] \notin back}]
    IN IF run.nodes = {} /\ run.insts = {} /\ PendingCleanup(o) = {} /\ ~\E m \in Members(o) : Active(m)
       THEN [run EXCEPT !.routing = FALSE, !.owns = FALSE, !.reserved = r \in Owners]
       ELSE run

Empty(run) == run.nodes = {} /\ run.insts = {} /\ ~run.routing

\* releaseObservedScopes.
TickRelease ==
    /\ pc = "release"
    /\ LET Back(o) == {n \in Held(o) : NodeReturned(o, n)}
           After(o, r) == IF Releasable(o) /\ r \in Reserved(o) THEN Pruned(o, r, Back(o)) ELSE ledger[r]
       IN /\ ledger' = [r \in DOMAIN ledger |-> After(IF r \in Owners THEN r ELSE OwnerOf[r], r)]
          /\ memo' = [o \in Owners |-> IF Releasable(o)
                 THEN [memo[o] EXCEPT !.returned =
                          Held(o) \subseteq Back(o) /\ \A r \in Members(o) : ledger'[r].reserved => Empty(ledger'[r])]
                 ELSE memo[o]]
    /\ pc' = "reconcile"
    /\ UNCHANGED <<bound, exec, pod, seen, recent, todo, deletion>>

\* freezePreparingExecutorsLocked: a created Pod that now has a container.
Bindable == {a \in Actions \ bound : /\ KindOf[a] = "prepare" /\ CreationKnown(a)
                                     /\ seen[InstanceOf(a)] \in {"good", "foreign", "bad"}}

\* failTargetLocked: a failed action, or a completed one whose effect is gone.
EffectLost(a) == KindOf[a] = "prepare" /\ ledger[a].status = "complete" /\ pod[InstanceOf(a)] \in {"absent", "lost"}
TargetFailed(o) == \E a \in DAG(o) : ledger[a].status = "failed" \/ EffectLost(a)
DAGComplete(o) == \A a \in DAG(o) : ledger[a].status = "complete"

\* reconcileOwnersLocked.
Judged(o) == IF ledger[o].status # "running" THEN "same"
             ELSE IF TargetFailed(o) THEN "failed" ELSE IF DAGComplete(o) THEN "complete" ELSE "same"

TickReconcile ==
    /\ pc = "reconcile"
    /\ bound' = bound \cup Bindable
    /\ LET New(o) == {InstanceOf(a) : a \in {b \in Bindable : OwnerOf[b] = o}}
           Back(o) == memo[o].returned /\ New(o) = {}
           Parent(o) == [ledger[o] EXCEPT !.insts = @ \cup New(o),
                             !.status = IF Judged(o) = "same" THEN @ ELSE Judged(o),
                             !.reserved = @ /\ Judged(o) # "complete" /\ ~(Terminal(o) /\ Back(o))]
           Child(a) == [ledger[a] EXCEPT !.insts = IF a \in Bindable THEN @ \cup Touches[a] ELSE @,
                             !.status = IF Active(OwnerOf[a]) /\ EffectLost(a) THEN "failed" ELSE @,
                             !.reserved = @ /\ Judged(OwnerOf[a]) # "complete"]
       IN /\ ledger' = [r \in DOMAIN ledger |-> IF r \in Owners THEN Parent(r) ELSE Child(r)]
          /\ memo' = [o \in Owners |-> [memo[o] EXCEPT !.returned = Back(o)]]
    /\ pc' = "sweep"
    /\ todo' = {o \in Owners : ledger'[o].status = "running" \/ (ledger'[o].status = "failed" /\ ledger'[o].reserved)}
    /\ UNCHANGED <<exec, pod, seen, recent, deletion>>

\* unconfirmedActionReason: an instance of unknown state on the Node, or at the
\* end of the route.
Blocked(a) == \E i \in Instances : /\ seen[i] \in {"starting", "bad"}
                                   /\ IF KindOf[a] = "route" THEN i \in Touches[a] ELSE NodeOf[i] = NodeOf[InstanceOf(a)]

\* dependenciesComplete: a stop also rechecks that the handoff still holds.
DependenciesComplete(a) ==
    \A d \in DependsOn[a] : /\ ledger[d].status = "complete"
                            /\ (KindOf[a] = "stop" /\ KindOf[d] = "route") => \A i \in Touches[d] : pod[i] = "good"

\* compensatePreparationsLocked: remove what a failed prepare of a failed owner
\* created and nobody has claimed.
Compensated(o) ==
    {a \in Members(o) \ {o} :
        /\ KindOf[a] = "undo" /\ ledger[o].status = "failed" /\ ~\E m \in Members(o) : Active(m)
        /\ \E p \in Reserved(o) \ {o} :
               /\ KindOf[p] = "prepare" /\ Touches[p] = Touches[a] /\ ledger[p].status = "failed" /\ p \notin recent
               /\ CreationKnown(p) /\ (p \in bound \/ exec[p].actual) /\ seen[InstanceOf(p)] = "foreign"}

Due(o) == (IF Active(o) THEN DAG(o) ELSE Cleanup(o)) \cup Compensated(o)

\* What launchTargetLocked starts in this sweep.
Launched(o) == {a \in Due(o) : /\ ledger[a].status = "none" /\ ~Blocked(a) /\ DependenciesComplete(a)
                               /\ KindOf[a] = "route" => ~\E b \in Members(o) \ {o} : KindOf[b] = "route" /\ Active(b)
                               /\ ~Conflicts(o, ActionScope(a))}

\* failUnconfirmedTransitionLocked: nothing runs, and all that could run next
\* waits for an instance of unknown state.
Unconfirmed(o) ==
    LET open == {a \in DAG(o) : ledger[a].status # "complete"}
    IN /\ Active(o) /\ open # {} /\ Launched(o) = {} /\ ~\E a \in Members(o) \ {o} : Active(a)
       /\ \A a \in open : DependsOn[a] \cap open = {} =>
              ledger[a].status = "none" /\ Blocked(a) /\ DependenciesComplete(a)

Sweep(o) ==
    /\ pc \in {"sweep", "last"} /\ o \in todo
    /\ ledger' = [r \in DOMAIN ledger |->
           IF r \in Launched(o) THEN ActionScope(r)
           ELSE IF r = o /\ Unconfirmed(o) THEN [ledger[r] EXCEPT !.status = "failed"] ELSE ledger[r]]
    /\ exec' = [a \in Actions |-> IF a \in Launched(o) THEN [NoExec EXCEPT !.at = "authorized"] ELSE exec[a]]
    /\ memo' = [memo EXCEPT ![o].returned = @ /\ Launched(o) = {},
                            ![o].mayTouch = @ \cup {i \in memo[o].before :
                                NodeOf[i] \in NodesOf(UNION {Touches[a] : a \in Launched(o)})}]
    /\ todo' = todo \ {o}
    /\ UNCHANGED <<bound, pod, seen, recent, pc, deletion>>

\* startTransition: the tick's decision, once the admitted owners are swept.
Admit(o) ==
    /\ pc = "sweep" /\ todo = {} /\ ledger[o].status = "none"
    /\ \E a \in DAG(o) : KindOf[a] \in {"prepare", "route"} \/ (~Blocked(a) /\ DependenciesComplete(a))
    /\ ~Conflicts(o, TransitionScope(o))
    /\ ledger' = [ledger EXCEPT ![o] = TransitionScope(o)]
    /\ memo' = [memo EXCEPT ![o].before = {i \in Instances : Visible(i)}]
    /\ pc' = "last" /\ todo' = {o}
    /\ UNCHANGED <<bound, exec, pod, seen, recent, deletion>>

TickEnd == /\ pc \in {"sweep", "last"} /\ todo = {}
           /\ pc' = "idle"
           /\ UNCHANGED <<ledger, memo, bound, exec, pod, seen, recent, todo, deletion>>

----------------------------------------------------------------------------
(* The executions, outside the lock.                                          *)

Found(a, ok) == [exec[a] EXCEPT !.at = "acted", !.ok = ok, !.started = TRUE, !.captured = TRUE]
HasContainer(i) == pod[i] \in {"good", "foreign", "bad", "stopped"}

\* The start record cannot be written: no effect.
StartFails(a) == /\ exec[a].at = "authorized" /\ "startfail" \in Env
                 /\ exec' = [exec EXCEPT ![a].at = "acted"]
                 /\ UNCHANGED <<ledger, memo, bound, pod, seen, recent, pc, todo, deletion>>

\* PrepareInstance: rejected before Create, created, or Create without an answer.
Create(a) ==
    /\ exec[a].at = "authorized" /\ KindOf[a] = "prepare" /\ pod[InstanceOf(a)] = "absent"
    /\ \/ /\ "fail" \in Env /\ \E c \in BOOLEAN : exec' = [exec EXCEPT ![a] = [Found(a, FALSE) EXCEPT !.captured = c]]
          /\ UNCHANGED pod
       \/ /\ exec' = [exec EXCEPT ![a] = [Found(a, FALSE) EXCEPT !.at = "acting", !.created = TRUE]]
          /\ pod' = [pod EXCEPT ![InstanceOf(a)] = "starting"]
       \/ /\ "lost" \in Env /\ exec' = [exec EXCEPT ![a] = Found(a, FALSE)]
          /\ pod' = [pod EXCEPT ![InstanceOf(a)] = "lost"]
    /\ UNCHANGED <<ledger, memo, bound, seen, recent, pc, todo, deletion>>

\* The executor is ready, or the deadline passes; then the final capture fails
\* with it.
Observed(a) ==
    /\ exec[a].at = "acting" /\ KindOf[a] = "prepare"
    /\ \/ pod[InstanceOf(a)] = "good" /\ exec' = [exec EXCEPT ![a].at = "acted", ![a].ok = TRUE, ![a].actual = TRUE]
       \/ /\ "fail" \in Env
          /\ \E known \in {FALSE, HasContainer(InstanceOf(a))} : exec' = [exec EXCEPT ![a].at = "acted", ![a].actual = known]
    /\ UNCHANGED <<ledger, memo, bound, pod, seen, recent, pc, todo, deletion>>

\* ApplyTarget, StopInstance, detachInstance, removeInstance: done, done and
\* reported as failed, or not done.
Effect(a) == CASE KindOf[a] = "stop" -> "stopped"
               [] KindOf[a] \in {"remove", "undo"} -> "absent"
               [] OTHER -> "same"
Act(a) ==
    /\ exec[a].at = "authorized" /\ KindOf[a] # "prepare"
    /\ \E done \in BOOLEAN, ok \in BOOLEAN :
           /\ ok => done
           /\ ~ok => "fail" \in Env \/ ~\A i \in Touches[a] : HasContainer(i)
           /\ done => \A i \in Touches[a] : HasContainer(i)
           /\ pod' = [i \in Instances |-> IF done /\ i \in Touches[a] /\ Effect(a) # "same" THEN Effect(a) ELSE pod[i]]
           /\ exec' = [exec EXCEPT ![a] = Found(a, ok)]
    /\ UNCHANGED <<ledger, memo, bound, seen, recent, pc, todo, deletion>>

MuFree == pc \notin {"sweep", "last"}

\* recordPreparationLocked: the evidence enters the scopes first.
RecordPreparation(a) ==
    /\ exec[a].at = "acted" /\ MuFree
    /\ exec' = [exec EXCEPT ![a].at = "recorded"]
    /\ IF exec[a].created
       THEN /\ ledger' = [ledger EXCEPT ![a].insts = @ \cup Touches[a], ![OwnerOf[a]].insts = @ \cup Touches[a]]
            /\ memo' = [memo EXCEPT ![OwnerOf[a]].returned = FALSE]
       ELSE UNCHANGED <<ledger, memo>>
    /\ UNCHANGED <<bound, pod, seen, recent, pc, todo, deletion>>

\* completeRun.  The outcome's record may fail: the result is then partial.
CompleteRun(a) ==
    /\ exec[a].at = "recorded" /\ MuFree
    /\ \E ok \in {exec[a].ok, exec[a].ok /\ "fail" \notin Env} :
           ledger' = [ledger EXCEPT ![a].status = IF ok THEN "complete" ELSE "failed",
                                    ![a].reserved = @ /\ exec[a].started,
                                    ![a].routing = @ /\ ~ok]
    /\ exec' = [exec EXCEPT ![a].at = "done"]
    /\ recent' = recent \cup {a}
    /\ UNCHANGED <<memo, bound, pod, seen, pc, todo, deletion>>

----------------------------------------------------------------------------
(* Kubernetes and the executors, and the Workload's deletion.                 *)

Fates(i) == CASE pod[i] = "lost" -> {"starting", "absent"}
              [] pod[i] = "starting" -> {"good"} \cup ({"bad", "foreign"} \cap Env)
              [] pod[i] = "bad" -> {"good"}
              [] pod[i] \in {"good", "stopped"} -> IF "crash" \in Env THEN {"absent"} ELSE {}
              [] OTHER -> {}
Change(i) == /\ \E p \in Fates(i) : pod' = [pod EXCEPT ![i] = p]
             /\ UNCHANGED <<ledger, memo, bound, exec, seen, recent, pc, todo, deletion>>

\* ReserveDeletion takes tickMu; the whole Workload conflicts with every run
\* that owns part of it, and so do its Pods and their Nodes.
Living == {i \in Instances : pod[i] \notin {"absent", "lost"}}
ReserveDeletion ==
    /\ "delete" \in Env /\ deletion = "none" /\ pc = "idle"
    /\ \A r \in DOMAIN ledger : ledger[r].reserved =>
           /\ ~ledger[r].owns /\ ~ledger[r].routing
           /\ ledger[r].nodes \cap NodesOf(Living) = {} /\ ledger[r].insts \cap Living = {}
    /\ deletion' = "held"
    /\ UNCHANGED <<ledger, memo, bound, exec, pod, seen, recent, pc, todo>>

DeletePod(i) == /\ deletion = "held" /\ i \in Living
                /\ pod' = [pod EXCEPT ![i] = "absent"]
                /\ UNCHANGED <<ledger, memo, bound, exec, seen, recent, pc, todo, deletion>>

ReleaseDeletion == /\ deletion = "held" /\ Living = {}
                   /\ deletion' = "over"
                   /\ UNCHANGED <<ledger, memo, bound, exec, pod, seen, recent, pc, todo>>

Tick == TickBegin \/ TickRead \/ TickRelease \/ TickReconcile \/ TickEnd
Control == Tick \/ \E o \in Owners : Sweep(o)
Effects(a) == Create(a) \/ Observed(a) \/ Act(a)
Ends(a) == RecordPreparation(a) \/ CompleteRun(a)
Next == \/ Tick
        \/ \E o \in Owners : Sweep(o) \/ Admit(o)
        \/ \E a \in Actions : StartFails(a) \/ Effects(a) \/ Ends(a)
        \/ \E i \in Instances : Change(i) \/ DeletePod(i)
        \/ ReserveDeletion \/ ReleaseDeletion

Spec == Init /\ [][Next]_vars

\* Serve ticks for ever and a sweep goes through every owner; an execution ends,
\* at its deadline if not before, and gets the lock, which is not starved.  Each
\* action executes once, so that one condition for all of them says it of each.
Fairness == /\ WF_vars(Control)
            /\ WF_vars(\E a \in Actions : Effects(a))
            /\ SF_vars(\E a \in Actions : Ends(a))
FairSpec == Spec /\ Fairness

----------------------------------------------------------------------------
(* Properties.                                                                *)

Responsible(o) == UNION {ledger[r].nodes : r \in Reserved(o)}

\* A Node belongs to one owner at a time, and no execution writes a Node that
\* its owner has given back or another owner has taken: the reservation covers
\* every authorized execution, and every drain and removal a failed owner has
\* still to start.
WritersCovered ==
    /\ \A o \in Owners, p \in Owners : o # p => Responsible(o) \cap Responsible(p) = {}
    /\ \A a \in Actions : exec[a].at \in {"authorized", "acting"} => NodesOf(Touches[a]) \subseteq Responsible(OwnerOf[a])
    /\ \A o \in Owners : ledger[o].status = "failed" =>
           \A a \in Cleanup(o) : ledger[a].status = "none" => NodeOf[InstanceOf(a)] \in Responsible(o)

\* Nothing unsettled is left behind on a Node that is free: neither a creation
\* whose answer was lost, nor an executor that starts, fails to serve, serves
\* under a policy nobody accounts for, or was stopped and not removed.
NothingLeftBehind ==
    \A i \in Instances : pod[i] \notin {"absent", "good"} => \E o \in Owners : NodeOf[i] \in Responsible(o)

\* A Workload's deletion and an execution never overlap.
DeletionAlone == deletion = "held" => \A a \in Actions : exec[a].at \notin {"authorized", "acting"}

\* Nothing is unknown about what the owner did: every creation it asked for was
\* answered, and on its Nodes there is nothing but executors that serve, which
\* it created or never touched.
Settled(o) ==
    /\ \A a \in DAG(o) : (KindOf[a] = "prepare" /\ exec[a].started) => exec[a].created
    /\ \A i \in Instances : NodeOf[i] \in Responsible(o) =>
           \/ pod[i] = "absent"
           \/ pod[i] = "good" /\ i \in memo[o].before \ memo[o].mayTouch
           \/ pod[i] = "good" /\ \E a \in DAG(o) : KindOf[a] = "prepare" /\ Touches[a] = {i} /\ exec[a].created

\* The responsibility of a failed owner returns once nothing is unknown any more
\* (docs/design/serving/scheduler-implementation.md:207).
Failed(o) == ledger[o].status = "failed" /\ Reserved(o) # {}
Returned(o) == Reserved(o) = {} \/ ~Settled(o)
ReservationReturns == \A o \in Owners : Failed(o) ~> Returned(o)

\* Its Nodes do, when it prepares on no more than one of them.
Owes(o) == ledger[o].status = "failed" /\ Responsible(o) # {}
Paid(o) == Responsible(o) = {} \/ ~Settled(o)
NodesReturn == \A o \in Owners : Owes(o) ~> Paid(o)
=============================================================================
