------------------------------ MODULE Manager ------------------------------
(* The Workload manager (internal/serving/management/manager.go): the only    *)
(* writer of definitions.  One mutex serialises its handlers, but a handler   *)
(* is a sequence of effects on three places that fail separately: the         *)
(* Workload object of the API server, the runtime's definition and gate, and  *)
(* the observation log.  `job' is the script of the handler that holds the    *)
(* mutex, one effect per step, so that requests, failures and a crash of the  *)
(* server fall between any two of them.  Long operations advance over several *)
(* passes of Advance, which the server's loop calls for ever.                 *)
(*                                                                            *)
(* Abstractions: an SLO stands for every part of a definition that needs no   *)
(* drain (SLO, lifetime, dataset); a Workload has at most one outstanding     *)
(* call; a resource is the executor the Workload owns; time is the right of   *)
(* a drain to fail; the preconditions of the runtime's operations are those   *)
(* of Runtime.                                                                *)
EXTENDS Integers, Sequences, FiniteSets, SequencesExt

CONSTANTS Workloads,   \* names
          Objs,        \* models and preprocessors
          Refs,        \* the sets of objects a Workload may name
          Slos,
          Registered,  \* Workloads registered and open at the beginning
          Actions,     \* the requests of this instance
          Faults,      \* the failures of this instance
          MaxUid, MaxGen,   \* bounds: registrations of a name, generations
          MaxOps, MaxCalls, MaxFaults, MaxCrashes   \* bounds

ManagerAssumption ==
    /\ Refs \subseteq SUBSET Objs /\ Refs # {} /\ Registered \subseteq Workloads
    /\ Actions \subseteq {"create", "update", "delete", "share", "deleteObject"}
    /\ Faults \subseteq {"api", "lost", "log", "timeout"}

VARIABLES store,    \* API server: the Workload object of each name
          cat,      \* API server: generation of each model and preprocessor, 0 when absent
          mem,      \* the manager: ready, failed statuses, deletion checks, reservations, log health
          rt,       \* the runtime: definition and gate of each name
          retained, \* definitions of the observation log
          calls,    \* the outstanding call of each Workload
          res,      \* the executor each Workload owns
          job,      \* the rest of the handler that holds the mutex
          budget

vars == <<store, cat, mem, rt, retained, calls, res, job, budget>>

NoOp == [kind |-> "none", phase |-> "none", target |-> {}]
NoDef == [uid |-> 0, gen |-> 0, objs |-> <<>>, slo |-> 0]
NoObject == [uid |-> 0]
NoRuntime == [uid |-> 0, def |-> NoDef, stopped |-> TRUE, reason |-> "", detached |-> FALSE]
NoCall == [def |-> NoDef, recovered |-> FALSE]
NoStatus == [uid |-> 0]
NoJob == [todo |-> <<>>, group |-> <<>>, op |-> NoOp]

Active(op) == op.phase \notin {"none", "Completed", "Failed"}
Operation(kind, target) == [kind |-> kind, phase |-> "Draining", target |-> target]

Present(w) == store[w].uid # 0
Unwritten(w) == mem.failed[w].uid # 0 /\ mem.failed[w].uid = store[w].uid
\* status: a terminal failure that was not written hides the stored one.
StatusOp(w) == IF Unwritten(w) THEN mem.failed[w].op ELSE store[w].op
StatusApplied(w) == IF Unwritten(w) THEN mem.failed[w].applied ELSE store[w].applied
\* applied: the runtime's definition of this registration.
Applied(w) == IF rt[w].uid # 0 /\ rt[w].uid = store[w].uid THEN rt[w].def ELSE NoDef
AppliedStatus(w) == IF Applied(w) # NoDef THEN Applied(w) ELSE StatusApplied(w)

SameExecution(d, e) == d.objs = e.objs
Snapshot(s) == [uid |-> s.uid, gen |-> s.gen, objs |-> [o \in s.ref |-> cat[o]], slo |-> s.slo]
Exists(ref) == \A o \in ref : cat[o] > 0
Drained(w) == calls[w] = NoCall
Idle == job.todo = <<>>
Ready == mem.ready /\ Idle

CatalogBusy(ref) == \E w \in Workloads : Present(w) /\ Active(StatusOp(w))
                                          /\ \E t \in StatusOp(w).target : t[1] \in ref

------------------------------------------------------------------------------
(* Scripts *)

Effect(e, w, x) == [e |-> e, w |-> w, x |-> x]
Phase(w, op, phase) == <<Effect("Persist", w, [op EXCEPT !.phase = phase]), Effect("Record", w, "")>>
\* install: the closed definition, then its durable status, then the event.
Install(w, op, d) == <<Effect("Publish", w, d), Effect("Persist", w, [op EXCEPT !.phase = "Applying"]), Effect("Record", w, "")>>
Open(w) == <<Effect("Open", w, "")>>

\* A bug: the gate opens before the applied status is written.
ApplyOpensFirst(w, op, d) ==
    Phase(w, op, "Applying") \o <<Effect("Publish", w, d)>> \o Open(w) \o Phase(w, op, "Completed")

Apply(w, op, d) == Phase(w, op, "Applying") \o Install(w, op, d) \o Open(w) \o Phase(w, op, "Completed")

\* A bug: only the member that failed is closed.
FailScriptAlone(ws) == FlattenSeq([i \in 1..Len(ws) |-> <<Effect("FailMark", ws[i], ""), Effect("FailRecord", ws[i], "")>>])

\* failGroup closes every gate before it persists any failure; fail is its case of one member.
FailScript(ws) ==
    <<Effect("FailStop", "", "")>>
    \o FlattenSeq([i \in 1..Len(ws) |-> <<Effect("FailMark", ws[i], ""), Effect("FailRecord", ws[i], "")>>])

Begin(script, group, op) == job' = [todo |-> script, group |-> group, op |-> op]
Then(more) == job' = IF more \o Tail(job.todo) = <<>> THEN NoJob ELSE [job EXCEPT !.todo = more \o Tail(@)]
\* What remains of Initialize after the failure of one Workload.
Others == SelectSeq(Tail(job.todo), LAMBDA f : f.e \in {"Restore", "Ready"})
Fails == job' = [job EXCEPT !.todo = FailScript(job.group) \o Others]
FailsOn(ws) == job' = [todo |-> FailScript(ws) \o Others, group |-> ws, op |-> NoOp]

Fault(kind) == /\ kind \in Faults /\ budget.faults < MaxFaults
               /\ budget' = [budget EXCEPT !.faults = @ + 1]
At(e) == job.todo # <<>> /\ Head(job.todo).e = e
W == Head(job.todo).w
X == Head(job.todo).x

------------------------------------------------------------------------------
(* Effects.  Each is one call a handler makes; a failure turns the rest of    *)
(* the handler into its failure script.                                       *)

Written(w, op) == [store EXCEPT ![w] = [@ EXCEPT !.op = op, !.applied = AppliedStatus(w)]]

\* persist: the operation and what the runtime really applies.
Persist ==
    /\ At("Persist")
    /\ \/ Present(W) /\ store' = Written(W, X) /\ Then(<<>>) /\ UNCHANGED budget
       \/ ~Present(W) /\ Fails /\ UNCHANGED <<store, budget>>
       \/ Fault("api") /\ Fails /\ UNCHANGED store
       \/ Present(W) /\ Fault("lost") /\ store' = Written(W, X) /\ Fails
    /\ UNCHANGED <<cat, mem, rt, retained, calls, res>>

\* record: an append that fails leaves the log unhealthy for the life of the process.
Record ==
    /\ At("Record")
    /\ \/ mem.log /\ Then(<<>>) /\ UNCHANGED <<mem, budget>>
       \/ ~mem.log /\ Fails /\ UNCHANGED <<mem, budget>>
       \/ mem.log /\ Fault("log") /\ mem' = [mem EXCEPT !.log = FALSE] /\ Fails
    /\ UNCHANGED <<store, cat, rt, retained, calls, res>>

CanPublish(w, d) == /\ mem.log
                    /\ rt[w].uid \in {0, d.uid}
                    /\ rt[w].uid = d.uid => (SameExecution(rt[w].def, d) \/ Drained(w))

Closed(d, reason) == [uid |-> d.uid, def |-> d, stopped |-> TRUE, reason |-> reason, detached |-> FALSE]

\* A bug: the definition is not appended to the log.
PublishForgotten ==
    /\ At("Publish")
    /\ IF CanPublish(W, X) THEN rt' = [rt EXCEPT ![W] = Closed(X, "Applying")] /\ Then(<<>>) ELSE Fails /\ UNCHANGED rt
    /\ UNCHANGED <<store, cat, mem, retained, calls, res, budget>>

PublishClosed ==
    /\ At("Publish")
    /\ IF CanPublish(W, X)
       THEN rt' = [rt EXCEPT ![W] = Closed(X, "Applying")] /\ retained' = retained \cup {X} /\ Then(<<>>)
       ELSE Fails /\ UNCHANGED <<rt, retained>>
    /\ UNCHANGED <<store, cat, mem, calls, res, budget>>

OpenAdmission ==
    /\ At("Open")
    /\ IF mem.log /\ rt[W].uid # 0 /\ (rt[W].reason = "RestartDrain" => Drained(W))
       THEN rt' = [rt EXCEPT ![W].stopped = FALSE, ![W].reason = ""] /\ Then(<<>>)
       ELSE Fails /\ UNCHANGED rt
    /\ UNCHANGED <<store, cat, mem, retained, calls, res, budget>>

Detach ==
    /\ At("Detach")
    /\ IF mem.log /\ Drained(W) /\ (rt[W].uid # 0 => rt[W].stopped)
       THEN rt' = [rt EXCEPT ![W] = IF @.uid = 0 THEN @ ELSE [@ EXCEPT !.detached = TRUE]] /\ Then(<<>>)
       ELSE Fails /\ UNCHANGED rt
    /\ UNCHANGED <<store, cat, mem, retained, calls, res, budget>>

\* A bug: the executors are looked at and not deleted.
ClearedNever(ws) == res

\* CleanupWorkload deletes what the Workload owns and reports done when nothing is left.
Cleared(ws) == [w \in Workloads |-> IF w \in ws /\ Drained(w) /\ res[w] = "running" THEN "deleting" ELSE res[w]]

\* A bug: clean-up is done when everything was told to stop.
CleanEarly(ws) == \A w \in ws : Drained(w)

Clean(ws) == \A w \in ws : Drained(w) /\ res[w] = "none"

Cleanup ==
    /\ At("Cleanup")
    /\ \/ Fault("api") /\ Fails /\ UNCHANGED res
       \/ /\ res' = Cleared({W}) /\ UNCHANGED budget
          /\ IF ~Clean({W}) THEN job' = NoJob
             ELSE IF X.kind = "Delete" THEN Then(<<Effect("RemoveFinalizer", W, ""), Effect("Confirm", W, "")>>)
             ELSE IF Exists(store[W].ref) THEN Then(Phase(W, X, "Applying") \o Apply(W, X, Snapshot(store[W])))
             ELSE Fails
    /\ UNCHANGED <<store, cat, mem, rt, retained, calls>>

\* The barrier's second half: install every member, open every gate, complete every operation.
GroupScript(ws, op) ==
    FlattenSeq([i \in 1..Len(ws) |-> Phase(ws[i], op, "Applying") \o Install(ws[i], op, Snapshot(store[ws[i]]))])
    \o FlattenSeq([i \in 1..Len(ws) |-> Open(ws[i])])
    \o FlattenSeq([i \in 1..Len(ws) |-> Phase(ws[i], op, "Completed")])

CleanupGroup ==
    /\ At("CleanupGroup")
    /\ \/ Fault("api") /\ Fails /\ UNCHANGED res
       \/ /\ res' = Cleared(ToSet(job.group)) /\ UNCHANGED budget
          /\ IF ~Clean(ToSet(job.group)) THEN job' = NoJob
             ELSE IF \A w \in ToSet(job.group) : Exists(store[w].ref) /\ \A t \in X.target : t[1] \in store[w].ref /\ cat[t[1]] = t[2]
             THEN Then(GroupScript(job.group, X))
             ELSE Fails
    /\ UNCHANGED <<store, cat, mem, rt, retained, calls>>

\* The proof of the deletion is kept in memory only when the patch was answered.
RemoveFinalizer ==
    /\ At("RemoveFinalizer")
    /\ \/ /\ store' = [store EXCEPT ![W].fin = FALSE] /\ Then(<<>>) /\ UNCHANGED budget
          /\ mem' = [mem EXCEPT !.checks[W] = store[W]]
       \/ Fault("api") /\ Fails /\ UNCHANGED <<store, mem>>
       \/ Fault("lost") /\ store' = [store EXCEPT ![W].fin = FALSE] /\ Fails /\ UNCHANGED mem
    /\ UNCHANGED <<cat, rt, retained, calls, res>>

Gone(w) == store[w].uid # mem.checks[w].uid
Forgotten(w) ==
    /\ rt' = [rt EXCEPT ![w] = IF @.uid = mem.checks[w].uid THEN NoRuntime ELSE @]
    /\ mem' = [mem EXCEPT !.checks[w] = NoObject, !.failed[w] = NoStatus,
                          !.reserved = @ \ {<<w, mem.checks[w].uid>>}]
CanForget(w) == mem.log /\ Drained(w)

\* confirmDeletion at the end of a deletion; its event cannot undo what was done.
ConfirmDeletion ==
    /\ At("Confirm")
    /\ IF ~Gone(W) THEN job' = NoJob /\ UNCHANGED <<rt, mem>>
       ELSE IF CanForget(W) THEN Forgotten(W) /\ job' = NoJob
       ELSE Fails /\ UNCHANGED <<rt, mem>>
    /\ UNCHANGED <<store, cat, retained, calls, res, budget>>

FailStop ==
    /\ At("FailStop") /\ Then(<<>>)
    /\ rt' = [w \in Workloads |-> IF w \in ToSet(job.group) /\ rt[w].uid # 0 /\ rt[w].uid = store[w].uid
                                  THEN [rt[w] EXCEPT !.stopped = TRUE, !.reason = "Failed"] ELSE rt[w]]
    /\ UNCHANGED <<store, cat, mem, retained, calls, res, budget>>

FailedOp(w) == LET op == IF job.op # NoOp THEN job.op ELSE StatusOp(w) IN
               [kind |-> IF op = NoOp THEN "Update" ELSE op.kind, phase |-> "Failed", target |-> op.target]

\* fail: the failure is kept in memory until it is written.
FailMark ==
    /\ At("FailMark") /\ Then(<<>>)
    /\ LET status == [uid |-> store[W].uid, op |-> FailedOp(W), applied |-> AppliedStatus(W)]
           kept == [mem EXCEPT !.failed[W] = status]
       IN IF ~Present(W) THEN UNCHANGED <<store, mem, budget>>
          ELSE \/ store' = Written(W, FailedOp(W)) /\ mem' = [mem EXCEPT !.failed[W] = NoStatus] /\ UNCHANGED budget
               \/ Fault("api") /\ mem' = kept /\ UNCHANGED store
    /\ UNCHANGED <<cat, rt, retained, calls, res>>

FailRecord ==
    /\ At("FailRecord") /\ Then(<<>>)
    /\ \/ UNCHANGED <<mem, budget>>
       \/ mem.log /\ Fault("log") /\ mem' = [mem EXCEPT !.log = FALSE]
    /\ UNCHANGED <<store, cat, rt, retained, calls, res>>

------------------------------------------------------------------------------
(* Initialize *)

\* The shared updates that were interrupted, by the object they changed.
Interrupted == UNION {{t[1] : t \in store[w].op.target} : w \in {v \in Workloads : Present(v) /\ Active(store[v].op)}}

Initialize ==
    /\ ~mem.ready /\ Idle
    /\ LET ws == SetToSeq({w \in Workloads : Present(w)})
       IN job' = [NoJob EXCEPT !.todo = [i \in 1..Len(ws) |-> Effect("Restore", ws[i],
                                                            [object |-> store[ws[i]], shared |-> store[ws[i]].ref \cap Interrupted # {}])]
                                        \o <<Effect("Ready", "", "")>>]
    /\ UNCHANGED <<store, cat, mem, rt, retained, calls, res, budget>>

\* restoreDefinition: the recorded applied definition, or the desired one of a Workload never applied.
RestoreDefinition(w, s, interrupted) ==
    IF s.applied # NoDef THEN (IF s.applied \in retained THEN s.applied ELSE NoDef)
    ELSE IF Applied(w) # NoDef \/ interrupted \/ s.op.phase = "Failed"
            \/ ~Exists(s.ref) \/ CatalogBusy(s.ref) THEN NoDef
    ELSE Snapshot(s)

\* restoreWorkload: publish closed; only an uninterrupted Workload that applies what it desires resumes.
RestoreWorkload(w, s, shared) ==
    LET interrupted == Active(s.op) \/ shared \/ s.deleting
        d == RestoreDefinition(w, s, interrupted)
    IN IF d = NoDef \/ ~CanPublish(w, d) THEN FailsOn(<<w>>) /\ UNCHANGED <<rt, retained>>
       ELSE /\ retained' = retained \cup {d}
            /\ IF interrupted
               THEN rt' = [rt EXCEPT ![w] = Closed(d, "RestartDrain")] /\ FailsOn(<<w>>)
               ELSE IF s.op.phase = "Failed"
               THEN rt' = [rt EXCEPT ![w] = Closed(d, "Failed")]
                    /\ job' = [job EXCEPT !.todo = <<Effect("Persist", w, s.op)>> \o Tail(@), !.group = <<w>>]
               ELSE /\ rt' = [rt EXCEPT ![w] = Closed(d, "RestartDrain")]
                    /\ IF Exists(s.ref) /\ Snapshot(s) = d
                       THEN LET p == Effect("Persist", w, s.op)
                            IN job' = [job EXCEPT !.todo = <<p, Effect("Resume", w, ""), p>> \o Tail(@), !.group = <<w>>]
                       ELSE FailsOn(<<w>>)

Restore ==
    /\ At("Restore")
    /\ \/ RestoreWorkload(W, X.object, X.shared) /\ UNCHANGED budget
       \/ Fault("api") /\ FailsOn(<<W>>) /\ UNCHANGED <<rt, retained>>
    /\ UNCHANGED <<store, cat, mem, calls, res>>

\* ResumeAfterRestart: nothing happens while a known call is outstanding.
Resume ==
    /\ At("Resume")
    /\ IF Drained(W) /\ ~mem.log THEN Fails /\ UNCHANGED rt
       ELSE /\ Then(<<>>)
            /\ rt' = IF Drained(W) THEN [rt EXCEPT ![W].stopped = FALSE, ![W].reason = ""] ELSE rt
    /\ UNCHANGED <<store, cat, mem, retained, calls, res, budget>>

ReadyNow ==
    /\ At("Ready") /\ mem' = [mem EXCEPT !.ready = TRUE] /\ Then(<<>>)
    /\ UNCHANGED <<store, cat, rt, retained, calls, res, budget>>

------------------------------------------------------------------------------
(* Requests of operators *)

Asked(action) == /\ Ready /\ action \in Actions /\ budget.ops < MaxOps
                 /\ budget' = [budget EXCEPT !.ops = @ + 1]
Valid(ref) == Exists(ref) /\ ~CatalogBusy(ref)
\* stop: the gate of what the runtime applies.
Stopped(ws, reason) == [w \in Workloads |-> IF w \in ws /\ Applied(w) # NoDef
                                            THEN [rt[w] EXCEPT !.stopped = TRUE, !.reason = reason] ELSE rt[w]]

NewObject(ref, slo) == [uid |-> budget.uid + 1, gen |-> 1, ref |-> ref, slo |-> slo, fin |-> TRUE, deleting |-> FALSE,
                        op |-> NoOp, applied |-> NoDef]

\* CreateWorkload has no operation: its events are those of a registration.
CreateWorkload(w, ref, slo) ==
    /\ Ready /\ "create" \in Actions /\ budget.ops < MaxOps /\ budget.uid < MaxUid
    /\ ~Present(w) /\ mem.checks[w].uid = 0 /\ Valid(ref)
    /\ LET object == NewObject(ref, slo)
           d == Snapshot(object)
           record == Effect("Record", w, "")
           persist == Effect("Persist", w, NoOp)
       IN /\ store' = [store EXCEPT ![w] = object]
          /\ \/ /\ budget' = [budget EXCEPT !.ops = @ + 1, !.uid = @ + 1]
                /\ Begin(<<record, Effect("Publish", w, d), persist, record>> \o Open(w) \o <<persist, record>>, <<w>>, NoOp)
             \/ /\ "lost" \in Faults /\ budget.faults < MaxFaults /\ UNCHANGED job
                /\ budget' = [budget EXCEPT !.ops = @ + 1, !.uid = @ + 1, !.faults = @ + 1]
    /\ UNCHANGED <<cat, mem, rt, retained, calls, res>>

\* UpdateWorkload: a change of the SLO alone applies at once, any other drains first.
UpdateWorkload(w, ref, slo) ==
    /\ Present(w) /\ ~store[w].deleting /\ ~Active(StatusOp(w)) /\ Valid(ref)
    /\ LET changed == store[w].ref # ref \/ store[w].slo # slo
           object == [store[w] EXCEPT !.ref = ref, !.slo = slo, !.gen = IF changed THEN @ + 1 ELSE @]
           before == Applied(w)
           d == Snapshot(object)
           op == Operation("Update", {})
           stop == IF before # NoDef THEN <<Effect("Stop", w, "Changing")>> ELSE <<>>
           rest == IF before # NoDef /\ SameExecution(before, d) THEN Apply(w, op, d) ELSE <<>>
       IN /\ object.gen <= MaxGen
          /\ store' = [store EXCEPT ![w] = object]
          /\ \/ /\ Asked("update")
                /\ mem' = [mem EXCEPT !.failed[w] = NoStatus]
                /\ Begin(stop \o Phase(w, op, "Draining") \o rest, <<w>>, op)
             \/ /\ Ready /\ "update" \in Actions /\ budget.ops < MaxOps /\ Fault("lost") /\ UNCHANGED <<mem, job>>
    /\ UNCHANGED <<cat, rt, retained, calls, res>>

Stop ==
    /\ At("Stop") /\ Then(<<>>) /\ rt' = Stopped({W}, X)
    /\ UNCHANGED <<store, cat, mem, retained, calls, res, budget>>

\* DeleteWorkload: reserved, closed and then deleted; the finalizer keeps the object.
DeleteWorkload(w) ==
    /\ Asked("delete") /\ Present(w) /\ ~Active(StatusOp(w))
    /\ mem' = [mem EXCEPT !.reserved = @ \cup {<<w, store[w].uid>>}]
    /\ rt' = Stopped({w}, "Deleting")
    /\ Begin(<<Effect("DeleteObject", w, "")>> \o Phase(w, Operation("Delete", {}), "Draining"), <<w>>, Operation("Delete", {}))
    /\ UNCHANGED <<store, cat, retained, calls, res>>

\* The delete call and the read that confirms the registration.
DeleteObject ==
    /\ At("DeleteObject")
    /\ \/ /\ store' = [store EXCEPT ![W].deleting = TRUE] /\ mem' = [mem EXCEPT !.failed[W] = NoStatus] /\ Then(<<>>) /\ UNCHANGED budget
       \/ Fault("api") /\ Fails /\ UNCHANGED <<store, mem>>
       \/ Fault("api") /\ store' = [store EXCEPT ![W].deleting = TRUE] /\ job' = NoJob /\ UNCHANGED mem
       \/ Fault("lost") /\ store' = [store EXCEPT ![W].deleting = TRUE] /\ Fails /\ UNCHANGED mem
    /\ UNCHANGED <<cat, rt, retained, calls, res>>

\* A bug: only the desired reference counts.
HoldsDesired(w, o) == Present(w) /\ o \in store[w].ref

\* Every Workload that names, applies or is changing to the object, deletions not confirmed included.
Holds(w, o) ==
    \/ /\ Present(w)
       /\ o \in store[w].ref \cup DOMAIN StatusApplied(w).objs \cup DOMAIN Applied(w).objs \cup {t[1] : t \in StatusOp(w).target}
    \/ mem.checks[w].uid # 0 /\ o \in mem.checks[w].ref \cup DOMAIN mem.checks[w].applied.objs

SharedGroup(o) == {w \in Workloads : Holds(w, o)}
Shareable(o) ==
    /\ ~CatalogBusy({o})
    /\ \A w \in SharedGroup(o) : Present(w) /\ ~Active(StatusOp(w)) /\ ~store[w].deleting /\ o \in store[w].ref /\ mem.checks[w].uid = 0
Settled(o) == \A w \in SharedGroup(o) : Applied(w) # NoDef /\ o \in DOMAIN Applied(w).objs /\ Applied(w).objs[o] = cat[o]
                                        /\ StatusOp(w).phase # "Failed"

\* startSharedUpdate closes the whole group before the first status.
CloseGroup(ws, op) == [i \in 1..Len(ws) |-> Effect("Stop", ws[i], "Changing")]
                      \o FlattenSeq([i \in 1..Len(ws) |-> Phase(ws[i], op, "Draining")])

\* UpdateModel and UpdatePreprocessor; `changed' says whether the declaration differs.
SharedUpdate(o, changed) ==
    /\ Asked("share") /\ cat[o] > 0 /\ Shareable(o)
    /\ changed => cat[o] < MaxGen
    /\ ~changed => ~Settled(o)
    /\ LET gen == IF changed THEN cat[o] + 1 ELSE cat[o]
           op == Operation("SharedUpdate", {<<o, gen>>})
           ws == SetToSeq(SharedGroup(o))
       IN /\ cat' = [cat EXCEPT ![o] = gen]
          /\ Begin(CloseGroup(ws, op), ws, op)
          /\ mem' = [mem EXCEPT !.failed = [w \in Workloads |-> IF w \in SharedGroup(o) THEN NoStatus ELSE @[w]]]
    /\ UNCHANGED <<store, rt, retained, calls, res>>

DeleteCatalogObject(o) ==
    /\ Asked("deleteObject") /\ cat[o] > 0
    /\ SharedGroup(o) = {}
    /\ cat' = [cat EXCEPT ![o] = 0]
    /\ UNCHANGED <<store, mem, rt, retained, calls, res, job>>

------------------------------------------------------------------------------
(* Advance: what one pass does with one Workload, one group or one deletion   *)

\* drain: done, or an error of the log or, once the limit has passed, of time.
Drain(ws, script, group) ==
    \/ /\ \A w \in ws : Drained(w)
       /\ IF mem.log THEN Begin(script, group, NoOp) ELSE Begin(FailScript(group), group, NoOp)
       /\ UNCHANGED budget
    \/ (\E w \in ws : ~Drained(w)) /\ Fault("timeout") /\ Begin(FailScript(group), group, NoOp)

DetachPhases(w, op) == Phase(w, op, "Detaching") \o <<Effect("Detach", w, "")>> \o Phase(w, op, "Cleaning")

\* A Workload without an operation: resume after a restart, write what is applied.
QuietScript(w) ==
    LET persist == Effect("Persist", w, StatusOp(w)) IN
    IF rt[w].uid = 0 THEN FailScript(<<w>>)
    ELSE IF Applied(w) # NoDef /\ rt[w].reason = "RestartDrain" /\ Drained(w) THEN <<Effect("Resume", w, ""), persist>>
    ELSE IF Applied(w) # NoDef /\ store[w].applied # Applied(w) THEN <<persist>>
    ELSE <<>>

AdvanceQuiet(w) ==
    /\ Ready /\ Present(w) /\ mem.checks[w].uid # store[w].uid /\ StatusOp(w).phase \in {"none", "Completed"}
    /\ QuietScript(w) # <<>> /\ Begin(QuietScript(w), <<w>>, NoOp)
    /\ UNCHANGED <<store, cat, mem, rt, retained, calls, res, budget>>

AdvanceWorkload(w) ==
    /\ Ready /\ Present(w) /\ mem.checks[w].uid # store[w].uid
    /\ Active(StatusOp(w)) /\ StatusOp(w).kind # "SharedUpdate"
    /\ mem' = IF StatusOp(w).kind = "Delete" THEN [mem EXCEPT !.reserved = @ \cup {<<w, store[w].uid>>}] ELSE mem
    /\ LET op == StatusOp(w)
           cleanup == <<Effect("Cleanup", w, op)>>
       IN IF op.phase = "Cleaning" THEN Begin(cleanup, <<w>>, NoOp) /\ UNCHANGED budget
          ELSE op.phase = "Draining" /\ Drain({w}, DetachPhases(w, op) \o cleanup, <<w>>)
    /\ UNCHANGED <<store, cat, rt, retained, calls, res>>

\* sameGroup: members that failed or were never told are told apart by their stored target.
Group(w) == {v \in Workloads : Present(v) /\ StatusOp(v).kind = "SharedUpdate" /\ StatusOp(v).target = StatusOp(w).target}

\* A bug: the members that have drained go on by themselves.
DrainScope(w) == {w}

\* The barrier's first half: every member drained before any is detached.
GroupScope(w) == Group(w)

AdvanceGroup(w) ==
    /\ Ready /\ Present(w) /\ Active(StatusOp(w)) /\ StatusOp(w).kind = "SharedUpdate"
    /\ LET ws == SetToSeq(GroupScope(w))
           op(v) == StatusOp(v)
           first(v) == IF op(v).phase = "Draining" THEN DetachPhases(v, op(v)) ELSE <<>>
       IN IF \E v \in Group(w) : op(v).phase = "Failed" THEN Begin(FailScript(ws), ws, NoOp) /\ UNCHANGED budget
          ELSE Drain(GroupScope(w), FlattenSeq([i \in 1..Len(ws) |-> first(ws[i])]) \o <<Effect("CleanupGroup", w, op(w))>>, ws)
    /\ UNCHANGED <<store, cat, mem, rt, retained, calls, res>>

\* A bug: only listed Workloads are visited.
AdvanceDeletionListed(w) ==
    /\ Ready /\ Present(w) /\ mem.checks[w].uid # 0 /\ Gone(w) /\ CanForget(w)
    /\ Forgotten(w)
    /\ UNCHANGED <<store, cat, retained, calls, res, job, budget>>

\* confirmDeletion of a deletion that a former pass performed.
AdvanceDeletion(w) ==
    /\ Ready /\ mem.checks[w].uid # 0 /\ Gone(w) /\ CanForget(w)
    /\ Forgotten(w)
    /\ UNCHANGED <<store, cat, retained, calls, res, job, budget>>

------------------------------------------------------------------------------
(* Requests, executors, the API server and crashes *)

BeginCall(w) ==
    /\ rt[w].uid # 0 /\ ~rt[w].stopped /\ mem.log /\ Drained(w) /\ budget.calls < MaxCalls
    /\ calls' = [calls EXCEPT ![w] = [def |-> rt[w].def, recovered |-> FALSE]]
    /\ budget' = [budget EXCEPT !.calls = @ + 1]
    /\ UNCHANGED <<store, cat, mem, rt, retained, res, job>>

EndCall(w) ==
    /\ calls[w] # NoCall /\ mem.log
    /\ calls' = [calls EXCEPT ![w] = NoCall]
    /\ UNCHANGED <<store, cat, mem, rt, retained, res, job, budget>>

\* The scheduler starts no executor for a Workload whose deletion is reserved.
StartExecutor(w) ==
    /\ res[w] = "none" /\ rt[w].uid # 0 /\ ~rt[w].stopped /\ <<w, rt[w].uid>> \notin mem.reserved /\ mem.ready
    /\ res' = [res EXCEPT ![w] = "running"]
    /\ UNCHANGED <<store, cat, mem, rt, retained, calls, job, budget>>

ExecutorEnds(w) ==
    /\ res[w] = "deleting" /\ res' = [res EXCEPT ![w] = "none"]
    /\ UNCHANGED <<store, cat, mem, rt, retained, calls, job, budget>>

\* The API server removes a deleted object without finalizers.
Vanish(w) ==
    /\ Present(w) /\ store[w].deleting /\ ~store[w].fin
    /\ store' = [store EXCEPT ![w] = NoObject]
    /\ UNCHANGED <<cat, mem, rt, retained, calls, res, job, budget>>

NewMem == [ready |-> FALSE, failed |-> [w \in Workloads |-> NoStatus], checks |-> [w \in Workloads |-> NoObject], reserved |-> {}, log |-> TRUE]

\* A crash at any step: calls that were assigned survive in the log and close their Workload.
Crash ==
    /\ budget.crashes < MaxCrashes /\ budget' = [budget EXCEPT !.crashes = @ + 1]
    /\ \E kept \in SUBSET {w \in Workloads : ~Drained(w)} :
          /\ calls' = [w \in Workloads |-> IF w \in kept THEN [calls[w] EXCEPT !.recovered = TRUE] ELSE NoCall]
          /\ rt' = [w \in Workloads |-> IF w \in kept THEN Closed(calls[w].def, "RestartDrain") ELSE NoRuntime]
    /\ mem' = NewMem /\ job' = NoJob
    /\ UNCHANGED <<store, cat, retained, res>>

------------------------------------------------------------------------------

\* Registered Workloads are open and quiet.
Init ==
    LET ref == CHOOSE r \in Refs : TRUE
        ws == SetToSeq(Registered)
        number(w) == CHOOSE i \in 1..Len(ws) : ws[i] = w
        def(w) == [uid |-> number(w), gen |-> 1, objs |-> [o \in ref |-> 1], slo |-> CHOOSE x \in Slos : TRUE]
    IN /\ store = [w \in Workloads |-> IF w \notin Registered THEN NoObject
                     ELSE [uid |-> number(w), gen |-> 1, ref |-> ref, slo |-> def(w).slo, fin |-> TRUE, deleting |-> FALSE,
                           op |-> NoOp, applied |-> def(w)]]
       /\ cat = [o \in Objs |-> 1]
       /\ mem = [NewMem EXCEPT !.ready = TRUE]
       /\ rt = [w \in Workloads |-> IF w \in Registered THEN [Closed(def(w), "") EXCEPT !.stopped = FALSE] ELSE NoRuntime]
       /\ retained = {def(w) : w \in Registered}
       /\ calls = [w \in Workloads |-> NoCall] /\ res = [w \in Workloads |-> "none"]
       /\ job = NoJob
       /\ budget = [ops |-> 0, calls |-> 0, faults |-> 0, crashes |-> 0, uid |-> Cardinality(Registered)]

Step == \/ Persist \/ Record \/ PublishClosed \/ OpenAdmission \/ Stop \/ Detach \/ Cleanup \/ CleanupGroup \/ RemoveFinalizer
        \/ DeleteObject \/ ConfirmDeletion \/ FailStop \/ FailMark \/ FailRecord \/ Restore \/ Resume \/ ReadyNow

Advance(w) == AdvanceQuiet(w) \/ AdvanceWorkload(w) \/ AdvanceGroup(w) \/ AdvanceDeletion(w)

Request == \/ \E w \in Workloads, ref \in Refs, slo \in Slos : CreateWorkload(w, ref, slo) \/ UpdateWorkload(w, ref, slo)
           \/ \E w \in Workloads : DeleteWorkload(w)
           \/ \E o \in Objs : SharedUpdate(o, TRUE) \/ SharedUpdate(o, FALSE) \/ DeleteCatalogObject(o)

Environment(w) == BeginCall(w) \/ EndCall(w) \/ StartExecutor(w) \/ ExecutorEnds(w) \/ Vanish(w)

Next == Step \/ Initialize \/ Request \/ (\E w \in Workloads : Advance(w) \/ Environment(w)) \/ Crash

Spec == Init /\ [][Next]_vars

\* The server's loop calls Advance for ever, a handler runs to its end, requests, executors and deletions end.
Fairness == /\ WF_vars(Step) /\ WF_vars(Initialize)
            /\ \A w \in Workloads : WF_vars(Advance(w)) /\ WF_vars(EndCall(w)) /\ WF_vars(ExecutorEnds(w)) /\ WF_vars(Vanish(w))
FairSpec == Spec /\ Fairness

------------------------------------------------------------------------------
(* Properties *)

Gate(w) == rt[w].uid # 0 /\ ~rt[w].stopped

\* Types of the durable state and of the gates (api/v1alpha1 WorkloadStatus, Runtime.workloads, Manager).
TypeOK ==
    /\ \A w \in Workloads :
          /\ store[w].uid \in 0..MaxUid
          /\ Present(w) => /\ store[w].gen \in 1..MaxGen /\ store[w].ref \in Refs
                           /\ store[w].op.phase \in {"none", "Draining", "Detaching", "Cleaning", "Applying", "Completed", "Failed"}
          /\ rt[w].uid # 0 => rt[w].def.uid = rt[w].uid /\ rt[w].def \in retained
          /\ res[w] \in {"none", "running", "deleting"}
    /\ cat \in [Objs -> 0..MaxGen]
    /\ job.todo = <<>> => job = NoJob

\* A gate is open only for a registration that exists, is not being deleted, whose operation neither
\* failed nor waits, and whose applied definition was written before: advanceWorkload, install and
\* fail in any order of handlers, failures and restarts (manager.go 208-250, 655-748).
OpenIsApplied ==
    \A w \in Workloads : Gate(w) =>
        /\ store[w].uid = rt[w].uid /\ ~store[w].deleting
        /\ store[w].applied = rt[w].def
        /\ StatusOp(w).phase \in {"none", "Completed", "Applying"}

\* An outstanding call belongs to the registration the object names and to the execution the runtime
\* holds, and an executor to an object that still has its finalizer: no request and no executor
\* outlives its registration or its model, whatever fails or restarts (manager.go 693-763).
NothingOutlives ==
    \A w \in Workloads :
        /\ ~Drained(w) => /\ store[w].uid = calls[w].def.uid /\ store[w].fin
                          /\ rt[w].uid = calls[w].def.uid /\ SameExecution(rt[w].def, calls[w].def)
        /\ res[w] # "none" => Present(w) /\ store[w].fin

\* The models and preprocessors that a runtime definition, a call or a Workload names exist: DeleteModel
\* against updates, failed updates, deletions not yet confirmed and restarts (manager.go 1134-1160).
ReferencesExist ==
    \A w \in Workloads :
        /\ Applied(w) # NoDef => Exists(DOMAIN rt[w].def.objs)
        /\ Present(w) => Exists(store[w].ref)

\* The barrier of a shared update: once one member applies the new generation, no member has a call of an
\* older one, and no member is open before every member's new definition is durable (advanceGroup).
Barrier ==
    \A w \in Workloads : \A t \in StatusOp(w).target :
        (Active(StatusOp(w)) /\ \E v \in Group(w) : StatusOp(v).phase = "Applying") =>
            \A v \in Group(w) :
                /\ ~Drained(v) => calls[v].def.objs[t[1]] = t[2]
                /\ (\E u \in Group(w) : Gate(u)) => store[v].applied # NoDef /\ store[v].applied.objs[t[1]] = t[2]

\* A registration that is gone is forgotten or is waiting for the confirmation of its deletion, so that
\* its name can be registered again: the comment of deletionChecks (manager.go 96) "The native object may
\* disappear before its confirming GET succeeds."
GoneIsForgotten ==
    (mem.ready /\ Idle) => \A w \in Workloads : rt[w].uid \notin {0, store[w].uid} => mem.checks[w].uid = rt[w].uid

\* ReserveDeletion holds "from acceptance through confirmed native deletion" (kube/reservation.go 873): a
\* Workload that is not being deleted has no deletion reservation.
ReservedIsDeleting ==
    Idle => \A w \in Workloads : (Gate(w) /\ StatusOp(w).phase = "Completed") => <<w, rt[w].uid>> \notin mem.reserved

\* A call that survived a restart keeps its Workload closed: OpenAdmission answers "restart requests have
\* not actually drained" (runtime.go 884).
RestartDrains == \A w \in Workloads : Gate(w) => ~calls[w].recovered

\* Every accepted operation completes or fails (WM-13, WM-17): Advance reaches every phase.
OperationsEnd == \A w \in Workloads : (Present(w) /\ Active(StatusOp(w))) ~> ~(Present(w) /\ Active(StatusOp(w)))

\* A deletion that was performed is confirmed and its registration forgotten (WM-22).
DeletionsConfirmed == \A w \in Workloads : mem.checks[w].uid # 0 ~> mem.checks[w].uid = 0
====
