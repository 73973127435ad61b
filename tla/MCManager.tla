------------------------------ MODULE MCManager ------------------------------
(***************************************************************************)
(* Instances of Manager.  A behaviour belongs to one of the scenes: shared *)
(* updates of two Workloads, the life of one Workload and its two models,  *)
(* and operations that have to end.                                        *)
(***************************************************************************)
EXTENDS Integers

CONSTANTS w1, w2, a, b

VARIABLES store, cat, mem, rt, retained, calls, res, job, budget, scene

vars == <<store, cat, mem, rt, retained, calls, res, job, budget, scene>>

Zero == 0
One == 1
Two == 2
Three == 3
OneWorkload == {w1}
TwoWorkloads == {w1, w2}
OneObject == {a}
TwoObjects == {a, b}
OneModel == {{a}}
EitherModel == {{a}, {b}}
OneSlo == {0}
TwoSlos == {0, 1}

GroupActions == {"share", "update"}
GroupFaults == {"api", "lost", "timeout"}
Group == INSTANCE Manager WITH
    Workloads <- TwoWorkloads, Objs <- OneObject, Refs <- OneModel, Slos <- OneSlo,
    Registered <- TwoWorkloads, Actions <- GroupActions, Faults <- GroupFaults,
    MaxUid <- Two, MaxGen <- Three, MaxOps <- Three, MaxCalls <- Two,
    MaxFaults <- One, MaxCrashes <- One

LifeActions == {"create", "update", "delete", "deleteObject"}
LifeFaults == {"api", "lost", "log"}
Life == INSTANCE Manager WITH
    Workloads <- OneWorkload, Objs <- TwoObjects, Refs <- EitherModel, Slos <- TwoSlos,
    Registered <- OneWorkload, Actions <- LifeActions, Faults <- LifeFaults,
    MaxUid <- Two, MaxGen <- Three, MaxOps <- Three, MaxCalls <- One,
    MaxFaults <- One, MaxCrashes <- One

EndActions == {"create", "share", "delete"}
EndFaults == {"api"}
End == INSTANCE Manager WITH
    Workloads <- OneWorkload, Objs <- OneObject, Refs <- OneModel, Slos <- OneSlo,
    Registered <- OneWorkload, Actions <- EndActions, Faults <- EndFaults,
    MaxUid <- Two, MaxGen <- Two, MaxOps <- Two, MaxCalls <- One,
    MaxFaults <- One, MaxCrashes <- One

ASSUME InstanceAssumption == Group!ManagerAssumption /\ Life!ManagerAssumption /\ End!ManagerAssumption

Init == \/ scene = "group" /\ Group!Init
        \/ scene = "life" /\ Life!Init
        \/ scene = "end" /\ End!Init

Next == /\ \/ scene = "group" /\ Group!Next
           \/ scene = "life" /\ Life!Next
           \/ scene = "end" /\ End!Next
        /\ UNCHANGED scene

Spec == Init /\ [][Next]_vars

\* The fairness of Manager, for the scene about progress.
Turn(A) == scene = "end" /\ A /\ UNCHANGED scene
FairSpec ==
    /\ Spec
    /\ WF_vars(Turn(End!Step)) /\ WF_vars(Turn(End!Initialize))
    /\ \A w \in OneWorkload : /\ WF_vars(Turn(End!Advance(w))) /\ WF_vars(Turn(End!EndCall(w)))
                              /\ WF_vars(Turn(End!ExecutorEnds(w))) /\ WF_vars(Turn(End!Vanish(w)))

------------------------------------------------------------------------------
(* The properties of Manager in the scenes that endanger them.              *)

\* Manager.TypeOK with registrations that come and go.
TypeOK == scene = "life" => Life!TypeOK

\* Manager.OpenIsApplied over failures and crashes of both kinds of operation.
OpenIsApplied == /\ scene = "group" => Group!OpenIsApplied
                 /\ scene = "life" => Life!OpenIsApplied

\* Manager.NothingOutlives over deletions and registrations of one name.
NothingOutlives == scene = "life" => Life!NothingOutlives

\* Manager.ReferencesExist while models are deleted.
ReferencesExist == scene = "life" => Life!ReferencesExist

\* Manager.Barrier over the members of a shared update.
Barrier == scene = "group" => Group!Barrier

\* Manager.OperationsEnd.
Working(w) == End!Present(w) /\ End!Active(End!StatusOp(w))
OperationsEnd == \A w \in OneWorkload : (scene = "end" /\ Working(w)) ~> ~Working(w)

\* Manager.DeletionsConfirmed.
DeletionsConfirmed ==
    \A w \in OneWorkload : (scene = "end" /\ mem.checks[w].uid # 0) ~> mem.checks[w].uid = 0

\* An open Workload runs the definition its status names as applied, and no
\* member of a shared update opens before the others are installed.
UpdateSound == TypeOK /\ OpenIsApplied /\ Barrier

\* Nothing of a deleted Workload outlives it, and no model that one refers to
\* disappears.
DeletionSound == NothingOutlives /\ ReferencesExist
==============================================================================
