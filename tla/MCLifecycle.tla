----------------------------- MODULE MCLifecycle -----------------------------
(***************************************************************************)
(* Instances of Runtime with one kind of disturbance each.  A behaviour    *)
(* belongs to one of the scenes: a drain after a crash, management (drain, *)
(* detach, forget, publish), a shutdown with a failing log, the loss of    *)
(* executors and Nodes, a dedicated executor, and the choice between two   *)
(* executors.                                                              *)
(***************************************************************************)
EXTENDS TLC

CONSTANTS r1, w1, w2, i1, i2, n1, d1, d2, c1, c2, None

VARIABLES call, client, wl, ins, src, row, srv, op, mu, phys, alive, scene

Nodes == {n1}
One == {r1}
OneWorkload == {w1}
TwoWorkloads == {w1, w2}
OneInstance == {i1}
TwoInstances == {i1, i2}
OneDefinition == {d1}
TwoDefinitions == {d1, d2}
OneSlot == i1 :> 1
TwoSlots == i1 :> 1 @@ i2 :> 1
OneNode == i1 :> n1
SameNode == i1 :> n1 @@ i2 :> n1
OneRouted == i1 :> {w1}
BothRouted == i1 :> {w1} @@ i2 :> {w1}
Rerouted == i1 :> {w1, w2}
OneShared == i1 :> None
Owned == i1 :> w1
SharedAndOwned == i1 :> None @@ i2 :> w1
OneContract == d1 :> c1
TwoContracts == d1 :> c1 @@ d2 :> c2
OneProfile == i1 :> c1
SecondProfile == i1 :> c2
BothProfiles == i1 :> c1 @@ i2 :> c1

RestartEnv == {"write", "break", "crash", "stop", "detach", "forget"}
Restart == INSTANCE Runtime WITH
    Requests <- One, QueueLimit <- 1, Workloads <- OneWorkload,
    Instances <- OneInstance, Definitions <- OneDefinition, Capacity <- OneSlot,
    NodeOf <- OneNode, Routing <- OneRouted, Owner <- OneShared, Contract <- OneContract,
    ProfileOf <- OneProfile, MaxBoots <- 2, Env <- RestartEnv

DrainEnv == {"write", "break", "leave", "stop", "detach", "forget", "republish"}
Drain == INSTANCE Runtime WITH
    Requests <- One, QueueLimit <- 1, Workloads <- OneWorkload,
    Instances <- OneInstance, Definitions <- TwoDefinitions, Capacity <- OneSlot,
    NodeOf <- OneNode, Routing <- OneRouted, Owner <- OneShared, Contract <- TwoContracts,
    ProfileOf <- SecondProfile, MaxBoots <- 1, Env <- DrainEnv

ShutdownEnv == {"logfail", "shutdown"}
Shutdown == INSTANCE Runtime WITH
    Requests <- One, QueueLimit <- 1, Workloads <- OneWorkload,
    Instances <- OneInstance, Definitions <- OneDefinition, Capacity <- OneSlot,
    NodeOf <- OneNode, Routing <- OneRouted, Owner <- OneShared, Contract <- OneContract,
    ProfileOf <- OneProfile, MaxBoots <- 2, Env <- ShutdownEnv

ExecutorsEnv == {"write", "exit", "disable", "retire", "node", "evidence"}
Executors == INSTANCE Runtime WITH
    Requests <- One, QueueLimit <- 1, Workloads <- OneWorkload,
    Instances <- OneInstance, Definitions <- OneDefinition, Capacity <- OneSlot,
    NodeOf <- OneNode, Routing <- OneRouted, Owner <- OneShared, Contract <- OneContract,
    ProfileOf <- OneProfile, MaxBoots <- 1, Env <- ExecutorsEnv

\* i1 belongs to w1; its Pod is routed to w2 all the same.
DedicatedEnv == {}
Dedicated == INSTANCE Runtime WITH
    Requests <- One, QueueLimit <- 1, Workloads <- TwoWorkloads,
    Instances <- OneInstance, Definitions <- OneDefinition, Capacity <- OneSlot,
    NodeOf <- OneNode, Routing <- Rerouted, Owner <- Owned, Contract <- OneContract,
    ProfileOf <- OneProfile, MaxBoots <- 1, Env <- DedicatedEnv

\* i1 is shared, i2 belongs to the Workload.
ChoiceEnv == {}
Choice == INSTANCE Runtime WITH
    Requests <- One, QueueLimit <- 1, Workloads <- OneWorkload,
    Instances <- TwoInstances, Definitions <- OneDefinition, Capacity <- TwoSlots,
    NodeOf <- SameNode, Routing <- BothRouted, Owner <- SharedAndOwned, Contract <- OneContract,
    ProfileOf <- BothProfiles, MaxBoots <- 1, Env <- ChoiceEnv

vars == <<call, client, wl, ins, src, row, srv, op, mu, phys, alive, scene>>

Init == \/ scene = "drain" /\ Drain!Init
        \/ scene = "restart" /\ Restart!Init
        \/ scene = "shutdown" /\ Shutdown!Init
        \/ scene = "executors" /\ Executors!Init
        \/ scene = "dedicated" /\ Dedicated!Init
        \/ scene = "choice" /\ Choice!Init

Next == \/ scene = "drain" /\ Drain!Next /\ UNCHANGED scene
        \/ scene = "restart" /\ Restart!Next /\ UNCHANGED scene
        \/ scene = "shutdown" /\ Shutdown!Next /\ UNCHANGED scene
        \/ scene = "executors" /\ Executors!Next /\ UNCHANGED scene
        \/ scene = "dedicated" /\ Dedicated!Next /\ UNCHANGED scene
        \/ scene = "choice" /\ Choice!Next /\ UNCHANGED scene

Spec == Init /\ [][Next]_vars

-----------------------------------------------------------------------------
(* The properties of Runtime, each in the scenes that put it in danger.    *)

\* Runtime.FinalizingBalanced while management drains and republishes.
FinalizingBalanced == scene = "drain" => Drain!FinalizingBalanced

\* Runtime.DrainSound while requests run, and after a crash.
DrainSound == /\ scene = "drain" => Drain!DrainSound
              /\ scene = "restart" => Restart!DrainSound

\* Runtime.RightContract when another model is published under the same UID.
RightContract == scene = "drain" => Drain!RightContract

\* Runtime.ShutdownSound with a log that may fail during the shutdown.
ShutdownSound == scene = "shutdown" => Shutdown!ShutdownSound

\* Runtime.HeldAccounted for the boot after a shutdown.
HeldAccounted == scene = "shutdown" => Shutdown!HeldAccounted

\* Runtime.NodeQuiet when a Node is drained.
NodeQuiet == scene = "executors" => Executors!NodeQuiet

\* Runtime.Accounting when executors exit, lose evidence or are retired.
Accounting == scene = "executors" => Executors!Accounting

\* Runtime.AssignedReady: no request goes to an executor that is not ready, or
\* that another Workload owns.
AssignedReady ==
    [][/\ scene = "executors" => Executors!AssignedReadyStep
       /\ scene = "dedicated" => Dedicated!AssignedReadyStep
       /\ scene = "choice" => Choice!AssignedReadyStep]_vars

\* The counts by which the ingress owner decides that nothing is left: of an
\* executor's requests, and of a Workload's final rows.
Counted == Accounting /\ FinalizingBalanced

\* What is reported as drained holds nothing: a Workload, a Node.
DrainedIsQuiet == DrainSound /\ NodeQuiet

\* A shutdown that reports success has written everything, so that the next
\* boot accounts for what every executor holds.
ShutdownComplete == ShutdownSound /\ HeldAccounted
=============================================================================
