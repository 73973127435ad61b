------------------------------ MODULE MCPowerMode ------------------------------
(***************************************************************************)
(* Instances of PowerMode: one Node, two or three modes.  A behaviour      *)
(* belongs to one of the scenes: a Jetson host with a mode that needs a    *)
(* boot, requests across restarts with a lagging cache, locked NVIDIA      *)
(* clocks, and requests that have to end.                                  *)
(***************************************************************************)
EXTENDS Integers

CONSTANTS a, b, c, NoMode

VARIABLES host, node, view, pass, now, left, restarts, scene

vars == <<host, node, view, pass, now, left, restarts, scene>>

Zero == 0
One == 1
Two == 2
Yes == TRUE
No == FALSE
NoModes == {}
TwoModes == {a, b}
ThreeModes == {a, b, c}
BootMode == {b}
Unknown == {c}

Jetson == INSTANCE PowerMode WITH
    Modes <- TwoModes, BootModes <- BootMode, Default <- a, Refused <- NoModes,
    Clock <- No, Cached <- No, KubeletFirst <- No, MaxRequests <- Two, MaxTime <- One,
    MaxForeign <- One, MaxReboots <- Zero, MaxCrashes <- One, MaxFaults <- One

Restart == INSTANCE PowerMode WITH
    Modes <- TwoModes, BootModes <- BootMode, Default <- a, Refused <- NoModes,
    Clock <- No, Cached <- Yes, KubeletFirst <- Yes, MaxRequests <- Two, MaxTime <- One,
    MaxForeign <- Zero, MaxReboots <- One, MaxCrashes <- One, MaxFaults <- Two

Locked == INSTANCE PowerMode WITH
    Modes <- ThreeModes, BootModes <- NoModes, Default <- a, Refused <- Unknown,
    Clock <- Yes, Cached <- No, KubeletFirst <- No, MaxRequests <- Two, MaxTime <- One,
    MaxForeign <- One, MaxReboots <- One, MaxCrashes <- Zero, MaxFaults <- One

Ending == INSTANCE PowerMode WITH
    Modes <- TwoModes, BootModes <- BootMode, Default <- a, Refused <- NoModes,
    Clock <- No, Cached <- Yes, KubeletFirst <- Yes, MaxRequests <- One, MaxTime <- Two,
    MaxForeign <- One, MaxReboots <- One, MaxCrashes <- One, MaxFaults <- One

ASSUME InstanceAssumption ==
    /\ Jetson!PowerModeAssumption /\ Restart!PowerModeAssumption
    /\ Locked!PowerModeAssumption /\ Ending!PowerModeAssumption

Init == \/ scene = "jetson" /\ Jetson!Init
        \/ scene = "restart" /\ Restart!Init
        \/ scene = "clock" /\ Locked!Init
        \/ scene = "end" /\ Ending!Init

Next == /\ \/ scene = "jetson" /\ Jetson!Next
           \/ scene = "restart" /\ Restart!Next
           \/ scene = "clock" /\ Locked!Next
           \/ scene = "end" /\ Ending!Next
        /\ UNCHANGED scene

Spec == Init /\ [][Next]_vars

\* The fairness of PowerMode, for the scene about progress.
Turn(A) == scene = "end" /\ A /\ UNCHANGED scene
FairSpec ==
    /\ Spec
    /\ WF_vars(Turn(\E seen \in TwoModes \cup {NoMode} : Ending!Reconcile(seen, TRUE)))
    /\ WF_vars(Turn(Ending!Query(TRUE)))
    /\ WF_vars(Turn(Ending!SetMode)) /\ WF_vars(Turn(Ending!ForceMode)) /\ WF_vars(Turn(Ending!Restart))
    /\ WF_vars(Turn(Ending!Patch)) /\ WF_vars(Turn(Ending!Deliver)) /\ WF_vars(Turn(Ending!Kubelet))
    /\ WF_vars(Turn(Ending!Start)) /\ WF_vars(Turn(Ending!Tick))

--------------------------------------------------------------------------------
(* The properties of PowerMode in the scenes that endanger them.            *)

\* PowerMode.TypeOK: patches of both adapters leave whole records.
TypeOK == /\ scene = "jetson" => Jetson!TypeOK
          /\ scene = "clock" => Locked!TypeOK

\* PowerMode.DoneReadsBack on both kinds of host.
DoneReadsBack == /\ scene = "jetson" => Jetson!DoneReadsBack
                 /\ scene = "clock" => Locked!DoneReadsBack

\* PowerMode.RestartsOnce over crashes, reboots and unreadable boots.
RestartsOnce == scene = "restart" => Restart!RestartsOnce

\* PowerMode.FencedFirst on both kinds of host.
FencedFirst == [][/\ scene = "jetson" => Jetson!FencedFirstStep
                  /\ scene = "clock" => Locked!FencedFirstStep]_vars

\* PowerMode.RequestEnds.
RequestEnds ==
    (scene = "end" /\ node.requestedAt = 1) ~>
        \/ node.desired = NoMode
        \/ Ending!ServesRequest(node) /\ node.state \in {"success", "failed"}

\* PowerMode.LeftIsSeen.
LeftIsSeen ==
    (scene = "end" /\ Ending!Done(node) /\ host.mode # node.desired) ~>
        (~Ending!Done(node) \/ host.mode = node.desired)

\* A settled transition names the mode the host reads back, after at most one
\* restart for it.
SettledSound == TypeOK /\ DoneReadsBack /\ RestartsOnce

\* A request ends, and a host that left the settled mode is noticed.
RequestsSettle == RequestEnds /\ LeftIsSeen
================================================================================
