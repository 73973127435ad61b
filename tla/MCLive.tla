------------------------------- MODULE MCLive -------------------------------
(***************************************************************************)
(* Instances of the live channel.  A behaviour belongs to one of the       *)
(* scenes: a reader slower than the hub, a restart of the server, limits   *)
(* that snapshots exceed, a reader that has to catch up (LiveHub), and the *)
(* buckets of requests, of power, and the publication of every second      *)
(* (LiveMetrics).                                                          *)
(***************************************************************************)
EXTENDS Integers, Sequences

CONSTANTS c1, p1, p2, w1, n1, n2

VARIABLES hub, conn, view, log, seen, budget,
          now, next, buckets, scope, pendingGaps, out, closed, truth, scene

hubVars == <<hub, conn, view, log, seen, budget>>
metricsVars == <<now, next, buckets, scope, pendingGaps, out, closed, truth>>
vars == <<hub, conn, view, log, seen, budget,
          now, next, buckets, scope, pendingGaps, out, closed, truth, scene>>

Zero == 0
One == 1
Two == 2
Three == 3
Four == 4
Six == 6
Nine == 9
Clients == {c1}
OnePart == {p1}
Parts == {p1, p2}
Values == {0, 1}
Decisions == {"delta", "decision", "metrics"}
Deltas == {"delta", "metrics"}
AllKinds == {"delta", "decision", "cluster", "metrics", "heartbeat"}

Slow == INSTANCE LiveHub WITH
    RetainedMessages <- Three, RetainedBytes <- Nine, QueueMessages <- Two,
    QueueBytes <- Four, MaxFrameBytes <- Three, MaxSeq <- Four, MaxEpoch <- Zero,
    MaxLost <- One, MaxAsked <- One, Kinds <- Decisions

Restart == INSTANCE LiveHub WITH
    RetainedMessages <- Two, RetainedBytes <- Nine, QueueMessages <- Two,
    QueueBytes <- Six, MaxFrameBytes <- Three, MaxSeq <- Three, MaxEpoch <- One,
    MaxLost <- One, MaxAsked <- Zero, Kinds <- Decisions, Parts <- OnePart

Limit == INSTANCE LiveHub WITH
    RetainedMessages <- Three, RetainedBytes <- Three, QueueMessages <- Three,
    QueueBytes <- Three, MaxFrameBytes <- Two, MaxSeq <- Three, MaxEpoch <- Zero,
    MaxLost <- One, MaxAsked <- One, Kinds <- AllKinds

CatchUp == INSTANCE LiveHub WITH
    RetainedMessages <- Two, RetainedBytes <- Nine, QueueMessages <- Two,
    QueueBytes <- Six, MaxFrameBytes <- Three, MaxSeq <- Three, MaxEpoch <- One,
    MaxLost <- One, MaxAsked <- Zero, Kinds <- Deltas, Parts <- OnePart

OneWorkload == {w1}
NoWorkload == {}
OneNode == {n1}
TwoNodes == {n1, n2}
OneScope == {[meters |-> {n1}, active |-> {n1}, known |-> TRUE]}
TwoScopes == {[meters |-> {n1}, active |-> {n1}, known |-> TRUE],
              [meters |-> {n1, n2}, active |-> {n2}, known |-> TRUE]}

Buckets == INSTANCE LiveMetrics WITH
    Workloads <- OneWorkload, Nodes <- OneNode, Scopes <- OneScope,
    Window <- One, MaxTime <- Two, MaxEvents <- Three

Pool == INSTANCE LiveMetrics WITH
    Workloads <- NoWorkload, Nodes <- TwoNodes, Scopes <- TwoScopes,
    Window <- One, MaxTime <- Two, MaxEvents <- Two

EverySecond == INSTANCE LiveMetrics WITH
    Workloads <- OneWorkload, Nodes <- OneNode, Scopes <- OneScope,
    Window <- One, MaxTime <- Three, MaxEvents <- Two

ASSUME LiveAssumption ==
    /\ Slow!HubAssumption /\ Restart!HubAssumption /\ Limit!HubAssumption /\ CatchUp!HubAssumption
    /\ Buckets!MetricsAssumption /\ Pool!MetricsAssumption /\ EverySecond!MetricsAssumption

Off == "off"
HubOff == hub = Off /\ conn = Off /\ view = Off /\ log = Off /\ seen = Off /\ budget = Off
MetricsOff == /\ now = Off /\ next = Off /\ buckets = Off /\ scope = Off
              /\ pendingGaps = Off /\ out = Off /\ closed = Off /\ truth = Off

Init == \/ scene = "slow" /\ Slow!Init /\ MetricsOff
        \/ scene = "restart" /\ Restart!Init /\ MetricsOff
        \/ scene = "limit" /\ Limit!Init /\ MetricsOff
        \/ scene = "catchup" /\ CatchUp!Init /\ MetricsOff
        \/ scene = "buckets" /\ Buckets!Init /\ HubOff
        \/ scene = "pool" /\ Pool!Init /\ HubOff
        \/ scene = "seconds" /\ EverySecond!Init /\ HubOff

HubNext == \/ scene = "slow" /\ Slow!Next
           \/ scene = "restart" /\ Restart!Next
           \/ scene = "limit" /\ Limit!Next
           \/ scene = "catchup" /\ CatchUp!Next
MetricsNext == \/ scene = "buckets" /\ Buckets!Next
               \/ scene = "pool" /\ Pool!Next
               \/ scene = "seconds" /\ EverySecond!Next
Next == \/ HubNext /\ UNCHANGED <<metricsVars, scene>>
        \/ MetricsNext /\ UNCHANGED <<hubVars, scene>>

\* The fairness of LiveHub and LiveMetrics, for the scenes about progress.
HubTurn(A) == scene = "catchup" /\ A /\ UNCHANGED <<metricsVars, scene>>
MetricsTurn(A) == scene = "seconds" /\ A /\ UNCHANGED <<hubVars, scene>>
Fairness ==
    /\ \A c \in Clients :
         /\ WF_vars(HubTurn(CatchUp!Connect(c))) /\ WF_vars(HubTurn(CatchUp!Resume(c)))
         /\ WF_vars(HubTurn(CatchUp!Next1(c))) /\ WF_vars(HubTurn(CatchUp!Receive(c)))
         /\ WF_vars(HubTurn(conn[c].sub = "failed" /\ CatchUp!Disconnect(c)))
    /\ WF_vars(MetricsTurn(EverySecond!Tick)) /\ WF_vars(MetricsTurn(EverySecond!Flush))

Spec == Init /\ [][Next]_vars
FairSpec == Spec /\ Fairness

-----------------------------------------------------------------------------
(* The properties of LiveHub and LiveMetrics in the scenes that endanger   *)
(* them.                                                                   *)

\* TypeOK of both modules.
TypeOK == /\ scene = "slow" => Slow!TypeOK
          /\ scene = "buckets" => Buckets!TypeOK

\* LiveHub.ViewIsHubState over overflows, restarts and failed subscriptions.
ViewIsHubState == /\ scene = "slow" => Slow!ViewIsHubState
                  /\ scene = "restart" => Restart!ViewIsHubState
                  /\ scene = "limit" => Limit!ViewIsHubState

\* LiveHub.NeverOutOfSequence over overflows and restarts.
NeverOutOfSequence == /\ scene = "slow" => Slow!NeverOutOfSequence
                      /\ scene = "restart" => Restart!NeverOutOfSequence

\* LiveHub.MissedIsTold over overflows and restarts.
MissedIsTold == /\ scene = "slow" => Slow!MissedIsTold
                /\ scene = "restart" => Restart!MissedIsTold

\* LiveHub.GapsAreGone while the ring is trimmed.
GapsAreGone == scene = "slow" => Slow!GapsAreGone

\* LiveHub.WithinLimits with frames and snapshots near the limits.
WithinLimits == scene = "limit" => Limit!WithinLimits

\* LiveHub.CheckpointForward with resumes in flight.
CheckpointForward == [][scene = "slow" => Slow!CheckpointForwardStep]_vars

\* LiveHub.CatchesUp after a restart and a lost connection.
CaughtUp(c) == view[c].state = hub.state /\ view[c].cp = [seq |-> hub.head, at |-> hub.epoch]
CatchesUp == \A c \in Clients : <>[](scene = "catchup" => CaughtUp(c))

\* LiveMetrics.CountsComplete with late callbacks and a hub that refuses.
CountsComplete == scene = "buckets" => Buckets!CountsComplete

\* LiveMetrics.LateIsTold with callbacks after the window.
LateIsTold == scene = "buckets" => Buckets!LateIsTold

\* LiveMetrics.GapsReported with gaps over several seconds.
GapsReported == scene = "buckets" => Buckets!GapsReported

\* LiveMetrics.NeverTakenBack with corrections.
NeverTakenBack == [][scene = "buckets" => Buckets!NeverTakenBackStep]_vars

\* LiveMetrics.PoolFromSamples while the membership changes.
PoolFromSamples == scene = "pool" => Pool!PoolFromSamples

\* LiveMetrics.EverySecondPublished.
Published(t) == out[t].sent /\ out[t].count = truth.count[t]
EverySecondPublished ==
    \/ <>(scene = "seconds" => closed)
    \/ <>[](scene = "seconds" => \A t \in EverySecond!Seconds : t < 3 => Published(t))

\* What a reader shows at its checkpoint is the state of the hub at that
\* sequence number, reached without a step out of sequence, within the limits
\* of queue and frame.
ReaderSound == ViewIsHubState /\ NeverOutOfSequence /\ WithinLimits

\* The gaps a reader is told are exactly what it can no longer get.
GapsExact == MissedIsTold /\ GapsAreGone

\* A published second contains every callback that arrived in time, says so
\* when some did not, and sums the power of the members sampled in it.
MetricsSound == TypeOK /\ CountsComplete /\ LateIsTold /\ GapsReported /\ PoolFromSamples

\* Neither a checkpoint nor a published count goes back.
OnlyForward == CheckpointForward /\ NeverTakenBack
=============================================================================
