------------------------------ MODULE PowerMode ------------------------------
(***************************************************************************)
(* The power mode of one Node: the writer's request on the Node object     *)
(* (internal/metadata/power_mode.go), the agent that is the only mutator   *)
(* of the host (internal/nodeactuator/controller/power_mode.go) and its    *)
(* two adapters, Jetson nvpmodel (jetson/nvpmodel.go) and locked NVIDIA    *)
(* clocks (nvidia/clock.go).                                               *)
(*                                                                         *)
(* A pass of the agent reads the Node from its informer cache (view),      *)
(* reads the host, may change the host, and patches the Node without a     *)
(* resourceVersion.  Between those steps the writer requests again, people *)
(* change the host, the agent crashes and the machine reboots.  A request  *)
(* is its request time, numbered from 1; modes are abstract values.        *)
(***************************************************************************)
EXTENDS Integers, FiniteSets

CONSTANTS Modes,        \* host modes (nvpmodel IDs or MHz)
          NoMode,       \* no label, no read-back
          BootModes,    \* modes whose gating masks only a boot sets
          Default,      \* the mode a new machine has, and a clock after a boot
          Refused,      \* modes without a DeviceClass entry or policy
          Clock,        \* TRUE: NVIDIA clocks, FALSE: Jetson nvpmodel
          Cached,       \* TRUE: the informer cache may lag behind the Node
          KubeletFirst, \* TRUE: the kubelet publishes a boot before the agent runs
          MaxRequests, MaxTime,
          MaxForeign, MaxReboots, MaxCrashes, MaxFaults

PowerModeAssumption ==
    /\ BootModes \subseteq Modes /\ Refused \subseteq Modes
    /\ Default \in Modes \ BootModes /\ NoMode \notin Modes
    /\ Clock \in BOOLEAN /\ Cached \in BOOLEAN /\ KubeletFirst \in BOOLEAN
    /\ Clock => BootModes = {}
    /\ {MaxRequests, MaxTime, MaxForeign, MaxReboots, MaxCrashes, MaxFaults} \subseteq Nat

VARIABLES
    host,      \* mode recorded, mode in effect, boot number
    node,      \* the Node object
    view,      \* the agent's cached copy of it
    pass,      \* the agent's running pass
    now,       \* the Node clock
    left,      \* what may still go wrong
    restarts   \* restarts taken per request (history)

vars == <<host, node, view, pass, now, left, restarts>>

None == -1
NoRecord == [mode |-> NoMode, requestedAt |-> 0, gen |-> 0,
             applyAt |-> None, settlingAt |-> None]
NoPatch == <<>>

\* A merge patch: what p names replaces what q has.
Merge(p, q) ==
    [f \in DOMAIN p \cup DOMAIN q |-> IF f \in DOMAIN p THEN p[f] ELSE q[f]]

\* A duration that began at t is over; at the last tick every one is.
Elapsed(t) == now > t \/ now = MaxTime

------------------------------------------------------------------------------
(* Reading the Node (internal/metadata/power_mode.go).                     *)

ServesRequest(n) ==
    /\ n.desired # NoMode
    /\ n.record.mode = n.desired
    /\ n.record.requestedAt = n.requestedAt

PowerModeLeft(n) ==
    ServesRequest(n) /\ n.state = "success" /\ n.record.gen # n.gen

Done(n) ==
    ServesRequest(n) /\ n.state = "success" /\ n.record.gen = n.gen

\* RequestPowerMode asks again for a failed mode and for one the host left;
\* any other mode that is already requested is left alone.
MayRequest(n, mode) ==
    (n.desired = mode /\ n.requestedAt # 0) =>
        ServesRequest(n) /\ (n.state = "failed" \/ PowerModeLeft(n))

------------------------------------------------------------------------------
(* The host.                                                               *)

\* nvpmodel refuses to read a mode whose masks read ungated; a mask left over
\* from another mode reads as any established one.
Nominal(h) == h.mode \in BootModes /\ h.eff \notin BootModes

NeedsBoot(h, mode) == (mode \in BootModes) # (h.eff \in BootModes)

\* What a boot brings up: the recorded mode, or a boot mode in name only.
Booted(h) ==
    {[mode |-> IF Clock THEN Default ELSE h.mode, boot |-> h.boot + 1, eff |-> e] :
        e \in IF Clock THEN {Default}
              ELSE {h.mode} \cup (IF h.mode \in BootModes THEN {Default} ELSE {})}

\* A read returns the recorded mode or NoMode, an error: a nominal mode, or a
\* command that fails.
HostRead(h) ==
    (IF Nominal(h) THEN {NoMode} ELSE {h.mode})
        \cup (IF left.faults > 0 THEN {NoMode} ELSE {})

ReadFaults(h, seen) ==
    IF seen = NoMode /\ ~Nominal(h) THEN [left EXCEPT !.faults = @ - 1] ELSE left

------------------------------------------------------------------------------
(* The agent's pass.                                                       *)

\* Mutant: only a boot is counted.
ReadBackBootOnly(n, seen) ==
    LET back == IF seen # NoMode THEN seen
                ELSE IF n.rbBoot = n.bootId THEN n.readBack ELSE NoMode
    IN  [gen |-> IF n.gen = None THEN 0 ELSE IF n.rbBoot = n.bootId THEN n.gen ELSE n.gen + 1,
         readBack |-> back, rbBoot |-> n.bootId]

\* publishReadBack: the changes of the three annotations, none when nothing
\* moved.  A failed read keeps the read-back of the same boot.
ReadBack(n, seen) ==
    LET back == IF seen # NoMode THEN seen
                ELSE IF n.rbBoot = n.bootId THEN n.readBack ELSE NoMode
        clockOnly == Clock /\ seen # NoMode /\ n.desired = NoMode /\ n.rbBoot = n.bootId
    IN  IF n.gen # None /\ back = n.readBack /\ n.rbBoot = n.bootId
          THEN NoPatch
          ELSE [gen |-> IF n.gen = None THEN 0
                        ELSE IF clockOnly THEN n.gen ELSE n.gen + 1,
                readBack |-> back, rbBoot |-> n.bootId]

\* Mutant: without the policy bound.
AwaitsForever(n, seen) ==
    /\ seen = NoMode /\ n.rbBoot # n.bootId
    /\ n.state = "pending" /\ ServesRequest(n) /\ n.record.applyAt # None

\* awaitBootRead: only a read tells whether the boot reached the target.
AwaitsBootRead(n, seen) ==
    /\ seen = NoMode /\ n.rbBoot # n.bootId
    /\ n.state = "pending" /\ ServesRequest(n) /\ n.record.applyAt # None
    /\ n.desired \notin Refused
    /\ ~Elapsed(n.record.applyAt)

Write(record, state) == [record |-> record, state |-> state]

\* settle: the first read of the target starts the settling time, its end
\* writes success.
Settle(n, gen) ==
    CASE n.record.settlingAt = None ->
            Write([n.record EXCEPT !.gen = gen, !.settlingAt = now], "pending")
      [] n.record.settlingAt # None /\ ~Elapsed(n.record.settlingAt) -> NoPatch
      [] OTHER -> Write(n.record, "success")

\* Mutant: the generation the Node had before this pass.
FreshRecordStale(n, gen, applyAt) ==
    [NoRecord EXCEPT !.mode = n.desired, !.requestedAt = n.requestedAt,
                     !.gen = n.gen, !.applyAt = applyAt]

FreshRecord(n, gen, applyAt) ==
    [NoRecord EXCEPT !.mode = n.desired, !.requestedAt = n.requestedAt,
                     !.gen = gen, !.applyAt = applyAt]

\* The state label describes the record of the current request only.
StateOf(n) == IF ServesRequest(n) THEN n.state ELSE ""

\* A matching MHz may be chance: a clock request applies before it settles.
NeedsClockApply(n) ==
    /\ Clock
    /\ \/ StateOf(n) = ""
       \/ StateOf(n) = "pending" /\ n.record.settlingAt = None

Held(n, seen) == ~NeedsClockApply(n) /\ seen = n.desired

\* Mutant: the host changes without the fence.
AppliesUnfenced(n, seen, gen) ==
    /\ n.desired \notin Refused \cup {NoMode}
    /\ ~Held(n, seen)
    /\ StateOf(n) \in {"", "pending"}

\* Mutant: a boot since the fence does not end the request.
AppliesAgain(n, seen, gen) ==
    /\ n.desired \notin Refused \cup {NoMode}
    /\ ~Held(n, seen)
    /\ StateOf(n) = "pending" /\ n.record.applyAt # None

\* drive goes on to change the host.
Applies(n, seen, gen) ==
    /\ n.desired \notin Refused \cup {NoMode}
    /\ ~Held(n, seen)
    /\ StateOf(n) = "pending" /\ n.record.applyAt # None
    /\ gen = n.record.gen \/ NeedsClockApply(n)

\* What drive writes when it does not change the host.
Drive(n, seen, gen) ==
    LET state == StateOf(n) IN
    CASE n.desired = NoMode ->
            IF n.state = "" THEN NoPatch ELSE [state |-> ""]
      [] n.desired # NoMode /\ state = "failed" -> NoPatch
      [] n.desired \in Refused /\ state # "failed" ->
            Write(FreshRecord(n, gen, None), "failed")
      [] OTHER ->
            IF Held(n, seen)
              THEN CASE state = "pending" -> Settle(n, gen)
                     [] state = "" -> Write(FreshRecord(n, gen, None), "success")
                     [] OTHER -> NoPatch
              ELSE CASE state = "success" -> NoPatch
                     [] state = "" \/ (state = "pending" /\ n.record.applyAt = None) ->
                          Write(FreshRecord(n, gen, now), "pending")
                     [] OTHER -> Write(n.record, "failed")

Fail(n) == Write(n.record, "failed")

Idle == [pc |-> "idle", n |-> node, patch |-> NoPatch]

\* Reconcile up to its patch, or up to the adapter's Apply.  A DeviceClass
\* that cannot be read ends the pass after the read-back is patched.
Reconcile(seen, classRead) ==
    /\ pass.pc = "idle"
    /\ seen \in HostRead(host)
    /\ LET n == view
           back == ReadBack(n, seen)
           local == Merge(back, n)
           gen == local.gen
       IN  IF AwaitsBootRead(n, seen)
             THEN pass' = pass
             ELSE IF ~classRead
               THEN pass' = [pc |-> "patch", n |-> local, patch |-> back]
             ELSE IF Applies(n, seen, gen)
               THEN pass' = [pc |-> "apply", n |-> local, patch |-> back]
             ELSE pass' = [pc |-> "patch", n |-> local, patch |-> Merge(Drive(n, seen, gen), back)]
    /\ left' = [ReadFaults(host, seen) EXCEPT !.faults = IF classRead THEN @ ELSE @ - 1]
    /\ left'.faults >= 0
    /\ UNCHANGED <<host, node, view, now, restarts>>

ApplyFails == pass' = [pass EXCEPT !.pc = "patch", !.patch = Merge(Fail(pass.n), @)]
ApplyReturns == pass' = [pass EXCEPT !.pc = "patch"]

\* Apply of nvpmodel looks at the host first: a host that holds the target is
\* left alone, one that holds it in name only is not restarted again.
Query(readable) ==
    /\ pass.pc = "apply" /\ ~Clock
    /\ readable \/ left.faults > 0
    /\ left' = IF readable THEN left ELSE [left EXCEPT !.faults = @ - 1]
    /\ CASE readable /\ host.mode = pass.n.desired /\ Nominal(host) -> ApplyFails
         [] readable /\ host.mode = pass.n.desired /\ ~Nominal(host) -> ApplyReturns
         [] OTHER -> pass' = [pass EXCEPT !.pc = "set"]
    /\ UNCHANGED <<host, node, view, now, restarts>>

\* nvpmodel -m: in place, or the demand for a reboot.
SetMode ==
    /\ pass.pc = "set" /\ ~Clock
    /\ IF NeedsBoot(host, pass.n.desired)
         THEN pass' = [pass EXCEPT !.pc = "force"] /\ UNCHANGED host
         ELSE ApplyReturns /\ host' = [host EXCEPT !.mode = pass.n.desired, !.eff = pass.n.desired]
    /\ UNCHANGED <<node, view, now, left, restarts>>

\* nvpmodel --force -m: the target is recorded for the next boot.
ForceMode ==
    /\ pass.pc = "force"
    /\ host' = [host EXCEPT !.mode = pass.n.desired]
    /\ pass' = [pass EXCEPT !.pc = "restart"]
    /\ UNCHANGED <<node, view, now, left, restarts>>

Restart ==
    /\ pass.pc = "restart"
    /\ host' \in Booted(host)
    /\ pass' = [Idle EXCEPT !.pc = "down"]
    /\ restarts' = [restarts EXCEPT ![pass.n.requestedAt] = @ + 1]
    /\ UNCHANGED <<node, view, now, left>>

\* A command of Apply fails, or the restart returns.
CommandFails ==
    /\ pass.pc \in {"set", "force", "restart"} /\ ~Clock
    /\ left.faults > 0
    /\ left' = [left EXCEPT !.faults = @ - 1]
    /\ ApplyFails
    /\ UNCHANGED <<host, node, view, now, restarts>>

\* Apply of the clock adapter sets the clock and reads it back.
SetClock ==
    /\ pass.pc = "apply" /\ Clock
    /\ host' = [host EXCEPT !.mode = pass.n.desired, !.eff = pass.n.desired]
    /\ pass' = [pass EXCEPT !.pc = "readback"]
    /\ UNCHANGED <<node, view, now, left, restarts>>

\* It could not read the clock before (nothing changes), or the target did not
\* read back: the previous clock or the driver's default is restored, which may
\* fail as well.
ClockFails(mode) ==
    /\ pass.pc = "apply" /\ Clock
    /\ left.faults > 0
    /\ left' = [left EXCEPT !.faults = @ - 1]
    /\ mode \in {host.mode, Default, pass.n.desired}
    /\ host' = [host EXCEPT !.mode = mode, !.eff = mode]
    /\ ApplyFails
    /\ UNCHANGED <<node, view, now, restarts>>

\* The controller's own read after Apply: a mismatch fails the request, the
\* target is published and starts to settle in the same pass.
ClockReadBack(seen) ==
    /\ pass.pc = "readback"
    /\ seen \in HostRead(host)
    /\ LET n == pass.n
           back == ReadBack(n, seen)
       IN  IF seen # n.desired
             THEN ApplyFails
             ELSE pass' = [pc |-> "patch", n |-> Merge(back, n),
                           patch |-> Merge(Settle(n, Merge(back, n).gen), Merge(back, pass.patch))]
    /\ left' = ReadFaults(host, seen)
    /\ UNCHANGED <<host, node, view, now, restarts>>

\* One merge patch, without a resourceVersion; it may fail.
Patch ==
    /\ pass.pc = "patch"
    /\ node' = Merge(pass.patch, node)
    /\ pass' = [Idle EXCEPT !.n = node']
    /\ view' = IF Cached THEN view ELSE node'
    /\ UNCHANGED <<host, now, left, restarts>>

PatchFails ==
    /\ pass.pc = "patch" /\ pass.patch # NoPatch
    /\ left.faults > 0
    /\ left' = [left EXCEPT !.faults = @ - 1]
    /\ pass' = Idle
    /\ UNCHANGED <<host, node, view, now, restarts>>

------------------------------------------------------------------------------
(* The writer, the informer, the kubelet, people, crashes and time.        *)

\* The patch carries the resourceVersion the writer read, so what it decided
\* on is what it changes.
RequestPowerMode(mode) ==
    /\ node.requestedAt < MaxRequests
    /\ MayRequest(node, mode)
    /\ node' = [node EXCEPT !.desired = mode, !.requestedAt = @ + 1]
    /\ view' = IF Cached THEN view ELSE node'
    /\ UNCHANGED <<host, pass, now, left, restarts>>

Withdraw ==
    /\ node.desired # NoMode /\ left.foreign > 0
    /\ left' = [left EXCEPT !.foreign = @ - 1]
    /\ node' = [node EXCEPT !.desired = NoMode]
    /\ view' = IF Cached THEN view ELSE node'
    /\ UNCHANGED <<host, pass, now, restarts>>

Deliver ==
    /\ view # node /\ pass.pc # "down"
    /\ view' = node
    /\ UNCHANGED <<host, node, pass, now, left, restarts>>

Kubelet ==
    /\ node.bootId # host.boot
    /\ node' = [node EXCEPT !.bootId = host.boot]
    /\ view' = IF Cached THEN view ELSE node'
    /\ UNCHANGED <<host, pass, now, left, restarts>>

\* Someone sets a mode on the host in place, or a dynamic clock moves.
Foreign(mode) ==
    /\ left.foreign > 0
    /\ mode # host.mode /\ ~NeedsBoot(host, mode)
    /\ left' = [left EXCEPT !.foreign = @ - 1]
    /\ host' = [host EXCEPT !.mode = mode, !.eff = mode]
    /\ UNCHANGED <<node, view, pass, now, restarts>>

Crash ==
    /\ pass.pc # "down" /\ left.crashes > 0
    /\ left' = [left EXCEPT !.crashes = @ - 1]
    /\ pass' = [Idle EXCEPT !.pc = "down"]
    /\ UNCHANGED <<host, node, view, now, restarts>>

Reboot ==
    /\ left.reboots > 0
    /\ left' = [left EXCEPT !.reboots = @ - 1]
    /\ host' \in Booted(host)
    /\ pass' = [Idle EXCEPT !.pc = "down"]
    /\ UNCHANGED <<node, view, now, restarts>>

\* A new agent lists its Node; it keeps nothing else.
Start ==
    /\ pass.pc = "down"
    /\ KubeletFirst => node.bootId = host.boot
    /\ pass' = Idle
    /\ view' = node
    /\ UNCHANGED <<host, node, now, left, restarts>>

Tick ==
    /\ now < MaxTime
    /\ now \in {node.record.applyAt, node.record.settlingAt}
    /\ now' = now + 1
    /\ UNCHANGED <<host, node, view, pass, left, restarts>>

Init ==
    /\ host \in {[mode |-> m, eff |-> m, boot |-> 1] : m \in IF Clock THEN {Default} ELSE Modes}
    /\ node = [desired |-> NoMode, requestedAt |-> 0, state |-> "", gen |-> None,
               readBack |-> NoMode, rbBoot |-> 0, bootId |-> 1, record |-> NoRecord]
    /\ view = node
    /\ pass = Idle
    /\ now = 0
    /\ left = [foreign |-> MaxForeign, reboots |-> MaxReboots,
               crashes |-> MaxCrashes, faults |-> MaxFaults]
    /\ restarts = [r \in 1..MaxRequests |-> 0]

Next ==
    \/ \E seen \in Modes \cup {NoMode}, ok \in BOOLEAN : Reconcile(seen, ok)
    \/ \E ok \in BOOLEAN : Query(ok)
    \/ SetMode \/ ForceMode \/ Restart \/ CommandFails
    \/ SetClock
    \/ \E mode \in Modes : ClockFails(mode)
    \/ \E seen \in Modes \cup {NoMode} : ClockReadBack(seen)
    \/ Patch \/ PatchFails
    \/ \E mode \in Modes : RequestPowerMode(mode)
    \/ Withdraw \/ Deliver \/ Kubelet
    \/ \E mode \in Modes : Foreign(mode)
    \/ Crash \/ Reboot \/ Start \/ Tick

Spec == Init /\ [][Next]_vars

\* Fairness: a pass that is running goes on, the informer and the kubelet
\* deliver, an agent that is down is started, time passes.
Fairness ==
    /\ WF_vars(\E seen \in Modes \cup {NoMode} : Reconcile(seen, TRUE))
    /\ WF_vars(Query(TRUE)) /\ WF_vars(SetMode) /\ WF_vars(ForceMode) /\ WF_vars(Restart)
    /\ WF_vars(SetClock)
    /\ WF_vars(\E seen \in Modes \cup {NoMode} : ClockReadBack(seen))
    /\ WF_vars(Patch) /\ WF_vars(Deliver) /\ WF_vars(Kubelet)
    /\ WF_vars(Start) /\ WF_vars(Tick)

FairSpec == Spec /\ Fairness

------------------------------------------------------------------------------
(* Properties.                                                             *)

Nodes ==
    [desired : Modes \cup {NoMode}, requestedAt : 0..MaxRequests,
     state : {"", "pending", "success", "failed"}, gen : Nat \cup {None},
     readBack : Modes \cup {NoMode}, rbBoot : Nat, bootId : Nat,
     record : [mode : Modes \cup {NoMode}, requestedAt : 0..MaxRequests,
               gen : Nat, applyAt : 0..MaxTime \cup {None},
               settlingAt : 0..MaxTime \cup {None}]]

\* Every variable has its type: in particular a patch never leaves the Node
\* with part of a record.
TypeOK ==
    /\ host.mode \in Modes /\ host.eff \in Modes /\ host.boot \in Nat
    /\ node \in Nodes /\ view \in Nodes
    /\ pass.pc \in {"down", "idle", "apply", "set", "force", "restart", "readback", "patch"}
    /\ pass.n \in Nodes
    /\ now \in 0..MaxTime
    /\ \A k \in DOMAIN left : left[k] >= 0
    /\ restarts \in [1..MaxRequests -> Nat]

\* What a writer takes for "the Node holds the mode of my request"
\* (PowerModeOutcome done) is also what the agent last read from the host.
DoneReadsBack == Done(node) => node.readBack = node.desired

\* A request restarts the Node at most once, whatever crashes, reboots and
\* failed reads come in between (nvpmodel.go, holdsTarget; power_mode.go,
\* "Applying again could restart the Node again").
RestartsOnce == \A r \in 1..MaxRequests : restarts[r] <= 1

\* The fence is durable before the agent changes the host: whatever crash
\* follows, the Node says which mode an apply was under way to.
AgentSets == pass.pc \in {"set", "force", "restart", "apply"} /\ pass'.pc # pass.pc
FencedFirstStep ==
    (host' # host /\ AgentSets /\ left'.reboots = left.reboots) =>
        /\ node.record.applyAt # None
        /\ node.record.mode = pass.n.desired
FencedFirst == [][FencedFirstStep]_vars

\* Every request ends in success or failure unless it is replaced.
RequestEnds ==
    \A r \in 1..MaxRequests :
        (node.requestedAt = r) ~>
            \/ node.requestedAt # r \/ node.desired = NoMode
            \/ ServesRequest(node) /\ node.state \in {"success", "failed"}

\* A host that left a settled mode does not keep passing for it.
LeftIsSeen ==
    (Done(node) /\ host.mode # node.desired) ~>
        (~Done(node) \/ host.mode = node.desired)

\* A failed request is terminal: until it is requested again the agent leaves
\* the host alone (TestPowerModeApplyFailureIsTerminalUntilRequestedAgain).
FailedIsTerminal ==
    [][(host' # host /\ AgentSets /\ left'.reboots = left.reboots) =>
          ~(ServesRequest(node) /\ node.state = "failed")]_vars

\* The generation counts the host changes the agent observed: another
\* read-back is another generation.
EveryChangeCounts ==
    [][(node'.readBack # node.readBack /\ node.gen # None /\ node.desired # NoMode) =>
          node'.gen > node.gen]_vars

\* A mode the agent verified is the mode in effect on the host.
VerifiedIsInEffect ==
    [][(pass.pc = "idle" /\ pass'.pc = "patch" /\ pass'.n.desired # NoMode
          /\ "state" \in DOMAIN pass'.patch /\ pass'.patch.state = "pending"
          /\ pass'.patch.record.settlingAt = now) =>
       host.eff = pass'.n.desired]_vars
=============================================================================
