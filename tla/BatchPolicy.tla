----------------------------- MODULE BatchPolicy -----------------------------
(***************************************************************************)
(* The batch choice of internal/firstfloor/policy.go, shared by the native *)
(* actor and by the scheduler's replay.  A snapshot is a sequence of       *)
(* requests, each with its queue key (Workload and definition), its        *)
(* remaining SLO, completion margin, time in the queue and phase.  The     *)
(* measured distributions are a parameter: cost.now[n] is the service      *)
(* time of profile n after the current idle gap, cost.later[n] after the   *)
(* gap that filling a batch extends, cost.next[n] right after a batch, and *)
(* Never where the profile has no support.                                 *)
(***************************************************************************)
EXTENDS Integers, Sequences, FiniteSets

CONSTANTS
    Profiles,        \* number of measured batch profiles, in order of size
    Size,            \* profile -> batch size
    Energy,          \* profile -> energy per item
    MaxBatchWait,    \* Policy.MaxBatchWaitMS
    FixedBatchSize,  \* Policy.FixedBatchSize, 0 for measured batching
    DeadlinePolicy   \* "keep", "drop" or "defer"

Never == 1000        \* the infinite service time of an unsupported profile

ASSUME PolicyAssumption ==
    /\ Profiles \in Nat \ {0}
    /\ Size \in [1..Profiles -> Nat] /\ Size[1] = 1
    /\ \A n \in 2..Profiles : Size[n - 1] < Size[n]
    /\ Energy \in [1..Profiles -> Nat]
    /\ MaxBatchWait \in Nat /\ FixedBatchSize \in Nat
    /\ DeadlinePolicy \in {"keep", "drop", "defer"}

Phases == {"queued", "deferred", "running"}
Reasons == {"active", "empty", "drop", "defer", "throughput", "energy",
            "wait", "filling", "fixed"}

SLOExpired(q) == q.slo <= 0

\* requestSlack: what remains of the SLO after this service.
Slack(q, c) == q.slo - q.margin - c

AllowedBatch(cap, n) == cap = 0 \/ Size[n] <= cap

Normal(q) == q.phase = "queued"

\* earlierEDF: the stable order of normal requests, by remaining SLO.
EarlierEDF(rs, i, j) == rs[i].slo < rs[j].slo \/ (rs[i].slo = rs[j].slo /\ i < j)

NormalOf(rs, k) == {i \in DOMAIN rs : Normal(rs[i]) /\ rs[i].key = k}

\* The contiguous deferred run that starts at head: nothing deferred of another
\* queue stands between.
DeferredRun(rs, head) ==
    {i \in head..Len(rs) :
        \A j \in head..i : rs[j].phase = "deferred" => rs[j].key = rs[head].key}
    \cap {i \in DOMAIN rs : rs[i].phase = "deferred"}

\* nextCompatible's chain and compatibleCount's length from head on.
Compatible(rs, head) ==
    IF rs[head].phase = "deferred" THEN DeferredRun(rs, head)
                                   ELSE NormalOf(rs, rs[head].key)

CompatibleCount(rs, head) == Cardinality(Compatible(rs, head))

\* The first n of the chain: EDF for normal requests, FIFO for deferred ones.
FirstCompatible(rs, head, n) ==
    LET C == Compatible(rs, head)
        Before(i, j) == IF rs[head].phase = "deferred" THEN i < j
                                                       ELSE EarlierEDF(rs, i, j)
    IN  {i \in C : Cardinality({j \in C : Before(j, i)}) < n}

\* Mutant: only the head's SLO is examined.
HeadFeasible(rs, head, n, cost) ==
    Size[n] <= CompatibleCount(rs, head) /\ Slack(rs[head], cost.now[n]) >= 0

\* batchFeasible: the profile fits and every member meets its SLO.
BatchFeasible(rs, head, n, cost) ==
    /\ Size[n] <= CompatibleCount(rs, head)
    /\ \A i \in FirstCompatible(rs, head, Size[n]) : Slack(rs[i], cost.now[n]) >= 0

Earliest(rs, I) == CHOOSE i \in I : \A j \in I : j = i \/ EarlierEDF(rs, i, j)

\* queueHeads: the earliest normal request, else the oldest deferred one.
NormalHead(rs) == {i \in DOMAIN rs : Normal(rs[i])}
DeferredHead(rs) == {i \in DOMAIN rs : rs[i].phase = "deferred"}
Head0(rs) ==
    IF NormalHead(rs) # {} THEN Earliest(rs, NormalHead(rs))
    ELSE CHOOSE i \in DeferredHead(rs) : \A j \in DeferredHead(rs) : i <= j

Usable(rs, head, cap) ==
    {n \in 1..Profiles : Size[n] <= CompatibleCount(rs, head) /\ AllowedBatch(cap, n)}

\* The least service time per item; the larger batch on equal terms.
LessPerItem(n, m, cost) ==
    /\ cost.now[n] # Never
    /\ cost.now[m] = Never \/ cost.now[n] * Size[m] < cost.now[m] * Size[n]

Throughput(P, cost) ==
    CHOOSE n \in P : \A m \in P \ {n} :
        \/ LessPerItem(n, m, cost)
        \/ ~LessPerItem(m, n, cost) /\ Size[n] > Size[m]

\* The least energy per item among the feasible; the larger batch on equal terms.
Available(P) ==
    CHOOSE n \in P : \A m \in P \ {n} :
        \/ Energy[n] < Energy[m]
        \/ Energy[n] = Energy[m] /\ Size[n] > Size[m]

Choice(rs, head, size, wait, reason) ==
    [id |-> IF head = 0 THEN 0 ELSE rs[head].id,
     key |-> IF head = 0 THEN 0 ELSE rs[head].key,
     size |-> size, wait |-> wait, reason |-> reason, profile |-> 0]

\* The least service time of a competing request in the batch after this one.
MinimumService(cap, cost) ==
    LET C == {cost.next[n] : n \in {m \in 1..Profiles : AllowedBatch(cap, m)}} \cup {Never}
    IN  CHOOSE c \in C : \A d \in C : c <= d

\* energyGainWait: how long a larger, cheaper batch may be waited for.
Fill(rs, head, n, interval) == (Size[n] - CompatibleCount(rs, head)) * interval

WaitAllowed(rs, head, n, cap, cost, fill) ==
    /\ fill > 0 /\ fill <= MaxBatchWait
    /\ \A i \in NormalHead(rs) :
        /\ rs[i].key = rs[head].key =>
              fill <= MaxBatchWait - rs[i].queued /\ fill <= Slack(rs[i], cost.later[n])
        /\ rs[i].key # rs[head].key =>
              fill <= Slack(rs[i], cost.later[n]) - MinimumService(cap, cost)

WorthWaiting(rs, head, avail, cap, cost, interval) ==
    {n \in 1..Profiles :
        /\ Size[n] > CompatibleCount(rs, head)
        /\ Energy[n] < Energy[avail] /\ AllowedBatch(cap, n)
        /\ WaitAllowed(rs, head, n, cap, cost, Fill(rs, head, n, interval))}

EnergyGainWait(rs, head, avail, cap, cost, interval) ==
    LET W == WorthWaiting(rs, head, avail, cap, cost, interval)
        first == CHOOSE n \in W : \A m \in W : n <= m
    IN  IF interval > 0 /\ W # {}
        THEN Choice(rs, head, 0, Fill(rs, head, first, interval), "wait")
        ELSE [Choice(rs, head, Size[avail], 0, "energy") EXCEPT !.profile = avail]

\* Mutant: a fixed batch starts with what is there.
ChooseFixedEarly(rs) ==
    IF \E i \in DOMAIN rs : rs[i].phase = "running" THEN Choice(rs, 0, 0, 0, "active")
    ELSE Choice(rs, Earliest(rs, NormalHead(rs)), FixedBatchSize, 0, "fixed")

\* chooseFixedBatch: exactly FixedBatchSize requests of the earliest group that
\* has so many.
ChooseFixedBatch(rs) ==
    LET F == {i \in NormalHead(rs) : CompatibleCount(rs, i) >= FixedBatchSize}
    IN  IF \E i \in DOMAIN rs : rs[i].phase = "running"
        THEN Choice(rs, 0, 0, 0, "active")
        ELSE IF F = {} THEN Choice(rs, 0, 0, 0, "filling")
        ELSE Choice(rs, Earliest(rs, F), FixedBatchSize, 0, "fixed")

\* chooseBatch for measured profiles; cap is Policy.MaxBatchSize, interval the
\* head's arrival interval, 0 when unknown.
ChooseMeasured(rs, cap, cost, interval) ==
    LET head == Head0(rs)
        U == Usable(rs, head, cap)
        F == IF rs[head].phase = "deferred" THEN {}
             ELSE {n \in U : BatchFeasible(rs, head, n, cost)}
    IN  IF DeadlinePolicy = "drop" /\ NormalHead(rs) # {} /\ SLOExpired(rs[head])
        THEN Choice(rs, head, 0, 0, "drop")
        ELSE IF \E i \in DOMAIN rs : rs[i].phase = "running"
        THEN Choice(rs, 0, 0, 0, "active")
        ELSE IF F # {}
        THEN EnergyGainWait(rs, head, Available(F), cap, cost, interval)
        ELSE IF rs[head].phase # "deferred" /\ DeadlinePolicy # "keep"
        THEN Choice(rs, head, 0, 0, DeadlinePolicy)
        ELSE Choice(rs, head, IF U = {} THEN 0 ELSE Size[Throughput(U, cost)],
                    0, "throughput")

ChooseBatch(rs, cap, cost, interval) ==
    IF FixedBatchSize > 0 THEN ChooseFixedBatch(rs)
    ELSE IF NormalHead(rs) = {} /\ DeferredHead(rs) = {}
    THEN Choice(rs, 0, 0, 0,
                IF \E i \in DOMAIN rs : rs[i].phase = "running" THEN "active" ELSE "empty")
    ELSE ChooseMeasured(rs, cap, cost, interval)
==============================================================================
