-------------------------- MODULE LiveMetricsProofs --------------------------
(***************************************************************************)
(* What LiveMetrics promises about the published seconds, for any          *)
(* Workloads, Nodes, memberships, correction window and number of events:  *)
(*   Counted             a clean second counts all that was accepted,      *)
(*   NothingTakenBack    a correction never counts less,                   *)
(*   LateReported        what came too late is reported as a gap,          *)
(*   GapsPublished       and so is every gap,                              *)
(*   PoolSampled         a pool sum stands on samples.                     *)
(*                                                                         *)
(* The inductive invariant relates an open bucket to what the callbacks    *)
(* brought for its second (Faithful), and a published frame to both.       *)
(***************************************************************************)
EXTENDS LiveMetrics, TLAPS

Names == {"all"} \cup Workloads \cup Nodes
GapRecords == [from : Seconds, to : Nat, scope : Names]

LiveBuckets ==
    [live : {TRUE}, dirty : BOOLEAN, count : [Workloads -> Nat], valid : [Nodes -> Nat],
     invalid : [Nodes -> BOOLEAN], gaps : SUBSET GapRecords,
     meters : SUBSET Nodes, active : SUBSET Nodes, known : BOOLEAN]

Frames ==
    [sent : {TRUE}, rows : SUBSET Workloads, count : [Workloads -> Nat],
     meters : SUBSET Nodes, active : SUBSET Nodes, whole : BOOLEAN, activeSum : BOOLEAN]

Truths ==
    [count : [Seconds -> [Workloads -> Nat]], late : [Seconds -> [Workloads -> Nat]],
     samples : [Seconds -> [Nodes -> Nat]], bad : SUBSET (Nodes \X Seconds),
     gaps : SUBSET GapRecords, told : SUBSET GapRecords,
     covered : [Seconds -> SUBSET Names], scopes : [Seconds -> SUBSET Scopes]]

TypeInv ==
    /\ now \in Seconds /\ next \in Seconds /\ next <= now
    /\ closed \in BOOLEAN /\ scope \in Scopes
    /\ buckets \in [Seconds -> LiveBuckets \cup {NoBucket}]
    /\ pendingGaps \in SUBSET GapRecords
    /\ out \in [Seconds -> Frames \cup {NoFrame}]
    /\ truth \in Truths

\* The rows of a frame for a second: the Workloads that no accepted gap covers.
TrueRows(t) == {w \in Workloads : truth.covered[t] \cap {"all", w} = {}}

\* A bucket holds what was accepted for its second, and nothing else.
Faithful(b, t) ==
    /\ b.count = truth.count[t]
    /\ Rows(b) = TrueRows(t)
    /\ \A n \in Nodes : /\ b.valid[n] > 0 => truth.samples[t][n] > 0
                        /\ <<n, t>> \in truth.bad => b.invalid[n]

\* A second before the window has no bucket, one within it that was flushed has
\* one, and one that has none got nothing yet.
WindowInv ==
    \A t \in Seconds :
        /\ TooLate(t) => buckets[t] = NoBucket
        /\ t < next => out[t].sent /\ (TooLate(t) \/ buckets[t].live)
        /\ ~TooLate(t) /\ ~buckets[t].live =>
              /\ truth.count[t] = [w \in Workloads |-> 0]
              /\ truth.covered[t] = {}
              /\ \A n \in Nodes : <<n, t>> \notin truth.bad

BucketsInv == \A t \in Seconds : buckets[t].live => Faithful(buckets[t], t)

\* What a published frame says of its second.
FramesInv ==
    \A t \in Seconds : out[t].sent =>
        /\ t < now
        /\ \A w \in Workloads : out[t].count[w] <= truth.count[t][w]
        /\ t < next /\ ~buckets[t].dirty => out[t].count = truth.count[t] /\ out[t].rows = TrueRows(t)
        /\ out[t].whole => \A n \in out[t].meters :
              truth.samples[t][n] > 0 /\ (<<n, t>> \in truth.bad => buckets[t].dirty \/ TooLate(t))

IInv == TypeInv /\ WindowInv /\ BucketsInv /\ FramesInv /\ LateIsTold /\ GapsReported

-----------------------------------------------------------------------------
(* Buckets and frames                                                      *)

\* The fields of a new bucket.
LEMMA NewBucketType ==
    ASSUME MetricsAssumption, TypeInv
    PROVE  /\ NewBucket \in LiveBuckets /\ NewBucket.dirty /\ NewBucket.live
           /\ NewBucket.count = [w \in Workloads |-> 0]
           /\ NewBucket.gaps = {}
           /\ \A n \in Nodes : NewBucket.valid[n] = 0 /\ ~NewBucket.invalid[n]
BY DEF NewBucket, LiveBuckets, TypeInv, MetricsAssumption

\* The bucket a callback gets is open, dirty, and faithful to its second.
LEMMA BucketFaithful ==
    ASSUME MetricsAssumption, TypeInv, WindowInv, BucketsInv,
           NEW t \in Seconds, ~TooLate(t)
    PROVE  /\ Bucket(t) \in LiveBuckets /\ Bucket(t).dirty /\ Bucket(t).live
           /\ Faithful(Bucket(t), t)
           /\ buckets[t].live => Bucket(t).gaps = buckets[t].gaps
<1>1. CASE buckets[t].live
  <2>1. Bucket(t) = [buckets[t] EXCEPT !.dirty = TRUE] /\ buckets[t] \in LiveBuckets
    BY <1>1 DEF Bucket, TypeInv, NoBucket
  <2>2. Faithful(buckets[t], t)
    BY <1>1 DEF BucketsInv
  <2> QED BY <1>1, <2>1, <2>2 DEF Faithful, Rows, LiveBuckets
<1>2. CASE ~buckets[t].live
  <2>1. Bucket(t) = NewBucket
    BY <1>2 DEF Bucket
  <2>2. /\ truth.count[t] = [w \in Workloads |-> 0] /\ truth.covered[t] = {}
        /\ \A n \in Nodes : <<n, t>> \notin truth.bad
    BY <1>2 DEF WindowInv
  <2>3. Rows(NewBucket) = TrueRows(t)
    BY <2>2, NewBucketType DEF Rows, TrueRows
  <2> QED BY <1>2, <2>1, <2>2, <2>3, NewBucketType DEF Faithful
<1> QED BY <1>1, <1>2

\* A frame says what its bucket holds.
LEMMA FrameSays ==
    ASSUME NEW b \in LiveBuckets
    PROVE  /\ FrameOf(b) \in Frames /\ FrameOf(b).sent
           /\ FrameOf(b).count = b.count /\ FrameOf(b).rows = Rows(b)
           /\ FrameOf(b).meters = b.meters
           /\ FrameOf(b).whole => \A n \in b.meters : b.valid[n] > 0 /\ ~b.invalid[n]
<1>1. Rows(b) \subseteq Workloads /\ b.meters \subseteq Nodes
  BY DEF Rows, LiveBuckets
<1>2. \A n \in Watts(b) : b.valid[n] > 0 /\ ~b.invalid[n]
  BY DEF Watts
<1> QED BY <1>1, <1>2 DEF FrameOf, Frames, LiveBuckets

\* What was published is a frame.
LEMMA FrameTypes ==
    ASSUME TypeInv, NEW t \in Seconds, out[t].sent
    PROVE  out[t] \in Frames /\ \A w \in Workloads : out[t].count[w] \in Nat
<1>1. out[t] \in Frames
  BY DEF TypeInv, NoFrame
<1> QED BY <1>1 DEF Frames

-----------------------------------------------------------------------------
(* The initial state and the callbacks                                     *)

\* Nothing is published or accepted at the start.
LEMMA InitInv == MetricsAssumption /\ Init => IInv
<1> SUFFICES ASSUME MetricsAssumption, Init PROVE IInv
  OBVIOUS
<1>1. 0 \in Seconds /\ \A t \in Seconds : t >= 0
  BY DEF Seconds, MetricsAssumption
<1>2. /\ now = 0 /\ next = 0 /\ closed = FALSE /\ pendingGaps = {} /\ scope \in Scopes
      /\ buckets = [t \in Seconds |-> NoBucket] /\ out = [t \in Seconds |-> NoFrame]
  BY DEF Init
<1>3. /\ truth \in Truths
      /\ truth.gaps = {} /\ truth.bad = {}
      /\ \A t \in Seconds : /\ truth.count[t] = [w \in Workloads |-> 0]
                            /\ truth.late[t] = [w \in Workloads |-> 0]
                            /\ truth.covered[t] = {}
  BY DEF Init, Truths
<1>4. TypeInv
  BY <1>1, <1>2, <1>3 DEF TypeInv
<1>5. WindowInv
  <2> SUFFICES ASSUME NEW t \in Seconds
               PROVE  /\ buckets[t] = NoBucket /\ ~(t < next)
                      /\ truth.count[t] = [w \in Workloads |-> 0] /\ truth.covered[t] = {}
                      /\ \A n \in Nodes : <<n, t>> \notin truth.bad
    BY DEF WindowInv
  <2>1. t \in Int /\ t >= 0
    BY <1>1 DEF Seconds
  <2> QED BY <1>2, <1>3, <2>1
<1>6. BucketsInv /\ FramesInv /\ LateIsTold /\ GapsReported
  BY <1>2, <1>3 DEF BucketsInv, FramesInv, LateIsTold, GapsReported, NoBucket, NoFrame
<1> QED BY <1>4, <1>5, <1>6 DEF IInv

\* The history of a second is unchanged, but for samples that were added.
SameSecond(t) ==
    /\ truth'.count[t] = truth.count[t] /\ truth'.covered[t] = truth.covered[t]
    /\ \A n \in Nodes : /\ truth.samples[t][n] > 0 => truth'.samples[t][n] > 0
                        /\ <<n, t>> \in truth'.bad <=> <<n, t>> \in truth.bad

SameFlow == UNCHANGED <<now, next, scope, out, closed>>

\* A callback for an open second puts it into the bucket of that second.
LEMMA OpenStep ==
    ASSUME IInv, NEW t \in Seconds, ~TooLate(t), SameFlow, UNCHANGED pendingGaps,
           truth' \in Truths, truth'.late = truth.late, truth'.gaps = truth.gaps,
           truth'.told = truth.told,
           \A s \in Seconds \ {t} : SameSecond(s) /\ buckets'[s] = buckets[s],
           \A w \in Workloads : truth.count[t][w] <= truth'.count[t][w],
           \A n \in Nodes : truth.samples[t][n] > 0 => truth'.samples[t][n] > 0,
           buckets' \in [Seconds -> LiveBuckets \cup {NoBucket}],
           buckets'[t].live, buckets'[t].dirty, Faithful(buckets[t], t)',
           buckets[t].live => buckets[t].gaps \subseteq buckets'[t].gaps
    PROVE  IInv'
<1>1. TypeInv /\ WindowInv /\ BucketsInv /\ FramesInv /\ LateIsTold /\ GapsReported
  BY DEF IInv
<1>2. TypeInv'
  BY <1>1 DEF TypeInv, SameFlow
<1>3. WindowInv'
  BY <1>1 DEF WindowInv, TooLate, SameFlow, SameSecond
<1>4. BucketsInv'
  BY <1>1 DEF BucketsInv, Faithful, TrueRows, Rows, SameSecond
<1>5. \A s \in Seconds, w \in Workloads :
         /\ truth.count[s][w] \in Nat /\ truth'.count[s][w] \in Nat
         /\ truth.count[s][w] <= truth'.count[s][w]
  <2>1. \A s \in Seconds, w \in Workloads : truth.count[s][w] \in Nat /\ truth'.count[s][w] \in Nat
    BY <1>1 DEF TypeInv, Truths
  <2> QED BY <2>1 DEF SameSecond
<1>6. \A s \in Seconds : out[s].sent => /\ \A w \in Workloads : out[s].count[w] \in Nat
                                        /\ out[s].meters \subseteq Nodes
  BY <1>1, FrameTypes DEF Frames
<1>7. FramesInv'
  <2> SUFFICES ASSUME NEW s \in Seconds, out[s].sent PROVE
        /\ s < now
        /\ \A w \in Workloads : out[s].count[w] <= truth'.count[s][w]
        /\ s < next /\ ~buckets'[s].dirty => out[s].count = truth'.count[s] /\ out[s].rows = TrueRows(s)'
        /\ out[s].whole => \A n \in out[s].meters :
              truth'.samples[s][n] > 0 /\ (<<n, s>> \in truth'.bad => buckets'[s].dirty \/ TooLate(s))
    BY DEF FramesInv, TooLate, SameFlow
  <2>1. /\ s < now /\ \A w \in Workloads : out[s].count[w] <= truth.count[s][w]
        /\ s < next /\ ~buckets[s].dirty => out[s].count = truth.count[s] /\ out[s].rows = TrueRows(s)
        /\ out[s].whole => \A n \in out[s].meters :
              truth.samples[s][n] > 0 /\ (<<n, s>> \in truth.bad => buckets[s].dirty \/ TooLate(s))
    BY <1>1 DEF FramesInv
  <2>2. \A w \in Workloads : out[s].count[w] <= truth'.count[s][w]
    BY <2>1, <1>5, <1>6
  <2>3. CASE s = t
    BY <1>6, <2>1, <2>2, <2>3
  <2>4. CASE s # t
    BY <1>6, <2>1, <2>2, <2>4 DEF SameSecond, TrueRows
  <2> QED BY <2>3, <2>4
<1>8. LateIsTold' /\ GapsReported'
  BY <1>1 DEF LateIsTold, GapsReported
<1> QED BY <1>2, <1>3, <1>4, <1>7, <1>8 DEF IInv

\* What comes after the window is a gap of the next frame, and nothing else.
LEMMA LateStep ==
    ASSUME IInv, NEW t \in Seconds, TooLate(t), NEW v \in Workloads \cup Nodes, SameFlow,
           pendingGaps' = pendingGaps \cup {LateGap(t, v)}, UNCHANGED buckets,
           truth' \in Truths, truth'.gaps = truth.gaps, truth'.told = truth.told,
           \A s \in Seconds : /\ truth'.count[s] = truth.count[s] /\ truth'.covered[s] = truth.covered[s]
                              /\ \A n \in Nodes : truth.samples[s][n] > 0 => truth'.samples[s][n] > 0,
           \A s \in Seconds, n \in Nodes :
              s # t => (<<n, s>> \in truth'.bad <=> <<n, s>> \in truth.bad),
           \A s \in Seconds, w \in Workloads :
              <<s, w>> # <<t, v>> => truth'.late[s][w] = truth.late[s][w]
    PROVE  IInv'
<1>1. TypeInv /\ WindowInv /\ BucketsInv /\ FramesInv /\ LateIsTold /\ GapsReported
  BY DEF IInv
<1>2. LateGap(t, v) \in GapRecords
  BY DEF LateGap, GapRecords, Names, Seconds
<1>3. TypeInv'
  BY <1>1, <1>2 DEF TypeInv, SameFlow
<1>4. WindowInv'
  BY <1>1 DEF WindowInv, TooLate, SameFlow
<1>5. BucketsInv'
  BY <1>1 DEF BucketsInv, WindowInv, NoBucket, Faithful, TrueRows, Rows
<1>6. \A s \in Seconds : out[s].sent => out[s].meters \subseteq Nodes
  BY <1>1, FrameTypes DEF Frames
<1>7. FramesInv'
  BY <1>1, <1>6 DEF FramesInv, TrueRows, TooLate, SameFlow
<1>8. LateIsTold'
  BY <1>1 DEF LateIsTold
<1>9. GapsReported'
  BY <1>1 DEF GapsReported
<1> QED BY <1>3, <1>4, <1>5, <1>7, <1>8, <1>9 DEF IInv

\* Count: one more callback in the bucket of its second, or too late.
LEMMA CountInv ==
    ASSUME MetricsAssumption, IInv, NEW w \in Workloads, NEW t \in Seconds, Count(w, t)
    PROVE  IInv'
<1>1. SameFlow /\ TypeInv /\ WindowInv /\ BucketsInv
  BY DEF Count, IInv, SameFlow
<1>2. /\ truth \in Truths /\ truth.count \in [Seconds -> [Workloads -> Nat]]
      /\ truth.late \in [Seconds -> [Workloads -> Nat]]
  BY <1>1 DEF TypeInv, Truths
<1>3. CASE /\ TooLate(t) /\ pendingGaps' = pendingGaps \cup {LateGap(t, w)} /\ UNCHANGED buckets
           /\ truth' = [truth EXCEPT !.late[t][w] = @ + 1]
  <2> DEFINE L == [truth.late EXCEPT ![t][w] = @ + 1]
  <2>1. /\ L \in [Seconds -> [Workloads -> Nat]]
        /\ \A s \in Seconds, v \in Workloads : <<s, v>> # <<t, w>> => L[s][v] = truth.late[s][v]
    BY <1>2
  <2>2. truth' = [truth EXCEPT !.late = L]
    BY <1>2, <1>3 DEF Truths
  <2> HIDE DEF L
  <2>3. /\ truth' \in Truths /\ truth'.late = L /\ truth'.gaps = truth.gaps /\ truth'.told = truth.told
        /\ truth'.count = truth.count /\ truth'.covered = truth.covered
        /\ truth'.samples = truth.samples /\ truth'.bad = truth.bad
    BY <1>2, <2>1, <2>2 DEF Truths
  <2>4. \A s \in Seconds, v \in Workloads : <<s, v>> # <<t, w>> => truth'.late[s][v] = truth.late[s][v]
    BY <2>1, <2>3
  <2>5. \A s \in Seconds :
           /\ truth'.count[s] = truth.count[s] /\ truth'.covered[s] = truth.covered[s]
           /\ \A n \in Nodes : /\ truth.samples[s][n] > 0 => truth'.samples[s][n] > 0
                               /\ <<n, s>> \in truth'.bad <=> <<n, s>> \in truth.bad
    BY <2>3
  <2> QED BY <1>1, <1>3, <2>3, <2>4, <2>5, LateStep
<1>4. CASE /\ ~TooLate(t)
           /\ buckets' = [buckets EXCEPT ![t] = [Bucket(t) EXCEPT !.count[w] = @ + 1]]
           /\ truth' = [truth EXCEPT !.count[t][w] = @ + 1]
           /\ UNCHANGED pendingGaps
  <2> DEFINE L == [truth.count EXCEPT ![t][w] = @ + 1]
             B == Bucket(t)
  <2>1. /\ L \in [Seconds -> [Workloads -> Nat]]
        /\ \A s \in Seconds \ {t} : L[s] = truth.count[s]
        /\ L[t] = [truth.count[t] EXCEPT ![w] = @ + 1]
        /\ \A v \in Workloads : truth.count[t][v] <= L[t][v]
    BY <1>2
  <2>2. truth' = [truth EXCEPT !.count = L]
    BY <1>2, <1>4 DEF Truths
  <2>3. /\ B \in LiveBuckets /\ B.dirty /\ B.live /\ Faithful(B, t)
        /\ buckets[t].live => B.gaps = buckets[t].gaps
    BY <1>1, <1>4, BucketFaithful
  <2> HIDE DEF L, B
  <2>4. /\ truth' \in Truths /\ truth'.late = truth.late /\ truth'.gaps = truth.gaps
        /\ truth'.told = truth.told /\ truth'.count = L /\ truth'.covered = truth.covered
        /\ truth'.samples = truth.samples /\ truth'.bad = truth.bad
    BY <1>2, <2>1, <2>2 DEF Truths
  <2>5. B.count \in [Workloads -> Nat] /\ [B.count EXCEPT ![w] = @ + 1] = L[t]
    BY <2>1, <2>3 DEF LiveBuckets, Faithful
  <2>6. buckets' = [buckets EXCEPT ![t] = [B EXCEPT !.count = L[t]]]
    BY <1>4, <2>3, <2>5 DEF LiveBuckets, B
  <2> DEFINE b == [B EXCEPT !.count = L[t]]
  <2>7. /\ b \in LiveBuckets /\ b.dirty /\ b.live /\ b.gaps = B.gaps
        /\ b.count = truth'.count[t] /\ b.valid = B.valid /\ b.invalid = B.invalid
    BY <2>1, <2>3, <2>4 DEF LiveBuckets
  <2> HIDE DEF b
  <2>8. /\ buckets'[t] = b /\ buckets' \in [Seconds -> LiveBuckets \cup {NoBucket}]
        /\ \A s \in Seconds \ {t} : buckets'[s] = buckets[s]
    BY <1>1, <2>6, <2>7 DEF TypeInv, b
  <2>9. Faithful(buckets[t], t)'
    BY <2>3, <2>4, <2>7, <2>8 DEF Faithful, TrueRows, Rows
  <2> QED BY ZenonT(60), <1>1, <1>4, <2>1, <2>3, <2>4, <2>7, <2>8, <2>9, OpenStep DEF SameSecond
<1> QED BY <1>3, <1>4 DEF Count

\* Power: a sample, or a failed one with its gap, in the bucket of its second.
LEMMA PowerInv ==
    ASSUME MetricsAssumption, IInv, NEW n \in Nodes, NEW t \in Seconds, NEW ok \in BOOLEAN,
           Power(n, t, ok)
    PROVE  IInv'
<1>1. SameFlow /\ TypeInv /\ WindowInv /\ BucketsInv
  BY DEF Power, IInv, SameFlow
<1>2. truth \in Truths /\ truth.samples \in [Seconds -> [Nodes -> Nat]] /\ truth.bad \in SUBSET (Nodes \X Seconds)
  BY <1>1 DEF TypeInv, Truths
<1> DEFINE L == [truth.samples EXCEPT ![t][n] = @ + 1]
           D == IF ok THEN truth.bad ELSE truth.bad \cup {<<n, t>>}
<1>3. /\ L \in [Seconds -> [Nodes -> Nat]]
      /\ \A s \in Seconds, m \in Nodes : truth.samples[s][m] > 0 => L[s][m] > 0
      /\ L[t][n] > 0
  BY <1>2
<1>4. /\ D \in SUBSET (Nodes \X Seconds)
      /\ \A s \in Seconds, m \in Nodes : <<m, s>> # <<n, t>> => (<<m, s>> \in D <=> <<m, s>> \in truth.bad)
      /\ ok => D = truth.bad
  BY <1>2
<1>5. truth' = [truth EXCEPT !.samples = L, !.bad = D]
  BY <1>2 DEF Power, Truths
<1> HIDE DEF L, D
<1>6. /\ truth' \in Truths /\ truth'.late = truth.late /\ truth'.gaps = truth.gaps
      /\ truth'.told = truth.told /\ truth'.count = truth.count /\ truth'.covered = truth.covered
      /\ truth'.samples = L /\ truth'.bad = D
  BY <1>2, <1>3, <1>4, <1>5 DEF Truths
<1>7. CASE TooLate(t) /\ pendingGaps' = pendingGaps \cup {LateGap(t, n)} /\ UNCHANGED buckets
  BY <1>1, <1>3, <1>4, <1>6, <1>7, LateStep
<1>8. CASE /\ ~TooLate(t) /\ UNCHANGED pendingGaps
           /\ buckets' = [buckets EXCEPT ![t] =
                 IF ok THEN [Bucket(t) EXCEPT !.valid[n] = @ + 1]
                 ELSE [Bucket(t) EXCEPT !.invalid[n] = TRUE, !.gaps = @ \cup {LateGap(t, n)}]]
  <2> DEFINE B == Bucket(t)
             b == IF ok THEN [B EXCEPT !.valid[n] = @ + 1]
                  ELSE [B EXCEPT !.invalid[n] = TRUE, !.gaps = @ \cup {LateGap(t, n)}]
  <2>1. /\ B \in LiveBuckets /\ B.dirty /\ B.live /\ Faithful(B, t)
        /\ buckets[t].live => B.gaps = buckets[t].gaps
    BY <1>1, <1>8, BucketFaithful
  <2>2. buckets' = [buckets EXCEPT ![t] = b]
    BY <1>8
  <2> HIDE DEF B
  <2>3. LateGap(t, n) \in GapRecords /\ LateGap(t, n).scope = n
    BY DEF LateGap, GapRecords, Names, Seconds
  <2>4. /\ b \in LiveBuckets /\ b.dirty /\ b.live /\ b.count = B.count
        /\ b.gaps = B.gaps \/ b.gaps = B.gaps \cup {LateGap(t, n)}
        /\ \A m \in Nodes : /\ b.valid[m] > 0 => B.valid[m] > 0 \/ m = n
                            /\ B.invalid[m] => b.invalid[m]
        /\ ~ok => b.invalid[n]
    <3>1. B.valid \in [Nodes -> Nat] /\ B.invalid \in [Nodes -> BOOLEAN] /\ B.gaps \in SUBSET GapRecords
      BY <2>1 DEF LiveBuckets
    <3>2. CASE ok
      <4> DEFINE V == [B.valid EXCEPT ![n] = @ + 1]
      <4>1. V \in [Nodes -> Nat] /\ \A m \in Nodes : V[m] > 0 => B.valid[m] > 0 \/ m = n
        BY <3>1
      <4>2. b = [B EXCEPT !.valid = V]
        BY <2>1, <3>2 DEF LiveBuckets
      <4> HIDE DEF V, b
      <4> QED BY <2>1, <3>2, <4>1, <4>2 DEF LiveBuckets
    <3>3. CASE ~ok
      <4> DEFINE V == [B.invalid EXCEPT ![n] = TRUE]
                 G == B.gaps \cup {LateGap(t, n)}
      <4>1. V \in [Nodes -> BOOLEAN] /\ V[n] /\ \A m \in Nodes : B.invalid[m] => V[m]
        BY <3>1
      <4>2. b = [B EXCEPT !.invalid = V, !.gaps = G] /\ G \in SUBSET GapRecords
        BY <2>1, <2>3, <3>1, <3>3 DEF LiveBuckets
      <4> HIDE DEF V, G, b
      <4>3. /\ b \in LiveBuckets /\ b.dirty /\ b.live /\ b.count = B.count
            /\ b.gaps = G /\ b.valid = B.valid /\ b.invalid = V
        BY <2>1, <4>1, <4>2 DEF LiveBuckets
      <4> QED BY <3>3, <4>1, <4>3 DEF G
    <3> QED BY <3>2, <3>3
  <2> HIDE DEF b
  <2>5. Rows(b) = Rows(B)
    BY <2>3, <2>4 DEF Rows, MetricsAssumption
  <2>6. /\ buckets'[t] = b /\ buckets' \in [Seconds -> LiveBuckets \cup {NoBucket}]
        /\ \A s \in Seconds \ {t} : buckets'[s] = buckets[s]
    BY <1>1, <2>2, <2>4 DEF TypeInv
  <2>7. Faithful(buckets[t], t)'
    <3>1. \A m \in Nodes : /\ b.valid[m] > 0 => L[t][m] > 0
                           /\ <<m, t>> \in D => b.invalid[m]
      BY <1>3, <1>4, <2>1, <2>4 DEF Faithful
    <3> QED BY <1>6, <2>1, <2>4, <2>5, <2>6, <3>1 DEF Faithful, TrueRows, Rows
  <2>8. \A w \in Workloads : truth.count[t][w] <= truth'.count[t][w]
    BY <1>2, <1>6 DEF Truths
  <2> QED BY <1>1, <1>3, <1>4, <1>6, <1>8, <2>1, <2>4, <2>6, <2>7, <2>8, OpenStep DEF SameSecond
<1> QED BY <1>7, <1>8 DEF Power

\* Gap: in the bucket of every open second it touches, and in the next frame when
\* it began before the window.
LEMMA GapInv ==
    ASSUME MetricsAssumption, IInv, NEW from \in Seconds, NEW to \in Seconds, NEW s \in Names,
           Gap(from, to, s)
    PROVE  IInv'
<1> DEFINE g == [from |-> from, to |-> to, scope |-> s]
           T == {t \in Seconds : from <= t /\ t < to /\ ~TooLate(t)}
           C == [t \in Seconds |-> IF t \in T THEN truth.covered[t] \cup {s} ELSE truth.covered[t]]
           G == truth.gaps \cup {g}
<1>1. SameFlow /\ TypeInv /\ WindowInv /\ BucketsInv /\ FramesInv /\ LateIsTold /\ GapsReported
  BY DEF Gap, IInv, SameFlow
<1>2. /\ truth \in Truths /\ truth.covered \in [Seconds -> SUBSET Names]
      /\ truth.gaps \in SUBSET GapRecords
  BY <1>1 DEF TypeInv, Truths
<1>3. from < to /\ g \in GapRecords /\ g.scope = s
  BY DEF Gap, GapRecords, Seconds
<1>4. C \in [Seconds -> SUBSET Names] /\ G \in SUBSET GapRecords
  BY <1>2, <1>3
<1>5. truth' = [truth EXCEPT !.gaps = G, !.covered = C]
  BY <1>2 DEF Gap, Truths
<1>6. pendingGaps' \in SUBSET GapRecords /\ pendingGaps \subseteq pendingGaps'
      /\ (TooLate(from) => g \in pendingGaps')
  BY <1>1, <1>3 DEF Gap, TypeInv
<1>7. /\ \A t \in T : buckets'[t] = [Bucket(t) EXCEPT !.gaps = @ \cup {g}]
      /\ \A t \in Seconds \ T : buckets'[t] = buckets[t]
      /\ buckets' = [t \in Seconds |-> buckets'[t]]
      /\ \A t \in Seconds : t \in T <=> from <= t /\ t < to /\ ~TooLate(t)
  BY DEF Gap
<1>8. \A t \in T : C[t] = truth.covered[t] \cup {s}
  OBVIOUS
<1>9. \A t \in Seconds \ T : C[t] = truth.covered[t]
  OBVIOUS
<1> HIDE DEF C, g, T
<1>10. G = truth.gaps \cup {g}
  OBVIOUS
<1> HIDE DEF G
<1>11. /\ truth' \in Truths /\ truth'.late = truth.late /\ truth'.gaps = G
       /\ truth'.told = truth.told /\ truth'.count = truth.count /\ truth'.covered = C
       /\ truth'.samples = truth.samples /\ truth'.bad = truth.bad
  BY <1>2, <1>4, <1>5 DEF Truths
<1>12. ASSUME NEW t \in T
       PROVE  /\ t \in Seconds /\ ~TooLate(t)
              /\ buckets'[t] \in LiveBuckets /\ buckets'[t].live /\ buckets'[t].dirty
              /\ g \in buckets'[t].gaps
              /\ buckets[t].live => buckets[t].gaps \subseteq buckets'[t].gaps
              /\ Faithful(buckets[t], t)'
  <2> DEFINE B == Bucket(t)
             b == [B EXCEPT !.gaps = B.gaps \cup {g}]
  <2>1. t \in Seconds /\ ~TooLate(t)
    BY DEF T
  <2>2. /\ B \in LiveBuckets /\ B.dirty /\ B.live /\ Faithful(B, t)
        /\ buckets[t].live => B.gaps = buckets[t].gaps
    BY <1>1, <2>1, BucketFaithful
  <2>3. buckets'[t] = b
    BY <1>7, <2>2 DEF LiveBuckets
  <2> HIDE DEF B
  <2>4. /\ b \in LiveBuckets /\ b.live /\ b.dirty /\ b.gaps = B.gaps \cup {g}
        /\ b.count = B.count /\ b.valid = B.valid /\ b.invalid = B.invalid
    BY <1>3, <2>2 DEF LiveBuckets
  <2> HIDE DEF b
  <2>5. Rows(b) = {w \in Workloads : C[t] \cap {"all", w} = {}}
    <3>1. \A w \in Workloads :
             (\E h \in b.gaps : h.scope \in {"all", w})
                <=> (\E h \in B.gaps : h.scope \in {"all", w}) \/ s \in {"all", w}
      BY <1>3, <2>4
    <3>2. \A w \in Workloads : C[t] \cap {"all", w} = {}
                <=> truth.covered[t] \cap {"all", w} = {} /\ s \notin {"all", w}
      BY <1>8
    <3>3. \A w \in Workloads : (~\E h \in B.gaps : h.scope \in {"all", w})
                <=> truth.covered[t] \cap {"all", w} = {}
      <4>1. Rows(B) = TrueRows(t)
        BY <2>2 DEF Faithful
      <4> QED BY <4>1 DEF Rows, TrueRows
    <3> QED BY <3>1, <3>2, <3>3 DEF Rows
  <2>6. Faithful(buckets[t], t)'
    BY <1>11, <2>2, <2>3, <2>4, <2>5 DEF Faithful, TrueRows, Rows
  <2> QED BY <2>1, <2>2, <2>3, <2>4, <2>6
<1>13. TypeInv'
  <2>1. \A t \in Seconds : buckets'[t] \in LiveBuckets \cup {NoBucket}
    BY <1>1, <1>7, <1>12 DEF TypeInv
  <2> QED BY <1>1, <1>6, <1>7, <1>11, <2>1 DEF TypeInv, SameFlow
<1>14. WindowInv'
  BY <1>1, <1>7, <1>9, <1>11, <1>12 DEF WindowInv, TooLate, SameFlow
<1>15. BucketsInv'
  BY <1>1, <1>7, <1>9, <1>11, <1>12 DEF BucketsInv, Faithful, TrueRows, Rows
<1>16. FramesInv'
  BY <1>1, <1>7, <1>9, <1>11, <1>12 DEF FramesInv, TrueRows, TooLate, SameFlow
<1>17. LateIsTold'
  BY <1>1, <1>6, <1>11 DEF LateIsTold
<1>18. GapsReported'
  <2> SUFFICES ASSUME NEW h \in G
               PROVE  \/ h \in pendingGaps' \cup truth'.told
                      \/ \E t \in Seconds : buckets'[t].live /\ buckets'[t].dirty /\ h \in buckets'[t].gaps
    BY <1>11 DEF GapsReported
  <2>1. CASE h = g
    <3>1. CASE TooLate(from)
      BY <1>6, <2>1, <3>1
    <3>2. CASE ~TooLate(from)
      <4>1. from \in T
        BY <1>3, <1>7, <3>2 DEF Seconds
      <4> QED BY <1>12, <2>1, <4>1
    <3> QED BY <3>1, <3>2
  <2>2. CASE h \in truth.gaps /\ h \notin pendingGaps \cup truth.told
    <3>1. PICK t \in Seconds : buckets[t].live /\ buckets[t].dirty /\ h \in buckets[t].gaps
      BY <1>1, <2>2 DEF GapsReported
    <3>2. buckets'[t].live /\ buckets'[t].dirty /\ h \in buckets'[t].gaps
      BY <1>7, <1>12, <3>1
    <3> QED BY <3>2
  <2> QED BY <1>6, <1>10, <1>11, <2>1, <2>2
<1> QED BY <1>13, <1>14, <1>15, <1>16, <1>17, <1>18 DEF IInv

-----------------------------------------------------------------------------
(* The membership and the clock                                            *)

\* Nothing of the history but the memberships changes.
SameTruth ==
    /\ truth' \in Truths /\ truth'.late = truth.late /\ truth'.gaps = truth.gaps
    /\ truth'.count = truth.count /\ truth'.covered = truth.covered
    /\ truth'.samples = truth.samples /\ truth'.bad = truth.bad

\* SetPowerScope: an open bucket keeps what it counted.
LEMMA ScopeInv ==
    ASSUME MetricsAssumption, IInv, NEW s \in Scopes, SetPowerScope(s)
    PROVE  IInv'
<1>1. /\ TypeInv /\ WindowInv /\ BucketsInv /\ FramesInv /\ LateIsTold /\ GapsReported
      /\ UNCHANGED <<now, next, pendingGaps, out, closed>> /\ scope' = s
  BY DEF SetPowerScope, IInv
<1>2. SameTruth /\ truth'.told = truth.told
  <2>1. truth \in Truths /\ truth.scopes \in [Seconds -> SUBSET Scopes] /\ now \in Seconds
    BY <1>1 DEF TypeInv, Truths
  <2> DEFINE S == [truth.scopes EXCEPT ![now] = @ \cup {s}]
  <2>2. S \in [Seconds -> SUBSET Scopes]
    BY <2>1
  <2>3. truth' = [truth EXCEPT !.scopes = S]
    BY <2>1 DEF SetPowerScope, Truths
  <2> HIDE DEF S
  <2> QED BY <2>1, <2>2, <2>3 DEF Truths, SameTruth
<1>3. ASSUME NEW t \in Seconds
      PROVE  /\ buckets'[t] \in LiveBuckets \cup {NoBucket}
             /\ buckets'[t].live <=> buckets[t].live
             /\ buckets'[t].dirty <=> buckets[t].dirty
             /\ buckets[t].live =>
                   /\ buckets'[t].count = buckets[t].count /\ buckets'[t].gaps = buckets[t].gaps
                   /\ buckets'[t].valid = buckets[t].valid /\ buckets'[t].invalid = buckets[t].invalid
             /\ buckets[t] = NoBucket => buckets'[t] = NoBucket
  <2> DEFINE b == [buckets[t] EXCEPT !.known = FALSE, !.meters = buckets[t].meters \cup s.meters,
                                     !.active = buckets[t].active \cup s.active]
  <2>1. buckets[t] \in LiveBuckets \/ (buckets[t] = NoBucket /\ ~buckets[t].live)
    BY <1>1 DEF TypeInv, NoBucket
  <2>2. buckets'[t] = buckets[t] \/ (buckets[t].live /\ buckets'[t] = b)
    BY DEF SetPowerScope
  <2>3. CASE buckets[t].live /\ buckets'[t] = b
    <3>1. buckets[t] \in LiveBuckets /\ s.meters \subseteq Nodes /\ s.active \subseteq Nodes
      BY <2>1, <2>3 DEF MetricsAssumption
    <3>2. buckets[t].meters \cup s.meters \in SUBSET Nodes /\ buckets[t].active \cup s.active \in SUBSET Nodes
      BY <3>1 DEF LiveBuckets
    <3>3. /\ b \in LiveBuckets /\ b.live /\ b.dirty = buckets[t].dirty
          /\ b.count = buckets[t].count /\ b.gaps = buckets[t].gaps
          /\ b.valid = buckets[t].valid /\ b.invalid = buckets[t].invalid
      BY <3>1, <3>2 DEF LiveBuckets
    <3>4. buckets[t] # NoBucket
      BY <2>3 DEF NoBucket
    <3> HIDE DEF b
    <3> QED BY <2>3, <3>3, <3>4
  <2> QED BY <2>1, <2>2, <2>3
<1>4. TypeInv'
  <2>1. buckets' = [t \in Seconds |-> buckets'[t]]
    BY DEF SetPowerScope
  <2> QED BY <1>1, <1>2, <1>3, <2>1 DEF TypeInv, SameTruth
<1>5. WindowInv'
  BY <1>1, <1>2, <1>3 DEF WindowInv, TooLate, SameTruth
<1>6. BucketsInv'
  BY <1>1, <1>2, <1>3 DEF BucketsInv, Faithful, TrueRows, Rows, SameTruth
<1>7. FramesInv'
  BY <1>1, <1>2, <1>3 DEF FramesInv, TrueRows, TooLate, SameTruth
<1>8. LateIsTold' /\ GapsReported'
  BY <1>1, <1>2, <1>3 DEF LateIsTold, GapsReported, SameTruth
<1> QED BY <1>4, <1>5, <1>6, <1>7, <1>8 DEF IInv

\* A second passes.
LEMMA TickInv ==
    ASSUME MetricsAssumption, IInv, Tick
    PROVE  IInv'
<1>1. /\ TypeInv /\ WindowInv /\ BucketsInv /\ FramesInv /\ LateIsTold /\ GapsReported
      /\ UNCHANGED <<next, buckets, scope, pendingGaps, out, closed>>
      /\ now < MaxTime /\ now' = now + 1
  BY DEF Tick, IInv
<1>2. SameTruth /\ truth'.told = truth.told
  <2>1. truth \in Truths /\ truth.scopes \in [Seconds -> SUBSET Scopes] /\ scope \in Scopes
    BY <1>1 DEF TypeInv, Truths
  <2> DEFINE S == [truth.scopes EXCEPT ![now + 1] = {scope}]
  <2>2. S \in [Seconds -> SUBSET Scopes]
    BY <2>1
  <2>3. truth' = [truth EXCEPT !.scopes = S]
    BY <2>1 DEF Tick, Truths
  <2> HIDE DEF S
  <2> QED BY <2>1, <2>2, <2>3 DEF Truths, SameTruth
<1>3. now' \in Seconds /\ next <= now' /\ \A t \in Seconds : t < now => t < now'
  BY <1>1 DEF TypeInv, Seconds, MetricsAssumption
<1>4. TypeInv'
  BY <1>1, <1>2, <1>3 DEF TypeInv, SameTruth
<1>5. WindowInv' /\ BucketsInv'
  BY <1>1, <1>2 DEF WindowInv, BucketsInv, Faithful, TrueRows, Rows, TooLate, SameTruth
<1>6. FramesInv'
  BY <1>1, <1>2, <1>3 DEF FramesInv, TrueRows, TooLate, SameTruth
<1>7. LateIsTold' /\ GapsReported'
  BY <1>1, <1>2 DEF LateIsTold, GapsReported, SameTruth
<1> QED BY <1>4, <1>5, <1>6, <1>7 DEF IInv

-----------------------------------------------------------------------------
(* The flush                                                               *)

\* At a flush every elapsed second of the window has a faithful bucket, and those
\* that were never flushed are dirty.
LEMMA FilledFaithful ==
    ASSUME MetricsAssumption, IInv, NEW t \in Seconds
    PROVE  /\ Filled[t] \in LiveBuckets \cup {NoBucket}
           /\ Filled[t].live => Faithful(Filled[t], t)
           /\ buckets[t].live => Filled[t].live /\ Filled[t].gaps = buckets[t].gaps
           /\ buckets[t].dirty => Filled[t].dirty
           /\ next <= t /\ t < now => Filled[t].live /\ Filled[t].dirty
           /\ ~(next <= t /\ t < now) => Filled[t] = buckets[t]
<1>1. TypeInv /\ WindowInv /\ BucketsInv
  BY DEF IInv
<1>2. CASE next <= t /\ t < now
  <2>1. Filled[t] = Bucket(t)
    BY <1>2 DEF Filled
  <2>2. ~TooLate(t)
    BY <1>1, <1>2 DEF TypeInv, TooLate, Seconds, MetricsAssumption
  <2> QED BY <1>1, <1>2, <2>1, <2>2, BucketFaithful
<1>3. CASE ~(next <= t /\ t < now)
  <2>1. Filled[t] = buckets[t]
    BY <1>3 DEF Filled
  <2> QED BY <1>1, <1>3, <2>1 DEF TypeInv, BucketsInv
<1> QED BY <1>2, <1>3

\* What is sent is what was dirty, and the frames say what the buckets hold.
LEMMA SentFrames ==
    ASSUME MetricsAssumption, IInv, NEW ts \in SUBSET Dirty(Filled), Sent(Filled, ts)
    PROVE  /\ SameTruth
           /\ pendingGaps' \in SUBSET GapRecords
           /\ out' \in [Seconds -> Frames \cup {NoFrame}]
           /\ pendingGaps \cup truth.told \subseteq pendingGaps' \cup truth'.told
           /\ \A t \in ts : /\ t \in Seconds /\ t < now /\ Filled[t] \in LiveBuckets
                            /\ Filled[t].gaps \subseteq truth'.told
                            /\ out'[t] = FrameOf(Filled[t])
           /\ \A t \in Seconds \ ts : out'[t] = out[t]
<1>1. TypeInv
  BY DEF IInv
<1>2. \A t \in ts : t \in Seconds /\ t < now /\ Filled[t] \in LiveBuckets
  BY FilledFaithful DEF Dirty, NoBucket
<1>3. \A t \in ts : FrameOf(Filled[t]) \in Frames
  BY <1>2, FrameSays
<1>4. /\ \A t \in ts : out'[t] = FrameOf(Filled[t])
      /\ \A t \in Seconds \ ts : out'[t] = out[t]
      /\ out' = [t \in Seconds |-> out'[t]]
  BY <1>2 DEF Sent
<1>5. out' \in [Seconds -> Frames \cup {NoFrame}]
  <2>1. \A t \in Seconds : out'[t] \in Frames \cup {NoFrame}
    BY <1>1, <1>3, <1>4 DEF TypeInv
  <2> QED BY <1>4, <2>1
<1> DEFINE U == UNION {Filled[t].gaps : t \in ts}
           P == IF ts = {} THEN {} ELSE pendingGaps
           W == truth.told \cup P \cup U
<1>6. U \in SUBSET GapRecords
  <2>1. ASSUME NEW t \in ts PROVE Filled[t].gaps \in SUBSET GapRecords
    BY <1>2 DEF LiveBuckets
  <2> QED BY <2>1
<1>7. truth \in Truths /\ truth.told \in SUBSET GapRecords /\ pendingGaps \in SUBSET GapRecords
  BY <1>1 DEF TypeInv, Truths
<1>8. truth' = [truth EXCEPT !.told = W]
  BY <1>7 DEF Sent, Truths
<1>9. \A t \in ts : Filled[t].gaps \subseteq U
  OBVIOUS
<1> HIDE DEF U
<1>10. W \in SUBSET GapRecords /\ U \subseteq W /\ truth.told \subseteq W /\ (ts = {} \/ pendingGaps \subseteq W)
  BY <1>6, <1>7
<1> HIDE DEF W
<1>11. SameTruth /\ truth'.told = W
  BY <1>7, <1>8, <1>10 DEF Truths, SameTruth
<1>12. pendingGaps' = IF ts = {} THEN pendingGaps ELSE {}
  BY DEF Sent
<1> QED BY <1>2, <1>4, <1>5, <1>7, <1>9, <1>10, <1>11, <1>12

\* A frame that was sent now says everything its second got.
LEMMA SentFrameSays ==
    ASSUME MetricsAssumption, IInv, NEW ts \in SUBSET Dirty(Filled), Sent(Filled, ts), NEW t \in ts
    PROVE  /\ out'[t].sent /\ out'[t].count = truth.count[t] /\ out'[t].rows = TrueRows(t)
           /\ out'[t].whole => \A n \in out'[t].meters :
                 truth.samples[t][n] > 0 /\ <<n, t>> \notin truth.bad
<1>1. t \in Seconds /\ Filled[t] \in LiveBuckets /\ out'[t] = FrameOf(Filled[t])
  BY SentFrames
<1>2. Faithful(Filled[t], t) /\ Filled[t].meters \subseteq Nodes
  BY <1>1, FilledFaithful DEF LiveBuckets
<1> QED BY <1>1, <1>2, FrameSays DEF Faithful

\* What was late or not observed is still to be told, or told.
LEMMA SentGaps ==
    ASSUME MetricsAssumption, IInv, NEW ts \in SUBSET Dirty(Filled), Sent(Filled, ts),
           \A t \in Seconds \ ts : buckets[t].live /\ buckets[t].dirty =>
              buckets'[t].live /\ buckets'[t].dirty /\ buckets'[t].gaps = buckets[t].gaps
    PROVE  LateIsTold' /\ GapsReported'
<1>1. LateIsTold /\ GapsReported
  BY DEF IInv
<1>2. /\ SameTruth /\ pendingGaps \cup truth.told \subseteq pendingGaps' \cup truth'.told
      /\ \A t \in ts : t \in Seconds /\ Filled[t].gaps \subseteq truth'.told
  BY SentFrames
<1>3. LateIsTold'
  BY <1>1, <1>2 DEF LateIsTold, SameTruth
<1>4. GapsReported'
  <2> SUFFICES ASSUME NEW g \in truth.gaps, g \notin pendingGaps' \cup truth'.told
               PROVE  \E t \in Seconds : buckets'[t].live /\ buckets'[t].dirty /\ g \in buckets'[t].gaps
    BY <1>2 DEF GapsReported, SameTruth
  <2>1. PICK t \in Seconds : buckets[t].live /\ buckets[t].dirty /\ g \in buckets[t].gaps
    BY <1>1, <1>2 DEF GapsReported
  <2>2. t \notin ts
    BY <1>2, <2>1, FilledFaithful
  <2> QED BY <2>1, <2>2
<1> QED BY <1>3, <1>4

\* No published second counts less than before.
LEMMA SentForward ==
    ASSUME MetricsAssumption, IInv, NEW ts \in SUBSET Dirty(Filled), Sent(Filled, ts),
           NEW t \in Seconds, out[t].sent
    PROVE  /\ out'[t].sent
           /\ \A w \in Workloads : out'[t].count[w] >= out[t].count[w]
<1>1. \A w \in Workloads : /\ out[t].count[w] \in Nat /\ truth.count[t][w] \in Nat
                           /\ out[t].count[w] <= truth.count[t][w]
  <2>1. TypeInv /\ FramesInv
    BY DEF IInv
  <2>2. \A w \in Workloads : truth.count[t][w] \in Nat
    BY <2>1 DEF TypeInv, Truths
  <2> QED BY <2>1, <2>2, FrameTypes DEF FramesInv
<1>2. CASE t \in ts
  BY <1>1, <1>2, SentFrameSays
<1>3. CASE t \notin ts
  <2>1. out'[t] = out[t]
    BY <1>3, SentFrames
  <2> QED BY <1>1, <2>1
<1> QED BY <1>2, <1>3

\* The bucket of a sent second is clean and holds the same.
LEMMA SentBucket ==
    ASSUME MetricsAssumption, IInv, NEW t \in Dirty(Filled)
    PROVE  LET b == [Filled[t] EXCEPT !.dirty = FALSE]
           IN  b \in LiveBuckets /\ b.live /\ ~b.dirty /\ Faithful(b, t)
<1>1. t \in Seconds /\ Filled[t] \in LiveBuckets /\ Faithful(Filled[t], t)
  BY FilledFaithful DEF Dirty, NoBucket
<1> DEFINE F == Filled[t]
           b == [F EXCEPT !.dirty = FALSE]
<1>2. F \in LiveBuckets /\ Faithful(F, t)
  BY <1>1
<1> HIDE DEF F
<1>3. /\ b \in LiveBuckets /\ b.live /\ ~b.dirty /\ b.count = F.count /\ b.gaps = F.gaps
      /\ b.valid = F.valid /\ b.invalid = F.invalid
  BY <1>2 DEF LiveBuckets
<1> HIDE DEF b
<1>4. Faithful(b, t)
  BY <1>2, <1>3 DEF Faithful, Rows
<1> QED BY <1>3, <1>4 DEF b, F

\* Flush: the elapsed seconds are sent and clean, the old ones go.
LEMMA FlushInv ==
    ASSUME MetricsAssumption, IInv, Flush
    PROVE  IInv'
<1> DEFINE D == Dirty(Filled)
<1>1. /\ TypeInv /\ WindowInv /\ BucketsInv /\ FramesInv
      /\ Sent(Filled, D) /\ next' = now /\ UNCHANGED <<now, scope, closed>>
  BY DEF Flush, IInv
<1>2. /\ SameTruth /\ pendingGaps' \in SUBSET GapRecords
      /\ out' \in [Seconds -> Frames \cup {NoFrame}]
      /\ \A t \in Seconds \ D : out'[t] = out[t]
      /\ D \subseteq Seconds
  <2>1. D \in SUBSET D /\ D \subseteq Seconds
    BY DEF Dirty
  <2> QED BY <1>1, <2>1, SentFrames
<1>3. /\ now \in Int /\ next \in Int /\ next <= now /\ now \in Seconds
      /\ Window \in Int /\ Window > 0 /\ \A t \in Seconds : t \in Int
  BY <1>1 DEF TypeInv, Seconds, MetricsAssumption
<1>4. ASSUME NEW t \in Seconds, t < now, t \notin D
      PROVE  t < next /\ Filled[t] = buckets[t] /\ ~buckets[t].dirty
  <2>1. ~(Filled[t].live /\ Filled[t].dirty)
    BY <1>4 DEF Dirty
  <2>2. /\ next <= t /\ t < now => Filled[t].live /\ Filled[t].dirty
        /\ ~(next <= t /\ t < now) => Filled[t] = buckets[t]
    BY FilledFaithful
  <2>3. ~(next <= t)
    BY <1>4, <2>1, <2>2
  <2>4. t < next
    BY <1>3, <2>3
  <2>5. buckets[t].live \/ ~buckets[t].dirty
    <3>1. buckets[t] \in LiveBuckets => buckets[t].live
      BY DEF LiveBuckets
    <3>2. buckets[t] = NoBucket => ~buckets[t].dirty
      BY DEF NoBucket
    <3> QED BY <1>1, <3>1, <3>2 DEF TypeInv
  <2> QED BY <2>1, <2>2, <2>3, <2>4, <2>5
<1>5. ASSUME NEW t \in D
      PROVE  /\ t \in Seconds /\ t < now
             /\ out'[t].sent /\ out'[t].count = truth.count[t] /\ out'[t].rows = TrueRows(t)
             /\ out'[t].whole => \A n \in out'[t].meters :
                   truth.samples[t][n] > 0 /\ <<n, t>> \notin truth.bad
  BY <1>1, SentFrameSays DEF Dirty
<1> DEFINE Clean(t) == IF t \in D THEN [Filled[t] EXCEPT !.dirty = FALSE] ELSE Filled[t]
<1>6. ASSUME NEW t \in Seconds
      PROVE  /\ buckets'[t] = IF Clean(t).live /\ t < now - Window THEN NoBucket ELSE Clean(t)
             /\ Clean(t) \in LiveBuckets \cup {NoBucket}
             /\ Clean(t).live <=> Filled[t].live
             /\ Clean(t).live => Faithful(Clean(t), t)
             /\ t < now => ~Clean(t).dirty
             /\ t >= now => Clean(t) = buckets[t]
  <2>1. buckets'[t] = IF Clean(t).live /\ t < now - Window THEN NoBucket ELSE Clean(t)
    BY DEF Flush, Kept
  <2>2. CASE t \in D
    BY <1>3, <1>5, <2>1, <2>2, SentBucket DEF Dirty
  <2>3. CASE t \notin D
    BY <1>3, <1>4, <2>1, <2>3, FilledFaithful
  <2> QED BY <2>2, <2>3
<1> HIDE DEF D, Clean
<1>7. TypeInv'
  <2>1. \A t \in Seconds : buckets'[t] \in LiveBuckets \cup {NoBucket}
    BY <1>6
  <2>2. buckets' = [t \in Seconds |-> buckets'[t]]
    BY DEF Flush, Kept
  <2>3. buckets' \in [Seconds -> LiveBuckets \cup {NoBucket}]
    BY <2>1, <2>2
  <2> QED BY <1>1, <1>2, <1>3, <2>3 DEF TypeInv, SameTruth
<1>8. ASSUME NEW t \in Seconds
      PROVE  /\ t < now - Window => buckets'[t] = NoBucket
             /\ t < now => (t < now - Window \/ buckets'[t].live) /\ ~buckets'[t].dirty
             /\ t >= now => buckets'[t] = buckets[t]
  <2>1. Clean(t).live \/ Clean(t) = NoBucket
    BY <1>6 DEF LiveBuckets
  <2>2. t < now - Window => buckets'[t] = NoBucket
    BY <1>6, <2>1
  <2>3. t < now /\ ~(t < now - Window) => Filled[t].live
    <3> SUFFICES ASSUME t < now, ~(t < now - Window) PROVE Filled[t].live
      OBVIOUS
    <3>1. CASE t < next
      <4>1. buckets[t].live
        BY <1>1, <1>3, <3>1 DEF WindowInv, TooLate
      <4> QED BY <4>1, FilledFaithful
    <3>2. CASE ~(t < next)
      BY <1>3, <3>2, FilledFaithful
    <3> QED BY <3>1, <3>2
  <2>4. t < now => ~buckets'[t].dirty
    BY <1>6 DEF NoBucket
  <2>5. t >= now => buckets'[t] = buckets[t]
    BY <1>3, <1>6
  <2> QED BY <1>6, <2>2, <2>3, <2>4, <2>5
<1>9. ASSUME NEW t \in Seconds, t < now PROVE out'[t].sent
  BY <1>1, <1>2, <1>4, <1>5, <1>9 DEF WindowInv
<1>10. WindowInv'
  <2>1. \A t \in Seconds : TooLate(t)' <=> t < now - Window
    BY <1>1 DEF TooLate
  <2>2. \A t \in Seconds : TooLate(t) => t < now - Window
    BY <1>3 DEF TooLate
  <2> QED BY <1>1, <1>2, <1>3, <1>8, <1>9, <2>1, <2>2 DEF WindowInv, SameTruth
<1>11. BucketsInv'
  <2>1. \A t \in Seconds : buckets'[t].live => buckets'[t] = Clean(t) /\ Faithful(buckets'[t], t)
    BY <1>6 DEF NoBucket
  <2> QED BY <1>2, <2>1 DEF BucketsInv, Faithful, TrueRows, Rows, SameTruth
<1>12. FramesInv'
  <2> SUFFICES ASSUME NEW t \in Seconds, out'[t].sent PROVE
        /\ t < now
        /\ \A w \in Workloads : out'[t].count[w] <= truth.count[t][w]
        /\ out'[t].count = truth.count[t] /\ out'[t].rows = TrueRows(t)
        /\ out'[t].whole => \A n \in out'[t].meters :
              truth.samples[t][n] > 0 /\ (<<n, t>> \in truth.bad => buckets'[t].dirty \/ TooLate(t)')
    BY <1>1, <1>2 DEF FramesInv, TrueRows, SameTruth
  <2>1. CASE t \in D
    <3>1. \A w \in Workloads : truth.count[t][w] <= truth.count[t][w]
      BY <1>1 DEF TypeInv, Truths
    <3> QED BY <1>5, <2>1, <3>1
  <2>2. CASE t \notin D
    <3>1. /\ out'[t] = out[t] /\ t < now
          /\ \A w \in Workloads : out[t].count[w] <= truth.count[t][w]
          /\ t < next /\ ~buckets[t].dirty => out[t].count = truth.count[t] /\ out[t].rows = TrueRows(t)
          /\ out[t].whole => \A n \in out[t].meters :
                truth.samples[t][n] > 0 /\ (<<n, t>> \in truth.bad => buckets[t].dirty \/ TooLate(t))
      BY <1>1, <1>2, <2>2 DEF FramesInv
    <3>2. t < next /\ ~buckets[t].dirty
      BY <1>4, <2>2, <3>1
    <3>3. TooLate(t) => TooLate(t)'
      BY <1>1, <1>3 DEF TooLate
    <3> QED BY <3>1, <3>2, <3>3
  <2> QED BY <2>1, <2>2
<1>13. LateIsTold' /\ GapsReported'
  <2>1. \A t \in Seconds \ D : buckets[t].live /\ buckets[t].dirty => buckets'[t] = buckets[t]
    BY <1>3, <1>4, <1>8
  <2>2. D \in SUBSET Dirty(Filled) /\ Sent(Filled, D)
    BY <1>1 DEF D
  <2> QED BY <2>1, <2>2, SentGaps
<1> QED BY <1>7, <1>10, <1>11, <1>12, <1>13 DEF IInv

\* A flush that the hub cuts short: what was sent is clean, the rest waits.
LEMMA FlushFailsInv ==
    ASSUME MetricsAssumption, IInv, FlushFails
    PROVE  IInv'
<1>1. PICK ts \in SUBSET Dirty(Filled) :
         /\ Sent(Filled, ts)
         /\ buckets' = [u \in Seconds |-> IF u \in ts THEN [Filled[u] EXCEPT !.dirty = FALSE] ELSE Filled[u]]
  <2>1. PICK t \in Dirty(Filled) :
           /\ Sent(Filled, DirtyBefore(t))
           /\ buckets' = [u \in Seconds |-> IF u \in DirtyBefore(t)
                                            THEN [Filled[u] EXCEPT !.dirty = FALSE] ELSE Filled[u]]
    BY DEF FlushFails
  <2>2. DirtyBefore(t) \in SUBSET Dirty(Filled)
    BY DEF DirtyBefore
  <2> QED BY <2>1, <2>2
<1>2. /\ TypeInv /\ WindowInv /\ BucketsInv /\ FramesInv
      /\ UNCHANGED <<now, next, scope>> /\ closed' = TRUE
  BY DEF FlushFails, IInv
<1>3. /\ SameTruth /\ pendingGaps' \in SUBSET GapRecords
      /\ out' \in [Seconds -> Frames \cup {NoFrame}]
      /\ \A t \in Seconds \ ts : out'[t] = out[t]
  BY <1>1, SentFrames
<1>4. ASSUME NEW t \in ts
      PROVE  /\ t \in Seconds /\ t < now
             /\ buckets'[t] \in LiveBuckets /\ buckets'[t].live /\ ~buckets'[t].dirty
             /\ Faithful(buckets'[t], t) /\ ~TooLate(t)
             /\ out'[t].sent /\ out'[t].count = truth.count[t] /\ out'[t].rows = TrueRows(t)
             /\ out'[t].whole => \A n \in out'[t].meters :
                   truth.samples[t][n] > 0 /\ <<n, t>> \notin truth.bad
  <2>1. t \in Seconds /\ t < now /\ Filled[t].live
    BY DEF Dirty
  <2>2. buckets'[t] = [Filled[t] EXCEPT !.dirty = FALSE]
    BY <1>1, <2>1
  <2>3. ~TooLate(t)
    <3>1. TooLate(t) => t < next /\ buckets[t] = NoBucket
      BY <1>2, <2>1 DEF WindowInv, TooLate, TypeInv, Seconds, MetricsAssumption
    <3>2. t < next => Filled[t] = buckets[t]
      BY <1>2, <2>1, FilledFaithful DEF TypeInv, Seconds
    <3> QED BY <2>1, <3>1, <3>2 DEF NoBucket
  <2> QED BY <1>1, <2>1, <2>2, <2>3, SentBucket, SentFrameSays
<1>5. ASSUME NEW t \in Seconds \ ts
      PROVE  /\ buckets'[t] \in LiveBuckets \cup {NoBucket}
             /\ buckets'[t].live => Faithful(buckets'[t], t)
             /\ buckets[t].live => buckets'[t].live /\ buckets'[t].gaps = buckets[t].gaps
             /\ buckets[t].dirty => buckets'[t].dirty
             /\ t < next => buckets'[t] = buckets[t]
  <2>1. buckets'[t] = Filled[t]
    BY <1>1
  <2>2. t < next => Filled[t] = buckets[t]
    BY <1>2, FilledFaithful DEF TypeInv, Seconds
  <2> QED BY <2>1, <2>2, FilledFaithful
<1>6. TypeInv'
  <2>1. \A t \in Seconds : buckets'[t] \in LiveBuckets \cup {NoBucket}
    BY <1>2, <1>4, <1>5 DEF TypeInv
  <2>2. buckets' = [t \in Seconds |-> buckets'[t]]
    BY <1>1
  <2>3. buckets' \in [Seconds -> LiveBuckets \cup {NoBucket}]
    BY <2>1, <2>2
  <2> QED BY <1>2, <1>3, <2>3 DEF TypeInv, SameTruth
<1>7. WindowInv'
  <2>1. \A t \in Seconds : TooLate(t) => t < next
    BY <1>2 DEF TooLate, TypeInv, Seconds, MetricsAssumption
  <2> QED BY <1>2, <1>3, <1>4, <1>5, <2>1 DEF WindowInv, TooLate, SameTruth
<1>8. BucketsInv'
  BY <1>2, <1>3, <1>4, <1>5 DEF BucketsInv, Faithful, TrueRows, Rows, SameTruth
<1>9. \A t \in ts, w \in Workloads : truth.count[t][w] <= truth.count[t][w]
  BY <1>2, <1>4 DEF TypeInv, Truths
<1>10. FramesInv'
  <2>1. \A t \in ts : \A w \in Workloads : out'[t].count[w] <= truth.count[t][w]
    BY <1>4, <1>9
  <2> QED BY <1>2, <1>3, <1>4, <1>5, <2>1 DEF FramesInv, TrueRows, TooLate, SameTruth
<1>11. LateIsTold' /\ GapsReported'
  BY <1>1, <1>5, SentGaps
<1> QED BY <1>6, <1>7, <1>8, <1>10, <1>11 DEF IInv

-----------------------------------------------------------------------------
(* The theorems                                                            *)

\* Every step keeps the inductive invariant.
LEMMA NextInv == MetricsAssumption /\ IInv /\ [Next]_vars => IInv'
<1> SUFFICES ASSUME MetricsAssumption, IInv, [Next]_vars PROVE IInv'
  OBVIOUS
<1>1. ASSUME NEW w \in Workloads, NEW t \in Seconds, Count(w, t) PROVE IInv'
  BY <1>1, CountInv
<1>2. ASSUME NEW n \in Nodes, NEW t \in Seconds, NEW ok \in BOOLEAN, Power(n, t, ok) PROVE IInv'
  BY <1>2, PowerInv
<1>3. ASSUME NEW a \in Seconds, NEW b \in Seconds, NEW s \in Names, Gap(a, b, s) PROVE IInv'
  BY <1>3, GapInv
<1>4. ASSUME NEW s \in Scopes, SetPowerScope(s) PROVE IInv'
  BY <1>4, ScopeInv
<1>5. CASE UNCHANGED vars
  BY <1>5 DEF vars, IInv, TypeInv, WindowInv, BucketsInv, FramesInv, Faithful, TrueRows, Rows,
              TooLate, LateIsTold, GapsReported
<1> QED BY <1>1, <1>2, <1>3, <1>4, <1>5, FlushInv, FlushFailsInv, TickInv DEF Next, Names

\* The invariant holds in every reachable state.
THEOREM Invariant == ASSUME MetricsAssumption PROVE Spec => []IInv
<1>1. Init => IInv
  BY InitInv
<1>2. IInv /\ [Next]_vars => IInv'
  BY NextInv
<1> QED BY <1>1, <1>2, PTL DEF Spec

\* What is published of a second that needs no correction counts every callback
\* bucketLocked accepted for it, the late ones too, and leaves out exactly the
\* Workloads of its gaps, whatever Flush sent before.
THEOREM Counted == ASSUME MetricsAssumption PROVE Spec => []CountsComplete
<1>1. IInv => CountsComplete
  BY DEF IInv, FramesInv, CountsComplete, TrueRows
<1> QED BY <1>1, Invariant, PTL

\* A callback that bucketLocked refuses is a gap of a frame, or of the next one.
THEOREM LateReported == ASSUME MetricsAssumption PROVE Spec => []LateIsTold
<1>1. IInv => LateIsTold
  BY DEF IInv
<1> QED BY <1>1, Invariant, PTL

\* No gap is lost between Gap and a frame, also when the hub refuses frames.
THEOREM GapsPublished == ASSUME MetricsAssumption PROVE Spec => []GapsReported
<1>1. IInv => GapsReported
  BY DEF IInv
<1> QED BY <1>1, Invariant, PTL

\* The pool sum of a frame stands on a valid sample of every meter: frame leaves it
\* out when one is missing, and a failed sample corrects the second.
THEOREM PoolSampled == ASSUME MetricsAssumption PROVE Spec => []PoolFromSamples
<1>1. IInv => PoolFromSamples
  BY DEF IInv, FramesInv, PoolFromSamples
<1> QED BY <1>1, Invariant, PTL

\* A correction replaces a frame and never counts less: buckets only grow, and one
\* that is deleted takes no callback any more.
THEOREM NothingTakenBack == ASSUME MetricsAssumption PROVE Spec => NeverTakenBack
<1>1. IInv /\ [Next]_vars => [NeverTakenBackStep]_vars
  <2> SUFFICES ASSUME IInv, Next PROVE NeverTakenBackStep
    OBVIOUS
  <2>1. CASE Flush
    <3>1. Sent(Filled, Dirty(Filled)) /\ Dirty(Filled) \in SUBSET Dirty(Filled)
      BY <2>1 DEF Flush
    <3> QED BY <3>1, SentForward DEF NeverTakenBackStep
  <2>2. CASE FlushFails
    <3>1. PICK t \in Dirty(Filled) : Sent(Filled, DirtyBefore(t))
      BY <2>2 DEF FlushFails
    <3>2. DirtyBefore(t) \in SUBSET Dirty(Filled)
      BY DEF DirtyBefore
    <3> QED BY <3>1, <3>2, SentForward DEF NeverTakenBackStep
  <2>3. CASE UNCHANGED out
    <3>1. \A t \in Seconds, w \in Workloads : out[t].sent => out[t].count[w] >= out[t].count[w]
      BY FrameTypes DEF IInv
    <3> QED BY <2>3, <3>1 DEF NeverTakenBackStep
  <2> QED BY <2>1, <2>2, <2>3 DEF Next, Count, Power, Gap, SetPowerScope, Tick
<1> QED BY <1>1, Invariant, PTL DEF Spec, NeverTakenBack
=============================================================================
