---------------------------- MODULE LiveMetrics ----------------------------
(* The one-second buckets of the live channel: internal/serving/live/         *)
(* metrics.go, fed by the request and power callbacks of                      *)
(* cmd/chill-server/live.go and flushed by Hub.Run.                           *)
(*                                                                            *)
(* Callbacks arrive late and out of order; a bucket stays open for            *)
(* corrections for Window seconds and is then sent again as a whole.  What    *)
(* comes later is reported as a gap.  Counts are kept, latencies are not; a   *)
(* power sample is valid or not.                                              *)
EXTENDS Integers, Sequences, FiniteSets, Functions

CONSTANTS Workloads, Nodes,
          Scopes,       \* the power memberships the operator may declare: [meters, active, known]
          Window,       \* the correction window in seconds (10 in the code)
          MaxTime,      \* bound: last second
          MaxEvents     \* bound: callbacks

\* Workloads and Nodes are told apart by the prefix of a scope's name.
MetricsAssumption ==
    /\ Window \in Nat \ {0} /\ MaxTime \in Nat
    /\ Scopes \subseteq [meters : SUBSET Nodes, active : SUBSET Nodes, known : BOOLEAN]
    /\ Workloads \cap Nodes = {} /\ "all" \notin Workloads \cup Nodes

Seconds == 0..MaxTime
NoBucket == [dirty |-> FALSE, live |-> FALSE]

VARIABLES now,          \* the current second
          next,         \* first second never flushed
          buckets,      \* second -> bucket or NoBucket
          scope,        \* power membership in force
          pendingGaps,  \* gaps for the next frame
          out,          \* second -> the last frame sent for it
          closed,       \* Run ended on an error of the hub
          truth         \* history: callbacks, lateness, samples and memberships per second

vars == <<now, next, buckets, scope, pendingGaps, out, closed, truth>>

NoFrame == [sent |-> FALSE]
Used == FoldFunction(+, 0, [p \in Seconds \X Workloads |-> truth.count[p[1]][p[2]] + truth.late[p[1]][p[2]]])
            + FoldFunction(+, 0, [p \in Seconds \X Nodes |-> truth.samples[p[1]][p[2]]]) + Cardinality(truth.gaps)

\* bucketLocked's new bucket, with the memberships of this moment.
NewBucket == [live |-> TRUE, dirty |-> TRUE, count |-> [w \in Workloads |-> 0], valid |-> [n \in Nodes |-> 0],
              invalid |-> [n \in Nodes |-> FALSE], gaps |-> {}, meters |-> scope.meters, active |-> scope.active, known |-> scope.known]

TooLate(t) == t < next - Window

\* A bucket that stays clean when it is corrected.
BucketClean(t) == IF buckets[t].live THEN buckets[t] ELSE NewBucket

\* The open bucket of a second; every use marks it dirty.
Bucket(t) == IF buckets[t].live THEN [buckets[t] EXCEPT !.dirty = TRUE] ELSE NewBucket

LateGap(t, s) == [from |-> t, to |-> t + 1, scope |-> s]

----------------------------------------------------------------------------
\* Received and Finished: one more callback of Workload w for second t.
Count(w, t) ==
    /\ t <= now /\ Used < MaxEvents
    /\ \/ /\ TooLate(t)
          /\ pendingGaps' = pendingGaps \cup {LateGap(t, w)}
          /\ truth' = [truth EXCEPT !.late[t][w] = @ + 1]
          /\ UNCHANGED buckets
       \/ /\ ~TooLate(t)
          /\ buckets' = [buckets EXCEPT ![t] = [Bucket(t) EXCEPT !.count[w] = @ + 1]]
          /\ truth' = [truth EXCEPT !.count[t][w] = @ + 1]
          /\ UNCHANGED pendingGaps
    /\ UNCHANGED <<now, next, scope, out, closed>>

\* Power: a valid sample, or one that could not be read.
Power(n, t, ok) ==
    /\ t <= now /\ Used < MaxEvents
    /\ truth' = [truth EXCEPT !.samples[t][n] = @ + 1, !.bad = IF ok THEN @ ELSE @ \cup {<<n, t>>}]
    /\ \/ /\ TooLate(t)
          /\ pendingGaps' = pendingGaps \cup {LateGap(t, n)}
          /\ UNCHANGED buckets
       \/ /\ ~TooLate(t)
          /\ buckets' = [buckets EXCEPT ![t] =
                 IF ok THEN [Bucket(t) EXCEPT !.valid[n] = @ + 1]
                 ELSE [Bucket(t) EXCEPT !.invalid[n] = TRUE, !.gaps = @ \cup {LateGap(t, n)}]]
          /\ UNCHANGED pendingGaps
    /\ UNCHANGED <<now, next, scope, out, closed>>

\* Gap: an interval that could not be observed, in every bucket it touches.
Gap(from, to, s) ==
    /\ from < to /\ from <= now /\ Used < MaxEvents
    /\ truth' = [truth EXCEPT !.gaps = @ \cup {[from |-> from, to |-> to, scope |-> s]},
                              !.covered = [t \in Seconds |-> IF from <= t /\ t < to /\ ~TooLate(t) THEN @[t] \cup {s} ELSE @[t]]]
    /\ pendingGaps' = IF TooLate(from) THEN pendingGaps \cup {[from |-> from, to |-> to, scope |-> s]} ELSE pendingGaps
    /\ buckets' = [t \in Seconds |->
           IF from <= t /\ t < to /\ ~TooLate(t)
           THEN [Bucket(t) EXCEPT !.gaps = @ \cup {[from |-> from, to |-> to, scope |-> s]}] ELSE buckets[t]]
    /\ UNCHANGED <<now, next, scope, out, closed>>

\* SetPowerScope: the membership changes; the open buckets that had another
\* one cannot be summed any more.
SetPowerScope(s) ==
    /\ s # scope
    /\ scope' = s
    /\ buckets' = [t \in Seconds |->
           IF ~buckets[t].live \/ t < next \/ (s.known /\ buckets[t].meters = s.meters /\ buckets[t].active = s.active)
           THEN buckets[t]
           ELSE [buckets[t] EXCEPT !.known = FALSE, !.meters = @ \cup s.meters, !.active = @ \cup s.active]]
    /\ truth' = [truth EXCEPT !.scopes[now] = @ \cup {s}]
    /\ UNCHANGED <<now, next, pendingGaps, out, closed>>

Rows(b) == {w \in Workloads : ~\E g \in b.gaps : g.scope \in {"all", w}}
Watts(b) == {n \in Nodes : b.valid[n] > 0 /\ ~b.invalid[n] /\ ~\E g \in b.gaps : g.scope \in {"all", n}}

\* A frame that sums whatever samples there are.
FrameSumsPresent(b) ==
    [sent |-> TRUE, rows |-> Rows(b), count |-> b.count, meters |-> b.meters, active |-> b.active,
     whole |-> b.known /\ b.meters \cap Watts(b) # {}, activeSum |-> FALSE]

\* frame: the rows a gap does not cover and the sums the membership allows.
FrameOf(b) ==
    [sent |-> TRUE, rows |-> Rows(b), count |-> b.count, meters |-> b.meters, active |-> b.active,
     whole |-> b.known /\ b.meters \subseteq Watts(b),
     activeSum |-> b.known /\ b.active \subseteq Watts(b) /\ b.active \subseteq b.meters]

\* Flush at the boundary of the current second: buckets of the elapsed seconds
\* exist, the dirty ones are sent oldest first, and those outside the window go.
\* The first frame carries the pending gaps.
Filled == [t \in Seconds |-> IF next <= t /\ t < now THEN Bucket(t) ELSE buckets[t]]
Dirty(bs) == {t \in Seconds : bs[t].live /\ bs[t].dirty /\ t < now}

\* The pending gaps are cleared before they are part of a frame.
SentForgets(bs, ts) ==
    /\ out' = [t \in Seconds |-> IF t \in ts THEN FrameOf(bs[t]) ELSE out[t]]
    /\ pendingGaps' = {}
    /\ truth' = [truth EXCEPT !.told = @ \cup UNION {bs[t].gaps : t \in ts}]

Sent(bs, ts) ==
    /\ out' = [t \in Seconds |-> IF t \in ts THEN FrameOf(bs[t]) ELSE out[t]]
    /\ pendingGaps' = IF ts = {} THEN pendingGaps ELSE {}
    /\ truth' = [truth EXCEPT !.told = @ \cup (IF ts = {} THEN {} ELSE pendingGaps) \cup UNION {bs[t].gaps : t \in ts}]

\* Buckets deleted a second before they stop taking corrections.
KeptShort(bs, to) == [t \in Seconds |-> IF bs[t].live /\ t < to - Window + 1 THEN NoBucket ELSE bs[t]]

Kept(bs, to) == [t \in Seconds |-> IF bs[t].live /\ t < to - Window THEN NoBucket ELSE bs[t]]

\* The boundary taken as the end of the running second.
FlushEarly ==
    /\ ~closed /\ (now > next \/ Dirty(Filled) # {})
    /\ Sent(Filled, Dirty(Filled))
    /\ next' = now + 1
    /\ buckets' = Kept([t \in Seconds |-> IF t \in Dirty(Filled) THEN [Filled[t] EXCEPT !.dirty = FALSE] ELSE Filled[t]], next')
    /\ UNCHANGED <<now, scope, closed>>

Flush ==
    /\ ~closed /\ (now > next \/ Dirty(Filled) # {})
    /\ Sent(Filled, Dirty(Filled))
    /\ next' = now
    /\ buckets' = Kept([t \in Seconds |-> IF t \in Dirty(Filled) THEN [Filled[t] EXCEPT !.dirty = FALSE] ELSE Filled[t]], next')
    /\ UNCHANGED <<now, scope, closed>>

DirtyBefore(t) == {u \in Dirty(Filled) : u < t}

\* The hub refuses a frame (closed, sequence exhausted, too large): the frames
\* before it are sent, Run returns the error and nothing is flushed again.
FlushFails ==
    /\ ~closed
    /\ \E t \in Dirty(Filled) :
           /\ Sent(Filled, DirtyBefore(t))
           /\ buckets' = [u \in Seconds |-> IF u \in DirtyBefore(t) THEN [Filled[u] EXCEPT !.dirty = FALSE] ELSE Filled[u]]
    /\ closed' = TRUE
    /\ UNCHANGED <<now, next, scope>>

Tick ==
    /\ now < MaxTime
    /\ now' = now + 1
    /\ truth' = [truth EXCEPT !.scopes[now + 1] = {scope}]
    /\ UNCHANGED <<next, buckets, scope, pendingGaps, out, closed>>

Init ==
    /\ now = 0 /\ next = 0 /\ closed = FALSE /\ pendingGaps = {}
    /\ buckets = [t \in Seconds |-> NoBucket]
    /\ out = [t \in Seconds |-> NoFrame]
    /\ scope \in Scopes
    /\ truth = [count |-> [t \in Seconds |-> [w \in Workloads |-> 0]], late |-> [t \in Seconds |-> [w \in Workloads |-> 0]],
                samples |-> [t \in Seconds |-> [n \in Nodes |-> 0]], bad |-> {}, gaps |-> {}, told |-> {}, covered |-> [t \in Seconds |-> {}],
                scopes |-> [t \in Seconds |-> IF t = 0 THEN {scope} ELSE {}]]

Next ==
    \/ \E w \in Workloads, t \in Seconds : Count(w, t)
    \/ \E n \in Nodes, t \in Seconds, ok \in BOOLEAN : Power(n, t, ok)
    \/ \E a \in Seconds, b \in Seconds, s \in {"all"} \cup Workloads \cup Nodes : Gap(a, b, s)
    \/ \E s \in Scopes : SetPowerScope(s)
    \/ Flush \/ FlushFails \/ Tick

Spec == Init /\ [][Next]_vars

\* The ticker of Hub.Run and the clock run on; callbacks need not come.
FairSpec == Spec /\ WF_vars(Tick) /\ WF_vars(Flush)

----------------------------------------------------------------------------
TypeOK ==
    /\ now \in Seconds /\ next \in Seconds /\ next <= now /\ closed \in BOOLEAN /\ scope \in Scopes
    /\ \A t \in Seconds : buckets[t].live => buckets[t].count \in [Workloads -> Nat] /\ buckets[t].dirty \in BOOLEAN
    /\ \A t \in Seconds : out[t].sent => out[t].rows \subseteq Workloads

\* The last frame of a second that needs no correction counts every callback
\* that was accepted for that second, also the late ones, and leaves out
\* exactly the Workloads that a gap covers.
CountsComplete ==
    \A t \in Seconds : t < next /\ ~buckets[t].dirty /\ out[t].sent =>
        /\ out[t].count = truth.count[t]
        /\ out[t].rows = {w \in Workloads : truth.covered[t] \cap {"all", w} = {}}

\* A correction replaces a bucket as a whole: no frame takes back what an
\* earlier frame of the same second counted.
NeverTakenBackStep ==
    \A t \in Seconds : out[t].sent => \A w \in Workloads : out'[t].count[w] >= out[t].count[w]
NeverTakenBack == [][NeverTakenBackStep]_vars

\* A callback that comes after the window is in no count, and its second is
\* reported as a gap in a frame or in the next one.
LateIsTold ==
    \A t \in Seconds, w \in Workloads : truth.late[t][w] > 0 => LateGap(t, w) \in pendingGaps \cup truth.told

\* A gap is in a frame, in the next frame, or in a bucket that will be sent.
GapsReported ==
    \A g \in truth.gaps : \/ g \in pendingGaps \cup truth.told
                          \/ \E t \in Seconds : buckets[t].live /\ buckets[t].dirty /\ g \in buckets[t].gaps

\* The pool sum of a frame stands on a valid sample of every meter in that
\* second and on none that failed.
PoolFromSamples ==
    \A t \in Seconds : out[t].sent /\ out[t].whole =>
        \A n \in out[t].meters : truth.samples[t][n] > 0 /\ (<<n, t>> \in truth.bad => buckets[t].dirty \/ TooLate(t))

\* The pool sum of a second is given only if one membership was in force for
\* the whole of it.
PoolNeedsStableScope ==
    \A t \in Seconds : out[t].sent /\ out[t].whole => Cardinality(truth.scopes[t]) = 1

\* Every second is published, with everything accepted for it.
EverySecondPublished ==
    \/ <>closed
    \/ <>[](\A t \in Seconds : t < MaxTime => out[t].sent /\ out[t].count = truth.count[t])
=============================================================================
