------------------------------ MODULE LiveHub ------------------------------
(* The live channel of the serving server (internal/serving/live/hub.go), the *)
(* connection handler that serves it (internal/serving/httpapi/live.go) and   *)
(* the dashboard reducer that reads it (chill-dashboard/lib/live.ts).         *)
(*                                                                            *)
(* The hub keeps the current state, a sequence number and a bounded ring of   *)
(* frames; a subscription has a bounded queue.  A client resumes after its    *)
(* last checkpoint (seq, at): by replay when the ring still has that frame,   *)
(* by a snapshot with the gaps of its history otherwise.  A queue that        *)
(* overflows is cut at its first metrics frame and ends in a snapshot.        *)
(*                                                                            *)
(* Abstractions: the state is a function from Parts to Values and a delta     *)
(* replaces one part; the time `at' of a frame is the incarnation of the hub  *)
(* that published it, because all a resume does with it is to tell the frames *)
(* of one process from those of an earlier one; sizes are small numbers.      *)
EXTENDS Integers, Sequences, FiniteSets, SequencesExt

CONSTANTS Clients,           \* dashboard connections
          Parts,             \* the sections of the live state
          Values,            \* their values, 0 is the empty one
          RetainedMessages, RetainedBytes,   \* limits of the ring
          QueueMessages, QueueBytes,         \* limits of a subscription's queue
          MaxFrameBytes,     \* limit of one frame
          MaxSeq,            \* bound: frames published by one process
          MaxEpoch,          \* bound: restarts of the server
          MaxLost,           \* bound: connections lost by the network
          MaxAsked,          \* bound: resumes sent on an open connection
          Kinds              \* the kinds of publication of this instance

HubAssumption ==
    /\ RetainedMessages \in Nat \ {0} /\ QueueMessages \in Nat \ {0}
    /\ RetainedBytes \in Nat /\ QueueBytes \in Nat
    /\ MaxFrameBytes <= QueueBytes
    /\ 0 \in Values /\ Values \subseteq Nat
    /\ Kinds \subseteq {"delta", "decision", "cluster", "metrics", "heartbeat"}

VARIABLES hub,      \* the process: epoch, state, head, ring, baseline
          conn,     \* per client: the socket, the subscription and its queue
          view,     \* per client: the reducer's state
          log,      \* history: per epoch, the kind and the state of every frame
          seen,     \* history: per client, frames received and frames told missing
          budget    \* resumes and losses left

vars == <<hub, conn, view, log, seen, budget>>

Empty == [p \in Parts |-> 0]
Sections == [Parts -> Values]
None == [seq |-> -1, at |-> -1]
Scope(kind) == IF kind = "event" THEN "events" ELSE "power"

\* The encoded size: a frame weighs one, a snapshot one more per filled section.
Size(f) == IF f.kind = "snapshot" THEN 1 + Cardinality({p \in Parts : f.state[p] # 0}) ELSE 1
Bytes(q) == FoldSeq(LAMBDA f, n : n + Size(f), 0, q)

NoHistory == [known |-> FALSE, gaps |-> {}, kept |-> {}]
Frame(kind, seq, at, state, part) == [kind |-> kind, seq |-> seq, at |-> at, state |-> state, part |-> part, history |-> NoHistory]
Encodable(f) == Size(f) <= MaxFrameBytes

Snapshot(h) == Frame("snapshot", h.head, h.epoch, h.state, {})

----------------------------------------------------------------------------
(* Subscriptions. *)

\* Position of the first metrics frame of a queue, which is where it is cut.
CutAt(q) == IF \E i \in 1..Len(q) : q[i].kind = "metrics"
            THEN (CHOOSE i \in 1..Len(q) : q[i].kind = "metrics" /\ \A j \in 1..(i - 1) : q[j].kind # "metrics") - 1
            ELSE 0

\* Only the metrics frames are dropped, not what follows the first of them.
BarrierDropsMetrics(q, b) == Append(SelectSeq(q, LAMBDA f : f.kind # "metrics" /\ Size(b) + Bytes(q) <= QueueBytes), b)

Barrier(q, b) ==
    LET cut == CutAt(q)
        kept == IF Bytes(SubSeq(q, 1, cut)) + Size(b) > QueueBytes THEN <<>> ELSE SubSeq(q, 1, cut)
    IN  Append(kept, b)

Failed(s) == [s EXCEPT !.sub = "failed", !.pending = <<>>]

\* The bound on messages without the bound on bytes.
FitsMessages(q, f) == Len(q) + 1 <= QueueMessages

Fits(q, f) == Len(q) + 1 <= QueueMessages /\ Bytes(q) + Size(f) <= QueueBytes

\* The frame that overflows also follows the barrier.
EnqueueBehind(s, f, h) ==
    IF s.sub # "open" THEN s
    ELSE IF Fits(s.pending, f) THEN [s EXCEPT !.pending = Append(@, f)]
    ELSE IF ~Encodable(Snapshot(h)) THEN Failed(s)
    ELSE [s EXCEPT !.pending = <<[Snapshot(h) EXCEPT !.seq = @ - 1], f>>]

\* enqueueLocked: the new subscription; full tells that replay must stop.
Enqueue(s, f, h) ==
    IF s.sub # "open" THEN s
    ELSE IF Fits(s.pending, f) THEN [s EXCEPT !.pending = Append(@, f)]
    ELSE IF ~Encodable(Snapshot(h)) THEN Failed(s)
    ELSE [s EXCEPT !.pending = Barrier(@, Snapshot(h))]

\* Replay of the retained frames after from, until the first that overflows.
Replay(s, from, h) ==
    LET rows == SelectSeq(h.ring, LAMBDA f : f.seq > from)
        after[n \in 0..Len(rows)] ==
            IF n = 0 THEN [s |-> s, stop |-> FALSE]
            ELSE IF after[n - 1].stop THEN after[n - 1]
            ELSE [s |-> Enqueue(after[n - 1].s, rows[n], h), stop |-> ~Fits(after[n - 1].s.pending, rows[n])]
    IN  after[Len(rows)].s

RetainedOf(h, kind) == {h.ring[i].seq : i \in {j \in 1..Len(h.ring) : h.ring[j].kind = kind}}

\* An off-by-one at the front of the retained range.
HistoryGapsShort(h, kind, from, to) ==
    LET kept == RetainedOf(h, kind)
        first == CHOOSE n \in kept : \A m \in kept : n <= m
        last == CHOOSE n \in kept : \A m \in kept : n >= m
    IN  IF kept = {} \/ last < from \/ first > to THEN (from + 1)..to
        ELSE (from..(first - 1)) \cup ((last + 1)..to)

\* A gap reported for the whole interval, retained frames included.
HistoryGapsWide(h, kind, from, to) == from..to

\* appendHistoryGaps: what lies before and after the retained range.
HistoryGaps(h, kind, from, to) ==
    LET kept == RetainedOf(h, kind)
        first == CHOOSE n \in kept : \A m \in kept : n <= m
        last == CHOOSE n \in kept : \A m \in kept : n >= m
    IN  IF kept = {} \/ last < from \/ first > to THEN from..to
        ELSE (from..(first - 1)) \cup ((last + 1)..to)

\* The outer range of the retained frames of one kind.
KeptRange(h, kind) ==
    LET kept == RetainedOf(h, kind)
    IN  {n \in 1..h.head : \E a, b \in kept : a <= n /\ n <= b}

\* resumeHistoryLocked: the interval after the checkpoint, in this hub's own
\* numbers; it is empty for a checkpoint of the future.
ResumeHistory(h, from) ==
    [known |-> TRUE,
     kept |-> ({"events"} \X KeptRange(h, "event")) \cup ({"power"} \X KeptRange(h, "metrics")),
     gaps |-> IF from >= h.head THEN {}
              ELSE ({"events"} \X HistoryGaps(h, "event", from + 1, h.head))
                       \cup ({"power"} \X HistoryGaps(h, "metrics", from + 1, h.head))]

ResumeSnapshot(h, from) == [Snapshot(h) EXCEPT !.history = ResumeHistory(h, from)]

\* A checkpoint of an earlier process taken for one of this.
MatchesSeq(h, from, at) == from > 0 /\ \E i \in 1..Len(h.ring) : h.ring[i].seq = from

Matches(h, from, at) == from > 0 /\ \E i \in 1..Len(h.ring) : h.ring[i].seq = from /\ h.ring[i].at = at

\* resumeLocked, for Subscribe and for Resume.
ResumeSub(s, from, at, h) ==
    LET clear == [s EXCEPT !.pending = <<>>, !.sub = "open"]
    IN  IF Matches(h, from, at) THEN Replay(clear, from, h)
        ELSE IF Encodable(ResumeSnapshot(h, from)) THEN [clear EXCEPT !.pending = <<ResumeSnapshot(h, from)>>]
        ELSE Failed(clear)

----------------------------------------------------------------------------
(* The reducer of the dashboard: applyLiveMessage. *)

InitialView == [state |-> Empty, cp |-> None, resync |-> FALSE, asked |-> FALSE]

\* A reducer that applies a frame again when a resume repeats it.
ApplyRepeated(v, m) ==
    [v EXCEPT !.cp = [seq |-> m.seq, at |-> m.at], !.resync = FALSE,
              !.state = [p \in Parts |-> IF m.kind = "snapshot" \/ p \in m.part THEN m.state[p] ELSE @[p]]]

Apply(v, m) ==
    LET at == [seq |-> m.seq, at |-> m.at]
    IN  IF m.kind = "snapshot"
        THEN IF v.cp = at THEN [v EXCEPT !.resync = FALSE]
             ELSE [v EXCEPT !.state = m.state, !.cp = at, !.resync = FALSE]
        ELSE IF v.cp # None /\ m.seq <= v.cp.seq THEN v
        ELSE IF v.resync \/ v.cp = None \/ m.seq # v.cp.seq + 1 THEN [v EXCEPT !.resync = TRUE]
        ELSE [v EXCEPT !.cp = at, !.resync = FALSE, !.state = [p \in Parts |-> IF p \in m.part THEN m.state[p] ELSE @[p]]]

\* What the reducer has been told it misses: a snapshot without history opens a
\* gap from its checkpoint to the snapshot, one with history lists the gaps and
\* the retained frames that it does not replay.
Told(v, m) ==
    IF m.kind # "snapshot" \/ v.cp = None \/ v.cp.at # m.at THEN {}
    ELSE IF m.history.known THEN m.history.gaps \cup m.history.kept
    ELSE {"events", "power"} \X ((v.cp.seq + 1)..m.seq)

----------------------------------------------------------------------------
(* The hub's publications. *)

\* appendLocked: the ring drops its oldest frames, every subscription gets the
\* new one.  The barrier of an overflow is the state at this frame.
Evicted(r, f) ==
    LET room == {k \in 0..Len(r) : k = Len(r) \/ (Len(r) - k < RetainedMessages /\ Bytes(SubSeq(r, k + 1, Len(r))) + Size(f) <= RetainedBytes)}
        k == CHOOSE n \in room : \A m \in room : n <= m
    IN  SubSeq(r, k + 1, Len(r))

AppendFrame(h, f) == [h EXCEPT !.head = f.seq, !.ring = Append(Evicted(@, f), f)]

Deliver(cs, f, h) == [c \in Clients |-> IF cs[c].sub = "open" THEN Enqueue(cs[c], f, h) ELSE cs[c]]

Publish1(h, cs, f) == [hub |-> AppendFrame(h, f), conn |-> Deliver(cs, f, AppendFrame(h, f))]

Logged(fs) == log' = [log EXCEPT ![hub.epoch] = @ \o [i \in 1..Len(fs) |-> [kind |-> fs[i].kind, state |-> fs[i].state]]]

\* publishStateLocked with a delta, and with a decision or action event behind
\* it.  A delta that changes nothing publishes nothing, its event included.
PublishState(kind, p, x) ==
    LET new == [hub.state EXCEPT ![p] = x]
        d == Frame("delta", hub.head + 1, hub.epoch, new, {p})
        e == Frame("event", hub.head + 2, hub.epoch, new, {})
        first == Publish1([hub EXCEPT !.state = new], conn, d)
        both == Publish1(first.hub, first.conn, e)
    IN  /\ kind \in Kinds \cap {"delta", "decision"}
        /\ x # hub.state[p]
        /\ hub.head + (IF kind = "delta" THEN 1 ELSE 2) <= MaxSeq
        /\ IF kind = "delta"
           THEN hub' = first.hub /\ conn' = first.conn /\ Logged(<<d>>)
           ELSE hub' = both.hub /\ conn' = both.conn /\ Logged(<<d, e>>)
        /\ UNCHANGED <<view, seen, budget>>

\* A cluster event, a metrics frame or a heartbeat: one frame, no new state.
PublishOther(kind) ==
    LET f == Frame(IF kind = "cluster" THEN "event" ELSE kind, hub.head + 1, hub.epoch, hub.state, {})
        done == Publish1(hub, conn, f)
    IN  /\ kind \in Kinds \cap {"cluster", "metrics", "heartbeat"}
        /\ hub.head < MaxSeq
        /\ hub' = done.hub /\ conn' = done.conn
        /\ Logged(<<f>>)
        /\ UNCHANGED <<view, seen, budget>>

----------------------------------------------------------------------------
(* Connections. *)

Closed == [sub |-> "none", up |-> FALSE, pending |-> <<>>, toClient |-> <<>>, toServer |-> <<>>]

\* The socket is open, the hello sent and answered with the client's
\* checkpoint; no subscription exists before that first resume is read.
Checkpoint(v) == IF v.cp # None /\ v.cp.seq > 0 THEN v.cp ELSE [seq |-> 0, at |-> -1]

Connect(c) ==
    /\ ~conn[c].up
    /\ conn' = [conn EXCEPT ![c] = [Closed EXCEPT !.up = TRUE, !.toServer = <<Checkpoint(view[c])>>]]
    /\ view' = [view EXCEPT ![c].asked = FALSE]
    /\ UNCHANGED <<hub, log, seen, budget>>

\* A subscription that is chosen but not registered for later frames.
ResumeUnregistered(c) ==
    /\ conn[c].up /\ conn[c].toServer # <<>> /\ conn[c].sub # "failed"
    /\ LET m == Head(conn[c].toServer)
       IN  conn' = [conn EXCEPT ![c] = [ResumeSub(@, m.seq, m.at, hub) EXCEPT !.toServer = Tail(@), !.sub = "unregistered"]]
    /\ UNCHANGED <<hub, view, log, seen, budget>>

\* The reading goroutine: the first resume subscribes, a later one resumes.
Resume(c) ==
    /\ conn[c].up /\ conn[c].toServer # <<>> /\ conn[c].sub # "failed"
    /\ LET m == Head(conn[c].toServer)
       IN  conn' = [conn EXCEPT ![c] = [ResumeSub(@, m.seq, m.at, hub) EXCEPT !.toServer = Tail(@)]]
    /\ UNCHANGED <<hub, view, log, seen, budget>>

\* Next, then the write to the socket.
Next1(c) ==
    /\ conn[c].up /\ conn[c].pending # <<>>
    /\ conn' = [conn EXCEPT ![c].pending = Tail(@), ![c].toClient = Append(@, Head(conn[c].pending))]
    /\ UNCHANGED <<hub, view, log, seen, budget>>

\* A failed subscription ends its connection, and the network may end any.
Disconnect(c) ==
    /\ conn[c].up
    /\ \/ conn[c].sub = "failed" /\ UNCHANGED budget
       \/ budget.lost > 0 /\ budget' = [budget EXCEPT !.lost = @ - 1]
    /\ conn' = [conn EXCEPT ![c] = Closed]
    /\ UNCHANGED <<hub, view, log, seen>>

\* One message through the reducer; a client that lost the sequence asks for a
\* baseline, once.
Receive(c) ==
    /\ conn[c].up /\ conn[c].toClient # <<>>
    /\ LET m == Head(conn[c].toClient)
           v == Apply(view[c], m)
           ask == v.resync /\ ~view[c].asked
       IN  /\ view' = [view EXCEPT ![c] = [v EXCEPT !.asked = (view[c].asked \/ ask) /\ m.kind # "snapshot" /\ v.resync]]
           /\ conn' = [conn EXCEPT ![c].toClient = Tail(@),
                                   ![c].toServer = IF ask THEN Append(@, [seq |-> 0, at |-> -1]) ELSE @]
           /\ seen' = [seen EXCEPT ![c] =
                  [base |-> IF v.cp.at = view[c].cp.at THEN @.base ELSE v.cp.seq,
                   got |-> IF v.cp.at # view[c].cp.at THEN {}
                           ELSE IF v.cp # view[c].cp /\ m.kind \in {"event", "metrics"} THEN @.got \cup {m.seq} ELSE @.got,
                   told |-> IF v.cp.at # view[c].cp.at THEN {} ELSE @.told \cup Told(view[c], m)]]
    /\ UNCHANGED <<hub, log, budget>>

\* What the protocol lets any reader do on an open connection: resume from its
\* checkpoint or from nothing while frames are in flight.
AskAgain(c) ==
    /\ conn[c].up /\ conn[c].sub = "open" /\ budget.asked > 0
    /\ budget' = [budget EXCEPT !.asked = @ - 1]
    /\ \E m \in {Checkpoint(view[c]), [seq |-> 0, at |-> -1]} :
           conn' = [conn EXCEPT ![c].toServer = Append(@, m)]
    /\ UNCHANGED <<hub, view, log, seen>>

\* The process ends and another starts with an empty hub.
Restart ==
    /\ hub.epoch < MaxEpoch
    /\ hub' = [epoch |-> hub.epoch + 1, state |-> Empty, head |-> 0, ring |-> <<>>]
    /\ conn' = [c \in Clients |-> Closed]
    /\ UNCHANGED <<view, log, seen, budget>>

Init ==
    /\ hub = [epoch |-> 0, state |-> Empty, head |-> 0, ring |-> <<>>]
    /\ conn = [c \in Clients |-> Closed]
    /\ view = [c \in Clients |-> InitialView]
    /\ log = [e \in 0..MaxEpoch |-> <<>>]
    /\ seen = [c \in Clients |-> [base |-> 0, got |-> {}, told |-> {}]]
    /\ budget = [lost |-> MaxLost, asked |-> MaxAsked]

Publications == \/ \E kind \in Kinds, p \in Parts, x \in Values : PublishState(kind, p, x)
                \/ \E kind \in Kinds : PublishOther(kind)
Client(c) == Connect(c) \/ Resume(c) \/ Next1(c) \/ Disconnect(c) \/ Receive(c) \/ AskAgain(c)
Next == Publications \/ (\E c \in Clients : Client(c)) \/ Restart

Spec == Init /\ [][Next]_vars

\* The connection's goroutines run while its socket is open, and the dashboard
\* reconnects after every loss.  Nothing obliges anyone to publish.
Fairness == \A c \in Clients : /\ WF_vars(Connect(c)) /\ WF_vars(Resume(c))
                               /\ WF_vars(Next1(c)) /\ WF_vars(Receive(c))
                               /\ WF_vars(conn[c].sub = "failed" /\ Disconnect(c))
FairSpec == Spec /\ Fairness

----------------------------------------------------------------------------
(* Properties. *)

FrameType == [kind : {"delta", "event", "metrics", "heartbeat", "snapshot"}, seq : 0..MaxSeq, at : 0..MaxEpoch,
              state : Sections, part : SUBSET Parts,
              history : [known : BOOLEAN, gaps : SUBSET ({"events", "power"} \X (1..MaxSeq)), kept : SUBSET ({"events", "power"} \X (1..MaxSeq))]]
Checkpoints == [seq : -1..MaxSeq, at : -1..MaxEpoch]

TypeOK ==
    /\ hub.epoch \in 0..MaxEpoch /\ hub.state \in Sections /\ hub.head \in 0..MaxSeq
    /\ \A i \in 1..Len(hub.ring) : hub.ring[i] \in FrameType
    /\ \A c \in Clients :
           /\ conn[c].sub \in {"none", "open", "failed"} /\ conn[c].up \in BOOLEAN
           /\ \A i \in 1..Len(conn[c].pending) : conn[c].pending[i] \in FrameType
           /\ \A i \in 1..Len(conn[c].toClient) : conn[c].toClient[i] \in FrameType
           /\ \A i \in 1..Len(conn[c].toServer) : conn[c].toServer[i] \in Checkpoints
           /\ view[c].state \in Sections /\ view[c].cp \in Checkpoints /\ view[c].resync \in BOOLEAN /\ view[c].asked \in BOOLEAN

\* A dashboard shows exactly the state the server had at its checkpoint, over
\* overflows, lost connections, resumes in flight and restarts.
ViewIsHubState ==
    \A c \in Clients : view[c].cp # None =>
        view[c].state = IF view[c].cp.seq = 0 THEN Empty ELSE log[view[c].cp.at][view[c].cp.seq].state

\* The server never sends a reader past a frame it left out: every delta, event
\* or metrics frame follows its predecessor or a snapshot, so the reducer's own
\* request for a baseline is never needed against this hub.
NeverOutOfSequence == \A c \in Clients : ~view[c].resync

\* Both limits of the ring and of every subscription's queue hold, also right
\* after a resume and after a barrier.
WithinLimits ==
    /\ Len(hub.ring) <= RetainedMessages
    /\ Len(hub.ring) > 1 => Bytes(hub.ring) <= RetainedBytes
    /\ \A c \in Clients : Len(conn[c].pending) <= QueueMessages /\ Bytes(conn[c].pending) <= QueueBytes

\* After its baseline a reader has received every event and every metrics frame
\* up to its checkpoint, or it was told that the frame is missing.
MissedIsTold ==
    \A c \in Clients : view[c].cp # None =>
        \A n \in (seen[c].base + 1)..view[c].cp.seq :
            LET kind == log[view[c].cp.at][n].kind
            IN  kind \in {"event", "metrics"} => n \in seen[c].got \/ <<Scope(kind), n>> \in seen[c].told

\* What the history of a resume calls a gap is really gone: no frame of that
\* kind in the interval is in the ring.
GapsAreGone ==
    \A c \in Clients : \A q \in {conn[c].pending, conn[c].toClient} : \A i \in 1..Len(q) :
        q[i].history.known =>
            \A j \in 1..Len(hub.ring) : hub.ring[j].kind \in {"event", "metrics"} /\ q[i].at = hub.epoch
                => <<Scope(hub.ring[j].kind), hub.ring[j].seq>> \notin q[i].history.gaps

\* A checkpoint only moves forward while the reader follows one process, and
\* never back to an earlier process.
CheckpointForwardStep ==
    \A c \in Clients : \/ view'[c].cp.at > view[c].cp.at
                       \/ view'[c].cp.at = view[c].cp.at /\ view'[c].cp.seq >= view[c].cp.seq
CheckpointForward == [][CheckpointForwardStep]_vars

\* When publications stop every reader ends up with the newest state, whatever
\* was lost on the way.
CatchesUp == \A c \in Clients : <>[](view[c].state = hub.state /\ view[c].cp = [seq |-> hub.head, at |-> hub.epoch])

=============================================================================
