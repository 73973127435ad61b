----------------------------- MODULE ObservationLog -----------------------------
(***************************************************************************)
(* The observation log's storage (internal/serving/observation): producers *)
(* submit frozen batches under one lock, one worker writes them in order,  *)
(* a flush drains, archives past hours and removes the retained ones, a    *)
(* reader captures the written prefix, the process fails, crashes and      *)
(* restarts.  The request and catalog streams stand for all six.           *)
(***************************************************************************)
EXTENDS Integers, Sequences, SequencesExt, FiniteSetsExt

CONSTANTS
    Requests,     \* request identities
    MaxHour,      \* hours of the model
    Retention,    \* ObservationLogConfig.Retention, in hours
    MaxFolds,     \* bound: backend events of one request
    MaxFaults,    \* bound: failed writes, syncs and uploads
    MaxBack,      \* bound: steps of the clock backwards
    MaxRuns,      \* bound: processes, one after the other
    CrashKinds,   \* \subseteq {"process", "machine"}
    MaxReads,     \* bound: captures
    MaxQueue      \* bound: batches a Flush finds in the queue (a fatal log keeps every barrier)

ObservationLogAssumption ==
    /\ {MaxHour, Retention, MaxFolds, MaxFaults, MaxBack, MaxRuns, MaxReads, MaxQueue} \subseteq Nat
    /\ Retention > 0
    /\ CrashKinds \subseteq {"process", "machine"}

Hours == 0..MaxHour
Streams == {"catalog", "requests"}
Segments == Hours \X Streams
NoHour == -1

VARIABLES
    clock,    \* the hour of the wall clock
    disk,     \* rows of each hour directory's stream files
    synced,   \* how many of them survive the machine's crash
    marker,   \* async-run.json: whether the run ended clean, and whether any before it was unknown
    arch,     \* archived hours of a stream: the rows of the object, or NoObject
    mem,      \* the process: see NewMem
    ans,      \* the done channel each caller waits on: "none", "waiting", "ok" or "error"
    fl,       \* Flush: its step, the frontier it sealed, the hour it is at and whether it still deletes
    rd,       \* a reader: its step, the stages asked for and those its capture shows
    life,     \* the runtime's calls: "none", "assigned", "closed", "refused", "lost" (no final row
              \* was taken) or "over" (the process ended and does not restore it)
    count     \* what the bounds count

vars == <<clock, disk, synced, marker, arch, mem, ans, fl, rd, life, count>>

---------------------------------------------------------------------------
(* Rows, batches and the memory of a process.                              *)

NoRow == [ver |-> 0, closing |-> FALSE, hour |-> NoHour]
Row(kind, r) == [kind |-> kind, req |-> r]
NoObject == <<Row("absent", "absent")>>
CatalogRow == Row("definition", "definition")

\* final is the version of the open row that the batch finishes; next counts the appended rows.
Batch(rows, hour, r, final) ==
    [rows |-> rows, hour |-> hour, next |-> 0, req |-> r, final |-> final,
     sync |-> FALSE, terminal |-> FALSE, done |-> "nobody"]
BarrierBatch(sync, terminal, done) ==
    [Batch(<<>>, NoHour, "", 0) EXCEPT !.sync = sync, !.terminal = terminal, !.done = done]

NewMem(open) ==
    [up |-> TRUE, w |-> "idle", queue |-> <<>>, frontier |-> 0, open |-> open,
     finalQueued |-> [r \in Requests |-> 0], failure |-> FALSE, failed |-> FALSE,
     retry |-> FALSE, fatal |-> FALSE, closed |-> FALSE, references |-> NoHour,
     catalog |-> NoHour, files |-> [s \in Streams |-> NoHour], archived |-> {}, removing |-> {}]

Refused(m) == m.failure \/ m.closed

\* Mutant of Receipt: the wall clock as it is.
ReceiptWall(m) == clock

Receipt(m) == IF clock < m.frontier THEN m.frontier ELSE clock
Enqueue(m, batch) == [m EXCEPT !.queue = Append(@, batch)]

\* Mutant of RowBatch: the catalog row is written once per process.
RowBatchOncePerRun(m, kind, r, final) ==
    LET hour == Receipt(m)
        rows == (IF m.references # NoHour THEN <<>> ELSE <<CatalogRow>>) \o <<Row(kind, r)>>
    IN  [Enqueue(m, Batch(rows, hour, r, final)) EXCEPT !.frontier = hour, !.references = hour]

\* The row's batch starts with the catalog row of its hour, unless an admitted batch has it.
RowBatch(m, kind, r, final) ==
    LET hour == Receipt(m)
        rows == (IF m.references = hour THEN <<>> ELSE <<CatalogRow>>) \o <<Row(kind, r)>>
    IN  [Enqueue(m, Batch(rows, hour, r, final)) EXCEPT !.frontier = hour, !.references = hour]

\* A final row is queued once for each version of the open row.
EnqueueFinal(r, m) ==
    IF m.open[r] = NoRow \/ m.finalQueued[r] = m.open[r].ver THEN m
    ELSE [RowBatch(m, "final", r, m.open[r].ver)
            EXCEPT !.open[r].closing = TRUE, !.finalQueued[r] = m.open[r].ver]

EnqueueClosing(m) == FoldSet(EnqueueFinal, m, {r \in Requests : m.open[r].closing})

---------------------------------------------------------------------------
(* What storage holds of a request.                                        *)

RowsOf(rows, r) == {rows[i].kind : i \in {j \in DOMAIN rows : rows[j].req = r}}
StageOf(kinds) == IF "final" \in kinds THEN 2 ELSE IF "assigned" \in kinds THEN 1 ELSE 0
Local(r) == UNION {RowsOf(disk[<<h, "requests">>], r) : h \in Hours}
ArchivedIn(H, r) == UNION {RowsOf(arch[<<h, "requests">>], r) : h \in {k \in H : arch[<<k, "requests">>] # NoObject}}
Synced(r) == UNION {RowsOf(SubSeq(disk[<<h, "requests">>], 1, synced[<<h, "requests">>]), r) : h \in Hours}
Stable(r) == StageOf(Synced(r) \cup ArchivedIn(Hours, r))
Restorable(r) == StageOf(Local(r)) = 1
HourOfAssigned(r) ==
    Max({h \in Hours : "assigned" \in RowsOf(disk[<<h, "requests">>], r)} \cup {NoHour})
LocalHours(m) == {h \in Hours : \E s \in Streams : disk[<<h, s>>] # <<>>} \cup {Receipt(m)}

---------------------------------------------------------------------------
(* Producers, each one step under submitMu.                                *)

\* RequestEvent of an assignment: refused after a failure, before the request is dispatched.
Assign(r) ==
    /\ mem.up /\ life[r] = "none"
    /\ IF Refused(mem) THEN life' = [life EXCEPT ![r] = "refused"] /\ UNCHANGED mem
       ELSE /\ life' = [life EXCEPT ![r] = "assigned"]
            /\ mem' = [RowBatch(mem, "assigned", r, 0)
                         EXCEPT !.open[r] = [ver |-> 1, closing |-> FALSE, hour |-> Receipt(mem)]]
    /\ UNCHANGED <<clock, disk, synced, marker, arch, ans, fl, rd, count>>

\* RequestEvent of the backend: folded into the open row, also after a failure; without one it is a native row.
Backend(r) ==
    /\ mem.up /\ life[r] \in {"assigned", "closed"} /\ count.folds[r] < MaxFolds
    /\ count' = [count EXCEPT !.folds[r] = @ + 1]
    /\ mem' = IF mem.open[r] # NoRow
              THEN IF mem.closed THEN mem ELSE [mem EXCEPT !.open[r].ver = @ + 1]
              ELSE IF Refused(mem) THEN mem ELSE RowBatch(mem, "native", r, 0)
    /\ UNCHANGED <<clock, disk, synced, marker, arch, ans, fl, rd, life>>

\* RequestClosed: after a failure the row is left for the retry of a flush.
RequestClosed(r) ==
    /\ mem.up /\ life[r] = "assigned"
    /\ IF mem.closed THEN life' = [life EXCEPT ![r] = "lost"] /\ UNCHANGED mem
       ELSE /\ life' = [life EXCEPT ![r] = "closed"]
            /\ mem' = IF ~mem.failure THEN EnqueueFinal(r, mem)
                      ELSE IF mem.open[r] = NoRow THEN mem ELSE [mem EXCEPT !.open[r].closing = TRUE]
    /\ UNCHANGED <<clock, disk, synced, marker, arch, ans, fl, rd, count>>

---------------------------------------------------------------------------
(* The disk worker.                                                        *)

Current == Head(mem.queue)
NextRow == Current.rows[Current.next + 1]
StreamOf(row) == IF row.kind = "definition" THEN "catalog" ELSE "requests"
Appended(m) == [m EXCEPT !.queue[1].next = @ + 1]
Fault == count.faults < MaxFaults /\ count' = [count EXCEPT !.faults = @ + 1]

\* Mutants of Take: without its queue guard; without the retry.
TakeEmpty ==
    /\ mem.up /\ mem.w = "idle" /\ (mem.failed => mem.retry)
    /\ mem' = [mem EXCEPT !.w = "write", !.failed = FALSE]
    /\ UNCHANGED <<clock, disk, synced, marker, arch, ans, fl, rd, life, count>>
TakeNoRetry ==
    /\ mem.up /\ mem.w = "idle" /\ mem.queue # <<>> /\ ~mem.failed
    /\ mem' = [mem EXCEPT !.w = "write"]
    /\ UNCHANGED <<clock, disk, synced, marker, arch, ans, fl, rd, life, count>>

Take ==
    /\ mem.up /\ mem.w = "idle" /\ mem.queue # <<>> /\ (mem.failed => mem.retry)
    /\ mem' = [mem EXCEPT !.w = "write", !.failed = FALSE, !.retry = IF mem.failed THEN FALSE ELSE @]
    /\ UNCHANGED <<clock, disk, synced, marker, arch, ans, fl, rd, life, count>>

Writing == mem.up /\ mem.w = "write" /\ ~mem.fatal /\ Current.next < Len(Current.rows)

\* A catalog row that was committed for this hour is not written again.
SkipRow ==
    /\ Writing /\ NextRow = CatalogRow /\ mem.catalog = Current.hour
    /\ mem' = Appended(mem)
    /\ UNCHANGED <<clock, disk, synced, marker, arch, ans, fl, rd, life, count>>

\* The stream's file of an earlier hour is synced before the next is opened.
Rotated(s, hour) ==
    IF mem.files[s] \in {NoHour, hour} THEN synced
    ELSE [synced EXCEPT ![<<mem.files[s], s>>] = Len(disk[<<mem.files[s], s>>])]

AppendRow ==
    /\ Writing /\ ~(NextRow = CatalogRow /\ mem.catalog = Current.hour)
    /\ LET s == StreamOf(NextRow)  hour == Current.hour
       IN  /\ disk' = [disk EXCEPT ![<<hour, s>>] = Append(@, NextRow)]
           /\ synced' = Rotated(s, hour)
           /\ mem' = [Appended(mem) EXCEPT !.files[s] = hour,
                                           !.catalog = IF s = "catalog" THEN hour ELSE @]
    /\ UNCHANGED <<clock, marker, arch, ans, fl, rd, life, count>>

\* A short write is cut back; when the cut fails too, no later append is proved.
AppendFails ==
    /\ Writing /\ Fault
    /\ \E fatal \in BOOLEAN : mem' = [mem EXCEPT !.w = "fail", !.fatal = fatal]
    /\ UNCHANGED <<clock, disk, synced, marker, arch, ans, fl, rd, life>>

AppendRefused ==
    /\ mem.up /\ mem.w = "write" /\ mem.fatal
    /\ mem' = [mem EXCEPT !.w = "fail"]
    /\ UNCHANGED <<clock, disk, synced, marker, arch, ans, fl, rd, life, count>>

\* The final row is written: the open row goes, unless a later event replaced it.
Commit ==
    /\ mem.up /\ mem.w = "write" /\ ~mem.fatal /\ Current.next = Len(Current.rows)
    /\ LET r == Current.req
       IN  mem' = IF Current.final # 0 /\ mem.open[r].ver = Current.final
                  THEN [mem EXCEPT !.w = "sync", !.open[r] = NoRow] ELSE [mem EXCEPT !.w = "sync"]
    /\ UNCHANGED <<clock, disk, synced, marker, arch, ans, fl, rd, life, count>>

\* Mutant of SyncOpen: the files are not synced.
SyncNothing == synced

SyncOpen ==
    [x \in Segments |-> IF mem.files[x[2]] = x[1] THEN Len(disk[x]) ELSE synced[x]]

Sync ==
    /\ mem.up /\ mem.w = "sync"
    /\ synced' = IF Current.sync THEN SyncOpen ELSE synced
    /\ mem' = [mem EXCEPT !.w = IF Current.terminal THEN "terminal" ELSE "done", !.queue[1].sync = FALSE]
    /\ UNCHANGED <<clock, disk, marker, arch, ans, fl, rd, life, count>>

SyncFails ==
    /\ mem.up /\ mem.w \in {"sync", "terminal"} /\ (mem.w = "sync" => Current.sync) /\ Fault
    /\ mem' = [mem EXCEPT !.w = "fail"]
    /\ UNCHANGED <<clock, disk, synced, marker, arch, ans, fl, rd, life>>

MarkClean ==
    /\ mem.up /\ mem.w = "terminal"
    /\ marker' = [marker EXCEPT !.clean = TRUE]
    /\ mem' = [mem EXCEPT !.w = "done"]
    /\ UNCHANGED <<clock, disk, synced, arch, ans, fl, rd, life, count>>

Answered(answers, queue, n, answer) ==
    [c \in DOMAIN answers |->
        IF \E i \in 1..n : queue[i].done = c THEN answer ELSE answers[c]]

Done ==
    /\ mem.up /\ mem.w = "done"
    /\ ans' = Answered(ans, mem.queue, 1, "ok")
    /\ mem' = [mem EXCEPT !.w = IF Current.terminal THEN "gone" ELSE "idle",
                          !.queue = Tail(@),
                          !.finalQueued = [r \in Requests |->
                              IF Current.final # 0 /\ Current.req = r /\ @[r] = Current.final THEN 0 ELSE @[r]]]
    /\ UNCHANGED <<clock, disk, synced, marker, arch, fl, rd, life, count>>

\* Mutant of Fail: only the waiter of the failed batch is answered.
FailAnswersFirst ==
    /\ mem.up /\ mem.w = "fail"
    /\ ans' = Answered(ans, mem.queue, 1, "error")
    /\ mem' = [mem EXCEPT !.w = "idle", !.failure = TRUE, !.failed = TRUE, !.retry = FALSE,
                          !.queue = [i \in DOMAIN @ |-> [@[i] EXCEPT !.done = "nobody"]]]
    /\ UNCHANGED <<clock, disk, synced, marker, arch, fl, rd, life, count>>

\* The failure is sticky; every waiter of the queue is answered, the batches stay.
Fail ==
    /\ mem.up /\ mem.w = "fail"
    /\ ans' = Answered(ans, mem.queue, Len(mem.queue), "error")
    /\ mem' = [mem EXCEPT !.w = "idle", !.failure = TRUE, !.failed = TRUE, !.retry = FALSE,
                          !.queue = [i \in DOMAIN @ |-> [@[i] EXCEPT !.done = "nobody"]]]
    /\ UNCHANGED <<clock, disk, synced, marker, arch, fl, rd, life, count>>

---------------------------------------------------------------------------
(* Flush: a synced barrier, the archive of past hours, their removal.      *)

NewFlush == [pc |-> "idle", now |-> NoHour, hour |-> NoHour, deleting |-> FALSE]

\* Mutant of RetryBarrier: the rows left closing are not submitted again.
RetryBarrierOnly(m, sync, done) == Enqueue([m EXCEPT !.retry = TRUE], BarrierBatch(sync, FALSE, done))

\* A retrying barrier submits the rows left closing and wakes a failed worker.
RetryBarrier(m, sync, done) ==
    Enqueue([EnqueueClosing(m) EXCEPT !.retry = TRUE], BarrierBatch(sync, FALSE, done))

Flush ==
    /\ mem.up /\ ~mem.closed /\ fl.pc = "idle" /\ Len(mem.queue) <= MaxQueue
    /\ mem' = RetryBarrier([mem EXCEPT !.frontier = Receipt(mem)], TRUE, "flush")
    /\ ans' = [ans EXCEPT !["flush"] = "waiting"]
    /\ fl' = [fl EXCEPT !.pc = "drain"]
    /\ UNCHANGED <<clock, disk, synced, marker, arch, rd, life, count>>

FlushFails ==
    /\ mem.up /\ fl.pc \in {"drain", "seal"} /\ ans["flush"] = "error"
    /\ ans' = [ans EXCEPT !["flush"] = "none"]
    /\ fl' = NewFlush
    /\ UNCHANGED <<clock, disk, synced, marker, arch, mem, rd, life, count>>

\* archive: the append frontier is sealed once its whole prefix is written.
Seal ==
    /\ mem.up /\ fl.pc = "drain" /\ ans["flush"] = "ok"
    /\ LET m == [mem EXCEPT !.frontier = Receipt(mem)]
       IN  mem' = RetryBarrier(m, FALSE, "flush") /\ fl' = [fl EXCEPT !.pc = "seal", !.now = m.frontier]
    /\ ans' = [ans EXCEPT !["flush"] = "waiting"]
    /\ UNCHANGED <<clock, disk, synced, marker, arch, rd, life, count>>

Sealed ==
    /\ mem.up /\ fl.pc = "seal" /\ ans["flush"] = "ok"
    /\ ans' = [ans EXCEPT !["flush"] = "none"]
    /\ fl' = [fl EXCEPT !.pc = "upload", !.hour = 0, !.deleting = TRUE]
    /\ UNCHANGED <<clock, disk, synced, marker, arch, mem, rd, life, count>>

NextHour(f) == [f EXCEPT !.pc = "upload", !.hour = @ + 1]
Past(h) == h < fl.now /\ \E s \in Streams : disk[<<h, s>>] # <<>>

FlushEnds ==
    /\ mem.up /\ fl.pc = "upload"
    /\ IF fl.hour >= fl.now THEN fl' = NewFlush ELSE ~Past(fl.hour) /\ fl' = NextHour(fl)
    /\ UNCHANGED <<clock, disk, synced, marker, arch, mem, ans, rd, life, count>>

\* An object that exists is left as it is; a stream without files has none.
Uploaded(h) ==
    [x \in Segments |-> IF x[1] = h /\ arch[x] = NoObject /\ disk[x] # <<>> THEN disk[x] ELSE arch[x]]

Upload ==
    /\ mem.up /\ fl.pc = "upload" /\ fl.hour < fl.now /\ Past(fl.hour)
    /\ arch' = IF fl.hour \in mem.archived THEN arch ELSE Uploaded(fl.hour)
    /\ mem' = [mem EXCEPT !.archived = @ \cup {fl.hour}]
    /\ fl' = [fl EXCEPT !.pc = "retain", !.deleting = @ /\ fl.now >= fl.hour + Retention]
    /\ UNCHANGED <<clock, disk, synced, marker, ans, rd, life, count>>

UploadFails ==
    /\ mem.up /\ fl.pc = "upload" /\ fl.hour < fl.now /\ Past(fl.hour) /\ fl.hour \notin mem.archived /\ Fault
    /\ fl' = [NextHour(fl) EXCEPT !.deleting = FALSE]
    /\ UNCHANGED <<clock, disk, synced, marker, arch, mem, ans, rd, life>>

\* Mutant of Unsettled: retention does not look at the open rows.
UnsettledNever(h) == FALSE

Unsettled(h) == \E r \in Requests : mem.open[r] # NoRow /\ mem.open[r].hour \in 0..h

\* Mutant of Retain: an hour is removed although its upload failed or its retention is not over.
RetainUnarchived ==
    /\ mem.up /\ fl.pc \in {"upload", "retain"} /\ Past(fl.hour) /\ fl.hour < fl.now
    /\ fl' = IF ~Unsettled(fl.hour) THEN [fl EXCEPT !.pc = "removing"] ELSE NextHour(fl)
    /\ UNCHANGED <<clock, disk, synced, marker, arch, mem, ans, rd, life, count>>

\* removeHour: an hour is kept, with every later one, for a request it may have to drain.
Retain ==
    /\ mem.up /\ fl.pc = "retain"
    /\ fl' = IF fl.deleting /\ ~Unsettled(fl.hour) THEN [fl EXCEPT !.pc = "removing"]
             ELSE [NextHour(fl) EXCEPT !.deleting = FALSE]
    /\ UNCHANGED <<clock, disk, synced, marker, arch, mem, ans, rd, life, count>>

Without(rows, i) == SubSeq(rows, 1, i - 1) \o SubSeq(rows, i + 1, Len(rows))

\* RemoveAll removes the minute files of a directory one after the other, in any order.
RemoveFile ==
    /\ mem.up /\ fl.pc = "removing"
    /\ \E s \in Streams : LET x == <<fl.hour, s>> IN \E i \in DOMAIN disk[x] :
        /\ disk' = [disk EXCEPT ![x] = Without(@, i)]
        /\ synced' = [synced EXCEPT ![x] = IF i <= @ THEN @ - 1 ELSE @]
    /\ mem' = [mem EXCEPT !.removing = {fl.hour}]
    /\ UNCHANGED <<clock, marker, arch, ans, fl, rd, life, count>>

\* Only a complete removal takes the segments of the hour out of the index.
Removed ==
    /\ mem.up /\ fl.pc = "removing"
    /\ \/ ~Past(fl.hour) /\ fl' = NextHour(fl) /\ mem' = [mem EXCEPT !.removing = {}] /\ UNCHANGED count
       \/ Past(fl.hour) /\ Fault /\ fl' = [NextHour(fl) EXCEPT !.deleting = FALSE] /\ UNCHANGED mem
    /\ UNCHANGED <<clock, disk, synced, marker, arch, ans, rd, life>>

---------------------------------------------------------------------------
(* A reader captures the written prefix and the open rows.                 *)

NoStages == [r \in Requests |-> 0]
NewRead == [pc |-> "idle", asked |-> NoStages, shown |-> NoStages]

\* What the log acknowledged of a request: an assignment, a final row.
Told(r) ==
    IF life[r] = "assigned" THEN 1
    ELSE IF life[r] = "closed" /\ ~mem.failure THEN 2 ELSE IF life[r] = "closed" THEN 1 ELSE 0

Read ==
    /\ mem.up /\ rd.pc = "idle" /\ ~Refused(mem) /\ count.reads < MaxReads
    /\ count' = [count EXCEPT !.reads = @ + 1]
    /\ mem' = Enqueue(mem, BarrierBatch(FALSE, FALSE, "read"))
    /\ ans' = [ans EXCEPT !["read"] = "waiting"]
    /\ rd' = [NewRead EXCEPT !.pc = "waiting", !.asked = [r \in Requests |-> Told(r)]]
    /\ UNCHANGED <<clock, disk, synced, marker, arch, fl, life>>

\* requestRows: a final row, else the open row, else the assigned one; archived hours that are not local.
Shown(r) ==
    LET kinds == Local(r) \cup ArchivedIn(Hours \ LocalHours(mem), r)
    IN  IF "final" \in kinds THEN 2 ELSE IF mem.open[r] # NoRow THEN 1 ELSE StageOf(kinds)

\* Mutant of Capture: captureMu is not taken, a removal may be half-way.
CaptureDuringRemoval ==
    /\ mem.up /\ rd.pc = "waiting" /\ ans["read"] = "ok"
    /\ ans' = [ans EXCEPT !["read"] = "none"]
    /\ rd' = [rd EXCEPT !.pc = "idle", !.shown = [r \in Requests |-> Shown(r)]]
    /\ UNCHANGED <<clock, disk, synced, marker, arch, mem, fl, life, count>>

\* captureMu: no hour is being removed while the selected files are opened.
Capture ==
    /\ mem.up /\ rd.pc = "waiting" /\ ans["read"] = "ok" /\ fl.pc # "removing" /\ mem.removing = {}
    /\ ans' = [ans EXCEPT !["read"] = "none"]
    /\ rd' = [rd EXCEPT !.pc = "idle", !.shown = [r \in Requests |-> Shown(r)]]
    /\ UNCHANGED <<clock, disk, synced, marker, arch, mem, fl, life, count>>

\* The barrier failed, or an indexed file is gone after a removal that failed half-way.
ReadFails ==
    /\ mem.up /\ rd.pc = "waiting"
    /\ ans["read"] = "error" \/ (ans["read"] = "ok" /\ fl.pc # "removing" /\ mem.removing # {})
    /\ ans' = [ans EXCEPT !["read"] = "none"]
    /\ rd' = NewRead
    /\ UNCHANGED <<clock, disk, synced, marker, arch, mem, fl, life, count>>

---------------------------------------------------------------------------
(* Close, exits, crashes and the next process.                             *)

\* Mutant of Close: the rows left closing after a failure are not submitted.
CloseForgetsClosing ==
    /\ mem.up /\ ~mem.closed /\ fl.pc = "idle"
    /\ mem' = [Enqueue(mem, BarrierBatch(TRUE, TRUE, "close")) EXCEPT !.closed = TRUE, !.retry = TRUE]
    /\ ans' = [ans EXCEPT !["close"] = "waiting"]
    /\ UNCHANGED <<clock, disk, synced, marker, arch, fl, rd, life, count>>

\* The running Flush ended before; the terminal batch follows the rows left closing.
Close ==
    /\ mem.up /\ ~mem.closed /\ fl.pc = "idle"
    /\ mem' = [Enqueue(EnqueueClosing(mem), BarrierBatch(TRUE, TRUE, "close")) EXCEPT !.closed = TRUE, !.retry = TRUE]
    /\ ans' = [ans EXCEPT !["close"] = "waiting"]
    /\ UNCHANGED <<clock, disk, synced, marker, arch, fl, rd, life, count>>

Stopped == /\ fl' = NewFlush
           /\ rd' = NewRead
           /\ ans' = [c \in DOMAIN ans |-> "none"]
           /\ life' = [r \in Requests |-> IF life[r] \in {"none", "refused"} THEN life[r]
                                          ELSE IF Restorable(r)' THEN "assigned" ELSE "over"]
           /\ mem' = [NewMem([r \in Requests |-> NoRow]) EXCEPT !.up = FALSE]

\* The process ends, after Close or after its failure.
Exit ==
    /\ mem.up /\ mem.closed /\ ans["close"] \in {"ok", "error"}
    /\ UNCHANGED <<clock, disk, synced, marker, arch, count>>
    /\ Stopped

\* A crash of the process keeps every complete line; one of the machine only the synced ones, of each file.
Crash ==
    /\ mem.up
    /\ \/ "process" \in CrashKinds /\ UNCHANGED <<disk, synced>>
       \/ /\ "machine" \in CrashKinds
          /\ \E kept \in [Segments -> 0..(3 * Cardinality(Requests))] :
                /\ \A x \in Segments : synced[x] <= kept[x] /\ kept[x] <= Len(disk[x])
                /\ disk' = [x \in Segments |-> SubSeq(disk[x], 1, kept[x])]
                /\ synced' = kept
    /\ UNCHANGED <<clock, marker, arch, count>>
    /\ Stopped

\* startRun and restore: assigned requests without a final row are open again.
Start ==
    /\ ~mem.up /\ count.runs < MaxRuns
    /\ count' = [count EXCEPT !.runs = @ + 1]
    /\ marker' = [clean |-> FALSE, unknown |-> marker.unknown \/ ~marker.clean]
    /\ mem' = NewMem([r \in Requests |->
                  IF Restorable(r) THEN [ver |-> 1, closing |-> FALSE, hour |-> HourOfAssigned(r)] ELSE NoRow])
    /\ UNCHANGED <<clock, disk, synced, arch, ans, fl, rd, life>>

Tick ==
    /\ clock < MaxHour
    /\ clock' = clock + 1
    /\ UNCHANGED <<disk, synced, marker, arch, mem, ans, fl, rd, life, count>>

\* The wall clock is set back while the process runs.
SetBack ==
    /\ clock > 0 /\ mem.up /\ count.back < MaxBack
    /\ clock' = clock - 1
    /\ count' = [count EXCEPT !.back = @ + 1]
    /\ UNCHANGED <<disk, synced, marker, arch, mem, ans, fl, rd, life>>

Init ==
    /\ clock = 0
    /\ disk = [x \in Segments |-> <<>>]
    /\ synced = [x \in Segments |-> 0]
    /\ marker = [clean |-> FALSE, unknown |-> FALSE]
    /\ arch = [x \in Segments |-> NoObject]
    /\ mem = NewMem([r \in Requests |-> NoRow])
    /\ ans = [c \in {"flush", "read", "close"} |-> "none"]
    /\ fl = NewFlush
    /\ rd = NewRead
    /\ life = [r \in Requests |-> "none"]
    /\ count = [folds |-> [r \in Requests |-> 0], faults |-> 0, back |-> 0, runs |-> 1, reads |-> 0]

Producers == \E r \in Requests : Assign(r) \/ Backend(r) \/ RequestClosed(r)
Worker ==
    \/ Take \/ SkipRow \/ AppendRow \/ AppendFails \/ AppendRefused \/ Commit
    \/ Sync \/ SyncFails \/ MarkClean \/ Done \/ Fail
Flusher ==
    \/ FlushFails \/ Seal \/ Sealed \/ FlushEnds \/ Upload \/ UploadFails \/ Retain \/ RemoveFile \/ Removed
Next ==
    \/ Producers \/ Worker \/ Flush \/ Flusher \/ Read \/ Capture \/ ReadFails
    \/ Close \/ Exit \/ Crash \/ Start \/ Tick \/ SetBack

Spec == Init /\ [][Next]_vars

---------------------------------------------------------------------------
(* Properties.                                                             *)

TypeOK ==
    /\ clock \in Hours
    /\ \A x \in Segments : synced[x] <= Len(disk[x])
    /\ mem.open \in [Requests -> [ver : Nat, closing : BOOLEAN, hour : Hours \cup {NoHour}]]
    /\ mem.w \in {"idle", "write", "sync", "terminal", "done", "fail", "gone"}
    /\ mem.w \in {"write", "sync", "terminal", "done"} => mem.queue # <<>>
    /\ fl.pc \in {"idle", "drain", "seal", "upload", "retain", "removing"}

\* A waiter's channel is in the queue until it is answered: no failure, retry or Close leaves a Flush, a
\* reader or Close waiting for a batch that nobody answers (writeLoop's failure branch, Close).
WaitersAreQueued ==
    mem.up => \A c \in DOMAIN ans : ans[c] = "waiting" => \E i \in DOMAIN mem.queue : mem.queue[i].done = c

\* A marker that is clean, with no unclean run before, proves that every assignment and every end that was
\* acknowledged is on stable storage, failures and retries included: what startRun concludes from it.
CleanIsComplete ==
    marker.clean /\ ~marker.unknown => \A r \in Requests :
        /\ life[r] \in {"assigned", "lost"} => Stable(r) >= 1
        /\ life[r] \in {"closed", "over"} => Stable(r) = 2

\* Within an hour the definition's catalog row precedes the request rows that name it, in the files and in
\* the archive object: an archived hour can be read without any other (freezeBatchLocked's references).
HourIsSelfContained ==
    mem.up => \A h \in Hours :
        /\ disk[<<h, "requests">>] # <<>> /\ h \notin mem.removing => disk[<<h, "catalog">>] # <<>>
        /\ arch[<<h, "requests">>] # NoObject => arch[<<h, "catalog">>] # NoObject

\* A capture shows every request at least as far as the log had acknowledged it when the reader asked:
\* appends, folds, archiving and removal race with it (capture, prepare, requestRows).
CaptureShowsAcknowledged ==
    rd.pc = "idle" => \A r \in Requests : rd.shown[r] >= rd.asked[r]

\* An archived object holds every row its hour ever gets: no receipt falls into an hour the archive sealed,
\* with the clock set back as well (receiptLocked, archive's barrier).
ArchivedHourIsClosed ==
    \A h \in mem.archived : \A s \in Streams :
        /\ arch[<<h, s>>] # NoObject => \A i \in DOMAIN disk[<<h, s>>] : disk[<<h, s>>][i] \in ToSet(arch[<<h, s>>])
        /\ \A i \in DOMAIN mem.queue : mem.queue[i].rows # <<>> => mem.queue[i].hour # h

\* Retention keeps the assigned row of a request that a restart would have to drain.
UnsettledIsRestorable ==
    mem.up => \A r \in Requests :
        (mem.open[r] # NoRow /\ \A i \in DOMAIN mem.queue : mem.queue[i].req # r) => "assigned" \in Local(r)

\* A restart drains only requests without a final row (RuntimeFacts: "the assigned requests without a final
\* row that a restart must drain", observation_log.go 335).
RestoredHasNoFinal ==
    \A r \in Requests : Restorable(r) => "final" \notin ArchivedIn(Hours, r)

\* Open rows are in the queue or written: what the process knows of a request.
Known(r) ==
    LET written == StageOf(Local(r) \cup ArchivedIn(Hours, r))
        open == IF mem.open[r] = NoRow THEN 0 ELSE IF mem.open[r].closing THEN 2 ELSE 1
    IN  IF open > written THEN open ELSE written

\* The log implements the ledger of requests: what is stable is never lost, whatever fails, crashes, is
\* archived or removed.
Ledger == INSTANCE RequestLedger WITH
    known <- [r \in Requests |-> Known(r)], stable <- [r \in Requests |-> Stable(r)]
ImplementsLedger == Ledger!Spec

\* Every Flush and every Close is answered: the worker runs, and a failed one is woken by their retry.
FlushAnswered == (ans["flush"] = "waiting") ~> (ans["flush"] # "waiting")
CloseAnswered == (ans["close"] = "waiting") ~> (ans["close"] # "waiting")
\* A request that was closed gets its final row as long as a Flush follows each failure and none is fatal.
ClosedIsWritten ==
    \A r \in Requests : (life[r] = "closed" /\ ~mem.fatal) ~> (mem.fatal \/ mem.closed \/ ~mem.up \/ "final" \in Local(r) \cup ArchivedIn(Hours, r))

FairSpec == Spec /\ WF_vars(Worker) /\ WF_vars(Flusher) /\ WF_vars(Flush)
==============================================================================
