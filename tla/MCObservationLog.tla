--------------------------- MODULE MCObservationLog ---------------------------
(***************************************************************************)
(* Instances of ObservationLog.  A behaviour belongs to one of the scenes: *)
(* failures of writes and syncs with two requests, crashes of the process  *)
(* and of the machine while hours are archived, retention with a reader    *)
(* and a clock that is set back, and waiters that have to be answered.     *)
(***************************************************************************)
EXTENDS Integers

CONSTANTS r1, r2

VARIABLES clock, disk, synced, marker, arch, mem, ans, fl, rd, life, count, scene

vars == <<clock, disk, synced, marker, arch, mem, ans, fl, rd, life, count, scene>>

Zero == 0
One == 1
Two == 2
Three == 3
Six == 6
OneRequest == {r1}
TwoRequests == {r1, r2}
NoCrash == {}
EitherCrash == {"process", "machine"}

Fail == INSTANCE ObservationLog WITH
    Requests <- TwoRequests, MaxHour <- Zero, Retention <- One, MaxFolds <- Zero,
    MaxFaults <- Two, MaxBack <- Zero, MaxRuns <- One, CrashKinds <- NoCrash,
    MaxReads <- Zero, MaxQueue <- Three

Crash == INSTANCE ObservationLog WITH
    Requests <- OneRequest, MaxHour <- One, Retention <- One, MaxFolds <- Zero,
    MaxFaults <- One, MaxBack <- Zero, MaxRuns <- Three, CrashKinds <- EitherCrash,
    MaxReads <- Zero, MaxQueue <- Three

Removal == INSTANCE ObservationLog WITH
    Requests <- OneRequest, MaxHour <- Two, Retention <- One, MaxFolds <- Zero,
    MaxFaults <- Zero, MaxBack <- One, MaxRuns <- One, CrashKinds <- NoCrash,
    MaxReads <- One, MaxQueue <- One

Answer == INSTANCE ObservationLog WITH
    Requests <- OneRequest, MaxHour <- Zero, Retention <- One, MaxFolds <- One,
    MaxFaults <- Two, MaxBack <- Zero, MaxRuns <- One, CrashKinds <- NoCrash,
    MaxReads <- One, MaxQueue <- Six

ASSUME LogAssumption ==
       /\ Fail!ObservationLogAssumption /\ Crash!ObservationLogAssumption
       /\ Removal!ObservationLogAssumption /\ Answer!ObservationLogAssumption

Init == \/ scene = "fail" /\ Fail!Init
        \/ scene = "crash" /\ Crash!Init
        \/ scene = "removal" /\ Removal!Init
        \/ scene = "answer" /\ Answer!Init

Next == /\ \/ scene = "fail" /\ Fail!Next
           \/ scene = "crash" /\ Crash!Next
           \/ scene = "removal" /\ Removal!Next
           \/ scene = "answer" /\ Answer!Next
        /\ UNCHANGED scene

Spec == Init /\ [][Next]_vars

\* The fairness of ObservationLog, for the scene about progress.
Turn(A) == scene = "answer" /\ A /\ UNCHANGED scene
FairSpec == Spec /\ WF_vars(Turn(Answer!Worker)) /\ WF_vars(Turn(Answer!Flusher)) /\ WF_vars(Turn(Answer!Flush))

-----------------------------------------------------------------------------
(* The properties of ObservationLog in the scenes that endanger them.      *)

\* ObservationLog.TypeOK with failures and retries.
TypeOK == /\ scene = "fail" => Fail!TypeOK
          /\ scene = "answer" => Answer!TypeOK

\* ObservationLog.WaitersAreQueued with failures and retries.
WaitersAreQueued == /\ scene = "fail" => Fail!WaitersAreQueued
                    /\ scene = "answer" => Answer!WaitersAreQueued

\* ObservationLog.CleanIsComplete over failures, and over crashes.
CleanIsComplete == /\ scene = "fail" => Fail!CleanIsComplete
                   /\ scene = "answer" => Answer!CleanIsComplete
                   /\ scene = "crash" => Crash!CleanIsComplete

\* ObservationLog.HourIsSelfContained while hours pass.
HourIsSelfContained == scene = "removal" => Removal!HourIsSelfContained

\* ObservationLog.CaptureShowsAcknowledged against removal.
CaptureShowsAcknowledged == scene = "removal" => Removal!CaptureShowsAcknowledged

\* ObservationLog.ArchivedHourIsClosed with a clock that is set back.
ArchivedHourIsClosed == scene = "removal" => Removal!ArchivedHourIsClosed

\* ObservationLog.UnsettledIsRestorable against removal.
UnsettledIsRestorable == scene = "removal" => Removal!UnsettledIsRestorable

\* ObservationLog.ImplementsLedger over crashes; the other scenes have one boot.
Ledger == INSTANCE RequestLedger WITH
    Requests <- OneRequest,
    known <- [r \in OneRequest |-> IF scene = "crash" THEN Crash!Known(r) ELSE 0],
    stable <- [r \in OneRequest |-> IF scene = "crash" THEN Crash!Stable(r) ELSE 0]
ImplementsLedger == Ledger!Spec

\* ObservationLog.FlushAnswered, CloseAnswered and ClosedIsWritten.
Waits(c) == scene = "answer" /\ ans[c] = "waiting"
FlushAnswered == Waits("flush") ~> ans["flush"] # "waiting"
CloseAnswered == Waits("close") ~> ans["close"] # "waiting"
Closed(r) == scene = "answer" /\ life[r] = "closed" /\ ~mem.fatal
Written(r) == mem.fatal \/ mem.closed \/ ~mem.up
              \/ "final" \in Answer!Local(r) \cup Answer!ArchivedIn(Answer!Hours, r)
ClosedIsWritten == \A r \in OneRequest : Closed(r) ~> Written(r)

\* An hour in the archive is closed, complete and restorable.
HoursSound == HourIsSelfContained /\ ArchivedHourIsClosed /\ UnsettledIsRestorable

\* The marker of a clean end is true, and every waiting caller is known to the
\* worker.
LogSound == TypeOK /\ CleanIsComplete /\ WaitersAreQueued

\* Every caller of Flush and Close is answered, and a final row that was
\* closed is written, unless the log has failed for good.
CallersAnswered == FlushAnswered /\ CloseAnswered /\ ClosedIsWritten
===============================================================================
