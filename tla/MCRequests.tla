------------------------------ MODULE MCRequests ------------------------------
(***************************************************************************)
(* Two requests that meet in one executor with one slot.  A behaviour      *)
(* either lets them queue and expire, or lets the server crash at any      *)
(* moment, before or after their rows reached the disk, and restores what  *)
(* the log still knows.  The properties of Runtime depend on neither Env   *)
(* nor QueueLimit.                                                         *)
(***************************************************************************)
EXTENDS MCRuntime

VARIABLE scene

FlowEnv == {"expire"}
CrashEnv == {"crash", "write"}
OneWaits == 1
BothWait == 2

Flow == INSTANCE Runtime WITH Env <- FlowEnv, QueueLimit <- OneWaits
Crashes == INSTANCE Runtime WITH Env <- CrashEnv, QueueLimit <- BothWait

SceneInit == Init /\ scene \in {"flow", "crash"}
SceneNext == \/ scene = "flow" /\ Flow!Next /\ UNCHANGED scene
             \/ scene = "crash" /\ Crashes!Next /\ UNCHANGED scene
SceneSpec == SceneInit /\ [][SceneNext]_<<vars, scene>>
==============================================================================
