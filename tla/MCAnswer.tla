------------------------------ MODULE MCAnswer ------------------------------
(***************************************************************************)
(* Liveness of Runtime.  A behaviour meets either what can keep a request  *)
(* from its answer or what can keep a slot from being given back.  The     *)
(* fair actions do not depend on Env, so Fairness is the same for both.    *)
(***************************************************************************)
EXTENDS MCRuntime

VARIABLE scene

AnswerEnv == {"refuse", "leave", "expire", "logfail"}
SlotsEnv == {"break", "exit"}

Answer == INSTANCE Runtime WITH Env <- AnswerEnv
Slots == INSTANCE Runtime WITH Env <- SlotsEnv

SceneInit == Init /\ scene \in {"answer", "slots"}

SceneNext == \/ scene = "answer" /\ Answer!Next /\ UNCHANGED scene
             \/ scene = "slots" /\ Slots!Next /\ UNCHANGED scene

SceneSpec == /\ SceneInit
             /\ [][SceneNext]_<<vars, scene>>
             /\ Fairness
=============================================================================
