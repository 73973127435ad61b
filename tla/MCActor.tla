------------------------------- MODULE MCActor -------------------------------
(***************************************************************************)
(* Instances of FirstfloorActor, one for each way it is configured.  A     *)
(* behaviour belongs to one of the scenes: the defer policy with clients   *)
(* that leave (the constants of the configuration), the drop policy with   *)
(* several profiles, a runner that fails, fixed batching, and profiling.   *)
(* Requests, limits, sizes, targets and lifetimes are those of every scene:*)
(* what FirstfloorActor says of them is checked as it stands.              *)
(***************************************************************************)
EXTENDS FirstfloorActor

CONSTANTS r1, r2, r3

VARIABLE scene

Three == {r1, r2, r3}
Sizes12 == <<1, 2>>
Energy21 == <<2, 1>>
SameKey == r1 :> "a" @@ r2 :> "a" @@ r3 :> "a"
TwoKeys == r1 :> "a" @@ r2 :> "a" @@ r3 :> "b"
SloMixed == r1 :> 3 @@ r2 :> 2 @@ r3 :> 3
OneLifetime == r1 :> 2 @@ r2 :> 0 @@ r3 :> 0
Sized == r1 :> 2 @@ r2 :> 1 @@ r3 :> 2
Margin2 == r1 :> 1 @@ r2 :> 0 @@ r3 :> 1
ShortTime == 2
AtOnce == 0
BatchOfTwo == 2
Unknown == {0}
EitherInterval == {0, 1}
EitherCap == {0, 1}

Off == 1000
Fast == [now |-> <<1, 2>>, later |-> <<1, 2>>, next |-> <<1, 2>>]
Slow == [now |-> <<2, 4>>, later |-> <<1, 1>>, next |-> <<1, 1>>]
Gap == [now |-> <<1, 1>>, later |-> <<Off, Off>>, next |-> <<1, 1>>]
AllCosts == {Fast, Slow, Gap}
TwoCosts == {Fast, Slow}
OneCost == {Slow}

DropEnv == {}
Drop == INSTANCE FirstfloorActor WITH
    DeadlinePolicy <- "drop", Key <- SameKey, Costs <- AllCosts,
    Intervals <- EitherInterval, Caps <- EitherCap, Env <- DropEnv

FaultsEnv == {"error", "exit", "term", "cancel"}
Faults == INSTANCE FirstfloorActor WITH
    Key <- SameKey, Env <- FaultsEnv, MaxTime <- ShortTime, LastArrival <- AtOnce

ErrorEnv == {"cancel", "error"}
Fixed == INSTANCE FirstfloorActor WITH
    DeadlinePolicy <- "keep", FixedBatchSize <- BatchOfTwo,
    Costs <- TwoCosts, Intervals <- Unknown, Env <- ErrorEnv

TrialsEnv == {"error"}
Trials == INSTANCE FirstfloorActor WITH
    DeadlinePolicy <- "keep", Mode <- "profiling", Key <- SameKey,
    Costs <- TwoCosts, Intervals <- Unknown, Env <- TrialsEnv, MaxTime <- ShortTime

SceneInit == Init /\ scene \in {"defer", "drop", "faults", "fixed", "trials"}

SceneNext == \/ scene = "defer" /\ Next /\ UNCHANGED scene
             \/ scene = "drop" /\ Drop!Next /\ UNCHANGED scene
             \/ scene = "faults" /\ Faults!Next /\ UNCHANGED scene
             \/ scene = "fixed" /\ Fixed!Next /\ UNCHANGED scene
             \/ scene = "trials" /\ Trials!Next /\ UNCHANGED scene

SceneSpec == SceneInit /\ [][SceneNext]_<<vars, scene>>

-----------------------------------------------------------------------------
(* What depends on the way the actor is configured, in its scene.          *)

\* FirstfloorActor.BatchSound in every scene: the queue a batch is taken from is
\* in order, a batch meets the SLO of its requests, has exactly the size that was
\* fixed, and a trial runs alone.
BatchRight == /\ scene = "defer" => BatchSound
              /\ scene = "drop" => Drop!BatchSound
              /\ scene = "faults" => Faults!BatchSound
              /\ scene = "fixed" => Fixed!BatchSound
              /\ scene = "trials" => Trials!BatchSound
=============================================================================
