-------------------------- MODULE MCFirstfloorActor --------------------------
(* Small instances of FirstfloorActor: two queue keys, profiles for batches  *)
(* of one and two where the larger batch saves energy.                       *)
EXTENDS FirstfloorActor

CONSTANTS r1, r2, r3

Sizes12 == <<1, 2>>
Energy21 == <<2, 1>>
SameKey == (r1 :> "a" @@ r2 :> "a" @@ r3 :> "a")
TwoKeys == (r1 :> "a" @@ r2 :> "a" @@ r3 :> "b")
SloMixed == (r1 :> 3 @@ r2 :> 2 @@ r3 :> 3)
NoLifetime == [r \in {r1, r2, r3} |-> 0]
OneLifetime == (r1 :> 2 @@ r2 :> 0 @@ r3 :> 0)
UnitBytes == [r \in {r1, r2, r3} |-> 1]
Margin2 == (r1 :> 1 @@ r2 :> 0 @@ r3 :> 1)
Small == (r1 :> 1 @@ r2 :> 1 @@ r3 :> 2)

Fast == [now |-> <<1, 2>>, later |-> <<1, 2>>, next |-> <<1, 2>>]
Slow == [now |-> <<2, 4>>, later |-> <<1, 1>>, next |-> <<1, 1>>]
Gap == [now |-> <<1, 1>>, later |-> <<Never, Never>>, next |-> <<1, 1>>]
AllCosts == {Fast, Slow, Gap}
TwoCosts == {Fast, Slow}

\* The runner exits at any moment, or the actor is told to stop.
\* The fair actions do not depend on Env.
VARIABLE scene
ExitEnv == {"exit"}
StopEnv == {"term"}
Exits == INSTANCE FirstfloorActor WITH Env <- ExitEnv
Stops == INSTANCE FirstfloorActor WITH Env <- StopEnv

SceneInit == Init /\ scene \in {"exit", "stop"}

SceneNext == \/ scene = "exit" /\ Exits!Next /\ UNCHANGED scene
             \/ scene = "stop" /\ Stops!Next /\ UNCHANGED scene

SceneSpec == /\ SceneInit
             /\ [][SceneNext]_<<vars, scene>>
             /\ Fairness

\* FirstfloorActor.AdmittedEnds and HandlerReturns: no request waits for ever,
\* in the actor or in its handler.
RequestsEnd == AdmittedEnds /\ HandlerReturns
==============================================================================
