------------------------------ MODULE MCRuntime ------------------------------
(***************************************************************************)
(* Small instances of Runtime for TLC.                                     *)
(***************************************************************************)
EXTENDS Runtime, TLC

CONSTANTS r1, r2, w1, w2, i1, i2, n1, d1, d2, c1, c2

\* One Workload served by one shared executor with one slot.
OneSlot == i1 :> 1
OneNode == i1 :> n1
OneRouted == i1 :> {w1}
OneShared == i1 :> None
OneContract == d1 :> c1
OneProfile == i1 :> c1

\* Two definitions that execute different models; the executor runs the second.
TwoContracts == d1 :> c1 @@ d2 :> c2
SecondProfile == i1 :> c2

\* Two Workloads: i1 is shared, i2 dedicated to w1, and i2's Pod is rerouted
\* between the two all the same.
TwoSlots == i1 :> 1 @@ i2 :> 1
TwoNode == i1 :> n1 @@ i2 :> n1
TwoRouted == i1 :> {w1} @@ i2 :> {w1, w2}
TwoOwned == i1 :> None @@ i2 :> w1
TwoProfile == i1 :> c1 @@ i2 :> c1

\* Requests differ in nothing but their name.
SymmetryRequests == Permutations(Requests)
=============================================================================
