----------------------------- MODULE RequestLedger -----------------------------
(***************************************************************************)
(* What the observation log promises of a request: it is unknown, assigned *)
(* or final; the process knows at least what storage holds; what storage   *)
(* holds is never lost; a crash loses at most what it did not hold.        *)
(***************************************************************************)
EXTENDS Integers

CONSTANT Requests

Unknown == 0
Assigned == 1
Final == 2
Stages == Unknown..Final

VARIABLES
    known,   \* the stage the process would report
    stable   \* the stage that survives every crash

Init == known = [r \in Requests |-> Unknown] /\ stable = known

Learn ==
    /\ known' \in [Requests -> Stages]
    /\ \A r \in Requests : known'[r] >= known[r]
    /\ UNCHANGED stable

Store ==
    /\ stable' \in [Requests -> Stages]
    /\ \A r \in Requests : stable[r] <= stable'[r] /\ stable'[r] <= known[r]
    /\ UNCHANGED known

Crash ==
    /\ known' \in [Requests -> Stages]
    /\ stable' \in [Requests -> Stages]
    /\ \A r \in Requests : stable[r] <= stable'[r] /\ stable'[r] <= known'[r] /\ known'[r] <= known[r]

Spec == Init /\ [][Learn \/ Store \/ Crash]_<<known, stable>>
==============================================================================
