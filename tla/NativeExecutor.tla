--------------------------- MODULE NativeExecutor ---------------------------
(***************************************************************************)
(* What the ingress owner relies on a native executor for, and what module *)
(* Runtime assumes of it (NativeAdmit, NativeFinish, NativeExit there): a  *)
(* request is admitted at most once, executes at most once, and whatever   *)
(* says that its execution is complete (an answer, a progress line, the    *)
(* container's end) is said when the executor no longer holds it.          *)
(***************************************************************************)
CONSTANTS Requests

VARIABLES
    held,   \* requests the executor holds, waiting or executing
    over,   \* requests it does not hold and will never hold again
    told    \* requests whose execution was reported complete

Init == held = {} /\ over = {} /\ told = {}

Admit(r) ==
    /\ r \notin held \cup over
    /\ held' = held \cup {r}
    /\ UNCHANGED <<over, told>>

\* A request is refused, or ends after it was held; the end may be reported in
\* the same step.
End(R) ==
    /\ R # {} /\ R \cap over = {}
    /\ held' = held \ R
    /\ over' = over \cup R
    /\ \E T \in SUBSET R : told' = told \cup T

Report(r) ==
    /\ r \in over
    /\ told' = told \cup {r}
    /\ UNCHANGED <<held, over>>

Next ==
    \/ \E r \in Requests : Admit(r) \/ Report(r)
    \/ \E R \in SUBSET Requests : End(R)

Spec == Init /\ [][Next]_<<held, over, told>>
==============================================================================
