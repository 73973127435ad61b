-------------------------- MODULE ReservationProofs --------------------------
(***************************************************************************)
(* What Reservation promises for any owners, actions, instances and Nodes, *)
(* whatever the executions and Kubernetes do:                              *)
(*   TypeCorrect    every variable has its type,                           *)
(*   NodesOwned     a Node belongs to one owner, who holds it while        *)
(*                  anything of his can still write it (WritersCovered),   *)
(*   DeletionIsAlone  nothing executes while a Workload is deleted,        *)
(*   NothingIsLeft  what is unsettled is on a Node that is held            *)
(*                  (NothingLeftBehind).                                   *)
(*                                                                         *)
(* An execution, a tick and a deletion take the lock in turns; each leaves *)
(* a part of what the next one needs in the ledger.  RunsInv is what the   *)
(* ledger knows of an execution, OwnersInv what is left of an owner,       *)
(* ExecInv the order of its executions and LeftInv who answers for a Pod.  *)
(***************************************************************************)
EXTENDS Reservation, TLAPS

----------------------------------------------------------------------------
(* Types                                                                      *)

Nodes == NodesOf(Instances)

Runs == [status : {"none", "running", "complete", "failed"}, reserved : BOOLEAN,
         nodes : SUBSET Nodes, insts : SUBSET Instances, routing : BOOLEAN, owns : BOOLEAN]

Memos == [returned : BOOLEAN, mayTouch : SUBSET Instances, before : SUBSET Instances]

Execs == [at : {"idle", "authorized", "acting", "acted", "recorded", "done"}, started : BOOLEAN,
          ok : BOOLEAN, created : BOOLEAN, actual : BOOLEAN, captured : BOOLEAN]

Pods == {"absent", "lost", "starting", "good", "bad", "foreign", "stopped"}

TypeOK ==
    /\ ledger \in [Owners \cup Actions -> Runs]
    /\ memo \in [Owners -> Memos]
    /\ bound \subseteq Actions
    /\ exec \in [Actions -> Execs]
    /\ pod \in [Instances -> Pods]
    /\ seen \in [Instances -> Pods]
    /\ recent \subseteq Actions
    /\ pc \in {"idle", "read", "release", "reconcile", "sweep", "last"}
    /\ todo \subseteq Owners
    /\ deletion \in {"none", "held", "over"}

----------------------------------------------------------------------------
(* The invariant                                                              *)

Executing(a) == exec[a].at \in {"authorized", "acting", "acted", "recorded"}

\* An action executes while its run is active, and the run covers it.  An undo
\* belongs to an owner that failed.
RunsInv ==
    \A a \in Actions :
        /\ Executing(a) <=> Active(a)
        /\ Active(a) => /\ ledger[a].reserved /\ ledger[a].owns
                        /\ NodesOf(Touches[a]) \subseteq ledger[a].nodes
        /\ KindOf[a] = "undo" /\ ledger[a].status # "none" => ledger[OwnerOf[a]].status = "failed"

\* A drain or removal of a stop that completed, or may still.
Owed(o) ==
    {a \in DAG(o) : /\ KindOf[a] \in {"drain", "remove"} /\ ledger[a].status = "none"
                    /\ \E s \in DAG(o) : /\ KindOf[s] = "stop" /\ Touches[s] = Touches[a]
                                         /\ ledger[s].status \in {"running", "complete"}}

\* An owner holds all its Nodes until it ends, and then those it still has to
\* write.  What was seen returned has no Nodes left.
OwnersInv ==
    \A o \in Owners :
        /\ Active(o) => ledger[o].reserved /\ LocalNodes(o) \subseteq ledger[o].nodes
        /\ ledger[o].status = "failed" =>
             \A a \in Owed(o) : ledger[o].reserved /\ NodeOf[InstanceOf(a)] \in ledger[o].nodes
        /\ memo[o].returned => Terminal(o) /\ (ledger[o].reserved => ledger[o].nodes = {})

DisjointInv == \A o \in Owners, p \in Owners : o # p => Responsible(o) \cap Responsible(p) = {}

DeletionInv == deletion = "held" => \A a \in Actions : ~Active(a)

CoverInv == RunsInv /\ OwnersInv /\ DisjointInv /\ DeletionInv

----------------------------------------------------------------------------
(* Types are kept                                                             *)

\* What the constants say of the sets built from them.
LEMMA Constants ==
    /\ Owners \cap Actions = {}
    /\ \A a \in Actions : OwnerOf[a] \in Owners /\ Touches[a] \subseteq Instances
    /\ \A o \in Owners : DAG(o) \subseteq Actions /\ Members(o) \subseteq Owners \cup Actions
    /\ \A a \in Actions : KindOf[a] # "route" => InstanceOf(a) \in Touches[a]
<1>1. ASSUME NEW a \in Actions, KindOf[a] # "route" PROVE InstanceOf(a) \in Touches[a]
  <2>1. Touches[a] # {}
    BY <1>1, ReservationAssumption
  <2> QED BY <2>1 DEF InstanceOf
<1> QED BY <1>1, ReservationAssumption DEF DAG, Members

\* A new scope is a running run that reserves and owns what it names.
LEMMA ScopeIs ==
    ASSUME TypeOK, NEW ns \in SUBSET Nodes, NEW is \in SUBSET Instances, NEW routing \in BOOLEAN
    PROVE  /\ Scope(ns, is, routing) \in Runs
           /\ Scope(ns, is, routing).status = "running" /\ Scope(ns, is, routing).reserved
           /\ Scope(ns, is, routing).owns /\ Scope(ns, is, routing).nodes = ns
           /\ Scope(ns, is, routing).routing = routing
BY DEF Scope, Runs

\* operationScope of an action, and of a transition.
LEMMA ScopesAre ==
    ASSUME TypeOK
    PROVE  /\ \A a \in Actions : /\ ActionScope(a) \in Runs /\ ActionScope(a).status = "running"
                                 /\ ActionScope(a).reserved /\ ActionScope(a).owns
                                 /\ ActionScope(a).nodes = NodesOf(Touches[a])
           /\ \A o \in Owners : /\ TransitionScope(o) \in Runs /\ TransitionScope(o).status = "running"
                                /\ TransitionScope(o).reserved
                                /\ TransitionScope(o).nodes = LocalNodes(o)
<1>1. ASSUME NEW a \in Actions
      PROVE  NodesOf(Touches[a]) \in SUBSET Nodes /\ Touches[a] \in SUBSET Instances
  BY Constants DEF NodesOf, Nodes
<1>2. ASSUME NEW o \in Owners PROVE LocalNodes(o) \in SUBSET Nodes
  <2>1. UNION {Touches[a] : a \in {b \in DAG(o) : KindOf[b] # "route"}} \subseteq Instances
    BY Constants
  <2> QED BY <2>1 DEF LocalNodes, NodesOf, Nodes
<1>3. ASSUME NEW a \in Actions
      PROVE  /\ ActionScope(a) \in Runs /\ ActionScope(a).status = "running"
             /\ ActionScope(a).reserved /\ ActionScope(a).owns
             /\ ActionScope(a).nodes = NodesOf(Touches[a])
  <2>1. (KindOf[a] = "route") \in BOOLEAN
    OBVIOUS
  <2> QED BY <1>1, <2>1, ScopeIs DEF ActionScope
<1>4. ASSUME NEW o \in Owners
      PROVE  /\ TransitionScope(o) \in Runs /\ TransitionScope(o).status = "running"
             /\ TransitionScope(o).reserved /\ TransitionScope(o).nodes = LocalNodes(o)
  <2>1. (LocalNodes(o) = {}) \in BOOLEAN /\ {} \in SUBSET Instances
    OBVIOUS
  <2> QED BY <1>2, <2>1, ScopeIs DEF TransitionScope
<1> QED BY <1>3, <1>4

\* Every variable has its type at the start,
LEMMA TypeInit == Init => TypeOK
BY ReservationAssumption DEF Init, TypeOK, Runs, Memos, Execs, Pods, NoRun, NoExec

\* Pruning takes Nodes away.
LEMMA PrunedIs ==
    ASSUME TypeOK, NEW o \in Owners, NEW r \in Owners \cup Actions, NEW back
    PROVE  /\ Pruned(o, r, back) \in Runs
           /\ Pruned(o, r, back).status = ledger[r].status
           /\ Pruned(o, r, back).nodes = ledger[r].nodes \ back
           /\ \/ /\ Pruned(o, r, back).reserved = ledger[r].reserved
                 /\ Pruned(o, r, back).owns = ledger[r].owns
              \/ /\ Pruned(o, r, back).nodes = {} /\ PendingCleanup(o) = {}
                 /\ Pruned(o, r, back).reserved = (r \in Owners)
                 /\ ~\E m \in Members(o) : Active(m)
<1> DEFINE run == [ledger[r] EXCEPT !.nodes = @ \ back, !.insts = {i \in @ : NodeOf[i] \notin back}]
<1>1. ledger[r] \in Runs
  BY DEF TypeOK
<1>2. /\ run \in Runs /\ run.status = ledger[r].status /\ run.nodes = ledger[r].nodes \ back
      /\ run.reserved = ledger[r].reserved /\ run.owns = ledger[r].owns
  BY <1>1 DEF Runs
<1>3. Pruned(o, r, back) = IF run.nodes = {} /\ run.insts = {} /\ PendingCleanup(o) = {} /\ ~\E m \in Members(o) : Active(m)
       THEN [run EXCEPT !.routing = FALSE, !.owns = FALSE, !.reserved = r \in Owners]
       ELSE run
  BY DEF Pruned
<1> HIDE DEF run
<1>4. (r \in Owners) \in BOOLEAN
  OBVIOUS
<1> QED BY ZenonT(60), <1>2, <1>3, <1>4 DEF Runs

\* What releaseObservedScopes does to a run, and when it takes an owner for
\* returned.
LEMMA ReleaseIs ==
    ASSUME TypeOK, TickRelease
    PROVE  /\ ledger' \in [Owners \cup Actions -> Runs] /\ memo' \in [Owners -> Memos]
           /\ \A o \in Owners : \A r \in Members(o) :
                 \/ ledger'[r] = ledger[r]
                 \/ Releasable(o) /\ r \in Reserved(o)
                      /\ ledger'[r] = Pruned(o, r, {n \in Held(o) : NodeReturned(o, n)})
           /\ \A o \in Owners : memo'[o].returned =>
                 \/ Terminal(o) /\ \A r \in Members(o) : ledger'[r].reserved => Empty(ledger'[r])
                 \/ memo[o].returned /\ ledger'[o] = ledger[o]
<1> DEFINE Back(o) == {n \in Held(o) : NodeReturned(o, n)}
           After(o, r) == IF Releasable(o) /\ r \in Reserved(o) THEN Pruned(o, r, Back(o)) ELSE ledger[r]
           Own(r) == IF r \in Owners THEN r ELSE OwnerOf[r]
<1>1. /\ ledger' = [r \in DOMAIN ledger |-> After(Own(r), r)]
      /\ memo' = [o \in Owners |-> IF Releasable(o)
             THEN [memo[o] EXCEPT !.returned =
                      Held(o) \subseteq Back(o) /\ \A r \in Members(o) : ledger'[r].reserved => Empty(ledger'[r])]
             ELSE memo[o]]
  BY DEF TickRelease
<1>2. /\ DOMAIN ledger = Owners \cup Actions /\ \A r \in Owners \cup Actions : ledger[r] \in Runs
      /\ \A o \in Owners : memo[o] \in Memos
  BY DEF TypeOK
<1>3. ASSUME NEW r \in Owners \cup Actions PROVE Own(r) \in Owners /\ After(Own(r), r) \in Runs
  <2>1. Own(r) \in Owners
    BY Constants
  <2> QED BY <1>2, <2>1, PrunedIs
<1>4. ASSUME NEW o \in Owners, NEW r \in Members(o) PROVE Own(r) = o /\ r \in Owners \cup Actions
  BY Constants DEF Members
<1>5. ASSUME NEW o \in Owners, NEW r \in Members(o) PROVE ledger'[r] = After(o, r)
  <2> HIDE DEF Own, After
  <2>1. r \in DOMAIN ledger /\ Own(r) = o
    BY <1>2, <1>4
  <2>2. ledger'[r] = After(Own(r), r)
    BY <1>1, <2>1
  <2> QED BY <2>1, <2>2
<1>6. ledger' \in [Owners \cup Actions -> Runs]
  <2> HIDE DEF Own, After
  <2> QED BY <1>1, <1>2, <1>3
<1>7. \A o \in Owners : o \in Members(o)
  BY DEF Members
<1> HIDE DEF Own, Back
<1>8. ASSUME NEW o \in Owners
      PROVE  /\ memo'[o] \in Memos
             /\ memo'[o].returned =>
                 \/ Terminal(o) /\ \A r \in Members(o) : ledger'[r].reserved => Empty(ledger'[r])
                 \/ memo[o].returned /\ ledger'[o] = ledger[o]
  <2>1. CASE Releasable(o)
    <3> DEFINE ret == Held(o) \subseteq Back(o) /\ \A r \in Members(o) : ledger'[r].reserved => Empty(ledger'[r])
    <3>1. ret \in BOOLEAN
      OBVIOUS
    <3> HIDE DEF ret
    <3>2. memo'[o] = [memo[o] EXCEPT !.returned = ret]
      BY <1>1, <2>1 DEF ret
    <3>3. memo'[o] \in Memos /\ memo'[o].returned = ret
      BY <1>2, <3>1, <3>2 DEF Memos
    <3> QED BY <2>1, <3>3 DEF ret, Releasable
  <2>2. CASE ~Releasable(o)
    BY <1>1, <1>2, <1>5, <1>7, <2>2
  <2> QED BY <2>1, <2>2
<1>9. memo' \in [Owners -> Memos]
  <2>1. DOMAIN memo' = Owners /\ \E f : memo' = [o \in Owners |-> f[o]]
    <3>1. memo' = [o \in Owners |-> memo'[o]]
      BY <1>1
    <3> QED BY <3>1
  <2> QED BY <1>8, <2>1
<1> QED BY <1>5, <1>6, <1>8, <1>9 DEF Back

\* reconcileOwnersLocked: owners end, the scopes of complete ones are given up,
\* a failed one that returned is let go.
LEMMA ReconcileIs ==
    ASSUME TypeOK, TickReconcile
    PROVE  /\ ledger' \in [Owners \cup Actions -> Runs] /\ memo' \in [Owners -> Memos]
           /\ \A o \in Owners :
                 /\ ledger'[o].nodes = ledger[o].nodes
                 /\ ledger'[o].status = IF Judged(o) = "same" THEN ledger[o].status ELSE Judged(o)
                 /\ ledger'[o].reserved =>
                        ledger[o].reserved /\ Judged(o) # "complete"
                 /\ ledger[o].reserved /\ Judged(o) # "complete" =>
                        ledger'[o].reserved \/ (Terminal(o) /\ memo[o].returned)
                 /\ memo'[o].returned => memo[o].returned
           /\ \A a \in Actions :
                 /\ ledger'[a].nodes = ledger[a].nodes /\ ledger'[a].owns = ledger[a].owns
                 /\ ledger'[a].status = IF Active(OwnerOf[a]) /\ EffectLost(a) THEN "failed" ELSE ledger[a].status
                 /\ ledger'[a].reserved = (ledger[a].reserved /\ Judged(OwnerOf[a]) # "complete")
<1> DEFINE New(o) == {InstanceOf(a) : a \in {b \in Bindable : OwnerOf[b] = o}}
           Back(o) == memo[o].returned /\ New(o) = {}
           Parent(o) == [ledger[o] EXCEPT !.insts = @ \cup New(o),
                             !.status = IF Judged(o) = "same" THEN @ ELSE Judged(o),
                             !.reserved = @ /\ Judged(o) # "complete" /\ ~(Terminal(o) /\ Back(o))]
           Child(a) == [ledger[a] EXCEPT !.insts = IF a \in Bindable THEN @ \cup Touches[a] ELSE @,
                             !.status = IF Active(OwnerOf[a]) /\ EffectLost(a) THEN "failed" ELSE @,
                             !.reserved = @ /\ Judged(OwnerOf[a]) # "complete"]
<1>1. /\ ledger' = [r \in DOMAIN ledger |-> IF r \in Owners THEN Parent(r) ELSE Child(r)]
      /\ memo' = [o \in Owners |-> [memo[o] EXCEPT !.returned = Back(o)]]
  BY DEF TickReconcile
<1>2. /\ DOMAIN ledger = Owners \cup Actions /\ \A r \in Owners \cup Actions : ledger[r] \in Runs
      /\ \A o \in Owners : memo[o] \in Memos
  BY DEF TypeOK
<1>3. ASSUME NEW o \in Owners PROVE New(o) \subseteq Instances
  BY Constants DEF Bindable
<1>4. ASSUME NEW o \in Owners PROVE Judged(o) \in {"same", "failed", "complete"}
  BY DEF Judged
<1>5. ASSUME NEW o \in Owners PROVE Back(o) \in BOOLEAN
  BY <1>2 DEF Memos
<1> HIDE DEF New, Back
<1>6. ASSUME NEW o \in Owners
      PROVE  /\ Parent(o) \in Runs /\ Parent(o).nodes = ledger[o].nodes
             /\ Parent(o).status = IF Judged(o) = "same" THEN ledger[o].status ELSE Judged(o)
             /\ Parent(o).reserved = (ledger[o].reserved /\ Judged(o) # "complete" /\ ~(Terminal(o) /\ Back(o)))
  BY <1>2, <1>3, <1>4 DEF Runs
<1>7. ASSUME NEW a \in Actions
      PROVE  /\ Child(a) \in Runs /\ Child(a).nodes = ledger[a].nodes /\ Child(a).owns = ledger[a].owns
             /\ Child(a).status = IF Active(OwnerOf[a]) /\ EffectLost(a) THEN "failed" ELSE ledger[a].status
             /\ Child(a).reserved = (ledger[a].reserved /\ Judged(OwnerOf[a]) # "complete")
  <2> DEFINE is == IF a \in Bindable THEN ledger[a].insts \cup Touches[a] ELSE ledger[a].insts
             st == IF Active(OwnerOf[a]) /\ EffectLost(a) THEN "failed" ELSE ledger[a].status
             held == ledger[a].reserved /\ Judged(OwnerOf[a]) # "complete"
  <2>1. ledger[a] \in Runs
    BY <1>2
  <2>2. is \in SUBSET Instances /\ st \in {"none", "running", "complete", "failed"} /\ held \in BOOLEAN
    BY <2>1, Constants DEF Runs
  <2>3. Child(a) = [ledger[a] EXCEPT !.insts = is, !.status = st, !.reserved = held]
    OBVIOUS
  <2> HIDE DEF is, st, held
  <2>4. /\ Child(a) \in Runs /\ Child(a).nodes = ledger[a].nodes /\ Child(a).owns = ledger[a].owns
        /\ Child(a).status = st /\ Child(a).reserved = held
    BY ZenonT(60), <2>1, <2>2, <2>3 DEF Runs
  <2> QED BY <2>4 DEF st, held
<1> HIDE DEF Parent, Child
<1>8. /\ \A o \in Owners : ledger'[o] = Parent(o)
      /\ \A a \in Actions : ledger'[a] = Child(a)
  BY <1>1, <1>2, Constants
<1>9. ledger' \in [Owners \cup Actions -> Runs]
  BY <1>1, <1>2, <1>6, <1>7, <1>8
<1>10. memo' \in [Owners -> Memos] /\ \A o \in Owners : memo'[o].returned = Back(o)
  BY <1>1, <1>2, <1>5 DEF Memos
<1>11. \A o \in Owners : Back(o) => memo[o].returned
  BY DEF Back
<1> QED BY ZenonT(60), <1>6, <1>7, <1>8, <1>9, <1>10, <1>11

\* A sweep starts actions of its owner, or fails it.
LEMMA SweepIs ==
    ASSUME TypeOK, NEW o \in Owners, Sweep(o)
    PROVE  /\ Launched(o) \subseteq Actions \cap Members(o)
           /\ ledger' \in [Owners \cup Actions -> Runs] /\ memo' \in [Owners -> Memos]
           /\ exec' \in [Actions -> Execs]
           /\ \A a \in Launched(o) : ledger'[a] = ActionScope(a) /\ exec'[a].at = "authorized"
           /\ \A r \in (Owners \cup Actions) \ Launched(o) :
                 \/ ledger'[r] = ledger[r]
                 \/ /\ r = o /\ Unconfirmed(o) /\ ledger'[o].status = "failed"
                    /\ ledger'[o].reserved = ledger[o].reserved /\ ledger'[o].nodes = ledger[o].nodes
           /\ \A a \in Actions \ Launched(o) : exec'[a] = exec[a]
           /\ \A p \in Owners : memo'[p].returned => memo[p].returned
<1>1. Launched(o) \subseteq Actions \cap Members(o)
  BY Constants DEF Launched, Due, Cleanup, Compensated, DAG, Members
<1>2. /\ ledger' = [r \in DOMAIN ledger |->
           IF r \in Launched(o) THEN ActionScope(r)
           ELSE IF r = o /\ Unconfirmed(o) THEN [ledger[r] EXCEPT !.status = "failed"] ELSE ledger[r]]
      /\ exec' = [a \in Actions |-> IF a \in Launched(o) THEN [NoExec EXCEPT !.at = "authorized"] ELSE exec[a]]
  BY DEF Sweep
<1>3. /\ DOMAIN ledger = Owners \cup Actions /\ \A r \in Owners \cup Actions : ledger[r] \in Runs
      /\ \A p \in Owners : memo[p] \in Memos /\ \A a \in Actions : exec[a] \in Execs
  BY DEF TypeOK
<1>4. \A a \in Actions : ActionScope(a) \in Runs
  BY ScopesAre
<1>5. ASSUME NEW r \in Owners \cup Actions
      PROVE  /\ [ledger[r] EXCEPT !.status = "failed"] \in Runs
             /\ [ledger[r] EXCEPT !.status = "failed"].status = "failed"
             /\ [ledger[r] EXCEPT !.status = "failed"].reserved = ledger[r].reserved
             /\ [ledger[r] EXCEPT !.status = "failed"].nodes = ledger[r].nodes
  BY <1>3 DEF Runs
<1>6. /\ \A a \in Launched(o) : ledger'[a] = ActionScope(a)
      /\ \A r \in (Owners \cup Actions) \ Launched(o) :
                 \/ ledger'[r] = ledger[r]
                 \/ /\ r = o /\ Unconfirmed(o) /\ ledger'[o].status = "failed"
                    /\ ledger'[o].reserved = ledger[o].reserved /\ ledger'[o].nodes = ledger[o].nodes
  BY <1>1, <1>2, <1>3, <1>5
<1>7. ledger' \in [Owners \cup Actions -> Runs]
  <2>1. ASSUME NEW r \in Owners \cup Actions PROVE ledger'[r] \in Runs
    BY <1>1, <1>2, <1>3, <1>4, <1>5
  <2>2. DOMAIN ledger' = Owners \cup Actions /\ ledger' = [r \in Owners \cup Actions |-> ledger'[r]]
    BY <1>2, <1>3
  <2> QED BY <2>1, <2>2
<1>8. /\ exec' \in [Actions -> Execs] /\ \A a \in Launched(o) : exec'[a].at = "authorized"
      /\ \A a \in Actions \ Launched(o) : exec'[a] = exec[a]
  <2>1. [NoExec EXCEPT !.at = "authorized"] \in Execs /\ [NoExec EXCEPT !.at = "authorized"].at = "authorized"
    BY DEF NoExec, Execs
  <2> QED BY <1>1, <1>2, <1>3, <2>1
<1>9. memo' \in [Owners -> Memos] /\ \A p \in Owners : memo'[p].returned => memo[p].returned
  <2> DEFINE ret == memo[o].returned /\ Launched(o) = {}
             touched == memo[o].mayTouch \cup {i \in memo[o].before :
                                NodeOf[i] \in NodesOf(UNION {Touches[a] : a \in Launched(o)})}
  <2>1. memo' = [memo EXCEPT ![o] = [@ EXCEPT !.returned = ret, !.mayTouch = touched]]
    BY <1>3 DEF Sweep, TypeOK, Memos
  <2>2. memo[o] \in Memos
    BY <1>3
  <2>3. ret \in BOOLEAN /\ touched \subseteq Instances /\ (ret => memo[o].returned)
    BY <2>2 DEF Memos
  <2> HIDE DEF ret, touched
  <2>4. /\ [memo[o] EXCEPT !.returned = ret, !.mayTouch = touched] \in Memos
        /\ [memo[o] EXCEPT !.returned = ret, !.mayTouch = touched].returned = ret
    BY <2>2, <2>3 DEF Memos
  <2>5. /\ \A p \in Owners : memo'[p] = IF p = o THEN [memo[o] EXCEPT !.returned = ret, !.mayTouch = touched] ELSE memo[p]
        /\ memo' \in [Owners -> Memos]
    BY <2>1, <2>4 DEF TypeOK
  <2> QED BY <2>3, <2>4, <2>5
<1> QED BY <1>1, <1>6, <1>7, <1>8, <1>9

\* Until the lock is taken again an execution moves only itself and its Pods.
LEMMA EffectsAre ==
    ASSUME TypeOK, NEW a \in Actions, StartFails(a) \/ Effects(a)
    PROVE  /\ exec' \in [Actions -> Execs] /\ pod' \in [Instances -> Pods]
           /\ \A b \in Actions : Executing(b)' <=> Executing(b)
           /\ UNCHANGED <<ledger, memo, bound, seen, recent, pc, todo, deletion>>
<1>1. exec[a] \in Execs /\ pod \in [Instances -> Pods] /\ exec \in [Actions -> Execs]
  BY DEF TypeOK
<1>2. ASSUME NEW ok \in BOOLEAN, NEW c \in BOOLEAN
      PROVE  /\ Found(a, ok) \in Execs /\ Found(a, ok).at = "acted"
             /\ [Found(a, ok) EXCEPT !.captured = c] \in Execs
             /\ [Found(a, ok) EXCEPT !.captured = c].at = "acted"
             /\ [Found(a, ok) EXCEPT !.at = "acting", !.created = TRUE] \in Execs
             /\ [Found(a, ok) EXCEPT !.at = "acting", !.created = TRUE].at = "acting"
  BY <1>1 DEF Found, Execs
<1>3. SUFFICES /\ \E e \in Execs : exec' = [exec EXCEPT ![a] = e] /\ e.at \in {"acting", "acted"}
               /\ exec[a].at \in {"authorized", "acting"} /\ pod' \in [Instances -> Pods]
  <2>1. PICK e \in Execs : exec' = [exec EXCEPT ![a] = e] /\ e.at \in {"acting", "acted"}
    BY <1>3
  <2>2. exec' \in [Actions -> Execs] /\ exec'[a] = e /\ \A b \in Actions : b # a => exec'[b] = exec[b]
    BY <1>1, <2>1
  <2>3. ASSUME NEW b \in Actions PROVE Executing(b)' <=> Executing(b)
    BY <1>3, <2>1, <2>2 DEF Executing
  <2>4. UNCHANGED <<ledger, memo, bound, seen, recent, pc, todo, deletion>>
    BY DEF StartFails, Effects, Create, Observed, Act
  <2> QED BY <1>3, <2>2, <2>3, <2>4
<1>4. CASE StartFails(a)
  <2>1. exec' = [exec EXCEPT ![a] = [exec[a] EXCEPT !.at = "acted"]]
    BY <1>1, <1>4 DEF StartFails
  <2>2. [exec[a] EXCEPT !.at = "acted"] \in Execs /\ [exec[a] EXCEPT !.at = "acted"].at = "acted"
    BY <1>1 DEF Execs
  <2> QED BY <1>1, <1>4, <2>1, <2>2 DEF StartFails
<1>5. CASE Create(a)
  <2>1. FALSE \in BOOLEAN
    OBVIOUS
  <2>2. pod' \in [Instances -> Pods]
    <3>1. "starting" \in Pods /\ "lost" \in Pods
      BY DEF Pods
    <3> QED BY <1>1, <1>5, <3>1 DEF Create
  <2>3. exec[a].at = "authorized"
    BY <1>5 DEF Create
  <2>4. \/ \E c \in BOOLEAN : exec' = [exec EXCEPT ![a] = [Found(a, FALSE) EXCEPT !.captured = c]]
        \/ exec' = [exec EXCEPT ![a] = [Found(a, FALSE) EXCEPT !.at = "acting", !.created = TRUE]]
        \/ exec' = [exec EXCEPT ![a] = Found(a, FALSE)]
    BY <1>5 DEF Create
  <2> QED BY <1>2, <2>1, <2>2, <2>3, <2>4
<1>6. CASE Observed(a)
  <2>1. pod' = pod /\ exec[a].at = "acting"
    BY <1>6 DEF Observed
  <2>2. \/ exec' = [exec EXCEPT ![a] = [exec[a] EXCEPT !.at = "acted", !.ok = TRUE, !.actual = TRUE]]
        \/ \E k \in BOOLEAN : exec' = [exec EXCEPT ![a] = [exec[a] EXCEPT !.at = "acted", !.actual = k]]
    <3>1. CASE exec' = [exec EXCEPT ![a].at = "acted", ![a].ok = TRUE, ![a].actual = TRUE]
      <4>1. [exec EXCEPT ![a].at = "acted", ![a].ok = TRUE, ![a].actual = TRUE]
              = [exec EXCEPT ![a] = [exec[a] EXCEPT !.at = "acted", !.ok = TRUE, !.actual = TRUE]]
        BY <1>1 DEF Execs
      <4> QED BY <3>1, <4>1
    <3>2. CASE \E known \in {FALSE, HasContainer(InstanceOf(a))} : exec' = [exec EXCEPT ![a].at = "acted", ![a].actual = known]
      <4> HasContainer(InstanceOf(a)) \in BOOLEAN
        BY DEF HasContainer
      <4>1. PICK known \in {FALSE, HasContainer(InstanceOf(a))} :
                   exec' = [exec EXCEPT ![a].at = "acted", ![a].actual = known]
        BY <3>2
      <4>2. known \in BOOLEAN
        OBVIOUS
      <4>3. [exec EXCEPT ![a].at = "acted", ![a].actual = known]
              = [exec EXCEPT ![a] = [exec[a] EXCEPT !.at = "acted", !.actual = known]]
        BY <1>1 DEF Execs
      <4> QED BY <4>1, <4>2, <4>3
    <3> QED BY <1>6, <3>1, <3>2 DEF Observed
  <2>3. /\ [exec[a] EXCEPT !.at = "acted", !.ok = TRUE, !.actual = TRUE] \in Execs
        /\ [exec[a] EXCEPT !.at = "acted", !.ok = TRUE, !.actual = TRUE].at = "acted"
        /\ \A k \in BOOLEAN : /\ [exec[a] EXCEPT !.at = "acted", !.actual = k] \in Execs
                              /\ [exec[a] EXCEPT !.at = "acted", !.actual = k].at = "acted"
    BY <1>1 DEF Execs
  <2> QED BY <1>1, <2>1, <2>2, <2>3
<1>7. CASE Act(a)
  <2>1. exec[a].at = "authorized"
    BY <1>7 DEF Act
  <2>2. PICK done \in BOOLEAN, ok \in BOOLEAN :
           /\ pod' = [i \in Instances |-> IF done /\ i \in Touches[a] /\ Effect(a) # "same" THEN Effect(a) ELSE pod[i]]
           /\ exec' = [exec EXCEPT ![a] = Found(a, ok)]
    BY <1>7 DEF Act
  <2>3. Effect(a) # "same" => Effect(a) \in Pods
    BY DEF Effect, Pods
  <2>4. pod' \in [Instances -> Pods]
    BY <1>1, <2>2, <2>3
  <2> QED BY <1>2, <2>1, <2>2, <2>4
<1> QED BY <1>4, <1>5, <1>6, <1>7 DEF Effects

\* The end of an execution.
LEMMA EndsAre ==
    ASSUME TypeOK, NEW a \in Actions, Ends(a)
    PROVE  /\ ledger' \in [Owners \cup Actions -> Runs] /\ memo' \in [Owners -> Memos]
           /\ exec' \in [Actions -> Execs] /\ recent' \subseteq Actions
           /\ UNCHANGED <<bound, pod, seen, pc, todo, deletion>>
           /\ Executing(a) /\ \A b \in Actions \ {a} : exec'[b] = exec[b]
           /\ \A r \in (Owners \cup Actions) \ {a} :
                 /\ ledger'[r].status = ledger[r].status /\ ledger'[r].reserved = ledger[r].reserved
                 /\ ledger'[r].nodes = ledger[r].nodes /\ ledger'[r].owns = ledger[r].owns
           /\ ledger'[a].nodes = ledger[a].nodes /\ ledger'[a].owns = ledger[a].owns
           /\ ledger'[a].reserved => ledger[a].reserved
           /\ \/ /\ Executing(a)' /\ ledger'[a].status = ledger[a].status
                 /\ ledger'[a].reserved = ledger[a].reserved
              \/ ~Executing(a)' /\ ledger'[a].status \in {"complete", "failed"}
           /\ \A o \in Owners : memo'[o].returned => memo[o].returned
<1> DEFINE o == OwnerOf[a]
<1>1. /\ ledger \in [Owners \cup Actions -> Runs] /\ memo \in [Owners -> Memos]
      /\ exec \in [Actions -> Execs] /\ recent \subseteq Actions
      /\ o \in Owners /\ o # a /\ Touches[a] \subseteq Instances
      /\ exec[a] \in Execs /\ ledger[a] \in Runs /\ ledger[o] \in Runs /\ memo[o] \in Memos
  BY Constants DEF TypeOK
<1>2. CASE RecordPreparation(a)
  <2>1. exec' = [exec EXCEPT ![a] = [exec[a] EXCEPT !.at = "recorded"]] /\ exec[a].at = "acted"
        /\ recent' = recent
    BY <1>1, <1>2 DEF RecordPreparation
  <2>2. [exec[a] EXCEPT !.at = "recorded"] \in Execs /\ [exec[a] EXCEPT !.at = "recorded"].at = "recorded"
    BY <1>1 DEF Execs
  <2>3. exec' \in [Actions -> Execs] /\ Executing(a) /\ Executing(a)' /\ \A b \in Actions \ {a} : exec'[b] = exec[b]
    BY <1>1, <2>1, <2>2 DEF Executing
  <2>4. CASE exec[a].created
    <3> DEFINE x == [ledger[a] EXCEPT !.insts = @ \cup Touches[a]]
               y == [ledger[o] EXCEPT !.insts = @ \cup Touches[a]]
               m == [memo[o] EXCEPT !.returned = FALSE]
    <3>1. ledger' = [ledger EXCEPT ![a] = x, ![o] = y] /\ memo' = [memo EXCEPT ![o] = m]
      BY <1>1, <1>2, <2>4 DEF RecordPreparation
    <3>2. /\ x \in Runs /\ x.status = ledger[a].status /\ x.nodes = ledger[a].nodes
          /\ x.reserved = ledger[a].reserved /\ x.owns = ledger[a].owns
          /\ y \in Runs /\ y.status = ledger[o].status /\ y.nodes = ledger[o].nodes
          /\ y.reserved = ledger[o].reserved /\ y.owns = ledger[o].owns
          /\ m \in Memos /\ ~m.returned
      BY <1>1 DEF Runs, Memos
    <3> HIDE DEF x, y, m, o
    <3>3. /\ ledger'[a] = x /\ ledger'[o] = y
          /\ \A r \in (Owners \cup Actions) \ {a, o} : ledger'[r] = ledger[r]
          /\ ledger' \in [Owners \cup Actions -> Runs]
          /\ memo' \in [Owners -> Memos] /\ memo'[o] = m /\ \A p \in Owners \ {o} : memo'[p] = memo[p]
      BY <1>1, <3>1, <3>2
    <3>4. UNCHANGED <<bound, pod, seen, pc, todo, deletion>>
      BY <1>2 DEF RecordPreparation
    <3>5. \A p \in Owners : memo'[p].returned => memo[p].returned
      BY <3>2, <3>3
    <3>6. \A r \in (Owners \cup Actions) \ {a} :
                 /\ ledger'[r].status = ledger[r].status /\ ledger'[r].reserved = ledger[r].reserved
                 /\ ledger'[r].nodes = ledger[r].nodes /\ ledger'[r].owns = ledger[r].owns
      BY <3>2, <3>3
    <3> QED BY <1>1, <2>1, <2>3, <3>2, <3>3, <3>4, <3>5, <3>6
  <2>5. CASE ~exec[a].created
    <3>1. UNCHANGED <<ledger, memo, bound, pod, seen, pc, todo, deletion>>
      BY <1>2, <2>5 DEF RecordPreparation
    <3> QED BY <1>1, <2>1, <2>3, <3>1
  <2> QED BY <2>4, <2>5
<1>3. CASE CompleteRun(a)
  <2>1. PICK ok \in {exec[a].ok, exec[a].ok /\ "fail" \notin Env} :
           ledger' = [ledger EXCEPT ![a].status = IF ok THEN "complete" ELSE "failed",
                                    ![a].reserved = @ /\ exec[a].started,
                                    ![a].routing = @ /\ ~ok]
    BY <1>3 DEF CompleteRun
  <2> DEFINE st == IF ok THEN "complete" ELSE "failed"
             held == ledger[a].reserved /\ exec[a].started
             rt == ledger[a].routing /\ ~ok
             x == [ledger[a] EXCEPT !.status = st, !.reserved = held, !.routing = rt]
  <2>2. ledger' = [ledger EXCEPT ![a] = x]
    BY <1>1, <2>1 DEF Runs
  <2>3. st \in {"complete", "failed"} /\ held \in BOOLEAN /\ rt \in BOOLEAN /\ (held => ledger[a].reserved)
    BY <1>1 DEF Runs, Execs
  <2> HIDE DEF st, held, rt
  <2>4. /\ x \in Runs /\ x.status = st /\ x.nodes = ledger[a].nodes /\ x.owns = ledger[a].owns
        /\ x.reserved = held
    BY <1>1, <2>3 DEF Runs
  <2> HIDE DEF x
  <2>5. /\ ledger'[a] = x /\ \A r \in (Owners \cup Actions) \ {a} : ledger'[r] = ledger[r]
        /\ ledger' \in [Owners \cup Actions -> Runs]
    BY <1>1, <2>2, <2>4
  <2>6. /\ exec' = [exec EXCEPT ![a] = [exec[a] EXCEPT !.at = "done"]] /\ exec[a].at = "recorded"
        /\ recent' = recent \cup {a} /\ UNCHANGED <<memo, bound, pod, seen, pc, todo, deletion>>
    BY <1>1, <1>3 DEF CompleteRun
  <2>7. [exec[a] EXCEPT !.at = "done"] \in Execs /\ [exec[a] EXCEPT !.at = "done"].at = "done"
    BY <1>1 DEF Execs
  <2>8. exec' \in [Actions -> Execs] /\ Executing(a) /\ ~Executing(a)' /\ \A b \in Actions \ {a} : exec'[b] = exec[b]
    BY <1>1, <2>6, <2>7 DEF Executing
  <2>9. recent' \subseteq Actions
    BY <1>1, <2>6
  <2> QED BY <1>1, <2>3, <2>4, <2>5, <2>6, <2>8, <2>9
<1> QED BY <1>2, <1>3 DEF Ends

\* and after every step.
LEMMA TypeStep == ASSUME TypeOK, [Next]_vars PROVE TypeOK'
<1>1. /\ ledger \in [Owners \cup Actions -> Runs] /\ memo \in [Owners -> Memos]
      /\ bound \subseteq Actions /\ exec \in [Actions -> Execs]
      /\ pod \in [Instances -> Pods] /\ seen \in [Instances -> Pods]
      /\ recent \subseteq Actions /\ todo \subseteq Owners
      /\ pc \in {"idle", "read", "release", "reconcile", "sweep", "last"}
      /\ deletion \in {"none", "held", "over"}
  BY DEF TypeOK
<1>2. CASE TickBegin \/ TickRead \/ TickEnd \/ ReserveDeletion \/ ReleaseDeletion \/ UNCHANGED vars
  BY <1>1, <1>2 DEF TickBegin, TickRead, TickEnd, ReserveDeletion, ReleaseDeletion, vars, TypeOK
<1>3. CASE TickRelease
  <2>1. ledger' \in [Owners \cup Actions -> Runs] /\ memo' \in [Owners -> Memos]
    BY <1>3, ReleaseIs
  <2>2. pc' = "reconcile" /\ UNCHANGED <<bound, exec, pod, seen, recent, todo, deletion>>
    BY <1>3 DEF TickRelease
  <2> QED BY <1>1, <2>1, <2>2 DEF TypeOK
<1>4. CASE TickReconcile
  <2>1. ledger' \in [Owners \cup Actions -> Runs] /\ memo' \in [Owners -> Memos]
    BY SMTT(30), <1>4, ReconcileIs
  <2>2. /\ pc' = "sweep" /\ bound' = bound \cup Bindable /\ todo' \subseteq Owners
        /\ UNCHANGED <<exec, pod, seen, recent, deletion>>
    BY <1>4 DEF TickReconcile
  <2>3. Bindable \subseteq Actions
    BY DEF Bindable
  <2> QED BY <1>1, <2>1, <2>2, <2>3 DEF TypeOK
<1>5. ASSUME NEW o \in Owners, Sweep(o) PROVE TypeOK'
  <2>1. ledger' \in [Owners \cup Actions -> Runs] /\ memo' \in [Owners -> Memos] /\ exec' \in [Actions -> Execs]
    BY <1>5, SweepIs
  <2>2. todo' = todo \ {o} /\ UNCHANGED <<bound, pod, seen, recent, pc, deletion>>
    BY <1>5 DEF Sweep
  <2> QED BY <1>1, <2>1, <2>2 DEF TypeOK
<1>6. ASSUME NEW o \in Owners, Admit(o) PROVE TypeOK'
  <2> DEFINE seenNow == {i \in Instances : Visible(i)}
             m == [memo[o] EXCEPT !.before = seenNow]
  <2>1. /\ ledger' = [ledger EXCEPT ![o] = TransitionScope(o)] /\ pc' = "last" /\ todo' = {o}
        /\ UNCHANGED <<bound, exec, pod, seen, recent, deletion>>
    BY <1>6 DEF Admit
  <2>2. memo' = [memo EXCEPT ![o] = m]
    BY <1>6 DEF Admit
  <2>3. m \in Memos /\ TransitionScope(o) \in Runs
    BY <1>1, ScopesAre DEF Memos
  <2> HIDE DEF m
  <2>4. ledger' \in [Owners \cup Actions -> Runs] /\ memo' \in [Owners -> Memos]
    BY <1>1, <2>1, <2>2, <2>3
  <2> QED BY <1>1, <2>1, <2>4 DEF TypeOK
<1>7. ASSUME NEW a \in Actions, StartFails(a) \/ Effects(a) PROVE TypeOK'
  BY <1>1, <1>7, EffectsAre DEF TypeOK
<1>8. ASSUME NEW a \in Actions, Ends(a) PROVE TypeOK'
  BY <1>1, <1>8, EndsAre DEF TypeOK
<1>9. ASSUME NEW i \in Instances, Change(i) \/ DeletePod(i) PROVE TypeOK'
  <2>1. UNCHANGED <<ledger, memo, bound, exec, seen, recent, pc, todo, deletion>>
    BY <1>9 DEF Change, DeletePod
  <2>2. Fates(i) \subseteq Pods
    BY DEF Fates, Pods
  <2>3. \E p \in Pods : pod' = [pod EXCEPT ![i] = p]
    <3>1. CASE Change(i)
      BY <2>2, <3>1 DEF Change
    <3>2. CASE DeletePod(i)
      BY <3>2 DEF DeletePod, Pods
    <3> QED BY <1>9, <3>1, <3>2
  <2>4. pod' \in [Instances -> Pods]
    BY <1>1, <2>3
  <2> QED BY <1>1, <2>1, <2>4 DEF TypeOK
<1> QED BY <1>2, <1>3, <1>4, <1>5, <1>6, <1>7, <1>8, <1>9 DEF Next, Tick

\* Every variable has its type.
THEOREM TypeCorrect == Spec => []TypeOK
BY TypeInit, TypeStep, PTL DEF Spec

----------------------------------------------------------------------------
(* Nodes stay covered                                                         *)

\* Nobody holds or executes anything at the start.
LEMMA CoverInit == Init => CoverInv
<1> SUFFICES ASSUME Init PROVE CoverInv
  OBVIOUS
<1>1. /\ \A r \in Owners \cup Actions : ledger[r].status = "none" /\ ~ledger[r].reserved
      /\ \A o \in Owners : ~memo[o].returned
      /\ \A a \in Actions : ~Executing(a)
      /\ deletion = "none"
  BY DEF Init, NoRun, NoExec, Executing
<1>2. \A o \in Owners : Reserved(o) = {}
  BY <1>1, Constants DEF Reserved
<1> QED BY <1>1, <1>2 DEF CoverInv, RunsInv, OwnersInv, DisjointInv, DeletionInv, Active, Responsible

\* Nothing the invariant speaks of moves.
LEMMA CoverFrame ==
    ASSUME CoverInv, UNCHANGED <<ledger, memo>>, deletion' # "held" \/ deletion' = deletion,
           \A a \in Actions : Executing(a)' <=> Executing(a)
    PROVE  CoverInv'
<1>1. \A r : Active(r)' = Active(r) /\ Terminal(r)' = Terminal(r)
  BY DEF Active, Terminal
<1>2. \A o : Owed(o)' = Owed(o) /\ Responsible(o)' = Responsible(o)
  BY DEF Owed, Responsible, Reserved
<1> QED BY <1>1, <1>2 DEF CoverInv, RunsInv, OwnersInv, DisjointInv, DeletionInv

\* A run is of one owner.
LEMMA Apart ==
    ASSUME NEW o \in Owners, NEW p \in Owners, p # o
    PROVE  Members(p) \cap Members(o) = {}
<1>1. SUFFICES ASSUME NEW r \in Members(p), r \in Members(o) PROVE FALSE
  OBVIOUS
<1>2. r = p \/ (r \in Actions /\ OwnerOf[r] = p)
  BY DEF Members
<1>3. r = o \/ (r \in Actions /\ OwnerOf[r] = o)
  BY <1>1 DEF Members
<1> QED BY <1>2, <1>3, Constants

\* An owner's local Nodes are those its drains and removals write.
LEMMA LocalAction ==
    ASSUME NEW o \in Owners, NEW a \in DAG(o), KindOf[a] \in {"drain", "remove"}
    PROVE  NodeOf[InstanceOf(a)] \in LocalNodes(o)
<1>1. a \in Actions /\ a \in {b \in DAG(o) : KindOf[b] # "route"}
  BY Constants
<1>2. InstanceOf(a) \in Touches[a]
  BY <1>1, Constants
<1>3. InstanceOf(a) \in UNION {Touches[b] : b \in {c \in DAG(o) : KindOf[c] # "route"}}
  BY <1>1, <1>2
<1> QED BY <1>3 DEF LocalNodes, NodesOf

\* Runs that are given up, or lose Nodes, leave the others theirs.
LEMMA Shrinks ==
    ASSUME DisjointInv,
           \A r \in Owners \cup Actions :
              ledger'[r].reserved => ledger[r].reserved /\ ledger'[r].nodes \subseteq ledger[r].nodes
    PROVE  DisjointInv'
<1>1. ASSUME NEW o \in Owners PROVE Responsible(o)' \subseteq Responsible(o)
  BY Constants DEF Responsible, Reserved
<1> QED BY <1>1 DEF DisjointInv

\* One owner takes what conflicts with nobody.
LEMMA Takes ==
    ASSUME DisjointInv, NEW o \in Owners,
           \A r \in Owners \cup Actions :
              \/ ledger'[r].reserved => ledger[r].reserved /\ ledger'[r].nodes \subseteq ledger[r].nodes
              \/ /\ r \in Members(o)
                 /\ \A p \in Owners \ {o} : \A q \in Reserved(p) : ledger'[r].nodes \cap ledger[q].nodes = {}
    PROVE  DisjointInv'
<1>1. ASSUME NEW p \in Owners, p # o PROVE Responsible(p)' \subseteq Responsible(p)
  <2>1. Members(p) \cap Members(o) = {}
    BY <1>1, Apart
  <2> QED BY <2>1, Constants DEF Responsible, Reserved
<1>2. ASSUME NEW p \in Owners, p # o PROVE Responsible(o)' \cap Responsible(p) = {}
  <2>1. SUFFICES ASSUME NEW r \in Members(o), ledger'[r].reserved, NEW n \in ledger'[r].nodes,
                        n \in Responsible(p)
                 PROVE  FALSE
    BY DEF Responsible, Reserved
  <2>2. r \in Owners \cup Actions
    BY Constants
  <2>3. PICK q \in Reserved(p) : n \in ledger[q].nodes
    BY <2>1 DEF Responsible
  <2>4. CASE ledger[r].reserved /\ ledger'[r].nodes \subseteq ledger[r].nodes
    <3>1. n \in Responsible(o)
      BY <2>1, <2>4 DEF Responsible, Reserved
    <3> QED BY <1>2, <2>1, <3>1 DEF DisjointInv
  <2> QED BY <1>2, <2>1, <2>2, <2>3, <2>4
<1> QED
  <2>1. SUFFICES ASSUME NEW p \in Owners, NEW q \in Owners, p # q
                 PROVE  (Responsible(p) \cap Responsible(q) = {})'
    BY DEF DisjointInv
  <2>2. CASE p # o /\ q # o
    BY <1>1, <2>1, <2>2 DEF DisjointInv
  <2>3. CASE p = o \/ q = o
    BY <1>1, <1>2, <2>1, <2>3
  <2> QED BY <2>2, <2>3

\* A release changes no status and only gives up.
LEMMA ReleaseShrinks ==
    ASSUME TypeOK, TickRelease, NEW r \in Owners \cup Actions
    PROVE  /\ ledger'[r].status = ledger[r].status
           /\ ledger'[r].nodes \subseteq ledger[r].nodes
           /\ ledger'[r].reserved => ledger[r].reserved
<1>1. PICK o \in Owners : r \in Members(o)
  BY Constants DEF Members
<1>2. CASE ledger'[r] = ledger[r]
  BY <1>2
<1>3. CASE r \in Reserved(o) /\ ledger'[r] = Pruned(o, r, {n \in Held(o) : NodeReturned(o, n)})
  BY <1>3, PrunedIs DEF Reserved
<1> QED BY <1>1, <1>2, <1>3, ReleaseIs

\* A release leaves an owner the Nodes that its running actions, and the drains
\* and removals still to start, write.
LEMMA CoverRelease == ASSUME TypeOK, CoverInv, TickRelease PROVE CoverInv'
<1>1. UNCHANGED <<exec, deletion>>
  BY DEF TickRelease
<1>3. \A r \in Owners \cup Actions :
         /\ ledger'[r].status = ledger[r].status
         /\ ledger'[r].nodes \subseteq ledger[r].nodes
         /\ ledger'[r].reserved => ledger[r].reserved
  BY ReleaseShrinks
<1>4. DisjointInv'
  BY <1>3, Shrinks DEF CoverInv
<1>5. RunsInv'
  <2>1. ASSUME NEW a \in Actions, Active(a)
        PROVE  /\ ledger'[a].reserved /\ ledger'[a].owns
               /\ NodesOf(Touches[a]) \subseteq ledger'[a].nodes
    <3> DEFINE o == OwnerOf[a]
               back == {n \in Held(o) : NodeReturned(o, n)}
    <3>1. o \in Owners /\ a \in Members(o) /\ a # o /\ a \in Owners \cup Actions
      BY Constants DEF Members
    <3>2. ledger[a].reserved /\ ledger[a].owns /\ NodesOf(Touches[a]) \subseteq ledger[a].nodes
      BY <2>1 DEF CoverInv, RunsInv
    <3>3. \A n \in back : n \notin NodesOf(Touches[a])
      BY <2>1, <3>1 DEF NodeReturned, Writing
    <3> HIDE DEF back, o
    <3>4. ledger'[a] = ledger[a] \/ ledger'[a] = Pruned(o, a, back)
      BY <3>1, ReleaseIs DEF back
    <3>5. CASE ledger'[a] = Pruned(o, a, back)
      BY <2>1, <3>1, <3>2, <3>3, <3>5, PrunedIs
    <3> QED BY <3>2, <3>4, <3>5
  <2>2. \A a \in Actions : Active(a)' = Active(a) /\ Executing(a)' = Executing(a)
    BY <1>1, <1>3 DEF Active, Executing
  <2>3. \A a \in Actions : ledger'[a].status = ledger[a].status /\ ledger'[OwnerOf[a]].status = ledger[OwnerOf[a]].status
    BY <1>3, Constants
  <2> QED BY <2>1, <2>2, <2>3 DEF CoverInv, RunsInv
<1>6. OwnersInv'
  <2>1. SUFFICES ASSUME NEW o \in Owners
                 PROVE  /\ Active(o) => ledger'[o].reserved /\ LocalNodes(o) \subseteq ledger'[o].nodes
                        /\ ledger[o].status = "failed" =>
                             \A a \in Owed(o) : ledger'[o].reserved /\ NodeOf[InstanceOf(a)] \in ledger'[o].nodes
                        /\ memo'[o].returned => Terminal(o) /\ (ledger'[o].reserved => ledger'[o].nodes = {})
    <3>1. \A p \in Owners : Active(p)' = Active(p) /\ Terminal(p)' = Terminal(p)
      BY <1>3 DEF Active, Terminal
    <3>2. \A p \in Owners : Owed(p)' = Owed(p)
      BY <1>3, Constants DEF Owed
    <3>3. \A p \in Owners : ledger'[p].status = ledger[p].status /\ LocalNodes(p)' = LocalNodes(p)
      BY <1>3 DEF LocalNodes, DAG
    <3> QED BY <2>1, <3>1, <3>2, <3>3 DEF OwnersInv
  <2> DEFINE back == {n \in Held(o) : NodeReturned(o, n)}
  <2>2. o \in Members(o)
    BY DEF Members
  <2>3. \/ ledger'[o] = ledger[o]
        \/ Releasable(o) /\ o \in Reserved(o) /\ ledger'[o] = Pruned(o, o, back)
    BY <2>2, ReleaseIs
  <2>4. Active(o) => ledger'[o].reserved /\ LocalNodes(o) \subseteq ledger'[o].nodes
    <3>1. Active(o) => ~Releasable(o)
      BY DEF Active, Releasable, Terminal
    <3> QED BY <2>3, <3>1 DEF CoverInv, OwnersInv
  <2>5. ASSUME ledger[o].status = "failed", NEW a \in Owed(o)
        PROVE  ledger'[o].reserved /\ NodeOf[InstanceOf(a)] \in ledger'[o].nodes
    <3> DEFINE n == NodeOf[InstanceOf(a)]
    <3>1. ledger[o].reserved /\ n \in ledger[o].nodes
      BY <2>5 DEF CoverInv, OwnersInv
    <3>2. a \in DAG(o) /\ a \in Actions /\ KindOf[a] \in {"drain", "remove"} /\ ledger[a].status = "none"
      BY Constants DEF Owed
    <3>3. PICK s \in DAG(o) : /\ KindOf[s] = "stop" /\ Touches[s] = Touches[a]
                              /\ ledger[s].status \in {"running", "complete"}
      BY DEF Owed
    <3>4. ~NodeReturned(o, n)
      <4>1. CASE ledger[s].status = "running"
        <5>1. s \in Members(o) \ {o} /\ Active(s)
          BY <3>3, <4>1, Constants DEF DAG, Members, Active
        <5>2. InstanceOf(a) \in Touches[s]
          BY <3>2, <3>3, Constants
        <5>3. n \in NodesOf(Touches[s])
          BY <5>2 DEF NodesOf
        <5> QED BY <5>1, <5>3 DEF NodeReturned, Writing
      <4>2. CASE ledger[s].status = "complete"
        <5>1. a \in Cleanup(o)
          BY <3>2, <3>3, <4>2 DEF Cleanup
        <5>2. a \in PendingCleanup(o)
          BY <2>5, <3>2, <5>1 DEF PendingCleanup
        <5> QED BY <5>2 DEF NodeReturned
      <4> QED BY <3>3, <4>1, <4>2
    <3>5. n \notin back
      BY <3>4
    <3> HIDE DEF back, n
    <3>6. CASE ledger'[o] = Pruned(o, o, back)
      <4>1. o \in Owners \cup Actions /\ n \in ledger[o].nodes \ back
        BY <3>1, <3>5
      <4>2. n \in ledger'[o].nodes
        BY <3>6, <4>1, PrunedIs
      <4>3. ledger'[o].reserved
        BY <3>1, <3>6, <4>1, <4>2, PrunedIs
      <4> QED BY <4>2, <4>3 DEF n
    <3> QED BY <2>3, <3>1, <3>6 DEF n
  <2>6. ASSUME memo'[o].returned PROVE Terminal(o) /\ (ledger'[o].reserved => ledger'[o].nodes = {})
    <3>1. CASE Terminal(o) /\ \A r \in Members(o) : ledger'[r].reserved => Empty(ledger'[r])
      BY <2>2, <3>1 DEF Empty
    <3>2. CASE memo[o].returned /\ ledger'[o] = ledger[o]
      BY <3>2 DEF CoverInv, OwnersInv
    <3> QED BY <2>6, <3>1, <3>2, ReleaseIs
  <2> QED BY <2>4, <2>5, <2>6
<1>7. DeletionInv'
  BY SMTT(30), <1>1, <1>3 DEF CoverInv, DeletionInv, Active
<1> QED BY <1>4, <1>5, <1>6, <1>7 DEF CoverInv

\* An owner that completes has no action under way, and one that fails still
\* holds what it has to remove.
LEMMA CoverReconcile == ASSUME TypeOK, CoverInv, TickReconcile PROVE CoverInv'
<1>1. UNCHANGED <<exec, deletion>>
  BY DEF TickReconcile
<1>2. \A o \in Owners :
         /\ Judged(o) \in {"same", "failed", "complete"}
         /\ Judged(o) # "same" => Active(o)
         /\ Judged(o) = "complete" => DAGComplete(o)
  BY DEF Judged, Active
<1>3. ASSUME NEW a \in Actions
      PROVE  /\ Active(a)' <=> Active(a)
             /\ ledger'[a].status = "none" => ledger[a].status = "none"
             /\ ledger[a].status = "none" => ledger'[a].status = "none"
             /\ ledger'[a].status \in {"running", "complete"} => ledger'[a].status = ledger[a].status
  BY ReconcileIs DEF Active, EffectLost
<1>4. \A r \in Owners \cup Actions : ledger'[r].reserved => ledger[r].reserved /\ ledger'[r].nodes \subseteq ledger[r].nodes
  BY ReconcileIs
<1>5. DisjointInv'
  BY <1>4, Shrinks DEF CoverInv
<1>6. RunsInv'
  <2>1. SUFFICES ASSUME NEW a \in Actions
                 PROVE  /\ Executing(a)' <=> Active(a)'
                        /\ Active(a)' => /\ ledger'[a].reserved /\ ledger'[a].owns
                                         /\ NodesOf(Touches[a]) \subseteq ledger'[a].nodes
                        /\ KindOf[a] = "undo" /\ ledger'[a].status # "none" => ledger'[OwnerOf[a]].status = "failed"
    BY DEF RunsInv
  <2> DEFINE o == OwnerOf[a]
  <2>1a. o \in Owners
    BY Constants
  <2>2. /\ Executing(a) <=> Active(a)
        /\ Active(a) => /\ ledger[a].reserved /\ ledger[a].owns
                        /\ NodesOf(Touches[a]) \subseteq ledger[a].nodes
        /\ KindOf[a] = "undo" /\ ledger[a].status # "none" => ledger[o].status = "failed"
    BY DEF CoverInv, RunsInv
  <2>3. Executing(a)' <=> Executing(a)
    BY <1>1 DEF Executing
  <2>4. ASSUME Active(a) PROVE Judged(o) # "complete"
    <3>1. SUFFICES ASSUME Judged(o) = "complete" PROVE FALSE
      OBVIOUS
    <3>2. ledger[o].status = "running" /\ DAGComplete(o)
      BY <1>2, <2>1a, <3>1 DEF Active
    <3>3. KindOf[a] # "undo"
      BY <2>2, <2>4, <3>2 DEF Active
    <3>4. a \in DAG(o)
      BY <3>3 DEF DAG
    <3> QED BY <2>4, <3>2, <3>4 DEF DAGComplete, Active
  <2>5. ledger[o].status = "failed" => ledger'[o].status = "failed"
    <3>1. ledger[o].status = "failed" => Judged(o) = "same"
      BY DEF Judged
    <3> QED BY <2>1a, <3>1, ReconcileIs
  <2>6. /\ ledger'[a].nodes = ledger[a].nodes /\ ledger'[a].owns = ledger[a].owns
        /\ ledger'[a].reserved = (ledger[a].reserved /\ Judged(o) # "complete")
    BY ReconcileIs
  <2> QED BY <1>3, <2>2, <2>3, <2>4, <2>5, <2>6
<1>7. OwnersInv'
  <2>1. SUFFICES ASSUME NEW o \in Owners
                 PROVE  /\ Active(o)' => ledger'[o].reserved /\ LocalNodes(o)' \subseteq ledger'[o].nodes
                        /\ ledger'[o].status = "failed" =>
                             \A a \in Owed(o)' : ledger'[o].reserved /\ NodeOf[InstanceOf(a)] \in ledger'[o].nodes
                        /\ memo'[o].returned => Terminal(o)' /\ (ledger'[o].reserved => ledger'[o].nodes = {})
    BY DEF OwnersInv
  <2>2. /\ Active(o) => ledger[o].reserved /\ LocalNodes(o) \subseteq ledger[o].nodes
        /\ ledger[o].status = "failed" =>
             \A a \in Owed(o) : ledger[o].reserved /\ NodeOf[InstanceOf(a)] \in ledger[o].nodes
        /\ memo[o].returned => Terminal(o) /\ (ledger[o].reserved => ledger[o].nodes = {})
    BY DEF CoverInv, OwnersInv
  <2>3. /\ ledger'[o].nodes = ledger[o].nodes
        /\ ledger'[o].status = IF Judged(o) = "same" THEN ledger[o].status ELSE Judged(o)
        /\ ledger'[o].reserved => ledger[o].reserved /\ Judged(o) # "complete"
        /\ ledger[o].reserved /\ Judged(o) # "complete" =>
               ledger'[o].reserved \/ (Terminal(o) /\ memo[o].returned)
        /\ memo'[o].returned => memo[o].returned
    BY ReconcileIs
  <2>4. LocalNodes(o)' = LocalNodes(o)
    BY DEF LocalNodes, DAG
  <2>5. ~(Active(o) /\ Terminal(o))
    BY DEF Active, Terminal
  <2>6. Active(o)' => ledger'[o].reserved /\ LocalNodes(o)' \subseteq ledger'[o].nodes
    <3>1. Active(o)' => Active(o) /\ Judged(o) # "complete"
      BY <1>2, <2>3 DEF Active
    <3> QED BY <2>2, <2>3, <2>4, <2>5, <3>1
  <2>7. ASSUME ledger'[o].status = "failed", NEW a \in Owed(o)'
        PROVE  ledger'[o].reserved /\ NodeOf[InstanceOf(a)] \in ledger'[o].nodes
    <3>1. /\ a \in DAG(o) /\ a \in Actions /\ KindOf[a] \in {"drain", "remove"} /\ ledger'[a].status = "none"
          /\ \E s \in DAG(o) : /\ KindOf[s] = "stop" /\ Touches[s] = Touches[a]
                               /\ ledger'[s].status \in {"running", "complete"}
      BY Constants DEF Owed, DAG
    <3>2. a \in Owed(o)
      <4>1. \A s \in DAG(o) : s \in Actions
        BY Constants
      <4> QED BY <1>3, <3>1, <4>1 DEF Owed
    <3>3. CASE Active(o)
      <4>1. Judged(o) # "complete"
        BY <2>3, <2>7
      <4>2. NodeOf[InstanceOf(a)] \in LocalNodes(o)
        BY <3>1, LocalAction
      <4> QED BY <2>2, <2>3, <2>5, <3>3, <4>1, <4>2
    <3>4. CASE ~Active(o)
      <4>1. Judged(o) = "same" /\ ledger[o].status = "failed"
        BY <1>2, <2>3, <2>7, <3>4
      <4> QED BY <2>2, <2>3, <3>2, <4>1
    <3> QED BY <3>3, <3>4
  <2>8. ASSUME memo'[o].returned PROVE Terminal(o)' /\ (ledger'[o].reserved => ledger'[o].nodes = {})
    <3>1. Terminal(o) /\ (ledger[o].reserved => ledger[o].nodes = {})
      BY <2>2, <2>3, <2>8
    <3>2. Judged(o) = "same"
      BY <1>2, <2>5, <3>1
    <3> QED BY <2>3, <3>1, <3>2 DEF Terminal
  <2> QED BY <2>6, <2>7, <2>8
<1>8. DeletionInv'
  BY <1>1, <1>3 DEF CoverInv, DeletionInv
<1> QED BY <1>5, <1>6, <1>7, <1>8 DEF CoverInv

\* What a sweep starts: it conflicts with nobody, a failed owner stops nothing
\* any more, and only a failed one undoes.
LEMMA LaunchedIs ==
    ASSUME NEW o \in Owners, NEW a \in Launched(o)
    PROVE  /\ a \in Actions /\ OwnerOf[a] = o /\ ledger[a].status = "none"
           /\ deletion # "held"
           /\ \A p \in Owners \ {o} : \A q \in Reserved(p) : ActionScope(a).nodes \cap ledger[q].nodes = {}
           /\ Active(o) \/ KindOf[a] # "stop"
           /\ KindOf[a] = "undo" => ledger[o].status = "failed"
<1>1. a \in Due(o) /\ ledger[a].status = "none" /\ ~Conflicts(o, ActionScope(a))
  BY DEF Launched
<1>2. /\ deletion # "held"
      /\ \A p \in Owners \ {o} : \A q \in Reserved(p) : ActionScope(a).nodes \cap ledger[q].nodes = {}
  BY <1>1 DEF Conflicts, Overlaps
<1>3. CASE a \in Compensated(o)
  <2>1. a \in Actions /\ OwnerOf[a] = o /\ KindOf[a] = "undo" /\ ledger[o].status = "failed"
    BY <1>3 DEF Compensated, Members
  <2> QED BY <1>1, <1>2, <2>1
<1>4. CASE a \in DAG(o) /\ Active(o)
  BY <1>1, <1>2, <1>4 DEF DAG
<1>5. CASE a \in Cleanup(o)
  <2>1. a \in Actions /\ OwnerOf[a] = o /\ KindOf[a] \in {"drain", "remove"}
    BY <1>5 DEF Cleanup, DAG
  <2> QED BY <1>1, <1>2, <2>1
<1> QED BY <1>1, <1>3, <1>4, <1>5 DEF Due

\* What a sweep starts is covered by a scope of its own.
LEMMA CoverSweep == ASSUME TypeOK, CoverInv, NEW o \in Owners, Sweep(o) PROVE CoverInv'
<1>1. deletion' = deletion
  BY DEF Sweep
<1>2. \A r \in (Owners \cup Actions) \ Launched(o) :
         /\ ledger'[r] = ledger[r] \/ (r = o /\ Unconfirmed(o))
         /\ ledger'[r].reserved = ledger[r].reserved /\ ledger'[r].nodes = ledger[r].nodes
  BY SweepIs
<1>3. \A p \in Owners : p \notin Launched(o) /\ p \notin Actions
  BY SweepIs, Constants
<1>4. ASSUME NEW a \in Launched(o)
      PROVE  /\ ledger'[a].status = "running" /\ ledger'[a].reserved /\ ledger'[a].owns
             /\ ledger'[a].nodes = NodesOf(Touches[a]) /\ ledger'[a].nodes = ActionScope(a).nodes
             /\ exec'[a].at = "authorized" /\ a \in Actions /\ a \in Members(o)
  <2>1. a \in Actions /\ a \in Members(o) /\ ledger'[a] = ActionScope(a) /\ exec'[a].at = "authorized"
    BY SweepIs
  <2> QED BY <2>1, ScopesAre
<1>5. DisjointInv'
  <2>1. ASSUME NEW r \in Owners \cup Actions
        PROVE  \/ ledger'[r].reserved => ledger[r].reserved /\ ledger'[r].nodes \subseteq ledger[r].nodes
               \/ /\ r \in Members(o)
                  /\ \A p \in Owners \ {o} : \A q \in Reserved(p) : ledger'[r].nodes \cap ledger[q].nodes = {}
    <3>1. CASE r \in Launched(o)
      <4>1. \A p \in Owners \ {o} : \A q \in Reserved(p) : ActionScope(r).nodes \cap ledger[q].nodes = {}
        BY <3>1, LaunchedIs
      <4> QED BY <1>4, <3>1, <4>1
    <3>2. CASE r \notin Launched(o)
      BY <1>2, <3>2
    <3> QED BY <3>1, <3>2
  <2> QED BY <2>1, Takes DEF CoverInv
<1>6. \A p \in Owners : /\ p # o => ledger'[p] = ledger[p]
                        /\ ledger'[p].reserved = ledger[p].reserved /\ ledger'[p].nodes = ledger[p].nodes
                        /\ ledger'[p] = ledger[p] \/ (p = o /\ Unconfirmed(o) /\ ledger'[o].status = "failed")
  BY <1>2, <1>3, SweepIs
<1>7. RunsInv'
  <2>1. SUFFICES ASSUME NEW a \in Actions
                 PROVE  /\ Executing(a)' <=> Active(a)'
                        /\ Active(a)' => /\ ledger'[a].reserved /\ ledger'[a].owns
                                         /\ NodesOf(Touches[a]) \subseteq ledger'[a].nodes
                        /\ KindOf[a] = "undo" /\ ledger'[a].status # "none" => ledger'[OwnerOf[a]].status = "failed"
    BY DEF RunsInv
  <2>2. ledger[OwnerOf[a]].status = "failed" => ledger'[OwnerOf[a]].status = "failed"
    BY <1>6, Constants
  <2>3. CASE a \in Launched(o)
    <3>1. Executing(a)' /\ Active(a)'
      BY <1>4, <2>3 DEF Executing, Active
    <3>2. KindOf[a] = "undo" => ledger'[OwnerOf[a]].status = "failed"
      BY <2>2, <2>3, LaunchedIs
    <3> QED BY <1>4, <2>3, <3>1, <3>2
  <2>4. CASE a \notin Launched(o)
    <3>1. exec'[a] = exec[a] /\ ledger'[a] = ledger[a]
      BY <1>2, <1>3, <2>4, SweepIs
    <3>2. Executing(a)' = Executing(a) /\ Active(a)' = Active(a)
      BY <3>1 DEF Executing, Active
    <3> QED BY <2>2, <3>1, <3>2 DEF CoverInv, RunsInv
  <2> QED BY <2>3, <2>4
<1>8. OwnersInv'
  <2>1. SUFFICES ASSUME NEW p \in Owners
                 PROVE  /\ Active(p)' => ledger'[p].reserved /\ LocalNodes(p)' \subseteq ledger'[p].nodes
                        /\ ledger'[p].status = "failed" =>
                             \A a \in Owed(p)' : ledger'[p].reserved /\ NodeOf[InstanceOf(a)] \in ledger'[p].nodes
                        /\ memo'[p].returned => Terminal(p)' /\ (ledger'[p].reserved => ledger'[p].nodes = {})
    BY DEF OwnersInv
  <2>2. /\ Active(p) => ledger[p].reserved /\ LocalNodes(p) \subseteq ledger[p].nodes
        /\ ledger[p].status = "failed" =>
             \A a \in Owed(p) : ledger[p].reserved /\ NodeOf[InstanceOf(a)] \in ledger[p].nodes
        /\ memo[p].returned => Terminal(p) /\ (ledger[p].reserved => ledger[p].nodes = {})
    BY DEF CoverInv, OwnersInv
  <2>3. LocalNodes(p)' = LocalNodes(p)
    BY DEF LocalNodes, DAG
  <2>4. Active(p)' => Active(p)
    BY <1>6 DEF Active
  <2>5. Terminal(p) => Terminal(p)'
    BY <1>6 DEF Terminal
  <2>6. memo'[p].returned => memo[p].returned
    BY SweepIs
  <2>7. ASSUME ledger'[p].status = "failed", NEW a \in Owed(p)'
        PROVE  ledger[p].reserved /\ NodeOf[InstanceOf(a)] \in ledger[p].nodes
    <3>1. /\ a \in DAG(p) /\ a \in Actions /\ KindOf[a] \in {"drain", "remove"} /\ ledger'[a].status = "none"
      BY Constants DEF Owed, DAG
    <3>2. PICK s \in DAG(p) : /\ KindOf[s] = "stop" /\ Touches[s] = Touches[a]
                              /\ ledger'[s].status \in {"running", "complete"}
      BY DEF Owed, DAG
    <3>3. CASE Active(p)
      BY <2>2, <3>1, <3>3, LocalAction
    <3>4. CASE ~Active(p)
      <4>1. ledger[p].status = "failed"
        BY <1>6, <2>7, <3>4 DEF Unconfirmed
      <4>2. s \notin Launched(o)
        <5>1. SUFFICES ASSUME s \in Launched(o) PROVE FALSE
          OBVIOUS
        <5>2. OwnerOf[s] = o /\ OwnerOf[s] = p /\ (Active(o) \/ KindOf[s] # "stop")
          BY <5>1, LaunchedIs DEF DAG
        <5> QED BY <3>2, <3>4, <5>2
      <4>3. ledger'[s] = ledger[s]
        BY <1>2, <1>3, <4>2, Constants
      <4>4. ledger[a].status = "none"
        <5>1. a \notin Launched(o)
          BY <1>4, <3>1
        <5> QED BY <1>2, <1>3, <3>1, <5>1
      <4>5. a \in Owed(p)
        BY <3>1, <3>2, <4>3, <4>4 DEF Owed
      <4> QED BY <2>2, <4>1, <4>5
    <3> QED BY <3>3, <3>4
  <2> QED BY <1>6, <2>2, <2>3, <2>4, <2>5, <2>6, <2>7
<1>9. DeletionInv'
  <2>1. ASSUME deletion = "held" PROVE Launched(o) = {}
    BY <2>1, LaunchedIs
  <2>2. ASSUME deletion = "held", NEW a \in Actions PROVE ledger'[a] = ledger[a]
    BY <1>2, <1>3, <2>1, <2>2
  <2> QED BY <1>1, <2>2 DEF CoverInv, DeletionInv, Active
<1> QED BY <1>5, <1>7, <1>8, <1>9 DEF CoverInv

\* An owner that starts takes its local Nodes, all of them, from nobody.
LEMMA CoverAdmit == ASSUME TypeOK, CoverInv, NEW o \in Owners, Admit(o) PROVE CoverInv'
<1>1. /\ ledger[o].status = "none" /\ ~Conflicts(o, TransitionScope(o))
      /\ ledger' = [ledger EXCEPT ![o] = TransitionScope(o)]
      /\ UNCHANGED <<exec, deletion>>
  BY DEF Admit
<1>2. /\ ledger'[o].status = "running" /\ ledger'[o].reserved /\ ledger'[o].nodes = LocalNodes(o)
      /\ \A r \in Owners \cup Actions : r # o => ledger'[r] = ledger[r]
  BY <1>1, ScopesAre DEF TypeOK
<1>3. \A p \in Owners \ {o} : \A q \in Reserved(p) : ledger'[o].nodes \cap ledger[q].nodes = {}
  <2>1. \A p \in Owners \ {o} : \A q \in Reserved(p) : TransitionScope(o).nodes \cap ledger[q].nodes = {}
    BY <1>1 DEF Conflicts, Overlaps
  <2> QED BY <1>2, <2>1, ScopesAre
<1>4. DisjointInv'
  <2>1. o \in Members(o)
    BY DEF Members
  <2> QED BY <1>2, <1>3, <2>1, Takes DEF CoverInv
<1>5. \A a \in Actions : ledger'[a] = ledger[a] /\ Active(a)' = Active(a) /\ Executing(a)' = Executing(a)
  BY <1>1, <1>2, Constants DEF Active, Executing
<1>6. RunsInv'
  <2>1. ASSUME NEW a \in Actions, KindOf[a] = "undo", ledger[a].status # "none"
        PROVE  ledger'[OwnerOf[a]].status = "failed"
    <3>1. ledger[OwnerOf[a]].status = "failed"
      BY <2>1 DEF CoverInv, RunsInv
    <3>2. OwnerOf[a] # o
      BY <1>1, <3>1
    <3> QED BY <1>2, <3>1, <3>2, Constants
  <2> QED BY <1>5, <2>1 DEF CoverInv, RunsInv
<1>7. \A p \in Owners : memo'[p].returned = memo[p].returned
  <2> DEFINE m == [memo[o] EXCEPT !.before = {i \in Instances : Visible(i)}]
  <2>1. memo' = [memo EXCEPT ![o] = m] /\ memo \in [Owners -> Memos] /\ memo[o] \in Memos
    BY DEF Admit, TypeOK
  <2>2. m.returned = memo[o].returned
    BY <2>1 DEF Memos
  <2> HIDE DEF m
  <2> QED BY <2>1, <2>2
<1>8. OwnersInv'
  <2>1. \A p \in Owners : LocalNodes(p)' = LocalNodes(p) /\ Owed(p)' = Owed(p)
    BY <1>5, Constants DEF LocalNodes, DAG, Owed
  <2>2. ~memo[o].returned
    BY <1>1 DEF CoverInv, OwnersInv, Terminal
  <2>3. SUFFICES ASSUME NEW p \in Owners
                 PROVE  /\ Active(p)' => ledger'[p].reserved /\ LocalNodes(p)' \subseteq ledger'[p].nodes
                        /\ ledger'[p].status = "failed" =>
                             \A a \in Owed(p)' : ledger'[p].reserved /\ NodeOf[InstanceOf(a)] \in ledger'[p].nodes
                        /\ memo'[p].returned => Terminal(p)' /\ (ledger'[p].reserved => ledger'[p].nodes = {})
    BY DEF OwnersInv
  <2>4. CASE p = o
    BY <1>2, <1>7, <2>1, <2>2, <2>4
  <2>5. CASE p # o
    <3>1. ledger'[p] = ledger[p] /\ Active(p)' = Active(p) /\ Terminal(p)' = Terminal(p)
      BY <1>2, <2>5 DEF Active, Terminal
    <3> QED BY <1>7, <2>1, <3>1 DEF CoverInv, OwnersInv
  <2> QED BY <2>4, <2>5
<1>9. DeletionInv'
  BY <1>1, <1>5 DEF CoverInv, DeletionInv
<1> QED BY <1>4, <1>6, <1>8, <1>9 DEF CoverInv

\* An execution that ends settles its own run.
LEMMA CoverEnds == ASSUME TypeOK, CoverInv, NEW a \in Actions, Ends(a) PROVE CoverInv'
<1>1. \A r \in Owners \cup Actions : ledger'[r].reserved => ledger[r].reserved /\ ledger'[r].nodes \subseteq ledger[r].nodes
  BY EndsAre
<1>2. DisjointInv'
  BY <1>1, Shrinks DEF CoverInv
<1>3. Executing(a) /\ Active(a)
  BY EndsAre DEF CoverInv, RunsInv
<1>4. /\ \A p \in Owners : /\ ledger'[p].status = ledger[p].status /\ ledger'[p].reserved = ledger[p].reserved
                           /\ ledger'[p].nodes = ledger[p].nodes
                           /\ memo'[p].returned => memo[p].returned
      /\ deletion' = deletion
  BY EndsAre, Constants
<1>5. \A b \in Actions : b # a => /\ Executing(b)' = Executing(b) /\ Active(b)' = Active(b)
                                  /\ ledger'[b].status = ledger[b].status /\ ledger'[b].reserved = ledger[b].reserved
                                  /\ ledger'[b].nodes = ledger[b].nodes /\ ledger'[b].owns = ledger[b].owns
  BY EndsAre DEF Executing, Active
<1>6. \/ /\ Executing(a)' /\ Active(a)'
         /\ ledger'[a].reserved = ledger[a].reserved /\ ledger'[a].owns = ledger[a].owns
         /\ ledger'[a].nodes = ledger[a].nodes
      \/ ~Executing(a)' /\ ~Active(a)' /\ ledger'[a].status \in {"complete", "failed"}
  BY <1>3, EndsAre DEF Active
<1>7. RunsInv'
  <2>1. SUFFICES ASSUME NEW b \in Actions
                 PROVE  /\ Executing(b)' <=> Active(b)'
                        /\ Active(b)' => /\ ledger'[b].reserved /\ ledger'[b].owns
                                         /\ NodesOf(Touches[b]) \subseteq ledger'[b].nodes
                        /\ KindOf[b] = "undo" /\ ledger'[b].status # "none" => ledger'[OwnerOf[b]].status = "failed"
    BY DEF RunsInv
  <2>2. /\ Executing(b) <=> Active(b)
        /\ Active(b) => /\ ledger[b].reserved /\ ledger[b].owns
                        /\ NodesOf(Touches[b]) \subseteq ledger[b].nodes
        /\ KindOf[b] = "undo" /\ ledger[b].status # "none" => ledger[OwnerOf[b]].status = "failed"
    BY DEF CoverInv, RunsInv
  <2>3. ledger'[OwnerOf[b]].status = ledger[OwnerOf[b]].status
    BY <1>4, Constants
  <2>4. CASE b # a
    BY <1>5, <2>2, <2>3, <2>4
  <2>5. CASE b = a
    <3>1. ledger[a].status # "none"
      BY <1>3 DEF Active
    <3> QED BY <1>3, <1>6, <2>2, <2>3, <2>5, <3>1
  <2> QED BY <2>4, <2>5
<1>8. OwnersInv'
  <2>1. \A p \in Owners : LocalNodes(p)' = LocalNodes(p) /\ Active(p)' = Active(p) /\ Terminal(p)' = Terminal(p)
    BY <1>4 DEF LocalNodes, DAG, Active, Terminal
  <2>2. ASSUME NEW p \in Owners, NEW b \in Owed(p)' PROVE b \in Owed(p)
    <3>1. /\ b \in DAG(p) /\ b \in Actions /\ KindOf[b] \in {"drain", "remove"} /\ ledger'[b].status = "none"
      BY Constants DEF Owed, DAG
    <3>2. PICK s \in DAG(p) : /\ KindOf[s] = "stop" /\ Touches[s] = Touches[b]
                              /\ ledger'[s].status \in {"running", "complete"}
      BY DEF Owed, DAG
    <3>3. ledger[b].status = "none"
      BY <1>5, <1>6, <3>1 DEF Active
    <3>4. ledger[s].status \in {"running", "complete"}
      BY <1>3, <1>5, <3>2, Constants DEF Active
    <3> QED BY <3>1, <3>2, <3>3, <3>4 DEF Owed
  <2> QED BY <1>4, <2>1, <2>2 DEF CoverInv, OwnersInv
<1>9. DeletionInv'
  BY <1>3, <1>4 DEF CoverInv, DeletionInv
<1> QED BY <1>2, <1>7, <1>8, <1>9 DEF CoverInv

\* A deletion starts when no run owns anything: nothing executes.
LEMMA CoverReserveDeletion == ASSUME TypeOK, CoverInv, ReserveDeletion PROVE CoverInv'
<1>1. /\ \A r \in Owners \cup Actions : ledger[r].reserved => ~ledger[r].owns
      /\ UNCHANGED <<ledger, memo, exec>>
  BY DEF ReserveDeletion, TypeOK
<1>2. ASSUME NEW a \in Actions PROVE ~Active(a)
  BY <1>1 DEF CoverInv, RunsInv
<1>3. /\ \A r : Active(r)' = Active(r) /\ Terminal(r)' = Terminal(r) /\ Executing(r)' = Executing(r)
      /\ \A o : Owed(o)' = Owed(o) /\ Responsible(o)' = Responsible(o)
  BY <1>1 DEF Active, Terminal, Executing, Owed, Responsible, Reserved
<1> QED BY <1>1, <1>2, <1>3 DEF CoverInv, RunsInv, OwnersInv, DisjointInv, DeletionInv, LocalNodes

\* Every step keeps the invariant.
LEMMA CoverStep == ASSUME TypeOK, CoverInv, [Next]_vars PROVE CoverInv'
<1>1. CASE TickBegin \/ TickRead \/ TickEnd \/ ReleaseDeletion \/ UNCHANGED vars
  <2>1. UNCHANGED <<ledger, memo, exec>> /\ (deletion' # "held" \/ deletion' = deletion)
    BY <1>1 DEF TickBegin, TickRead, TickEnd, ReleaseDeletion, vars
  <2>2. \A a \in Actions : Executing(a)' <=> Executing(a)
    BY <2>1 DEF Executing
  <2> QED BY <2>1, <2>2, CoverFrame
<1>2. ASSUME NEW a \in Actions, StartFails(a) \/ Effects(a) PROVE CoverInv'
  BY <1>2, EffectsAre, CoverFrame
<1>3. ASSUME NEW i \in Instances, Change(i) \/ DeletePod(i) PROVE CoverInv'
  <2>1. UNCHANGED <<ledger, memo, exec, deletion>>
    BY <1>3 DEF Change, DeletePod
  <2>2. \A a \in Actions : Executing(a)' <=> Executing(a)
    BY <2>1 DEF Executing
  <2> QED BY <2>1, <2>2, CoverFrame
<1>4. ASSUME NEW o \in Owners, Sweep(o) \/ Admit(o) PROVE CoverInv'
  BY <1>4, CoverSweep, CoverAdmit
<1>5. ASSUME NEW a \in Actions, Ends(a) PROVE CoverInv'
  BY <1>5, CoverEnds
<1>6. CASE TickRelease \/ TickReconcile \/ ReserveDeletion
  BY <1>6, CoverRelease, CoverReconcile, CoverReserveDeletion
<1> QED BY <1>1, <1>2, <1>3, <1>4, <1>5, <1>6 DEF Next, Tick

----------------------------------------------------------------------------
(* What follows from it                                                       *)

\* The invariant holds the two promises.
LEMMA CoverImplies == ASSUME TypeOK, CoverInv PROVE WritersCovered /\ DeletionAlone
<1>1. ASSUME NEW a \in Actions, exec[a].at \in {"authorized", "acting"}
      PROVE  Active(a) /\ NodesOf(Touches[a]) \subseteq Responsible(OwnerOf[a])
  <2>1. Active(a)
    BY <1>1 DEF CoverInv, RunsInv, Executing
  <2>2. ledger[a].reserved /\ NodesOf(Touches[a]) \subseteq ledger[a].nodes
    BY <2>1 DEF CoverInv, RunsInv
  <2>3. a \in Reserved(OwnerOf[a])
    BY <2>2 DEF Reserved, Members
  <2> QED BY <2>1, <2>2, <2>3 DEF Responsible
<1>2. ASSUME NEW o \in Owners, ledger[o].status = "failed", NEW a \in Cleanup(o), ledger[a].status = "none"
      PROVE  NodeOf[InstanceOf(a)] \in Responsible(o)
  <2>1. a \in Owed(o)
    BY <1>2 DEF Cleanup, Owed
  <2>2. ledger[o].reserved /\ NodeOf[InstanceOf(a)] \in ledger[o].nodes
    BY <1>2, <2>1 DEF CoverInv, OwnersInv
  <2>3. o \in Reserved(o)
    BY <2>2 DEF Reserved, Members
  <2> QED BY <2>2, <2>3 DEF Responsible
<1> QED BY <1>1, <1>2 DEF WritersCovered, DeletionAlone, CoverInv, DisjointInv, DeletionInv

\* A Node belongs to one owner at a time, and every execution that can still
\* write it, and every drain and removal a failed owner has still to start, is
\* covered by the reservation (reserveRun, releaseObservedScopes,
\* reconcileOwnersLocked).
THEOREM NodesOwned == Spec => []WritersCovered
<1>1. Init => TypeOK /\ CoverInv
  BY TypeInit, CoverInit
<1>2. TypeOK /\ CoverInv /\ [Next]_vars => TypeOK' /\ CoverInv'
  BY TypeStep, CoverStep
<1>3. TypeOK /\ CoverInv => WritersCovered
  BY CoverImplies
<1> QED BY <1>1, <1>2, <1>3, PTL DEF Spec

\* Nothing executes while a Workload is being deleted (ReserveDeletion).
THEOREM DeletionIsAlone == Spec => []DeletionAlone
<1>1. Init => TypeOK /\ CoverInv
  BY TypeInit, CoverInit
<1>2. TypeOK /\ CoverInv /\ [Next]_vars => TypeOK' /\ CoverInv'
  BY TypeStep, CoverStep
<1>3. TypeOK /\ CoverInv => DeletionAlone
  BY CoverImplies
<1> QED BY <1>1, <1>2, <1>3, PTL DEF Spec
----------------------------------------------------------------------------
(* Nothing is left behind                                                     *)

\* An execution starts from nothing, after all it depends on is done; a run is
\* complete only when its execution is.
ExecInv ==
    \A a \in Actions :
        /\ ledger[a].status = "none" <=> exec[a].at = "idle"
        /\ exec[a].at \in {"idle", "authorized"} => ~exec[a].started /\ ~exec[a].ok /\ ~exec[a].created
        /\ exec[a].at # "idle" => \A d \in DependsOn[a] : exec[d].at = "done"
        /\ ledger[a].status = "complete" => exec[a].ok

\* The prepare that asked for the Pod and has not seen it serve, or the stop
\* whose remove is still to succeed.
Accounts(a, i) ==
    \/ /\ KindOf[a] = "prepare" /\ ~exec[a].ok /\ pod[i] # "stopped"
       /\ pod[i] = "lost" => ~exec[a].created
    \/ /\ KindOf[a] = "stop" /\ pod[i] = "stopped"
       /\ \A m \in RemoveAfter(a) : ~exec[m].ok

\* Its run holds the Node.
Explains(a, i) ==
    /\ i \in Touches[a] /\ ledger[a].reserved /\ NodeOf[i] \in ledger[a].nodes
    /\ exec[a].started /\ Accounts(a, i)

\* A release that uses the last observation knows that the Pod is not settled:
\* it saw it, or the action ran since, or the creation was never answered.
Fresh(a, i) == \/ Active(a) \/ a \in recent
               \/ KindOf[a] = "prepare" /\ ~exec[a].created
               \/ seen[i] \notin {"absent", "lost", "good"}

\* What is unsettled has an action that explains it.
LeftInv ==
    \A i \in Instances : pod[i] \notin {"absent", "good"} =>
        \E a \in Actions : Explains(a, i) /\ (pc = "release" => Fresh(a, i))

\* What an execution finds and does to its instances before it takes the lock.
LEMMA EffectsDo ==
    ASSUME TypeOK, NEW a \in Actions, StartFails(a) \/ Effects(a)
    PROVE  /\ \A b \in Actions : b # a => exec'[b] = exec[b]
           /\ exec[a].at \in {"authorized", "acting"} /\ exec'[a].at \in {"acting", "acted"}
           /\ \/ /\ pod' = pod /\ exec'[a].ok = exec[a].ok
                 /\ exec'[a].started = exec[a].started /\ exec'[a].created = exec[a].created
              \/ /\ KindOf[a] = "prepare" /\ exec[a].at = "authorized"
                 /\ exec'[a].started /\ ~exec'[a].ok
                 /\ \/ pod' = pod
                    \/ pod' = [pod EXCEPT ![InstanceOf(a)] = "starting"]
                    \/ pod' = [pod EXCEPT ![InstanceOf(a)] = "lost"] /\ exec'[a].created = exec[a].created
              \/ /\ KindOf[a] = "prepare" /\ pod' = pod
                 /\ exec'[a].started = exec[a].started /\ exec'[a].created = exec[a].created
                 /\ exec'[a].ok => exec[a].ok \/ pod[InstanceOf(a)] = "good"
              \/ /\ KindOf[a] # "prepare" /\ exec[a].at = "authorized" /\ exec'[a].started
                 /\ \E done \in BOOLEAN :
                       /\ exec'[a].ok => done
                       /\ pod' = [i \in Instances |-> IF done /\ i \in Touches[a] /\ Effect(a) # "same" THEN Effect(a) ELSE pod[i]]
<1>1. exec[a] \in Execs /\ exec \in [Actions -> Execs]
  BY DEF TypeOK
<1>2. ASSUME NEW ok \in BOOLEAN, NEW c \in BOOLEAN
      PROVE  /\ Found(a, ok).at = "acted" /\ Found(a, ok).started /\ Found(a, ok).ok = ok
             /\ Found(a, ok).created = exec[a].created
             /\ [Found(a, ok) EXCEPT !.captured = c].at = "acted"
             /\ [Found(a, ok) EXCEPT !.captured = c].started /\ [Found(a, ok) EXCEPT !.captured = c].ok = ok
             /\ [Found(a, ok) EXCEPT !.at = "acting", !.created = TRUE].at = "acting"
             /\ [Found(a, ok) EXCEPT !.at = "acting", !.created = TRUE].started
             /\ [Found(a, ok) EXCEPT !.at = "acting", !.created = TRUE].ok = ok
  BY <1>1 DEF Found, Execs
<1>3. \A e : exec' = [exec EXCEPT ![a] = e] => exec'[a] = e /\ \A b \in Actions : b # a => exec'[b] = exec[b]
  BY <1>1
<1>4. CASE StartFails(a)
  <2>1. exec' = [exec EXCEPT ![a] = [exec[a] EXCEPT !.at = "acted"]] /\ exec[a].at = "authorized" /\ pod' = pod
    BY <1>1, <1>4 DEF StartFails
  <2> DEFINE e == [exec[a] EXCEPT !.at = "acted"]
  <2>2. e.at = "acted" /\ e.ok = exec[a].ok /\ e.started = exec[a].started /\ e.created = exec[a].created
    BY <1>1 DEF Execs
  <2>3. exec' = [exec EXCEPT ![a] = e]
    BY <2>1
  <2> HIDE DEF e
  <2> QED BY <1>3, <2>1, <2>2, <2>3
<1>5. CASE Create(a)
  <2>1. exec[a].at = "authorized" /\ KindOf[a] = "prepare" /\ FALSE \in BOOLEAN
    BY <1>5 DEF Create
  <2>2. CASE pod' = pod /\ \E c \in BOOLEAN : exec' = [exec EXCEPT ![a] = [Found(a, FALSE) EXCEPT !.captured = c]]
    <3>1. PICK c \in BOOLEAN : exec' = [exec EXCEPT ![a] = [Found(a, FALSE) EXCEPT !.captured = c]]
      BY <2>2
    <3>2. exec'[a] = [Found(a, FALSE) EXCEPT !.captured = c] /\ \A b \in Actions : b # a => exec'[b] = exec[b]
      BY <1>3, <3>1
    <3> DEFINE v == [Found(a, FALSE) EXCEPT !.captured = c]
    <3>v. FALSE \in BOOLEAN
      OBVIOUS
    <3>w. v.at = "acted" /\ v.started /\ v.ok = FALSE
      BY Zenon, <1>2, <3>v
    <3>e. exec'[a] = v
      BY Zenon, <3>2
    <3> HIDE DEF v
    <3>3. exec'[a].at = "acted" /\ exec'[a].started /\ ~exec'[a].ok
      BY <3>w, <3>e
    <3> QED BY ZenonT(60), <2>1, <2>2, <3>2, <3>3
  <2>3. CASE /\ exec' = [exec EXCEPT ![a] = [Found(a, FALSE) EXCEPT !.at = "acting", !.created = TRUE]]
             /\ pod' = [pod EXCEPT ![InstanceOf(a)] = "starting"]
    <3>1. exec'[a] = [Found(a, FALSE) EXCEPT !.at = "acting", !.created = TRUE] /\ \A b \in Actions : b # a => exec'[b] = exec[b]
      BY <1>3, <2>3
    <3> QED BY <1>2, <2>1, <2>3, <3>1
  <2>4. CASE /\ exec' = [exec EXCEPT ![a] = Found(a, FALSE)]
             /\ pod' = [pod EXCEPT ![InstanceOf(a)] = "lost"]
    <3>1. exec'[a] = Found(a, FALSE) /\ \A b \in Actions : b # a => exec'[b] = exec[b]
      BY <1>3, <2>4
    <3> QED BY <1>2, <2>1, <2>4, <3>1
  <2> QED BY <1>5, <2>2, <2>3, <2>4 DEF Create
<1>6. CASE Observed(a)
  <2>1. pod' = pod /\ exec[a].at = "acting" /\ KindOf[a] = "prepare"
    BY <1>6 DEF Observed
  <2>2. \E ok, known : /\ exec' = [exec EXCEPT ![a] = [exec[a] EXCEPT !.at = "acted", !.ok = ok, !.actual = known]]
                       /\ ok => exec[a].ok \/ pod[InstanceOf(a)] = "good"
    <3>1. CASE pod[InstanceOf(a)] = "good" /\ exec' = [exec EXCEPT ![a].at = "acted", ![a].ok = TRUE, ![a].actual = TRUE]
      <4>1. [exec EXCEPT ![a].at = "acted", ![a].ok = TRUE, ![a].actual = TRUE]
              = [exec EXCEPT ![a] = [exec[a] EXCEPT !.at = "acted", !.ok = TRUE, !.actual = TRUE]]
        BY <1>1 DEF Execs
      <4> QED BY <3>1, <4>1
    <3>2. CASE \E known \in {FALSE, HasContainer(InstanceOf(a))} : exec' = [exec EXCEPT ![a].at = "acted", ![a].actual = known]
      <4>1. PICK known \in {FALSE, HasContainer(InstanceOf(a))} :
                   exec' = [exec EXCEPT ![a].at = "acted", ![a].actual = known]
        BY <3>2
      <4>2. [exec EXCEPT ![a].at = "acted", ![a].actual = known]
              = [exec EXCEPT ![a] = [exec[a] EXCEPT !.at = "acted", !.ok = exec[a].ok, !.actual = known]]
        BY <1>1 DEF Execs
      <4> WITNESS exec[a].ok, known
      <4> QED BY <4>1, <4>2
    <3> QED BY <1>6, <3>1, <3>2 DEF Observed
  <2>3. PICK ok, known : /\ exec' = [exec EXCEPT ![a] = [exec[a] EXCEPT !.at = "acted", !.ok = ok, !.actual = known]]
                         /\ ok => exec[a].ok \/ pod[InstanceOf(a)] = "good"
    BY <2>2
  <2> DEFINE e == [exec[a] EXCEPT !.at = "acted", !.ok = ok, !.actual = known]
  <2>4. e.at = "acted" /\ e.ok = ok /\ e.started = exec[a].started /\ e.created = exec[a].created
    BY <1>1 DEF Execs
  <2>5. exec' = [exec EXCEPT ![a] = e]
    BY <2>3
  <2> HIDE DEF e
  <2> QED BY <1>3, <2>1, <2>3, <2>4, <2>5
<1>7. CASE Act(a)
  <2>1. exec[a].at = "authorized" /\ KindOf[a] # "prepare"
    BY <1>7 DEF Act
  <2>2. PICK done \in BOOLEAN, ok \in BOOLEAN :
           /\ ok => done
           /\ pod' = [i \in Instances |-> IF done /\ i \in Touches[a] /\ Effect(a) # "same" THEN Effect(a) ELSE pod[i]]
           /\ exec' = [exec EXCEPT ![a] = Found(a, ok)]
    BY <1>7 DEF Act
  <2>3. exec'[a] = Found(a, ok) /\ \A b \in Actions : b # a => exec'[b] = exec[b]
    BY <1>3, <2>2
  <2> QED BY <1>2, <2>1, <2>2, <2>3
<1> QED BY <1>4, <1>5, <1>6, <1>7 DEF Effects

\* The end of an execution keeps what it found; only a good one completes.
LEMMA EndsDo ==
    ASSUME TypeOK, NEW a \in Actions, Ends(a)
    PROVE  /\ exec[a].at \in {"acted", "recorded"} /\ exec'[a].at \in {"recorded", "done"}
           /\ exec'[a].ok = exec[a].ok /\ exec'[a].started = exec[a].started /\ exec'[a].created = exec[a].created
           /\ recent \subseteq recent'
           /\ ledger'[a].status = ledger[a].status \/ a \in recent'
           /\ ledger[a].reserved /\ exec[a].started => ledger'[a].reserved
           /\ ledger'[a].status = "complete" => exec[a].ok \/ ledger[a].status = "complete"
<1>1. /\ ledger \in [Owners \cup Actions -> Runs] /\ exec \in [Actions -> Execs] /\ exec[a] \in Execs
      /\ ledger[a] \in Runs /\ a # OwnerOf[a] /\ OwnerOf[a] \in Owners
  BY Constants DEF TypeOK
<1>2. ASSUME NEW at, exec' = [exec EXCEPT ![a].at = at]
      PROVE  /\ exec'[a].at = at /\ exec'[a].ok = exec[a].ok
             /\ exec'[a].started = exec[a].started /\ exec'[a].created = exec[a].created
  BY <1>1, <1>2 DEF Execs
<1>3. CASE RecordPreparation(a)
  <2>1. exec' = [exec EXCEPT ![a].at = "recorded"] /\ exec[a].at = "acted" /\ recent' = recent
    BY <1>3 DEF RecordPreparation
  <2>2. ledger'[a].status = ledger[a].status /\ ledger'[a].reserved = ledger[a].reserved
    <3>1. CASE ledger' = ledger
      BY <3>1
    <3>2. CASE ledger' = [ledger EXCEPT ![a].insts = @ \cup Touches[a], ![OwnerOf[a]].insts = @ \cup Touches[a]]
      BY <1>1, <3>2 DEF Runs
    <3> QED BY <1>3, <3>1, <3>2 DEF RecordPreparation
  <2> QED BY <1>2, <2>1, <2>2
<1>4. CASE CompleteRun(a)
  <2>1. exec' = [exec EXCEPT ![a].at = "done"] /\ exec[a].at = "recorded" /\ recent' = recent \cup {a}
    BY <1>4 DEF CompleteRun
  <2>2. PICK ok \in {exec[a].ok, exec[a].ok /\ "fail" \notin Env} :
           ledger' = [ledger EXCEPT ![a].status = IF ok THEN "complete" ELSE "failed",
                                    ![a].reserved = @ /\ exec[a].started,
                                    ![a].routing = @ /\ ~ok]
    BY <1>4 DEF CompleteRun
  <2>3. /\ ledger'[a].status = IF ok THEN "complete" ELSE "failed"
        /\ ledger'[a].reserved = (ledger[a].reserved /\ exec[a].started)
    BY <1>1, <2>2 DEF Runs
  <2>4. /\ exec'[a].at = "done" /\ exec'[a].ok = exec[a].ok
        /\ exec'[a].started = exec[a].started /\ exec'[a].created = exec[a].created
    BY <1>2, <2>1
  <2>5. ok => exec[a].ok
    OBVIOUS
  <2> QED BY <2>1, <2>3, <2>4, <2>5
<1> QED BY <1>3, <1>4 DEF Ends

\* What has ended is done, and what executes is authorized or further.
LEMMA DoneIs ==
    ASSUME TypeOK, CoverInv, ExecInv, NEW a \in Actions
    PROVE  /\ Terminal(a) <=> exec[a].at = "done"
           /\ exec[a].at \in {"authorized", "acting", "acted", "recorded"} <=> Active(a)
<1>1. /\ Executing(a) <=> Active(a)
      /\ ledger[a].status = "none" <=> exec[a].at = "idle"
  BY DEF CoverInv, RunsInv, ExecInv
<1>2. /\ exec[a].at \in {"idle", "authorized", "acting", "acted", "recorded", "done"}
      /\ ledger[a].status \in {"none", "running", "complete", "failed"}
  BY DEF TypeOK, Runs, Execs
<1> QED BY <1>1, <1>2 DEF Executing, Active, Terminal

\* The invariant reads the statuses of actions and their executions.
LEMMA ExecFrame ==
    ASSUME ExecInv, \A a \in Actions : exec'[a] = exec[a] /\ ledger'[a].status = ledger[a].status
    PROVE  ExecInv'
BY ReservationAssumption DEF ExecInv

\* Nothing has executed at the start,
LEMMA ExecInit == Init => ExecInv
BY ReservationAssumption DEF Init, ExecInv, NoRun, NoExec

\* a sweep starts what has its dependencies behind it,
LEMMA ExecSweep == ASSUME TypeOK, CoverInv, ExecInv, NEW o \in Owners, Sweep(o) PROVE ExecInv'
<1>1. Launched(o) \subseteq Actions
  BY SweepIs
<1>2. ASSUME NEW a \in Launched(o)
      PROVE  /\ exec'[a].at = "authorized" /\ ~exec'[a].started /\ ~exec'[a].ok /\ ~exec'[a].created
             /\ ledger'[a].status = "running" /\ exec[a].at = "idle"
             /\ \A d \in DependsOn[a] : exec[d].at = "done"
  <2>1. exec' = [b \in Actions |-> IF b \in Launched(o) THEN [NoExec EXCEPT !.at = "authorized"] ELSE exec[b]]
    BY DEF Sweep
  <2>2. exec'[a] = [NoExec EXCEPT !.at = "authorized"]
    BY <1>1, <2>1
  <2>3. ledger'[a].status = "running"
    BY <1>1, SweepIs, ScopesAre
  <2>4. ledger[a].status = "none" /\ DependenciesComplete(a)
    BY DEF Launched
  <2>5. ASSUME NEW d \in DependsOn[a] PROVE exec[d].at = "done"
    <3>1. d \in Actions /\ ledger[d].status = "complete"
      BY <1>1, <2>4, ReservationAssumption DEF DependenciesComplete
    <3> QED BY <3>1, DoneIs DEF Terminal
  <2> QED BY <1>1, <2>2, <2>3, <2>4, <2>5 DEF NoExec, ExecInv
<1>3. \A a \in Actions \ Launched(o) : exec'[a] = exec[a] /\ ledger'[a] = ledger[a]
  BY SweepIs, Constants
<1>4. \A d \in Actions : exec[d].at = "done" => exec'[d].at = "done"
  BY <1>2, <1>3
<1>5. \A a \in Actions : DependsOn[a] \subseteq Actions
  BY ReservationAssumption
<1> QED BY <1>2, <1>3, <1>4, <1>5 DEF ExecInv

\* an execution goes on,
LEMMA ExecEffects == ASSUME TypeOK, CoverInv, ExecInv, NEW a \in Actions, StartFails(a) \/ Effects(a) PROVE ExecInv'
<1>1. ledger' = ledger
  BY EffectsAre
<1>2. /\ \A b \in Actions : b # a => exec'[b] = exec[b]
      /\ exec[a].at \in {"authorized", "acting"} /\ exec'[a].at \in {"acting", "acted"}
  BY EffectsDo
<1>3. ledger[a].status = "running"
  BY <1>2, DoneIs DEF Active
<1>4. \A d \in Actions : exec[d].at = "done" => exec'[d].at = "done"
  BY <1>2
<1>5. \A b \in Actions : DependsOn[b] \subseteq Actions
  BY ReservationAssumption
<1> QED BY <1>1, <1>2, <1>3, <1>4, <1>5 DEF ExecInv

\* and ends, complete if it was good.
LEMMA ExecEnds == ASSUME TypeOK, CoverInv, ExecInv, NEW a \in Actions, Ends(a) PROVE ExecInv'
<1>1. /\ \A b \in Actions : b # a => exec'[b] = exec[b] /\ ledger'[b].status = ledger[b].status
      /\ ledger'[a].status = ledger[a].status \/ ledger'[a].status \in {"complete", "failed"}
  BY EndsAre
<1>2. /\ exec[a].at \in {"acted", "recorded"} /\ exec'[a].at \in {"recorded", "done"}
      /\ exec'[a].ok = exec[a].ok
      /\ ledger'[a].status = "complete" => exec[a].ok \/ ledger[a].status = "complete"
  BY EndsDo
<1>3. ledger[a].status = "running"
  BY <1>2, DoneIs DEF Active
<1>4. \A d \in Actions : exec[d].at = "done" => exec'[d].at = "done"
  BY <1>1, <1>2
<1>5. \A b \in Actions : DependsOn[b] \subseteq Actions
  BY ReservationAssumption
<1> QED BY <1>1, <1>2, <1>3, <1>4, <1>5 DEF ExecInv

\* Every step keeps it.
LEMMA ExecStep == ASSUME TypeOK, CoverInv, ExecInv, [Next]_vars PROVE ExecInv'
<1>1. CASE TickBegin \/ TickRead \/ TickEnd \/ ReserveDeletion \/ ReleaseDeletion \/ UNCHANGED vars
  <2>1. UNCHANGED <<ledger, exec>>
    BY <1>1 DEF TickBegin, TickRead, TickEnd, ReserveDeletion, ReleaseDeletion, vars
  <2> QED BY <2>1, ExecFrame
<1>2. CASE TickRelease
  <2>1. exec' = exec /\ \A a \in Actions : ledger'[a].status = ledger[a].status
    BY <1>2, ReleaseShrinks DEF TickRelease
  <2> QED BY <2>1, ExecFrame
<1>3. CASE TickReconcile
  <2>1. exec' = exec
    BY <1>3 DEF TickReconcile
  <2>2. \A a \in Actions : \/ ledger'[a].status = ledger[a].status
                           \/ ledger'[a].status = "failed" /\ ledger[a].status = "complete"
    BY <1>3, ReconcileIs DEF EffectLost
  <2>3. \A a \in Actions : DependsOn[a] \subseteq Actions
    BY ReservationAssumption
  <2> QED BY <2>1, <2>2, <2>3 DEF ExecInv
<1>4. ASSUME NEW o \in Owners, Admit(o) PROVE ExecInv'
  <2>1. exec' = exec /\ ledger' = [ledger EXCEPT ![o] = TransitionScope(o)]
    BY <1>4 DEF Admit
  <2>2. \A a \in Actions : ledger'[a] = ledger[a]
    BY <2>1, Constants DEF TypeOK
  <2> QED BY <2>1, <2>2, ExecFrame
<1>5. ASSUME NEW i \in Instances, Change(i) \/ DeletePod(i) PROVE ExecInv'
  <2>1. UNCHANGED <<ledger, exec>>
    BY <1>5 DEF Change, DeletePod
  <2> QED BY <2>1, ExecFrame
<1> QED BY <1>1, <1>2, <1>3, <1>4, <1>5, ExecSweep, ExecEffects, ExecEnds DEF Next, Tick

\* A remove that has its stop before it waits for the stop to be done.
LEMMA RemoveWaits ==
    ASSUME ExecInv, NEW s \in Actions, KindOf[s] = "stop", exec[s].at # "done", NEW m \in RemoveAfter(s)
    PROVE  m \in Actions /\ m # s /\ exec[m].at = "idle" /\ ~exec[m].ok
<1>1. m \in Actions /\ KindOf[m] = "remove" /\ Precedes(s, m)
  BY DEF RemoveAfter
<1>2. exec[m].at = "idle"
  <2>1. SUFFICES ASSUME exec[m].at # "idle" PROVE FALSE
    OBVIOUS
  <2> DEFINE past == {m} \cup {c \in Actions : exec[c].at = "done"}
  <2>2. \A c \in past : exec[c].at # "idle"
    BY <2>1
  <2>3. \A c \in past : DependsOn[c] \subseteq past
    <3>1. ASSUME NEW c \in past, NEW d \in DependsOn[c] PROVE d \in past
      <4>1. c \in Actions /\ d \in Actions
        BY <1>1, ReservationAssumption
      <4>2. exec[d].at = "done"
        BY <2>2, <4>1 DEF ExecInv
      <4> QED BY <4>1, <4>2
    <3> QED BY <3>1
  <2>4. past \in SUBSET Actions /\ m \in past
    BY <1>1
  <2> HIDE DEF past
  <2>5. s \in past
    BY <1>1, <2>3, <2>4 DEF Precedes
  <2> QED BY <1>1, <2>5 DEF past
<1> QED BY <1>1, <1>2 DEF ExecInv

\* All but a route write one instance.
LEMMA OneInstance ==
    ASSUME NEW a \in Actions, KindOf[a] # "route"
    PROVE  Touches[a] = {InstanceOf(a)} /\ InstanceOf(a) \in Instances
<1>1. PICK i \in Instances : Touches[a] = {i}
  BY ReservationAssumption
<1>2. InstanceOf(a) \in Touches[a]
  BY Constants
<1> QED BY <1>1, <1>2

\* The removes after a stop are a matter of the plan.
LEMMA RemoveAfterIs == \A s : RemoveAfter(s)' = RemoveAfter(s)
BY DEF RemoveAfter, Precedes

\* An explanation lasts while its run holds the Node and no remove succeeds,
\* also when the Pod starts, or starts to fail.
LEMMA ExplainsKept ==
    ASSUME NEW i \in Instances, NEW b \in Actions, Explains(b, i),
           ledger'[b].reserved, NodeOf[i] \in ledger'[b].nodes,
           exec'[b].started, exec'[b].created = exec[b].created,
           KindOf[b] = "prepare" /\ exec'[b].ok => exec[b].ok,
           KindOf[b] = "stop" => \A m \in RemoveAfter(b) : exec'[m].ok => exec[m].ok,
           pod'[i] = pod[i] \/ (pod[i] # "stopped" /\ pod'[i] \notin {"stopped", "lost"})
    PROVE  Explains(b, i)'
<1>1. i \in Touches[b] /\ Accounts(b, i)
  BY DEF Explains
<1>2. Accounts(b, i)'
  <2>1. CASE KindOf[b] = "prepare"
    BY <1>1, <2>1 DEF Accounts
  <2>2. CASE KindOf[b] = "stop"
    <3>1. \A m \in RemoveAfter(b) : ~exec'[m].ok
      BY <1>1, <2>2 DEF Accounts
    <3>2. pod'[i] = "stopped"
      BY <1>1, <2>2 DEF Accounts
    <3> QED BY <2>2, <3>1, <3>2, RemoveAfterIs DEF Accounts
  <2> QED BY <1>1, <2>1, <2>2 DEF Accounts
<1> QED BY <1>1, <1>2 DEF Explains

\* What a release may rely on stays so until the next observation.
LEMMA FreshKept ==
    ASSUME NEW i, NEW b, Fresh(b, i), seen' = seen, recent \subseteq recent',
           Active(b) => Active(b)' \/ b \in recent', exec'[b].created = exec[b].created
    PROVE  Fresh(b, i)'
BY DEF Fresh

\* The Pods at the start serve,
LEMMA LeftInit == Init => LeftInv
BY DEF Init, LeftInv

\* an observation sees what is unsettled,
LEMMA LeftRead == ASSUME LeftInv, TickRead PROVE LeftInv'
<1>1. seen' = pod /\ UNCHANGED <<ledger, exec, pod>>
  BY DEF TickRead
<1>2. SUFFICES ASSUME NEW i \in Instances, pod[i] \notin {"absent", "good"}
               PROVE  \E a \in Actions : Explains(a, i)' /\ Fresh(a, i)'
  BY <1>1 DEF LeftInv
<1>3. PICK a \in Actions : Explains(a, i)
  BY <1>2 DEF LeftInv
<1>4. Explains(a, i)'
  BY <1>1, <1>3, ExplainsKept DEF Explains
<1>5. Fresh(a, i)'
  <2>1. CASE pod[i] = "lost"
    <3>1. KindOf[a] = "prepare" /\ ~exec[a].created
      BY <1>3, <2>1 DEF Explains, Accounts
    <3> QED BY <1>1, <3>1 DEF Fresh
  <2>2. CASE pod[i] # "lost"
    BY <1>1, <1>2, <2>2 DEF Fresh
  <2> QED BY <2>1, <2>2
<1> QED BY <1>4, <1>5

\* so that a release keeps its Node,
LEMMA LeftRelease == ASSUME TypeOK, CoverInv, ExecInv, LeftInv, TickRelease PROVE LeftInv'
<1>1. pc = "release" /\ pc' # "release" /\ UNCHANGED <<exec, pod>>
  BY DEF TickRelease
<1>2. SUFFICES ASSUME NEW i \in Instances, pod[i] \notin {"absent", "good"}
               PROVE  \E a \in Actions : Explains(a, i)'
  BY <1>1 DEF LeftInv
<1>3. PICK a \in Actions : Explains(a, i) /\ Fresh(a, i)
  BY <1>1, <1>2 DEF LeftInv
<1> DEFINE o == OwnerOf[a]
           n == NodeOf[i]
           back == {k \in Held(o) : NodeReturned(o, k)}
<1>4. o \in Owners /\ a \in Members(o) \ {o} /\ a \in Owners \cup Actions
  BY Constants DEF Members
<1>5. i \in Touches[a] /\ ledger[a].reserved /\ n \in ledger[a].nodes /\ exec[a].started /\ KindOf[a] \in {"prepare", "stop"}
  BY <1>3 DEF Explains, Accounts
<1>6. i = InstanceOf(a)
  BY <1>5, OneInstance
<1>7. Releasable(o) => n \notin back
  <2>1. SUFFICES ASSUME Releasable(o), NodeReturned(o, n) PROVE FALSE
    OBVIOUS
  <2>2. CASE Active(a)
    <3>1. n \in NodesOf(Touches[a])
      BY <1>5 DEF NodesOf
    <3> QED BY <1>4, <2>1, <2>2, <3>1 DEF NodeReturned, Writing
  <2>3. CASE a \in recent
    BY <1>4, <2>1, <2>3 DEF Releasable
  <2>4. CASE KindOf[a] = "prepare" /\ ~exec[a].created
    <3>1. a \in Reserved(o) \ {o}
      BY <1>4, <1>5 DEF Reserved
    <3>2. CreationKnown(a)
      BY <1>6, <2>1, <2>4, <3>1 DEF NodeReturned
    <3> QED BY <2>4, <3>2 DEF CreationKnown
  <2>5. CASE seen[i] \notin {"absent", "lost", "good"}
    BY <2>1, <2>5 DEF NodeReturned, Visible, Confirmed
  <2> QED BY <1>3, <2>2, <2>3, <2>4, <2>5 DEF Fresh
<1> HIDE DEF back, o, n
<1>8. ledger'[a].reserved /\ n \in ledger'[a].nodes
  <2>1. \/ ledger'[a] = ledger[a]
        \/ Releasable(o) /\ ledger'[a] = Pruned(o, a, back)
    BY <1>4, ReleaseIs DEF back
  <2>2. CASE Releasable(o) /\ ledger'[a] = Pruned(o, a, back)
    <3>1. n \in ledger[a].nodes \ back
      BY <1>5, <1>7, <2>2
    <3>2. n \in ledger'[a].nodes /\ ledger'[a].nodes # {}
      BY <1>4, <2>2, <3>1, PrunedIs
    <3>3. ledger'[a].reserved = ledger[a].reserved
      BY <1>4, <2>2, <3>2, PrunedIs
    <3> QED BY <1>5, <3>2, <3>3
  <2> QED BY <1>5, <2>1, <2>2
<1>9. Explains(a, i)'
  BY <1>1, <1>3, <1>5, <1>8, ExplainsKept DEF n
<1> QED BY <1>9

\* and only a target that is complete, whose Pods serve or are gone, is let go.
LEMMA LeftReconcile == ASSUME TypeOK, CoverInv, ExecInv, LeftInv, TickReconcile PROVE LeftInv'
<1>1. pc' # "release" /\ UNCHANGED <<exec, pod>>
  BY DEF TickReconcile
<1>2. SUFFICES ASSUME NEW i \in Instances, pod[i] \notin {"absent", "good"}
               PROVE  \E a \in Actions : Explains(a, i)'
  BY <1>1 DEF LeftInv
<1>3. PICK a \in Actions : Explains(a, i)
  BY <1>2 DEF LeftInv
<1>4. /\ ledger[a].reserved /\ NodeOf[i] \in ledger[a].nodes /\ exec[a].started
      /\ KindOf[a] \in {"prepare", "stop"}
      /\ KindOf[a] = "prepare" => ~exec[a].ok
      /\ KindOf[a] = "stop" => \A m \in RemoveAfter(a) : ~exec[m].ok
  BY <1>3 DEF Explains, Accounts
<1>5. Judged(OwnerOf[a]) # "complete"
  <2>1. SUFFICES ASSUME DAGComplete(OwnerOf[a]) PROVE FALSE
    BY DEF Judged
  <2>2. CASE KindOf[a] = "prepare"
    <3>1. a \in DAG(OwnerOf[a])
      BY <2>2 DEF DAG
    <3> QED BY <1>4, <2>1, <2>2, <3>1 DEF DAGComplete, ExecInv
  <2>3. CASE KindOf[a] = "stop"
    <3>1. PICK m \in RemoveAfter(a) : TRUE
      BY <2>3, RemoveAssumption
    <3>2. m \in Actions /\ m \in DAG(OwnerOf[a])
      BY DEF RemoveAfter, DAG
    <3> QED BY <1>4, <2>1, <2>3, <3>2 DEF DAGComplete, ExecInv
  <2> QED BY <1>4, <2>2, <2>3
<1>6. ledger'[a].reserved /\ ledger'[a].nodes = ledger[a].nodes
  BY <1>4, <1>5, ReconcileIs
<1>7. Explains(a, i)'
  BY <1>1, <1>3, <1>4, <1>6, ExplainsKept
<1> QED BY <1>7

\* A sweep starts other actions than those that explain something.
LEMMA LeftSweep == ASSUME TypeOK, CoverInv, ExecInv, LeftInv, NEW o \in Owners, Sweep(o) PROVE LeftInv'
<1>1. pc' = pc /\ pc # "release" /\ UNCHANGED pod
  BY DEF Sweep
<1>2. SUFFICES ASSUME NEW i \in Instances, pod[i] \notin {"absent", "good"}
               PROVE  \E a \in Actions : Explains(a, i)'
  BY <1>1 DEF LeftInv
<1>3. PICK a \in Actions : Explains(a, i)
  BY <1>2 DEF LeftInv
<1>4. ledger[a].reserved /\ NodeOf[i] \in ledger[a].nodes /\ exec[a].started
  BY <1>3 DEF Explains
<1>5. a \notin Launched(o)
  <2>1. SUFFICES ASSUME ledger[a].status = "none" PROVE FALSE
    BY DEF Launched
  <2> QED BY <1>4, <2>1 DEF ExecInv
<1>6. exec'[a] = exec[a] /\ ledger'[a] = ledger[a]
  BY <1>5, SweepIs, Constants
<1>7. \A m \in Actions : exec'[m].ok => exec[m].ok
  <2>1. \A m \in Launched(o) : ~exec'[m].ok
    <3>1. exec' = [b \in Actions |-> IF b \in Launched(o) THEN [NoExec EXCEPT !.at = "authorized"] ELSE exec[b]]
      BY DEF Sweep
    <3> QED BY <3>1, SweepIs DEF NoExec
  <2> QED BY <2>1, SweepIs
<1>8. Explains(a, i)'
  <2>1. \A m \in RemoveAfter(a) : m \in Actions
    BY DEF RemoveAfter
  <2> QED BY <1>1, <1>3, <1>4, <1>6, <1>7, <2>1, ExplainsKept
<1> QED BY <1>8

\* An admission touches no action.
LEMMA LeftAdmit == ASSUME TypeOK, LeftInv, NEW o \in Owners, Admit(o) PROVE LeftInv'
<1>1. pc' # "release" /\ UNCHANGED <<exec, pod>> /\ ledger' = [ledger EXCEPT ![o] = TransitionScope(o)]
  BY DEF Admit
<1>2. \A a \in Actions : ledger'[a] = ledger[a]
  BY <1>1, Constants DEF TypeOK
<1>3. SUFFICES ASSUME NEW i \in Instances, pod[i] \notin {"absent", "good"}
               PROVE  \E a \in Actions : Explains(a, i)'
  BY <1>1 DEF LeftInv
<1>4. PICK a \in Actions : Explains(a, i)
  BY <1>3 DEF LeftInv
<1>5. ledger[a].reserved /\ NodeOf[i] \in ledger[a].nodes /\ exec[a].started
  BY <1>4 DEF Explains
<1>6. Explains(a, i)'
  BY <1>1, <1>2, <1>4, <1>5, ExplainsKept
<1> QED BY <1>6

\* What an execution leaves unsettled it explains itself: it is under way, and
\* its run holds its Nodes.  What it leaves alone keeps its explanation.
LEMMA LeftEffects ==
    ASSUME TypeOK, CoverInv, ExecInv, LeftInv, NEW a \in Actions, StartFails(a) \/ Effects(a)
    PROVE  LeftInv'
<1>1. UNCHANGED <<ledger, seen, recent, pc>> /\ pod' \in [Instances -> Pods] /\ pod \in [Instances -> Pods]
  BY EffectsAre DEF TypeOK
<1>2. \A b \in Actions : b # a => exec'[b] = exec[b]
  BY EffectsDo
<1>3. Active(a) /\ Active(a)' /\ exec[a].at # "done"
  <2>1. exec[a].at \in {"authorized", "acting"}
    BY EffectsDo
  <2>2. Active(a)
    BY <2>1, DoneIs
  <2> QED BY <1>1, <2>1, <2>2 DEF Active
<1>4. SUFFICES ASSUME NEW i \in Instances, pod'[i] \notin {"absent", "good"}
               PROVE  \E b \in Actions : Explains(b, i)' /\ (pc = "release" => Fresh(b, i)')
  BY <1>1 DEF LeftInv
<1>5. ASSUME i \in Touches[a], exec'[a].started, Accounts(a, i)'
      PROVE  \E b \in Actions : Explains(b, i)' /\ (pc = "release" => Fresh(b, i)')
  <2>1. ledger[a].reserved /\ NodesOf(Touches[a]) \subseteq ledger[a].nodes
    BY <1>3 DEF CoverInv, RunsInv
  <2>2. NodeOf[i] \in ledger[a].nodes
    BY <1>5, <2>1 DEF NodesOf
  <2>3. Explains(a, i)'
    BY <1>1, <1>5, <2>1, <2>2 DEF Explains
  <2>4. Fresh(a, i)'
    BY <1>3 DEF Fresh
  <2> QED BY <2>3, <2>4
<1>6. ASSUME NEW b \in Actions, Explains(b, i), pc = "release" => Fresh(b, i), pod'[i] = pod[i],
             exec'[b].started, exec'[b].created = exec[b].created,
             KindOf[b] = "prepare" /\ exec'[b].ok => exec[b].ok,
             KindOf[b] = "stop" => \A m \in RemoveAfter(b) : exec'[m].ok => exec[m].ok
      PROVE  \E c \in Actions : Explains(c, i)' /\ (pc = "release" => Fresh(c, i)')
  <2>1. ledger'[b].reserved /\ NodeOf[i] \in ledger'[b].nodes
    BY <1>1, <1>6 DEF Explains
  <2>2. Explains(b, i)'
    BY <1>6, <2>1, ExplainsKept
  <2>3. Active(b) => Active(b)'
    BY <1>1 DEF Active
  <2>4. ASSUME pc = "release" PROVE Fresh(b, i)'
    BY <1>1, <1>6, <2>3, <2>4, FreshKept
  <2> QED BY <2>2, <2>4
<1>7. ASSUME pod[i] \notin {"absent", "good"}
      PROVE  \E b \in Actions : /\ Explains(b, i) /\ (pc = "release" => Fresh(b, i))
                                /\ i \in Touches[b] /\ exec[b].started /\ KindOf[b] \in {"prepare", "stop"}
  BY <1>4, <1>7 DEF LeftInv, Explains, Accounts
<1>8. CASE /\ pod' = pod /\ exec'[a].ok = exec[a].ok
           /\ exec'[a].started = exec[a].started /\ exec'[a].created = exec[a].created
  <2>1. PICK b \in Actions : Explains(b, i) /\ (pc = "release" => Fresh(b, i)) /\ exec[b].started
    BY <1>4, <1>7, <1>8
  <2>2. \A m \in RemoveAfter(b) : m \in Actions
    BY DEF RemoveAfter
  <2> QED BY <1>2, <1>6, <1>8, <2>1, <2>2
<1>9. CASE /\ KindOf[a] = "prepare" /\ exec[a].at = "authorized"
           /\ exec'[a].started /\ ~exec'[a].ok
           /\ \/ pod' = pod
              \/ pod' = [pod EXCEPT ![InstanceOf(a)] = "starting"]
              \/ pod' = [pod EXCEPT ![InstanceOf(a)] = "lost"] /\ exec'[a].created = exec[a].created
  <2>1. CASE pod'[i] = pod[i]
    <3>1. PICK b \in Actions : Explains(b, i) /\ (pc = "release" => Fresh(b, i)) /\ exec[b].started
      BY <1>4, <1>7, <2>1
    <3>2. b # a
      BY <1>9, <3>1 DEF ExecInv
    <3>3. \A m \in RemoveAfter(b) : m \in Actions /\ m # a
      BY <1>9 DEF RemoveAfter
    <3> QED BY <1>2, <1>6, <2>1, <3>1, <3>2, <3>3
  <2>2. CASE pod'[i] # pod[i]
    <3>1. i = InstanceOf(a) /\ pod'[i] \in {"starting", "lost"}
      BY <1>1, <1>9, <2>2
    <3>2. pod'[i] = "lost" => ~exec'[a].created
      <4>1. ~exec[a].created
        BY <1>9 DEF ExecInv
      <4> QED BY <1>1, <1>9, <2>2, <3>1, <4>1
    <3>3. Accounts(a, i)'
      BY <1>9, <3>1, <3>2 DEF Accounts
    <3> QED BY <1>5, <1>9, <3>1, <3>3, OneInstance
  <2> QED BY <2>1, <2>2
<1>10. CASE /\ KindOf[a] = "prepare" /\ pod' = pod
            /\ exec'[a].started = exec[a].started /\ exec'[a].created = exec[a].created
            /\ exec'[a].ok => exec[a].ok \/ pod[InstanceOf(a)] = "good"
  <2>1. PICK b \in Actions : /\ Explains(b, i) /\ (pc = "release" => Fresh(b, i))
                             /\ i \in Touches[b] /\ exec[b].started
    BY <1>4, <1>7, <1>10
  <2>2. \A m \in RemoveAfter(b) : m \in Actions /\ m # a
    BY <1>10 DEF RemoveAfter
  <2>3. b = a => i = InstanceOf(a)
    BY <1>10, <2>1, OneInstance
  <2>4. b = a /\ exec'[b].ok => exec[b].ok
    BY <1>4, <1>10, <2>3
  <2> QED BY <1>2, <1>6, <1>10, <2>1, <2>2, <2>4
<1>11. CASE /\ KindOf[a] # "prepare" /\ exec[a].at = "authorized" /\ exec'[a].started
            /\ \E done \in BOOLEAN :
                  /\ exec'[a].ok => done
                  /\ pod' = [j \in Instances |-> IF done /\ j \in Touches[a] /\ Effect(a) # "same" THEN Effect(a) ELSE pod[j]]
  <2>1. PICK done \in BOOLEAN :
                  /\ exec'[a].ok => done
                  /\ pod' = [j \in Instances |-> IF done /\ j \in Touches[a] /\ Effect(a) # "same" THEN Effect(a) ELSE pod[j]]
    BY <1>11
  <2>2. CASE done /\ i \in Touches[a] /\ Effect(a) # "same"
    <3>1. pod'[i] = Effect(a)
      BY <2>1, <2>2
    <3>2. KindOf[a] = "stop" /\ pod'[i] = "stopped"
      BY <1>4, <2>2, <3>1 DEF Effect
    <3>3. \A m \in RemoveAfter(a) : ~exec'[m].ok
      BY <1>2, <1>3, <3>2, RemoveWaits
    <3>4. Accounts(a, i)'
      BY <3>2, <3>3, RemoveAfterIs DEF Accounts
    <3> QED BY <1>5, <1>11, <2>2, <3>4
  <2>3. CASE ~(done /\ i \in Touches[a] /\ Effect(a) # "same")
    <3>1. pod'[i] = pod[i]
      BY <2>1, <2>3
    <3>2. PICK b \in Actions : /\ Explains(b, i) /\ (pc = "release" => Fresh(b, i))
                               /\ i \in Touches[b] /\ exec[b].started
      BY <1>4, <1>7, <3>1
    <3>3. b # a
      BY <1>11, <3>2 DEF ExecInv
    <3>4. ASSUME NEW m \in RemoveAfter(b), exec'[m].ok PROVE exec[m].ok
      <4>1. m \in Actions /\ KindOf[m] = "remove" /\ Touches[m] = Touches[b]
        BY DEF RemoveAfter
      <4>2. m # a
        <5>1. SUFFICES ASSUME m = a PROVE FALSE
          OBVIOUS
        <5>2. done /\ i \in Touches[a]
          BY <2>1, <3>2, <3>4, <4>1, <5>1
        <5>3. Effect(a) # "same"
          BY <4>1, <5>1 DEF Effect
        <5> QED BY <2>3, <5>2, <5>3
      <4> QED BY <1>2, <3>4, <4>1, <4>2
    <3> QED BY <1>2, <1>6, <3>1, <3>2, <3>3, <3>4
  <2> QED BY <2>2, <2>3
<1> QED BY <1>8, <1>9, <1>10, <1>11, EffectsDo

\* An execution that ended since the observation began is known to have, and
\* its run keeps what it started.
LEMMA LeftEnds == ASSUME TypeOK, CoverInv, ExecInv, LeftInv, NEW a \in Actions, Ends(a) PROVE LeftInv'
<1>1. UNCHANGED <<pod, seen, pc>>
  BY EndsAre
<1>2. /\ \A b \in Actions : b # a => exec'[b] = exec[b]
      /\ exec'[a].ok = exec[a].ok /\ exec'[a].started = exec[a].started /\ exec'[a].created = exec[a].created
      /\ recent \subseteq recent'
  BY EndsAre, EndsDo
<1>3. \A b \in Actions : /\ exec'[b].ok = exec[b].ok /\ exec'[b].started = exec[b].started
                         /\ exec'[b].created = exec[b].created
  BY <1>2
<1>4. \A b \in Actions : /\ ledger[b].reserved /\ exec[b].started => ledger'[b].reserved
                         /\ ledger'[b].nodes = ledger[b].nodes
                         /\ ledger'[b].status = ledger[b].status \/ b \in recent'
  BY EndsAre, EndsDo
<1>5. SUFFICES ASSUME NEW i \in Instances, pod[i] \notin {"absent", "good"}
               PROVE  \E b \in Actions : Explains(b, i)' /\ (pc = "release" => Fresh(b, i)')
  BY <1>1 DEF LeftInv
<1>6. PICK b \in Actions : Explains(b, i) /\ (pc = "release" => Fresh(b, i))
  BY <1>5 DEF LeftInv
<1>7. ledger[b].reserved /\ NodeOf[i] \in ledger[b].nodes /\ exec[b].started
  BY <1>6 DEF Explains
<1>8. \A m \in RemoveAfter(b) : m \in Actions
  BY DEF RemoveAfter
<1>9. Explains(b, i)'
  BY <1>1, <1>3, <1>4, <1>6, <1>7, <1>8, ExplainsKept
<1>10. ASSUME pc = "release" PROVE Fresh(b, i)'
  <2>1. Active(b) => Active(b)' \/ b \in recent'
    BY <1>4 DEF Active
  <2> QED BY <1>1, <1>2, <1>3, <1>6, <1>10, <2>1, FreshKept
<1> QED BY <1>9, <1>10

\* Kubernetes unsettles nothing that was not: a Pod that starts was asked for.
LEMMA LeftChange == ASSUME TypeOK, LeftInv, NEW j \in Instances, Change(j) \/ DeletePod(j) PROVE LeftInv'
<1>1. UNCHANGED <<ledger, exec, seen, recent, pc>> /\ pod \in [Instances -> Pods]
  BY DEF Change, DeletePod, TypeOK
<1>2. \E p : /\ pod' = [pod EXCEPT ![j] = p]
             /\ \/ p \in {"absent", "good"}
                \/ p \in {"starting", "bad", "foreign"} /\ pod[j] \in {"lost", "starting"}
  <2>1. CASE Change(j)
    <3>1. PICK p \in Fates(j) : pod' = [pod EXCEPT ![j] = p]
      BY <2>1 DEF Change
    <3>2. \/ p \in {"absent", "good"}
          \/ p \in {"starting", "bad", "foreign"} /\ pod[j] \in {"lost", "starting"}
      BY DEF Fates
    <3> QED BY <3>1, <3>2
  <2>2. CASE DeletePod(j)
    BY <2>2 DEF DeletePod
  <2> QED BY <2>1, <2>2
<1>3. SUFFICES ASSUME NEW i \in Instances, pod'[i] \notin {"absent", "good"}
               PROVE  \E b \in Actions : Explains(b, i)' /\ (pc = "release" => Fresh(b, i)')
  BY <1>1 DEF LeftInv
<1>4. /\ pod[i] \notin {"absent", "good"}
      /\ pod'[i] = pod[i] \/ (pod[i] # "stopped" /\ pod'[i] \notin {"stopped", "lost"})
  BY <1>1, <1>2, <1>3
<1>5. PICK b \in Actions : Explains(b, i) /\ (pc = "release" => Fresh(b, i))
  BY <1>4 DEF LeftInv
<1>6. ledger[b].reserved /\ NodeOf[i] \in ledger[b].nodes /\ exec[b].started
  BY <1>5 DEF Explains
<1>7. Explains(b, i)'
  BY <1>1, <1>4, <1>5, <1>6, ExplainsKept
<1>8. Active(b)' = Active(b)
  BY <1>1 DEF Active
<1>9. ASSUME pc = "release" PROVE Fresh(b, i)'
  BY <1>1, <1>5, <1>8, <1>9, FreshKept
<1> QED BY <1>7, <1>9

\* The rest of the steps leave runs, executions and Pods alone.
LEMMA LeftRest ==
    ASSUME LeftInv, UNCHANGED <<ledger, exec, pod>>,
           pc' # "release" \/ UNCHANGED <<seen, recent, pc>>
    PROVE  LeftInv'
<1>1. SUFFICES ASSUME NEW i \in Instances, pod[i] \notin {"absent", "good"}
               PROVE  \E b \in Actions : Explains(b, i)' /\ (pc' = "release" => Fresh(b, i)')
  BY DEF LeftInv
<1>2. PICK b \in Actions : Explains(b, i) /\ (pc = "release" => Fresh(b, i))
  BY <1>1 DEF LeftInv
<1>3. ledger[b].reserved /\ NodeOf[i] \in ledger[b].nodes /\ exec[b].started
  BY <1>2 DEF Explains
<1>4. Explains(b, i)'
  BY <1>2, <1>3, ExplainsKept
<1>5. Active(b)' = Active(b)
  BY DEF Active
<1>6. ASSUME pc' = "release" PROVE Fresh(b, i)'
  BY <1>2, <1>5, <1>6, FreshKept
<1> QED BY <1>4, <1>6

\* Every step keeps the explanations.
LEMMA LeftStep == ASSUME TypeOK, CoverInv, ExecInv, LeftInv, [Next]_vars PROVE LeftInv'
<1>1. CASE TickBegin \/ TickEnd \/ ReserveDeletion \/ ReleaseDeletion \/ UNCHANGED vars
  <2>1. /\ UNCHANGED <<ledger, exec, pod>>
        /\ pc' # "release" \/ UNCHANGED <<seen, recent, pc>>
    BY <1>1 DEF TickBegin, TickEnd, ReserveDeletion, ReleaseDeletion, vars
  <2> QED BY <2>1, LeftRest
<1>2. CASE TickRead \/ TickRelease \/ TickReconcile
  BY <1>2, LeftRead, LeftRelease, LeftReconcile
<1>3. ASSUME NEW o \in Owners, Sweep(o) \/ Admit(o) PROVE LeftInv'
  BY <1>3, LeftSweep, LeftAdmit
<1>4. ASSUME NEW a \in Actions, StartFails(a) \/ Effects(a) \/ Ends(a) PROVE LeftInv'
  BY <1>4, LeftEffects, LeftEnds
<1>5. ASSUME NEW i \in Instances, Change(i) \/ DeletePod(i) PROVE LeftInv'
  BY <1>5, LeftChange
<1> QED BY <1>1, <1>2, <1>3, <1>4, <1>5 DEF Next, Tick

\* Who explains a Pod holds its Node.
LEMMA LeftImplies == ASSUME LeftInv PROVE NothingLeftBehind
<1>1. SUFFICES ASSUME NEW i \in Instances, pod[i] \notin {"absent", "good"}
               PROVE  \E o \in Owners : NodeOf[i] \in Responsible(o)
  BY DEF NothingLeftBehind
<1>2. PICK a \in Actions : Explains(a, i)
  BY <1>1 DEF LeftInv
<1>3. OwnerOf[a] \in Owners /\ a \in Reserved(OwnerOf[a]) /\ NodeOf[i] \in ledger[a].nodes
  BY <1>2, Constants DEF Explains, Reserved, Members
<1> QED BY <1>3 DEF Responsible

\* On a Node that is free nothing unsettled is left: no creation without an
\* answer, no executor that starts, fails, serves under a policy nobody accounts
\* for, or was stopped and not removed (ownerNodeReturned, pendingOwnerCleanup).
THEOREM NothingIsLeft == Spec => []NothingLeftBehind
<1> DEFINE Inv == TypeOK /\ CoverInv /\ ExecInv /\ LeftInv
<1>1. Init => Inv
  BY TypeInit, CoverInit, ExecInit, LeftInit
<1>2. Inv /\ [Next]_vars => Inv'
  BY TypeStep, CoverStep, ExecStep, LeftStep
<1>3. Inv => NothingLeftBehind
  BY LeftImplies
<1> QED BY <1>1, <1>2, <1>3, PTL DEF Spec
=============================================================================
