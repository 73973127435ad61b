------------------------- MODULE RuntimeSafetyProofs -------------------------
(***************************************************************************)
(* What Runtime promises about the executors, for any number of requests,  *)
(* Workloads, executors, slots and boots:                                  *)
(*   FinalRowOnce        one final row, and nothing follows it,            *)
(*   FinalRowTrue        a final row is not written while it executes,     *)
(*   SlotsCounted        an executor's count is what its calls own,        *)
(*   HeldOwned           an unfenced executor holds only what is owned,    *)
(*   CapacityKept        no executor holds more than its bound.            *)
(*                                                                         *)
(* They rest on SafeInv, which is inductive together with TypeOK and       *)
(* ServedInv of RuntimeProofs.  Its parts are about one call (CallSafe),   *)
(* the slots of the executors (SlotsInv), what an older boot left there    *)
(* (LostInv) and what a native read proves (ReadInv).                      *)
(***************************************************************************)
EXTENDS RuntimeProofs

-----------------------------------------------------------------------------
(* The inductive invariant                                                 *)

\* Executions whose request may still reach the executor.
Sending == {"spawned", "exchanging"}

\* Before acceptance, or rejected.
Early(c) == c.at \in {"new", "received", "validated"} \/ (c.at = "respond" /\ ~c.live)

EarlyCall(c, p) ==
    Early(c) => /\ c.exec = "none" /\ c.assignment = None /\ c.instance = None
                /\ ~c.live /\ ~c.backendDone /\ ~c.transportDone /\ p.st = "away"

\* A waiting call that nothing executes or answers has not been sent.
WaitingCall(c, p) ==
    c.at = "waiting" =>
        /\ c.live
        /\ c.exec = "none" /\ c.sends = 0 =>
              ~c.backendDone /\ ~c.transportDone /\ p.st = "away"

\* An execution owns its slot; it ends when its transport does.
RunningCall(c) ==
    c.exec \in Running => /\ c.live /\ ~c.transportDone
                          /\ c.instance = c.assignment /\ c.assignment # None

\* Nothing executes or owns a slot once its call is closed.
ClosedCall(c) ==
    c.close # "open" => /\ ~c.live /\ c.instance = None
                        /\ c.exec \in {"none", "over"} /\ c.at = "done"

OwnedCall(c) == c.instance \in {None, c.assignment}

\* A proof that the executor has finished is true for good.
FinishedCall(c, p, A) ==
    c.backendDone =>
        /\ p.st # "held"
        /\ p.st = "away" /\ c.exec \in Sending => c.assignment \notin A

\* What an execution says of its request at the executor and in the log.
ExecutedCall(c, p, w) ==
    /\ c.exec \in {"spawned", "unlogged"} => p.st = "away"
    /\ c.exec = "complete" => p.st # "held"
    /\ c.exec \in {"exchanging", "complete", "broken"} => w.assigned # "none"

\* A held request is where its call was sent; one that is owned has its row.
HeldCall(c, p, w, A) ==
    p.st = "held" => /\ p.at = c.assignment /\ p.at \in A
                     /\ c.instance = p.at => w.assigned # "none"

\* The final row is the last thing that happens to a call.
FinalCall(c, p, w) ==
    /\ w.final # "none" => c.close \in {"rowed", "closed"}
    /\ w.final # "none" \/ c.close = "closing" => p.st # "held"

\* What is known of one call c, its request p at the executor and its rows w while
\* the containers A run, except for the slot it owns.
UnslottedCall(c, p, w, A) ==
    /\ EarlyCall(c, p) /\ WaitingCall(c, p) /\ RunningCall(c) /\ ClosedCall(c)
    /\ FinishedCall(c, p, A) /\ ExecutedCall(c, p, w)
    /\ HeldCall(c, p, w, A) /\ FinalCall(c, p, w)

CallSafe(c, p, w, A) == UnslottedCall(c, p, w, A) /\ OwnedCall(c)

CallsSafe == \A r \in Requests : CallSafe(call[r], phys[r], row[r], alive)

\* The calls that own a slot of executor i.
OwnedBy(C, i) == {r \in Requests : C[r].instance = i}

\* An executor counts its slots, and is sent requests only outside the fence and
\* within its bound.
SlotInv(C, x, i) ==
    /\ x.outstanding = Cardinality(OwnedBy(C, i))
    /\ x.ready => x.known /\ ~x.fenced
    /\ \A r \in Requests : C[r].instance = i => x.known
    /\ \A r \in Requests : C[r].exec \in Sending /\ C[r].assignment = i =>
          ~x.fenced /\ x.outstanding <= Capacity[i]

SlotsInv(C, I) == \A i \in Instances : SlotInv(C, I[i], i)

EndedInv ==
    \A i \in Instances : ins[i].terminated \/ src[i].terminated => i \notin alive

\* What an executor holds and no call owns is an older boot's: the boot knows that
\* there may be some, the executor is fenced, and every read of it shows them.
LostInv ==
    \A r \in Requests, i \in Instances :
        phys[r].st = "held" /\ phys[r].at = i /\ call[r].instance # i =>
            /\ srv.unknown
            /\ ins[i].known => ins[i].fenced
            /\ src[i].probe = "read" => r \in src[i].newHeld
            /\ src[i].verified => r \in src[i].held

\* The exchange of c is over.
PastCall(c) ==
    c.exec \in {"complete", "broken", "unlogged", "over"} \/ c.close = "closed"

\* A request whose exchange had ended when a read began and which that read does
\* not show is not held, and never will be.
ReadInv ==
    \A i \in Instances :
        /\ \A r \in src[i].newEnded \cup src[i].ended : PastCall(call[r])
        /\ src[i].probe = "read" =>
              \A r \in src[i].newEnded \ src[i].newHeld :
                  ~(phys[r].st = "held" /\ phys[r].at = i)
        /\ \A r \in src[i].ended \ src[i].held :
                  ~(phys[r].st = "held" /\ phys[r].at = i)

\* The strengthening that makes the four properties inductive.
SafeInv ==
    /\ CallsSafe /\ SlotsInv(call, ins) /\ EndedInv /\ LostInv /\ ReadInv
    /\ PhysicalCapacity

-----------------------------------------------------------------------------
(* What keeps the invariant                                                *)

\* The fields of an executor that say what it may be sent.
SameSlot(x, y) ==
    /\ y.known = x.known /\ y.fenced = x.fenced /\ y.terminated = x.terminated
    /\ y.outstanding = x.outstanding /\ (y.ready => x.ready)

SameSlots(I, J) == \A i \in Instances : SameSlot(I[i], J[i])

\* What the reads of an executor have shown.
SameRead(x, y) ==
    /\ y.probe = x.probe /\ y.newEnded = x.newEnded /\ y.newHeld = x.newHeld
    /\ y.ended = x.ended /\ y.held = x.held /\ y.terminated = x.terminated
    /\ y.verified => x.verified

SameReads == \A i \in Instances : SameRead(src[i], src'[i])

\* A call that is sent to no other executor than before and owns the same slot.
SameOwner(c, d) ==
    /\ d.instance = c.instance
    /\ d.exec \in Sending => c.exec \in Sending /\ d.assignment = c.assignment

Past(c, d) == PastCall(c) => PastCall(d)

\* Nothing new is held.
HeldLess(p, q) == q.st = "held" => p.st = "held" /\ p.at = q.at

\* Slots are kept when no call changes its owner.
LEMMA SlotsKept ==
    ASSUME NEW C, NEW D, NEW I, NEW J, SlotsInv(C, I), SameSlots(I, J),
           \A r \in Requests : SameOwner(C[r], D[r])
    PROVE  SlotsInv(D, J)
<1> SUFFICES ASSUME NEW i \in Instances PROVE SlotInv(D, J[i], i)
  BY DEF SlotsInv
<1>1. SlotInv(C, I[i], i) /\ SameSlot(I[i], J[i])
  BY DEF SlotsInv, SameSlots
<1>2. OwnedBy(D, i) = OwnedBy(C, i)
  BY DEF OwnedBy, SameOwner
<1> QED BY <1>1, <1>2 DEF SlotInv, SameSlot, SameOwner

\* An executor that holds nothing new stays within its bound.
LEMMA HeldLessCapacity ==
    ASSUME TypeOK, PhysicalCapacity, \A r \in Requests : HeldLess(phys[r], phys'[r])
    PROVE  PhysicalCapacity'
<1> SUFFICES ASSUME NEW i \in Instances PROVE Cardinality(HeldAt(i)') <= Capacity[i]
  BY DEF PhysicalCapacity
<1>1. HeldAt(i)' \in SUBSET HeldAt(i) /\ HeldAt(i) \in SUBSET Requests
  <2>1. \A r \in Requests : phys[r] \in PhysType /\ phys'[r] = [st |-> "held", at |-> i] =>
           phys[r] = [st |-> "held", at |-> i]
    BY DEF HeldLess, PhysType
  <2> QED BY <2>1 DEF HeldAt, TypeOK
<1>2. IsFiniteSet(HeldAt(i))
  BY <1>1, ConstantsAssumption, FS_Subset
<1>3. Cardinality(HeldAt(i)') <= Cardinality(HeldAt(i))
  BY <1>1, <1>2, FS_Subset
<1>4. Cardinality(HeldAt(i)') \in Nat /\ Cardinality(HeldAt(i)) \in Nat /\ Capacity[i] \in Nat
  BY <1>1, CardinalityNat, ConstantsAssumption
<1> QED BY <1>3, <1>4 DEF PhysicalCapacity

\* A step that holds, lifts and reads nothing new keeps the invariant if it keeps
\* its calls and slots safe.
LEMMA SafeFrame ==
    ASSUME TypeOK, SafeInv,
           CallsSafe', SlotsInv(call', ins'), \A i \in alive' : i \in alive,
           srv'.unknown = srv.unknown, SameReads,
           \A i \in Instances :
              /\ ins'[i].known /\ ~ins'[i].fenced => ins[i].known /\ ~ins[i].fenced
              /\ ins'[i].terminated => ins[i].terminated,
           \A r \in Requests :
              /\ HeldLess(phys[r], phys'[r]) /\ Past(call[r], call'[r])
              /\ phys'[r].st = "held" /\ call'[r].instance # phys'[r].at =>
                   call[r].instance # phys[r].at
    PROVE  SafeInv'
<1>1. EndedInv'
  BY DEF SafeInv, EndedInv, SameReads, SameRead
<1>2. LostInv'
  BY DEF SafeInv, LostInv, SameReads, SameRead, HeldLess
<1>3. ReadInv'
  <2>1. \A i \in Instances : src[i].newEnded \in SUBSET Requests /\ src[i].ended \in SUBSET Requests
    BY DEF TypeOK, SourceType
  <2>2. ReadInv
    BY DEF SafeInv
  <2> QED BY <2>1, <2>2 DEF ReadInv, SameReads, SameRead, HeldLess, Past
<1>4. PhysicalCapacity'
  BY HeldLessCapacity DEF SafeInv
<1> QED BY <1>1, <1>2, <1>3, <1>4 DEF SafeInv

\* A step that leaves calls and executors as they were.
LEMMA SafeQuiet ==
    ASSUME TypeOK, SafeInv, UNCHANGED <<call, phys, alive>>,
           srv'.unknown = srv.unknown, SameReads, SameSlots(ins, ins'),
           \A r \in Requests :
              /\ row'[r].assigned = "none" <=> row[r].assigned = "none"
              /\ row'[r].final = "none" <=> row[r].final = "none"
    PROVE  SafeInv'
<1>1. CallsSafe'
  BY DEF SafeInv, CallsSafe, CallSafe, UnslottedCall, EarlyCall, WaitingCall, RunningCall,
         ClosedCall, OwnedCall, FinishedCall, ExecutedCall, HeldCall, FinalCall
<1>2. SlotsInv(call', ins')
  BY SlotsKept DEF SafeInv, SameOwner
<1> QED BY <1>1, <1>2, SafeFrame DEF SameSlots, SameSlot, HeldLess, Past

\* A step of one call that keeps its owner.
LEMMA SafeCall ==
    ASSUME TypeOK, SafeInv, NEW r \in Requests, NEW v,
           call' = [call EXCEPT ![r] = v], UNCHANGED alive,
           srv'.unknown = srv.unknown, SameReads, SameSlots(ins, ins'),
           \A x \in Requests \ {r} : row'[x] = row[x] /\ phys'[x] = phys[x],
           CallSafe(v, phys'[r], row'[r], alive), SameOwner(call[r], v),
           HeldLess(phys[r], phys'[r]), Past(call[r], v)
    PROVE  SafeInv'
<1>1. call'[r] = v /\ \A x \in Requests \ {r} : call'[x] = call[x]
  BY DEF TypeOK
<1>2. CallsSafe'
  BY <1>1 DEF SafeInv, CallsSafe
<1>3. \A x \in Requests : SameOwner(call[x], call'[x])
  BY <1>1 DEF SameOwner
<1>4. SlotsInv(call', ins')
  BY <1>3, SlotsKept DEF SafeInv
<1>5. \A x \in Requests : HeldLess(phys[x], phys'[x]) /\ Past(call[x], call'[x])
  BY <1>1 DEF HeldLess, Past
<1>6. \A x \in Requests :
         phys'[x].st = "held" /\ call'[x].instance # phys'[x].at =>
            call[x].instance # phys[x].at
  BY <1>3, <1>5 DEF HeldLess, SameOwner
<1> QED BY <1>2, <1>4, <1>5, <1>6, SafeFrame DEF SameSlots, SameSlot

-----------------------------------------------------------------------------
(* releaseLocked and rebuildLocked                                         *)

\* releaseLocked keeps a live call safe, and lets go of its slot when its executor
\* and its transport have both ended.
LEMMA ReleaseLockedSafe ==
    ASSUME NEW c \in CallType, NEW p, NEW w, NEW A, OpenCall(c),
           c.live, c.close = "open",
           UnslottedCall(c, p, w, A), OwnedCall(c) \/ Settled(c)
    PROVE  /\ CallSafe(ReleaseLocked(c), p, w, A) /\ Past(c, ReleaseLocked(c))
           /\ ReleaseLocked(c).exec = c.exec /\ ReleaseLocked(c).assignment = c.assignment
           /\ ReleaseLocked(c).instance = IF Settled(c) THEN None ELSE c.instance
<1> DEFINE d == ReleaseLocked(c)
<1>1. /\ d.at = c.at /\ d.exec = c.exec /\ d.assignment = c.assignment
      /\ d.sends = c.sends /\ d.backendDone = c.backendDone /\ d.transportDone = c.transportDone
      /\ d.instance = IF Settled(c) THEN None ELSE c.instance
      /\ d.live = (c.live /\ ~Closes(c))
      /\ d.close = IF Closes(c) THEN "closing" ELSE c.close
  BY DEF ReleaseLocked, Closes, CallType
<1> HIDE DEF d
<1>2. Closes(c) => c.at = "done" /\ c.exec \in {"none", "over"} /\ c.backendDone
  BY DEF Closes, Settled, OpenCall, UnslottedCall, RunningCall, Running, CallType, Executions
<1>3. Settled(c) => c.backendDone /\ c.exec \notin Running
  BY DEF Settled, UnslottedCall, RunningCall
<1>4. EarlyCall(d, p) /\ WaitingCall(d, p)
  BY <1>1, <1>2 DEF UnslottedCall, EarlyCall, Early, WaitingCall
<1>5. RunningCall(d) /\ ClosedCall(d) /\ OwnedCall(d)
  BY <1>1, <1>2, <1>3 DEF UnslottedCall, RunningCall, ClosedCall, OwnedCall, Closes
<1>6. FinishedCall(d, p, A) /\ ExecutedCall(d, p, w)
  BY <1>1 DEF UnslottedCall, FinishedCall, ExecutedCall
<1>7. HeldCall(d, p, w, A)
  BY <1>1 DEF UnslottedCall, HeldCall, FinishedCall, Settled
<1>8. FinalCall(d, p, w)
  BY <1>1, <1>2 DEF UnslottedCall, FinalCall, FinishedCall
<1>9. Past(c, d)
  BY <1>1 DEF Past, PastCall
<1> QED BY <1>1, <1>4, <1>5, <1>6, <1>7, <1>8, <1>9 DEF CallSafe, UnslottedCall, d

\* The calls of S whose release frees a slot of executor i.
Freed(C, S, i) == {r \in S : Settled(C[r]) /\ C[r].instance = i}

\* closeLocked and releaseLocked change an executor's counters only.
LEMMA InstancesReleasedSlot ==
    ASSUME NEW I \in [Instances -> InstanceType], NEW C, NEW S, NEW i \in Instances
    PROVE  /\ InstancesReleased(I, C, S)[i].known = I[i].known
           /\ InstancesReleased(I, C, S)[i].fenced = I[i].fenced
           /\ InstancesReleased(I, C, S)[i].terminated = I[i].terminated
           /\ InstancesReleased(I, C, S)[i].ready = I[i].ready
           /\ InstancesReleased(I, C, S)[i].outstanding =
                I[i].outstanding - Cardinality(Freed(C, S, i))
<1> DEFINE x == I[i].outstanding - Cardinality(Freed(C, S, i))
           y == I[i].finalizing + IF I[i].known
                THEN Cardinality({r \in S : Closes(C[r]) /\ C[r].assignment = i})
                ELSE 0
<1>1. InstancesReleased(I, C, S)[i] = [I[i] EXCEPT !.outstanding = x, !.finalizing = y]
  BY DEF InstancesReleased, Freed
<1> HIDE DEF x, y
<1>2. I[i] \in InstanceType
  OBVIOUS
<1>3. /\ InstancesReleased(I, C, S)[i].known = I[i].known
      /\ InstancesReleased(I, C, S)[i].fenced = I[i].fenced
      /\ InstancesReleased(I, C, S)[i].terminated = I[i].terminated
      /\ InstancesReleased(I, C, S)[i].ready = I[i].ready
      /\ InstancesReleased(I, C, S)[i].outstanding = x
  BY <1>1, <1>2 DEF InstanceType
<1> QED BY <1>3 DEF x

\* pruneInstanceBindingsLocked and rebuildLocked change bindings only.
LEMMA PruneSlots ==
    ASSUME NEW I \in [Instances -> InstanceType], NEW C, NEW W
    PROVE  SameSlots(I, Prune(C, W, I))
<1> SUFFICES ASSUME NEW i \in Instances PROVE SameSlot(I[i], Prune(C, W, I)[i])
  BY DEF SameSlots
<1> DEFINE b == {w \in I[i].bindings : KeepsBinding(C, W, I, w, i)}
<1>1. Prune(C, W, I)[i] = [I[i] EXCEPT !.bindings = b]
  BY DEF Prune
<1> HIDE DEF b
<1>2. I[i] \in InstanceType
  OBVIOUS
<1> QED BY <1>1, <1>2 DEF InstanceType, SameSlot

\* Dropping unused executors and binding those that are routed moves no slot.
LEMMA BoundSlots ==
    ASSUME NEW I \in [Instances -> InstanceType], NEW C, NEW W
    PROVE  SameSlots(I, Bound(C, W, I))
<1> DEFINE P == Prune(C, W, I)
<1>1. P \in [Instances -> InstanceType] /\ SameSlots(I, P)
  BY PruneType, PruneSlots
<1>2. Bound(C, W, I) = [i \in Instances |-> [P[i] EXCEPT !.bindings =
             P[i].bindings \cup {w \in Workloads : i \in RouteOf(W, P, w)}]]
  BY DEF Bound
<1> HIDE DEF P
<1> SUFFICES ASSUME NEW i \in Instances PROVE SameSlot(I[i], Bound(C, W, I)[i])
  BY DEF SameSlots
<1> DEFINE b == P[i].bindings \cup {w \in Workloads : i \in RouteOf(W, P, w)}
<1>3. Bound(C, W, I)[i] = [P[i] EXCEPT !.bindings = b]
  BY <1>2
<1> HIDE DEF b
<1>4. P[i] \in InstanceType /\ SameSlot(I[i], P[i])
  BY <1>1 DEF SameSlots
<1> QED BY <1>3, <1>4 DEF InstanceType, SameSlot

\* Two steps that move no slot, one after the other, move none.
LEMMA SameSlotsTrans ==
    ASSUME NEW I, NEW J, NEW K, SameSlots(I, J), SameSlots(J, K)
    PROVE  SameSlots(I, K)
BY DEF SameSlots, SameSlot

\* The slots that a release frees are those of the calls that let go of them.
LEMMA ReleasedSlots ==
    ASSUME NEW I \in [Instances -> InstanceType], NEW C \in [Requests -> CallType],
           NEW S \in SUBSET Requests, SlotsInv(C, I),
           \A r \in S : /\ ReleaseLocked(C[r]).exec = C[r].exec
                        /\ ReleaseLocked(C[r]).assignment = C[r].assignment
                        /\ ReleaseLocked(C[r]).instance =
                              IF Settled(C[r]) THEN None ELSE C[r].instance
    PROVE  SlotsInv(Released(C, S), InstancesReleased(I, C, S))
<1> SUFFICES ASSUME NEW i \in Instances
             PROVE  SlotInv(Released(C, S), InstancesReleased(I, C, S)[i], i)
  BY DEF SlotsInv
<1> DEFINE D == Released(C, S)
           x == I[i]
           y == InstancesReleased(I, C, S)[i]
           F == Freed(C, S, i)
<1>1. /\ y.known = x.known /\ y.fenced = x.fenced /\ y.ready = x.ready
      /\ y.outstanding = x.outstanding - Cardinality(F)
  BY InstancesReleasedSlot
<1>2. SlotInv(C, x, i)
  BY DEF SlotsInv
<1>3. \A r \in Requests : /\ D[r].exec = C[r].exec /\ D[r].assignment = C[r].assignment
                          /\ D[r].instance = IF r \in S /\ Settled(C[r]) THEN None
                                             ELSE C[r].instance
  BY DEF Released
<1>4. None # i
  BY ConstantsAssumption
<1>5. OwnedBy(D, i) = OwnedBy(C, i) \ F /\ F \in SUBSET OwnedBy(C, i)
  BY <1>3, <1>4 DEF OwnedBy, Freed
<1>6. IsFiniteSet(OwnedBy(C, i))
  BY ConstantsAssumption, FS_Subset DEF OwnedBy
<1> HIDE DEF D, y, F
<1>7. /\ Cardinality(OwnedBy(C, i) \ F) = Cardinality(OwnedBy(C, i)) - Cardinality(OwnedBy(C, i) \cap F)
      /\ IsFiniteSet(F)
  BY <1>5, <1>6, FS_Difference, FS_Subset
<1>8. OwnedBy(C, i) \cap F = F
  BY <1>5
<1>9. Cardinality(F) \in Nat /\ Cardinality(OwnedBy(C, i)) \in Nat /\ Capacity[i] \in Nat
  BY <1>6, <1>7, FS_CardinalityType, ConstantsAssumption
<1>10. y.outstanding = Cardinality(OwnedBy(D, i)) /\ y.outstanding <= x.outstanding
  <2>1. x.outstanding = Cardinality(OwnedBy(C, i))
    BY <1>2 DEF SlotInv
  <2>2. Cardinality(OwnedBy(D, i)) = Cardinality(OwnedBy(C, i)) - Cardinality(F)
    BY <1>5, <1>7, <1>8
  <2> QED BY <1>1, <1>9, <2>1, <2>2
<1>11. \A r \in Requests : D[r].instance = i => y.known
  BY <1>1, <1>2, <1>3, <1>4 DEF SlotInv
<1>12. \A r \in Requests : D[r].exec \in Sending /\ D[r].assignment = i =>
           ~y.fenced /\ y.outstanding <= Capacity[i]
  <2>1. x.outstanding \in Int /\ y.outstanding \in Int
    BY <1>1, <1>2, <1>9 DEF SlotInv
  <2> QED BY <1>1, <1>2, <1>3, <1>9, <1>10, <2>1 DEF SlotInv
<1>13. y.ready => y.known /\ ~y.fenced
  BY <1>1, <1>2 DEF SlotInv
<1> QED BY <1>10, <1>11, <1>12, <1>13 DEF SlotInv, D, y

\* Releasing the calls of S, each changed to a safe one that keeps its owner.
LEMMA ReleasedSafe ==
    ASSUME TypeOK, SafeInv, NEW S \in SUBSET Requests, NEW C \in [Requests -> CallType],
           NEW J \in [Instances -> InstanceType],
           call' = Released(C, S), SameSlots(InstancesReleased(J, C, S), ins'),
           UNCHANGED <<phys, row, alive>>, SlotsInv(C, J),
           \A r \in Requests \ S : C[r] = call[r],
           \A r \in S :
              /\ OpenCall(C[r]) /\ C[r].live /\ C[r].close = "open"
              /\ UnslottedCall(C[r], phys[r], row[r], alive)
              /\ OwnedCall(C[r]) \/ Settled(C[r])
              /\ C[r].instance = call[r].instance /\ Past(call[r], C[r])
    PROVE  /\ CallsSafe' /\ SlotsInv(call', ins')
           /\ \A r \in Requests :
                 /\ Past(call[r], call'[r])
                 /\ phys'[r].st = "held" /\ call'[r].instance # phys'[r].at =>
                       call[r].instance # phys[r].at
<1>1. \A r \in S :
         /\ CallSafe(ReleaseLocked(C[r]), phys[r], row[r], alive)
         /\ Past(C[r], ReleaseLocked(C[r]))
         /\ ReleaseLocked(C[r]).exec = C[r].exec /\ ReleaseLocked(C[r]).assignment = C[r].assignment
         /\ ReleaseLocked(C[r]).instance = IF Settled(C[r]) THEN None ELSE C[r].instance
  BY ReleaseLockedSafe
<1>2. \A r \in Requests : call'[r] = IF r \in S THEN ReleaseLocked(C[r]) ELSE call[r]
  BY DEF Released
<1>3. CallsSafe'
  <2> SUFFICES ASSUME NEW r \in Requests
               PROVE  CallSafe(call'[r], phys'[r], row'[r], alive')
    BY DEF CallsSafe
  <2>1. CallSafe(call[r], phys[r], row[r], alive)
    BY DEF SafeInv, CallsSafe
  <2> QED BY <1>1, <1>2, <2>1
<1>4. SlotsInv(Released(C, S), InstancesReleased(J, C, S))
  BY <1>1, ReleasedSlots
<1>5. SlotsInv(call', ins')
  BY <1>4, SlotsKept DEF SameOwner
<1>6. ASSUME NEW r \in Requests
      PROVE  /\ Past(call[r], call'[r])
             /\ phys'[r].st = "held" /\ call'[r].instance # phys'[r].at =>
                   call[r].instance # phys[r].at
  <2>1. CASE r \in S
    <3>1. Past(call[r], call'[r])
      BY <1>1, <1>2, <2>1 DEF Past
    <3>2. phys[r].st = "held" => ~Settled(C[r])
      BY <2>1 DEF UnslottedCall, FinishedCall, Settled
    <3>3. phys[r].st = "held" => call'[r].instance = call[r].instance
      BY <1>1, <1>2, <2>1, <3>2
    <3> QED BY <3>1, <3>3
  <2>2. CASE r \notin S
    BY <1>2, <2>2 DEF Past
  <2> QED BY <2>1, <2>2
<1> QED BY <1>3, <1>5, <1>6

\* A release only counts rows to write: what recovery could not prove stays.
LEMMA ServerReleasedUnknown ==
    ASSUME NEW s \in ServerType, NEW C, NEW S
    PROVE  ServerReleased(s, C, S).unknown = s.unknown
<1> DEFINE n == s.finalizing + Cardinality({r \in S : Closes(C[r])})
<1>1. ServerReleased(s, C, S) = [s EXCEPT !.finalizing = n]
  BY DEF ServerReleased
<1> HIDE DEF n
<1> QED BY <1>1 DEF ServerType

\* The common tail of Response, execute and ObserveBackend.
LEMMA ReleaseSafe ==
    ASSUME TypeOK, SafeInv, NEW r \in Requests, NEW v \in CallType,
           ReleaseAndDispatch([call EXCEPT ![r] = v], r),
           UNCHANGED <<src, phys, row, alive>>,
           OpenCall(v), v.live, v.close = "open",
           UnslottedCall(v, phys[r], row[r], alive), OwnedCall(v) \/ Settled(v),
           SameOwner(call[r], v), Past(call[r], v)
    PROVE  SafeInv'
<1> DEFINE C == [call EXCEPT ![r] = v]
           I == InstancesReleased(ins, C, {r})
<1>1. /\ call' = Released(C, {r}) /\ srv' = ServerReleased(srv, C, {r})
      /\ ins' = IF C[r].backendDone THEN Prune(C, wl, I) ELSE I
  BY DEF ReleaseAndDispatch
<1>2. C[r] = v /\ C \in [Requests -> CallType] /\ \A x \in Requests \ {r} : C[x] = call[x]
  BY DEF TypeOK
<1>3. {r} \in SUBSET Requests /\ ins \in [Instances -> InstanceType]
  BY DEF TypeOK
<1>4. I \in [Instances -> InstanceType]
  BY <1>3, InstancesReleasedType
<1> HIDE DEF C, I
<1>5. SameSlots(I, ins')
  <2>1. SameSlots(I, I)
    BY DEF SameSlots, SameSlot
  <2> QED BY <1>1, <1>4, <2>1, PruneSlots
<1>6. SlotsInv(C, ins)
  <2>1. SameSlots(ins, ins)
    BY DEF SameSlots, SameSlot
  <2>2. \A x \in Requests : SameOwner(call[x], C[x])
    BY <1>2 DEF SameOwner
  <2> QED BY <2>1, <2>2, SlotsKept DEF SafeInv
<1>7. /\ CallsSafe' /\ SlotsInv(call', ins')
      /\ \A x \in Requests :
            /\ Past(call[x], call'[x])
            /\ phys'[x].st = "held" /\ call'[x].instance # phys'[x].at =>
                  call[x].instance # phys[x].at
  <2>1. \A x \in {r} :
           /\ OpenCall(C[x]) /\ C[x].live /\ C[x].close = "open"
           /\ UnslottedCall(C[x], phys[x], row[x], alive)
           /\ OwnedCall(C[x]) \/ Settled(C[x])
           /\ C[x].instance = call[x].instance /\ Past(call[x], C[x])
    BY <1>2 DEF SameOwner
  <2>2. SameSlots(InstancesReleased(ins, C, {r}), ins')
    BY <1>5 DEF I
  <2> QED BY <1>1, <1>2, <1>3, <1>6, <2>1, <2>2, ReleasedSafe
<1>8. srv'.unknown = srv.unknown
  BY <1>1, ServerReleasedUnknown DEF TypeOK
<1>9. \A i \in Instances :
         /\ ins'[i].known /\ ~ins'[i].fenced => ins[i].known /\ ~ins[i].fenced
         /\ ins'[i].terminated => ins[i].terminated
  <2>1. ASSUME NEW i \in Instances
        PROVE  I[i].known = ins[i].known /\ I[i].fenced = ins[i].fenced
               /\ I[i].terminated = ins[i].terminated
    BY <1>3, InstancesReleasedSlot DEF I
  <2> QED BY <1>5, <2>1 DEF SameSlots, SameSlot
<1>10. SameReads
  BY DEF SameReads, SameRead
<1> QED BY <1>7, <1>8, <1>9, <1>10, SafeFrame DEF HeldLess

-----------------------------------------------------------------------------
(* Handlers                                                                *)

\* The executors and the observer are untouched.
LEMMA LocalSafe ==
    ASSUME TypeOK, SafeInv, NEW r \in Requests, NEW v,
           call' = [call EXCEPT ![r] = v], UNCHANGED <<src, alive>>,
           SameSlots(ins, ins'), srv'.unknown = srv.unknown,
           \A x \in Requests \ {r} : row'[x] = row[x] /\ phys'[x] = phys[x],
           CallSafe(v, phys'[r], row'[r], alive), SameOwner(call[r], v),
           HeldLess(phys[r], phys'[r]), Past(call[r], v)
    PROVE  SafeInv'
<1>1. SameReads
  BY DEF SameReads, SameRead
<1> QED BY <1>1, SafeCall

\* A step that leaves the executors alone moves no slot.
LEMMA SameSlotsRefl == ASSUME NEW I PROVE SameSlots(I, I)
BY DEF SameSlots, SameSlot

\* Only the place of the handler, or what the client sees, changes.
Elsewhere(c, d) ==
    /\ d.live = c.live /\ d.exec = c.exec /\ d.assignment = c.assignment
    /\ d.instance = c.instance /\ d.sends = c.sends /\ d.close = c.close
    /\ d.backendDone = c.backendDone /\ d.transportDone = c.transportDone
    /\ Early(d) => Early(c)
    /\ d.at = "waiting" => c.at = "waiting"
    /\ c.at = "done" => d.at = "done"

\* Such a change disturbs nothing that is said about the call.
LEMMA ElsewhereSafe ==
    ASSUME NEW c, NEW d, NEW p, NEW w, NEW A, Elsewhere(c, d), CallSafe(c, p, w, A)
    PROVE  CallSafe(d, p, w, A) /\ SameOwner(c, d) /\ Past(c, d)
<1>1. EarlyCall(d, p) /\ WaitingCall(d, p) /\ RunningCall(d) /\ ClosedCall(d) /\ OwnedCall(d)
  BY DEF Elsewhere, CallSafe, UnslottedCall, EarlyCall, WaitingCall, RunningCall, ClosedCall,
         OwnedCall
<1>2. FinishedCall(d, p, A) /\ ExecutedCall(d, p, w) /\ HeldCall(d, p, w, A) /\ FinalCall(d, p, w)
  BY DEF Elsewhere, CallSafe, UnslottedCall, FinishedCall, ExecutedCall, HeldCall, FinalCall
<1>3. SameOwner(c, d) /\ Past(c, d)
  BY DEF Elsewhere, SameOwner, Past, PastCall
<1> QED BY <1>1, <1>2, <1>3 DEF CallSafe, UnslottedCall

\* A handler that moves on.
LEMMA MoveSafe ==
    ASSUME TypeOK, SafeInv, NEW r \in Requests, NEW v,
           call' = [call EXCEPT ![r] = v], Elsewhere(call[r], v),
           UNCHANGED <<ins, src, row, phys, alive>>, srv'.unknown = srv.unknown
    PROVE  SafeInv'
<1>1. CallSafe(call[r], phys[r], row[r], alive)
  BY DEF SafeInv, CallsSafe
<1>2. CallSafe(v, phys[r], row[r], alive) /\ SameOwner(call[r], v) /\ Past(call[r], v)
  BY <1>1, ElsewhereSafe
<1> QED BY <1>2, SameSlotsRefl, LocalSafe DEF HeldLess

\* Receive: the call is known, nothing executes.
LEMMA ReceiveSafe ==
    ASSUME TypeOK, ServedInv, SafeInv, NEW r \in Requests, NEW w, Receive(r, w)
    PROVE  SafeInv'
<1> DEFINE c == call[r]
           v == [c EXCEPT !.at = IF srv.failed \/ w = None THEN "respond" ELSE "received",
                          !.uid = w, !.def = IF w = None THEN None ELSE wl[w].def]
<1>1. c \in CallType /\ c.at = "new" /\ ~c.live
  BY DEF Receive, TypeOK, ServedInv, CallsInv, CallInv, FreshCall
<1>2. Elsewhere(c, v)
  BY <1>1 DEF Elsewhere, Early, CallType
<1>3. call' = [call EXCEPT ![r] = v] /\ UNCHANGED <<ins, src, row, phys, alive, srv>>
  BY DEF Receive
<1> HIDE DEF v
<1> QED BY <1>2, <1>3, MoveSafe

\* The handler parses the input, outside the lock.
LEMMA ValidateSafe ==
    ASSUME TypeOK, ServedInv, SafeInv, NEW r \in Requests, Validate(r)
    PROVE  SafeInv'
<1>1. PICK a \in {"validated", "respond"} : call' = [call EXCEPT ![r].at = a]
  BY DEF Validate
<1> DEFINE c == call[r]
           v == [c EXCEPT !.at = a]
<1>2. c \in CallType /\ c.at = "received" /\ ~c.live
  BY DEF Validate, TypeOK, ServedInv, CallsInv, CallInv, FreshCall
<1>3. Elsewhere(c, v)
  BY <1>2 DEF Elsewhere, Early, CallType
<1>4. call' = [call EXCEPT ![r] = v] /\ UNCHANGED <<ins, src, row, phys, alive, srv>>
  BY <1>1 DEF Validate
<1> HIDE DEF v
<1> QED BY <1>3, <1>4, MoveSafe

\* Accept refuses a request it has validated.
LEMMA RejectSafe ==
    ASSUME TypeOK, ServedInv, SafeInv, NEW r \in Requests, Reject(r)
    PROVE  SafeInv'
<1> DEFINE c == call[r]
           v == [c EXCEPT !.at = "respond"]
<1>2. c \in CallType /\ c.at = "validated" /\ ~c.live
  BY DEF Reject, TypeOK, ServedInv, CallsInv, CallInv, FreshCall
<1>3. Elsewhere(c, v)
  BY <1>2 DEF Elsewhere, Early, CallType
<1>4. call' = [call EXCEPT ![r] = v] /\ UNCHANGED <<ins, src, row, phys, alive, srv>>
  BY DEF Reject
<1> HIDE DEF v
<1> QED BY <1>3, <1>4, MoveSafe

\* Wait takes the reply.
LEMMA WaitReplySafe ==
    ASSUME TypeOK, SafeInv, NEW r \in Requests, WaitReply(r)
    PROVE  SafeInv'
<1> DEFINE c == call[r]
           v == [c EXCEPT !.at = "respond"]
<1>2. c \in CallType /\ c.at = "waiting" /\ c.live
  BY DEF WaitReply, TypeOK, SafeInv, CallsSafe, CallSafe, UnslottedCall, WaitingCall
<1>3. Elsewhere(c, v)
  BY <1>2 DEF Elsewhere, Early, CallType
<1>4. call' = [call EXCEPT ![r] = v] /\ UNCHANGED <<ins, src, row, phys, alive, srv>>
  BY DEF WaitReply
<1> HIDE DEF v
<1> QED BY <1>3, <1>4, MoveSafe

\* Accept puts a call into the queue: nothing executes it yet.
LEMMA AcceptSafe ==
    ASSUME TypeOK, ServedInv, SafeInv, NEW r \in Requests, Accept(r)
    PROVE  SafeInv'
<1> DEFINE c == call[r]
           v == [c EXCEPT !.at = "waiting", !.live = TRUE]
<1>1. c \in CallType /\ c.at = "validated" /\ CallSafe(c, phys[r], row[r], alive)
  BY DEF Accept, TypeOK, SafeInv, CallsSafe
<1>2. /\ v.at = "waiting" /\ v.live /\ v.exec = c.exec /\ v.assignment = c.assignment
      /\ v.instance = c.instance /\ v.close = c.close
      /\ v.backendDone = c.backendDone /\ v.transportDone = c.transportDone
  BY <1>1 DEF CallType
<1>3. call' = [call EXCEPT ![r] = v] /\ UNCHANGED <<ins, src, row, phys, alive, srv>>
  BY DEF Accept
<1> HIDE DEF v
<1>4. /\ c.exec = "none" /\ c.assignment = None /\ c.instance = None
      /\ ~c.backendDone /\ ~c.transportDone /\ phys[r].st = "away" /\ c.close = "open"
  BY <1>1 DEF CallSafe, UnslottedCall, EarlyCall, Early, ClosedCall
<1>5. UnslottedCall(v, phys[r], row[r], alive) /\ OwnedCall(v)
  BY <1>1, <1>2, <1>4
     DEF CallSafe, UnslottedCall, EarlyCall, Early, WaitingCall, RunningCall, Running, ClosedCall,
         OwnedCall, FinishedCall, ExecutedCall, HeldCall, FinalCall
<1>6. SameOwner(c, v) /\ Past(c, v)
  BY <1>2 DEF SameOwner, Past, PastCall
<1> QED BY <1>3, <1>5, <1>6, SameSlotsRefl, LocalSafe DEF CallSafe, HeldLess

\* Wait gives up: a call that was never sent is over, any other keeps its slot.
LEMMA WaitDoneSafe ==
    ASSUME TypeOK, ServedInv, SafeInv, NEW r \in Requests, WaitDone(r)
    PROVE  SafeInv'
<1> DEFINE c == call[r]
           v == [c EXCEPT !.at = "respond",
                          !.backendDone = c.backendDone \/ c.assignment = None,
                          !.transportDone = c.transportDone \/ c.assignment = None,
                          !.canceled = TRUE]
<1>1. c \in CallType /\ c.at = "waiting" /\ CallSafe(c, phys[r], row[r], alive)
  BY DEF WaitDone, TypeOK, SafeInv, CallsSafe
<1>2. /\ v.at = "respond" /\ v.live = c.live /\ v.exec = c.exec /\ v.assignment = c.assignment
      /\ v.instance = c.instance /\ v.close = c.close
      /\ v.backendDone = (c.backendDone \/ c.assignment = None)
      /\ v.transportDone = (c.transportDone \/ c.assignment = None)
  BY <1>1 DEF CallType
<1>3. call' = [call EXCEPT ![r] = v] /\ UNCHANGED <<ins, src, row, phys, alive, srv>>
  BY DEF WaitDone
<1> HIDE DEF v
<1>4. c.live /\ c.close = "open"
  BY <1>1 DEF CallSafe, UnslottedCall, WaitingCall, ClosedCall
<1>5. c.assignment = None => c.exec \notin Running /\ phys[r].st # "held"
  <2>1. c.assignment = None => c.exec \notin Running
    BY <1>1 DEF CallSafe, UnslottedCall, RunningCall
  <2>2. phys[r].st = "held" => phys[r].at = c.assignment /\ phys[r].at \in alive
    BY <1>1 DEF CallSafe, UnslottedCall, HeldCall
  <2>3. None \notin alive
    BY ConstantsAssumption DEF TypeOK
  <2> QED BY <2>1, <2>2, <2>3
<1>6. EarlyCall(v, phys[r]) /\ WaitingCall(v, phys[r]) /\ RunningCall(v) /\ ClosedCall(v) /\ OwnedCall(v)
  BY <1>1, <1>2, <1>4, <1>5
     DEF CallSafe, UnslottedCall, EarlyCall, Early, WaitingCall, RunningCall, ClosedCall, OwnedCall
<1>7. FinishedCall(v, phys[r], alive)
  BY <1>1, <1>2, <1>5 DEF CallSafe, UnslottedCall, FinishedCall, Running, Sending
<1>8. ExecutedCall(v, phys[r], row[r]) /\ HeldCall(v, phys[r], row[r], alive) /\ FinalCall(v, phys[r], row[r])
  BY <1>1, <1>2 DEF CallSafe, UnslottedCall, ExecutedCall, HeldCall, FinalCall
<1>9. SameOwner(c, v) /\ Past(c, v)
  BY <1>2 DEF SameOwner, Past, PastCall
<1> QED BY <1>3, <1>6, <1>7, <1>8, <1>9, SameSlotsRefl, LocalSafe DEF CallSafe, UnslottedCall, HeldLess

\* Response of a live call: its slot is given back when nothing can act for it.
LEMMA ResponseLiveSafe ==
    ASSUME TypeOK, ServedInv, SafeInv, NEW r \in Requests, ResponseLive(r)
    PROVE  SafeInv'
<1> DEFINE c == call[r]
           u == [c EXCEPT !.at = "done"]
           v == [c EXCEPT !.at = "done", !.responseRecorded = TRUE]
<1>1. /\ c \in CallType /\ c.at = "respond" /\ c.live /\ c.close = "open"
      /\ CallSafe(c, phys[r], row[r], alive)
  BY DEF ResponseLive, TypeOK, SafeInv, CallsSafe, ServedInv, CallsInv, CallInv, OpenCall
<1>2. Elsewhere(c, u) /\ Elsewhere(c, v) /\ v \in CallType /\ v.at = "done"
  BY <1>1 DEF Elsewhere, Early, CallType, Places
<1>3. UNCHANGED <<src, row, phys, alive>>
  BY DEF ResponseLive
<1>4. CASE call' = [call EXCEPT ![r] = u] /\ UNCHANGED <<ins, srv>>
  <2> HIDE DEF u
  <2> QED BY <1>2, <1>3, <1>4, MoveSafe
<1>5. CASE ReleaseAndDispatch([call EXCEPT ![r] = v], r)
  <2> HIDE DEF v
  <2>1. CallSafe(v, phys[r], row[r], alive) /\ SameOwner(c, v) /\ Past(c, v)
    BY <1>1, <1>2, ElsewhereSafe
  <2>2. OpenCall(v) /\ v.live /\ v.close = "open"
    BY <1>1, <1>2 DEF OpenCall, Elsewhere
  <2> QED BY <1>2, <1>3, <1>5, <2>1, <2>2, ReleaseSafe DEF CallSafe
<1> QED BY <1>4, <1>5 DEF ResponseLive

\* A rejected call was sent nowhere.
LEMMA ResponseRejectedSafe ==
    ASSUME TypeOK, ServedInv, SafeInv, NEW r \in Requests, ResponseRejected(r)
    PROVE  SafeInv'
<1> DEFINE c == call[r]
           u == [c EXCEPT !.at = "done"]
           v == [c EXCEPT !.at = "done", !.responseRecorded = TRUE, !.close = "closing"]
<1>1. /\ c \in CallType /\ c.at = "respond" /\ ~c.live /\ c.close = "open"
      /\ CallSafe(c, phys[r], row[r], alive)
  BY DEF ResponseRejected, TypeOK, SafeInv, CallsSafe, ServedInv, CallsInv, CallInv, OpenCall
<1>2. Elsewhere(c, u)
  BY <1>1 DEF Elsewhere, Early, CallType
<1>3. UNCHANGED <<ins, src, row, phys, alive>>
  BY DEF ResponseRejected
<1>4. CASE call' = [call EXCEPT ![r] = u] /\ UNCHANGED srv
  <2> HIDE DEF u
  <2> QED BY <1>2, <1>3, <1>4, MoveSafe
<1>5. CASE call' = [call EXCEPT ![r] = v] /\ srv' = [srv EXCEPT !.finalizing = @ + 1]
  <2>1. /\ v.at = "done" /\ v.live = c.live /\ v.exec = c.exec /\ v.assignment = c.assignment
        /\ v.instance = c.instance /\ v.close = "closing"
        /\ v.backendDone = c.backendDone /\ v.transportDone = c.transportDone
    BY <1>1 DEF CallType
  <2>2. srv'.unknown = srv.unknown
    BY <1>5 DEF TypeOK, ServerType
  <2> HIDE DEF v
  <2>3. /\ c.exec = "none" /\ c.assignment = None /\ c.instance = None
        /\ ~c.backendDone /\ ~c.transportDone /\ phys[r].st = "away" /\ row[r].final = "none"
    BY <1>1 DEF CallSafe, UnslottedCall, EarlyCall, Early, FinalCall
  <2>4. UnslottedCall(v, phys[r], row[r], alive) /\ OwnedCall(v)
    BY <1>1, <2>1, <2>3
       DEF UnslottedCall, EarlyCall, Early, WaitingCall, RunningCall, Running, ClosedCall,
           OwnedCall, FinishedCall, ExecutedCall, HeldCall, FinalCall
  <2>5. SameOwner(c, v) /\ Past(c, v)
    BY <1>1, <2>1, <2>3 DEF SameOwner, Past, PastCall
  <2> QED BY <1>3, <1>5, <2>2, <2>4, <2>5, SameSlotsRefl, LocalSafe DEF CallSafe, HeldLess
<1> QED BY <1>4, <1>5 DEF ResponseRejected

\* RequestClosed writes the final row: what closes a call is that nothing can act
\* for it.
LEMMA RequestClosedSafe ==
    ASSUME TypeOK, ServedInv, SafeInv, NEW r \in Requests, RequestClosed(r)
    PROVE  SafeInv'
<1> DEFINE c == call[r]
           v == [c EXCEPT !.close = "rowed"]
           u == [row[r] EXCEPT !.final = IF srv.failed THEN "late" ELSE "mem"]
<1>1. /\ c \in CallType /\ c.close = "closing"
      /\ CallSafe(c, phys[r], row[r], alive)
  BY DEF RequestClosed, TypeOK, SafeInv, CallsSafe
<1>2. /\ v.at = c.at /\ v.live = c.live /\ v.exec = c.exec /\ v.assignment = c.assignment
      /\ v.instance = c.instance /\ v.close = "rowed" /\ v.sends = c.sends
      /\ v.backendDone = c.backendDone /\ v.transportDone = c.transportDone
  BY <1>1 DEF CallType
<1>3. row[r] \in RowType /\ u.assigned = row[r].assigned
  BY DEF TypeOK, RowType
<1>4. /\ call' = [call EXCEPT ![r] = v] /\ row' = [row EXCEPT ![r] = u]
      /\ UNCHANGED <<ins, src, srv, phys, alive>>
  BY DEF RequestClosed
<1> HIDE DEF v, u
<1>5. row'[r] = u /\ \A x \in Requests \ {r} : row'[x] = row[x]
  BY <1>4 DEF TypeOK
<1>6. UnslottedCall(v, phys[r], u, alive) /\ OwnedCall(v)
  BY <1>1, <1>2, <1>3
     DEF CallSafe, UnslottedCall, EarlyCall, Early, WaitingCall, RunningCall, ClosedCall,
         OwnedCall, FinishedCall, ExecutedCall, HeldCall, FinalCall
<1>7. SameOwner(c, v) /\ Past(c, v)
  BY <1>1, <1>2 DEF SameOwner, Past, PastCall
<1> QED BY <1>4, <1>5, <1>6, <1>7, SameSlotsRefl, LocalSafe DEF CallSafe, HeldLess

\* A closed call keeps what its rows name.
LEMMA RowOnlyFields ==
    ASSUME NEW c
    PROVE  /\ RowOnly(c).at = "done" /\ ~RowOnly(c).live /\ RowOnly(c).exec = "none"
           /\ RowOnly(c).assignment = c.assignment /\ RowOnly(c).instance = None
           /\ RowOnly(c).close = "closed" /\ ~RowOnly(c).backendDone
           /\ ~RowOnly(c).transportDone /\ RowOnly(c).sends = 0
BY DEF RowOnly, NewCall

\* unlock's last section forgets the call: nothing executes it.
LEMMA FinalizedSafe ==
    ASSUME TypeOK, ServedInv, SafeInv, NEW r \in Requests, Finalized(r)
    PROVE  SafeInv'
<1> DEFINE c == call[r]
           v == RowOnly(c)
           i == c.assignment
           f == ins[i].finalizing - 1
<1>1. /\ c \in CallType /\ c.close = "rowed"
      /\ CallSafe(c, phys[r], row[r], alive)
  BY DEF Finalized, TypeOK, SafeInv, CallsSafe
<1>2. /\ v.at = "done" /\ ~v.live /\ v.exec = "none"
      /\ v.assignment = c.assignment /\ v.instance = None /\ v.close = "closed"
      /\ ~v.backendDone /\ ~v.transportDone
  BY RowOnlyFields
<1>3. /\ call' = [call EXCEPT ![r] = v] /\ UNCHANGED <<src, row, phys, alive>>
      /\ srv' = [srv EXCEPT !.finalizing = @ - 1]
      /\ ins' = ins \/ ins' = [ins EXCEPT ![i] = [ins[i] EXCEPT !.finalizing = f]]
  BY DEF Finalized
<1>4. srv'.unknown = srv.unknown
  BY <1>3 DEF TypeOK, ServerType
<1>5. SameSlots(ins, ins')
  <2> SUFFICES ASSUME NEW j \in Instances PROVE SameSlot(ins[j], ins'[j])
    BY DEF SameSlots
  <2> HIDE DEF f
  <2>1. ins[j] \in InstanceType /\ ins \in [Instances -> InstanceType]
    BY DEF TypeOK
  <2>2. ins'[j] = ins[j] \/ ins'[j] = [ins[j] EXCEPT !.finalizing = f]
    BY <1>3, <2>1
  <2> QED BY <2>1, <2>2 DEF SameSlot, InstanceType
<1> HIDE DEF v
<1>6. c.instance = None /\ c.exec \in {"none", "over"} /\ phys[r].st \in {"away", "held", "ran", "over"}
  BY <1>1 DEF CallSafe, UnslottedCall, ClosedCall, TypeOK, PhysType
<1>7. UnslottedCall(v, phys[r], row[r], alive) /\ OwnedCall(v)
  BY <1>1, <1>2, <1>6
     DEF CallSafe, UnslottedCall, EarlyCall, Early, WaitingCall, RunningCall, Running, ClosedCall,
         OwnedCall, FinishedCall, ExecutedCall, HeldCall, FinalCall
<1>8. SameOwner(c, v) /\ Past(c, v)
  BY <1>1, <1>2, <1>6 DEF SameOwner, Past, PastCall, Sending
<1> QED BY <1>3, <1>4, <1>5, <1>7, <1>8, LocalSafe DEF CallSafe, HeldLess

-----------------------------------------------------------------------------
(* dispatchLocked and execute                                              *)

\* The head of a queue has been sent nowhere.
LEMMA HeadCall ==
    ASSUME TypeOK, ServedInv, SafeInv, NEW w \in Workloads, wl[w].queue # <<>>,
           NEW r, r = Head(wl[w].queue)
    PROVE  /\ r \in Requests /\ call[r] \in CallType
           /\ call[r].at = "waiting" /\ call[r].exec = "none" /\ call[r].sends = 0
           /\ call[r].assignment = None /\ call[r].instance = None
           /\ call[r].live /\ call[r].close = "open"
           /\ ~call[r].backendDone /\ ~call[r].transportDone
           /\ phys[r].st = "away" /\ row[r].final = "none"
<1> DEFINE q == wl[w].queue
<1>1. q \in Seq(Requests) /\ r \in Requests /\ call[r] \in CallType
  BY DEF TypeOK, WorkloadType
<1>2. 1 \in DOMAIN q /\ r = q[1]
  BY <1>1
<1>3. QueuedCall(call[r], w)
  BY <1>2 DEF ServedInv, QueuesInv
<1>4. CallSafe(call[r], phys[r], row[r], alive)
  BY Zenon, <1>1 DEF SafeInv, CallsSafe
<1> DEFINE c == call[r]
           p == phys[r]
           o == row[r]
<1>5. /\ c.at = "waiting" /\ c.exec = "none" /\ c.sends = 0 /\ c.assignment = None
      /\ WaitingCall(c, p) /\ ClosedCall(c) /\ OwnedCall(c) /\ FinalCall(c, p, o)
  BY Zenon, <1>3, <1>4 DEF QueuedCall, CallSafe, UnslottedCall
<1> HIDE DEF c, p, o
<1>6. c.live /\ ~c.backendDone /\ ~c.transportDone /\ p.st = "away"
  BY Zenon, <1>5 DEF WaitingCall
<1>7. c.instance = None
  BY <1>5 DEF OwnedCall
<1>8. c.close = "open"
  BY Zenon, <1>5, <1>6 DEF ClosedCall
<1>9. o.final = "none"
  BY <1>5, <1>8 DEF FinalCall
<1> QED BY Zenon, <1>1, <1>5, <1>6, <1>7, <1>8, <1>9 DEF c, p, o

\* An expired head is answered and never sent.
LEMMA DispatchExpiredSafe ==
    ASSUME TypeOK, ServedInv, SafeInv, NEW w \in Workloads, DispatchExpired(w)
    PROVE  SafeInv'
<1> DEFINE r == Head(wl[w].queue)
           c == call[r]
           n == c.sends + 1
           v == [c EXCEPT !.backendDone = TRUE, !.transportDone = TRUE, !.sends = n]
<1>1. /\ call' = [call EXCEPT ![r] = v] /\ UNCHANGED <<ins, src, row, phys, alive, srv>>
  BY DEF DispatchExpired
<1>2. /\ r \in Requests /\ c \in CallType
      /\ c.at = "waiting" /\ c.exec = "none" /\ c.sends = 0
      /\ c.assignment = None /\ c.instance = None /\ c.live /\ c.close = "open"
      /\ phys[r].st = "away" /\ row[r].final = "none"
  BY HeadCall DEF DispatchExpired
<1> HIDE DEF n
<1>3. /\ v.at = "waiting" /\ v.live /\ v.exec = "none" /\ v.assignment = None
      /\ v.instance = None /\ v.close = "open" /\ v.sends = n
  BY <1>2 DEF CallType
<1>4. n = 1
  BY <1>2 DEF n
<1> HIDE DEF v, r
<1>5. UnslottedCall(v, phys[r], row[r], alive) /\ OwnedCall(v)
  BY <1>2, <1>3, <1>4
     DEF UnslottedCall, EarlyCall, Early, WaitingCall, RunningCall, Running, ClosedCall,
         OwnedCall, FinishedCall, Sending, ExecutedCall, HeldCall, FinalCall
<1>6. SameOwner(call[r], v) /\ Past(call[r], v)
  BY <1>2, <1>3 DEF SameOwner, Past, PastCall, Sending
<1> QED BY <1>1, <1>2, <1>5, <1>6, SameSlotsRefl, LocalSafe DEF CallSafe, HeldLess

\* A slot is taken only of an executor outside the fence and below its bound.
LEMMA TakenSlots ==
    ASSUME TypeOK, SlotsInv(call, ins), NEW r \in Requests, NEW i \in Instances,
           call'[r].instance = i, call'[r].assignment = i,
           call[r].instance = None,
           \A x \in Requests \ {r} : call'[x] = call[x],
           ins[i].ready, ins[i].outstanding < Capacity[i],
           ins' = [ins EXCEPT ![i] = [ins[i] EXCEPT !.outstanding = ins[i].outstanding + 1]]
    PROVE  SlotsInv(call', ins')
<1> DEFINE n == ins[i].outstanding + 1
           x == [ins[i] EXCEPT !.outstanding = n]
<1>1. ins \in [Instances -> InstanceType] /\ ins[i] \in InstanceType /\ i # None
  BY ConstantsAssumption DEF TypeOK
<1>2. ins'[i] = x /\ \A j \in Instances \ {i} : ins'[j] = ins[j]
  BY <1>1
<1>n. n = ins[i].outstanding + 1 /\ ins[i].outstanding \in Int /\ Capacity[i] \in Nat
  BY <1>1, ConstantsAssumption DEF InstanceType
<1> HIDE DEF n
<1>3. /\ x.outstanding = n /\ x.ready = ins[i].ready /\ x.known = ins[i].known
      /\ x.fenced = ins[i].fenced
  BY <1>1 DEF InstanceType
<1> HIDE DEF x
<1>4. SlotInv(call', x, i)
  <2>1. SlotInv(call, ins[i], i)
    BY DEF SlotsInv
  <2>2. OwnedBy(call', i) = OwnedBy(call, i) \cup {r} /\ r \notin OwnedBy(call, i)
    BY <1>1 DEF OwnedBy
  <2>3. IsFiniteSet(OwnedBy(call, i))
    BY ConstantsAssumption, FS_Subset DEF OwnedBy
  <2>4. Cardinality(OwnedBy(call, i) \cup {r}) = Cardinality(OwnedBy(call, i)) + 1
    BY <2>2, <2>3, FS_AddElement
  <2>5. x.outstanding = Cardinality(OwnedBy(call', i))
    BY <1>3, <1>n, <2>1, <2>2, <2>4 DEF SlotInv
  <2>6. x.known /\ ~x.fenced /\ x.outstanding <= Capacity[i]
    BY <1>3, <1>n, <2>1 DEF SlotInv
  <2> QED BY <2>5, <2>6 DEF SlotInv
<1>5. ASSUME NEW j \in Instances \ {i} PROVE SlotInv(call', ins[j], j)
  <2>1. SlotInv(call, ins[j], j)
    BY DEF SlotsInv
  <2>2. OwnedBy(call', j) = OwnedBy(call, j)
    <3>1. j # None
      BY ConstantsAssumption
    <3> QED BY <3>1 DEF OwnedBy
  <2> QED BY <2>1, <2>2 DEF SlotInv
<1> QED BY <1>2, <1>4, <1>5 DEF SlotsInv

\* chooseLocked takes a slot for the head.
LEMMA DispatchAssignSafe ==
    ASSUME TypeOK, ServedInv, SafeInv, NEW w \in Workloads, NEW i \in Instances,
           DispatchAssign(w, i)
    PROVE  SafeInv'
<1> DEFINE r == Head(wl[w].queue)
           c == call[r]
           v == [c EXCEPT !.assignment = i, !.instance = i, !.exec = "spawned"]
<1>1. /\ call' = [call EXCEPT ![r] = v] /\ UNCHANGED <<src, row, phys, alive, srv>>
      /\ ins' = [ins EXCEPT ![i] = [ins[i] EXCEPT !.outstanding = ins[i].outstanding + 1]]
      /\ ins[i].ready /\ ins[i].outstanding < Capacity[i]
  BY DEF DispatchAssign, Available
<1>2. /\ r \in Requests /\ c \in CallType
      /\ c.at = "waiting" /\ c.exec = "none" /\ c.sends = 0
      /\ c.assignment = None /\ c.instance = None /\ c.live /\ c.close = "open"
      /\ ~c.backendDone /\ ~c.transportDone
      /\ phys[r].st = "away" /\ row[r].final = "none"
  BY HeadCall DEF DispatchAssign
<1>3. /\ v.at = "waiting" /\ v.live /\ v.exec = "spawned" /\ v.assignment = i
      /\ v.instance = i /\ v.close = "open" /\ ~v.backendDone /\ ~v.transportDone
  BY <1>2 DEF CallType
<1> HIDE DEF v, r
<1>4. call'[r] = v /\ \A x \in Requests \ {r} : call'[x] = call[x]
  BY <1>1, <1>2 DEF TypeOK
<1>5. SlotsInv(call', ins')
  BY ZenonT(60), <1>1, <1>2, <1>3, <1>4, TakenSlots DEF SafeInv
<1>6. CallSafe(v, phys[r], row[r], alive)
  <2>1. i # None
    BY ConstantsAssumption
  <2> QED BY <1>2, <1>3, <2>1
       DEF CallSafe, UnslottedCall, EarlyCall, Early, WaitingCall, RunningCall, Running,
           ClosedCall, OwnedCall, FinishedCall, ExecutedCall, HeldCall, FinalCall
<1>7. CallsSafe'
  BY <1>1, <1>4, <1>6 DEF SafeInv, CallsSafe
<1>8. \A x \in Requests :
         /\ HeldLess(phys[x], phys'[x]) /\ Past(call[x], call'[x])
         /\ phys'[x].st = "held" /\ call'[x].instance # phys'[x].at =>
              call[x].instance # phys[x].at
  BY <1>1, <1>2, <1>4 DEF HeldLess, Past, PastCall
<1>9. SameReads
  BY <1>1 DEF SameReads, SameRead
<1>10. \A j \in Instances :
         /\ ins'[j].known /\ ~ins'[j].fenced => ins[j].known /\ ~ins[j].fenced
         /\ ins'[j].terminated => ins[j].terminated
  <2> DEFINE n == ins[i].outstanding + 1
  <2>1. ins' = [ins EXCEPT ![i] = [ins[i] EXCEPT !.outstanding = n]]
    BY <1>1
  <2> HIDE DEF n
  <2>2. ASSUME NEW j \in Instances
        PROVE  ins'[j] = ins[j] \/ ins'[j] = [ins[j] EXCEPT !.outstanding = n]
    BY <2>1 DEF TypeOK
  <2>3. \A j \in Instances : ins[j] \in InstanceType
    BY DEF TypeOK
  <2> QED BY <2>2, <2>3 DEF InstanceType
<1> QED BY <1>1, <1>5, <1>7, <1>8, <1>9, <1>10, SafeFrame

\* dispatchLocked, from one iteration to the next and to the unlock.
LEMMA DispatchSafe ==
    ASSUME TypeOK, ServedInv, SafeInv, DispatchStep
    PROVE  SafeInv'
<1>1. CASE DispatchEnd
  <2>1. SameReads
    BY <1>1 DEF DispatchEnd, SameReads, SameRead
  <2> QED BY <1>1, <2>1, SafeQuiet, SameSlotsRefl DEF DispatchEnd
<1> QED BY <1>1, DispatchExpiredSafe, DispatchAssignSafe DEF DispatchStep

\* execute enqueues the assigned row before the exchange begins.
LEMMA ExecuteBeginSafe ==
    ASSUME TypeOK, ServedInv, SafeInv, NEW r \in Requests, ExecuteBegin(r)
    PROVE  SafeInv'
<1> DEFINE c == call[r]
<1>1. /\ c \in CallType /\ c.exec = "spawned" /\ CallSafe(c, phys[r], row[r], alive)
      /\ row[r] \in RowType
  BY DEF ExecuteBegin, TypeOK, SafeInv, CallsSafe
<1>2. phys[r].st = "away" /\ c.live /\ ~c.transportDone /\ c.instance = c.assignment /\ c.assignment # None
  BY <1>1 DEF CallSafe, UnslottedCall, ExecutedCall, RunningCall, Running
<1>3. PICK x \in {"unlogged", "complete", "exchanging"} :
         /\ call' = [call EXCEPT ![r] = [c EXCEPT !.exec = x]]
         /\ \/ x = "unlogged" /\ row' = row
            \/ row' = [row EXCEPT ![r] = [row[r] EXCEPT !.assigned = "mem"]]
         /\ UNCHANGED <<ins, src, srv, phys, alive>>
  BY DEF ExecuteBegin
<1> DEFINE v == [c EXCEPT !.exec = x]
<1>4. /\ v.at = c.at /\ v.live = c.live /\ v.exec = x /\ v.assignment = c.assignment
      /\ v.instance = c.instance /\ v.close = c.close /\ v.sends = c.sends
      /\ v.backendDone = c.backendDone /\ v.transportDone = c.transportDone
  BY <1>1 DEF CallType
<1>5. /\ \A y \in Requests \ {r} : row'[y] = row[y]
      /\ row'[r].final = row[r].final
      /\ (x = "unlogged" /\ row'[r] = row[r]) \/ row'[r].assigned = "mem"
  BY <1>1, <1>3 DEF TypeOK, RowType
<1> HIDE DEF v
<1>6. UnslottedCall(v, phys[r], row'[r], alive) /\ OwnedCall(v)
  BY <1>1, <1>2, <1>4, <1>5
     DEF CallSafe, UnslottedCall, EarlyCall, Early, WaitingCall, RunningCall, Running, ClosedCall,
         OwnedCall, FinishedCall, Sending, ExecutedCall, HeldCall, FinalCall
<1>7. SameOwner(c, v) /\ Past(c, v)
  BY <1>1, <1>4 DEF SameOwner, Past, PastCall, Sending
<1> QED BY <1>3, <1>5, <1>6, <1>7, SameSlotsRefl, LocalSafe DEF CallSafe, HeldLess, v

\* An exchange ends: nothing arrives at the executor any more.
LEMMA ExchangeSafe ==
    ASSUME TypeOK, ServedInv, SafeInv, NEW r \in Requests,
           ExchangeComplete(r) \/ ExchangeBroken(r)
    PROVE  SafeInv'
<1> DEFINE c == call[r]
           p == phys[r]
<1>1. /\ c \in CallType /\ c.exec = "exchanging" /\ CallSafe(c, p, row[r], alive)
      /\ p \in PhysType
  BY DEF ExchangeComplete, ExchangeBroken, TypeOK, SafeInv, CallsSafe
<1>2. c.live /\ ~c.transportDone /\ c.instance = c.assignment /\ c.assignment # None
      /\ row[r].assigned # "none"
  BY <1>1 DEF CallSafe, UnslottedCall, ExecutedCall, RunningCall, Running
<1>3. PICK x \in {"complete", "broken"} :
         /\ call' = [call EXCEPT ![r] = [c EXCEPT !.exec = x]]
         /\ x = "complete" => p.st \in {"ran", "away"}
  BY DEF ExchangeComplete, ExchangeBroken
<1>4. /\ UNCHANGED <<ins, src, row, srv, alive>>
      /\ phys' = IF p.st = "away" THEN [phys EXCEPT ![r] = [p EXCEPT !.st = "over"]] ELSE phys
  BY DEF ExchangeComplete, ExchangeBroken
<1> DEFINE v == [c EXCEPT !.exec = x]
<1>5. /\ v.at = c.at /\ v.live = c.live /\ v.exec = x /\ v.assignment = c.assignment
      /\ v.instance = c.instance /\ v.close = c.close /\ v.sends = c.sends
      /\ v.backendDone = c.backendDone /\ v.transportDone = c.transportDone
  BY <1>1 DEF CallType
<1>6. /\ \A y \in Requests \ {r} : phys'[y] = phys[y]
      /\ \/ p.st # "away" /\ phys'[r] = p
         \/ phys'[r].st = "over"
  BY <1>1, <1>4 DEF TypeOK, PhysType
<1> HIDE DEF v
<1>7. UnslottedCall(v, phys'[r], row[r], alive) /\ OwnedCall(v)
  BY <1>1, <1>2, <1>3, <1>5, <1>6
     DEF CallSafe, UnslottedCall, EarlyCall, Early, WaitingCall, RunningCall, Running, ClosedCall,
         OwnedCall, FinishedCall, Sending, ExecutedCall, HeldCall, FinalCall
<1>8. SameOwner(c, v) /\ Past(c, v) /\ HeldLess(p, phys'[r])
  BY <1>1, <1>5, <1>6 DEF SameOwner, Past, PastCall, Sending, HeldLess
<1> QED BY <1>3, <1>4, <1>6, <1>7, <1>8, SameSlotsRefl, LocalSafe DEF CallSafe, v

\* execute's last section: a finished or unsent request leaves its executor.
LEMMA ExecuteEndSafe ==
    ASSUME TypeOK, ServedInv, SafeInv, NEW r \in Requests, ExecuteEnd(r)
    PROVE  SafeInv'
<1> DEFINE c == call[r]
           x == c.exec
           a == IF x = "unlogged" THEN None ELSE c.assignment
           g == c.progress \/ (x = "complete" /\ phys[r].st = "ran")
           n == c.sends + 1
           v == [c EXCEPT !.exec = "over", !.assignment = a, !.transportDone = TRUE,
                          !.progress = g, !.backendDone = c.backendDone \/ x # "broken",
                          !.sends = n]
<1>1. /\ c \in CallType /\ x \in {"complete", "broken", "unlogged"}
      /\ CallSafe(c, phys[r], row[r], alive) /\ OpenCall(c) /\ c.sends = 0
  BY DEF ExecuteEnd, TypeOK, SafeInv, CallsSafe, ServedInv, CallsInv, CallInv, UnsentCall, Running
<1>2. /\ ReleaseAndDispatch([call EXCEPT ![r] = v], r)
      /\ UNCHANGED <<src, row, phys, alive>>
  BY DEF ExecuteEnd
<1>3. a \in Instances \cup {None} /\ g \in BOOLEAN /\ n = 1
  BY <1>1 DEF CallType
<1> HIDE DEF a, g, n
<1>4. /\ v.at = c.at /\ v.live = c.live /\ v.exec = "over" /\ v.assignment = a
      /\ v.instance = c.instance /\ v.close = c.close /\ v.sends = n
      /\ v.backendDone = (c.backendDone \/ x # "broken") /\ v.transportDone
      /\ v.responseRecorded = c.responseRecorded
  BY <1>1, <1>3 DEF CallType
<1>5. v \in CallType
  BY ZenonT(60), <1>1, <1>3 DEF CallType, Executions
<1> HIDE DEF v
<1>6. c.live /\ c.close = "open" /\ c.instance = c.assignment
  BY <1>1 DEF CallSafe, UnslottedCall, RunningCall, Running, ClosedCall
<1>7. UnslottedCall(v, phys[r], row[r], alive)
  BY <1>1, <1>3, <1>4, <1>6
     DEF CallSafe, UnslottedCall, EarlyCall, Early, WaitingCall, RunningCall, Running, ClosedCall,
         FinishedCall, Sending, ExecutedCall, HeldCall, FinalCall, a
<1>8. OwnedCall(v) \/ Settled(v)
  BY <1>1, <1>4, <1>6 DEF OwnedCall, Settled, a
<1>9. OpenCall(v) /\ SameOwner(c, v) /\ Past(c, v)
  BY <1>1, <1>4 DEF OpenCall, SameOwner, Past, PastCall, Sending
<1> QED BY <1>2, <1>4, <1>5, <1>6, <1>7, <1>8, <1>9, ReleaseSafe

\* The execution goroutine.
LEMMA ExecuteSafe ==
    ASSUME TypeOK, ServedInv, SafeInv, NEW r \in Requests, ExecuteStep(r)
    PROVE  SafeInv'
BY ExecuteBeginSafe, ExchangeSafe, ExecuteEndSafe DEF ExecuteStep

\* The handler goroutine.
LEMMA HandlerSafe ==
    ASSUME TypeOK, ServedInv, SafeInv, NEW r \in Requests, HandlerStep(r)
    PROVE  SafeInv'
<1>1. ASSUME NEW w \in Workloads \cup {None}, Receive(r, w) PROVE SafeInv'
  BY <1>1, ReceiveSafe
<1> QED BY <1>1, ValidateSafe, AcceptSafe, RejectSafe, WaitReplySafe, WaitDoneSafe,
           ResponseLiveSafe, ResponseRejectedSafe, RequestClosedSafe, FinalizedSafe
        DEF HandlerStep

-----------------------------------------------------------------------------
(* The executors, the clients and the log                                  *)

\* An exchange delivers its request: what the executor then holds is owned by
\* calls that were sent there within its bound.
LEMMA NativeAdmitSafe ==
    ASSUME TypeOK, SafeInv, NEW r \in Requests, NativeAdmit(r)
    PROVE  SafeInv'
<1> DEFINE c == call[r]
<1>a. PICK i \in Instances : i = c.assignment /\ i \in alive
  BY DEF NativeAdmit, TypeOK
<1> DEFINE p == [st |-> "held", at |-> i]
<1>1. /\ c \in CallType /\ c.exec = "exchanging" /\ phys[r].st = "away"
      /\ c.assignment = i
      /\ phys' = [phys EXCEPT ![r] = p]
      /\ UNCHANGED <<call, ins, src, row, srv, alive>>
      /\ CallSafe(c, phys[r], row[r], alive)
  BY <1>a DEF NativeAdmit, TypeOK, SafeInv, CallsSafe
<1>2. phys'[r] = p /\ \A x \in Requests \ {r} : phys'[x] = phys[x]
  BY <1>1 DEF TypeOK
<1>3. /\ c.live /\ ~c.transportDone /\ c.instance = i /\ i # None /\ row[r].assigned # "none"
      /\ ~c.backendDone /\ c.close = "open"
  <2>1. /\ c.live /\ ~c.transportDone /\ c.instance = i /\ i # None /\ row[r].assigned # "none"
    BY <1>1, <1>a DEF CallSafe, UnslottedCall, ExecutedCall, RunningCall, Running
  <2>2. c.close = "open"
    BY <1>1, <2>1 DEF CallSafe, UnslottedCall, ClosedCall
  <2>3. ~c.backendDone
    BY <1>1, <1>a DEF CallSafe, UnslottedCall, FinishedCall, Sending
  <2> QED BY <1>1, <2>1, <2>2, <2>3 DEF CallType
<1> HIDE DEF c
<1>4. CallSafe(c, p, row[r], alive)
  BY <1>1, <1>3, <1>a
     DEF CallSafe, UnslottedCall, EarlyCall, Early, WaitingCall, RunningCall, Running, ClosedCall,
         OwnedCall, FinishedCall, Sending, ExecutedCall, HeldCall, FinalCall
<1>5. CallsSafe'
  BY <1>1, <1>2, <1>4 DEF SafeInv, CallsSafe, c
<1>6. SlotsInv(call', ins') /\ EndedInv'
  BY <1>1 DEF SafeInv, SlotsInv, SlotInv, OwnedBy, EndedInv
<1>7. LostInv'
  BY <1>1, <1>2, <1>3 DEF SafeInv, LostInv, c
<1>8. ReadInv'
  <2>1. ~PastCall(call[r])
    BY <1>1, <1>3 DEF PastCall, c
  <2>2. \A j \in Instances : src[j].newEnded \in SUBSET Requests /\ src[j].ended \in SUBSET Requests
    BY DEF TypeOK, SourceType
  <2>3. ReadInv
    BY DEF SafeInv
  <2>4. \A j \in Instances : r \notin src[j].newEnded /\ r \notin src[j].ended
    BY <2>1, <2>3 DEF ReadInv
  <2> QED BY <1>1, <1>2, <2>2, <2>3, <2>4 DEF ReadInv
<1>9. PhysicalCapacity'
  <2>1. SlotInv(call, ins[i], i) /\ c.instance = i /\ c.assignment = i /\ c.exec \in Sending
    BY <1>1, <1>3 DEF SafeInv, SlotsInv, Sending
  <2>2. ins[i].known /\ ~ins[i].fenced /\ ins[i].outstanding <= Capacity[i]
    BY <2>1 DEF SlotInv, c
  <2>3. HeldAt(i)' \in SUBSET OwnedBy(call, i)
    <3>1. \A x \in Requests : phys[x] = p => call[x].instance = i
      BY <1>3, <2>2 DEF SafeInv, LostInv
    <3>2. \A x \in Requests : phys'[x] = p => call[x].instance = i
      BY <1>2, <1>3, <3>1 DEF c
    <3> QED BY <3>2, <1>1 DEF HeldAt, OwnedBy
  <2>4. OwnedBy(call, i) \in SUBSET Requests /\ IsFiniteSet(OwnedBy(call, i))
    BY ConstantsAssumption, FS_Subset DEF OwnedBy
  <2>5. Cardinality(HeldAt(i)') <= Cardinality(OwnedBy(call, i))
    BY <2>3, <2>4, FS_Subset
  <2>6. /\ Cardinality(HeldAt(i)') \in Nat /\ Cardinality(OwnedBy(call, i)) \in Nat
        /\ Capacity[i] \in Nat
    BY <1>3, <2>3, <2>4, CardinalityNat, ConstantsAssumption
  <2>7. Cardinality(HeldAt(i)') <= Capacity[i]
    <3>1. ins[i].outstanding = Cardinality(OwnedBy(call, i))
      BY <2>1 DEF SlotInv
    <3> QED BY <2>2, <2>5, <2>6, <3>1
  <2>8. ASSUME NEW j \in Instances \ {i} PROVE HeldAt(j)' = HeldAt(j)
    BY <1>1, <1>2 DEF HeldAt
  <2>9. ASSUME NEW j \in Instances PROVE Cardinality(HeldAt(j)') <= Capacity[j]
    BY <2>7, <2>8 DEF SafeInv, PhysicalCapacity
  <2> QED BY <2>9 DEF PhysicalCapacity
<1> QED BY <1>5, <1>6, <1>7, <1>8, <1>9 DEF SafeInv

\* An executor finishes what it held.
LEMMA NativeFinishSafe ==
    ASSUME TypeOK, SafeInv, NEW r \in Requests, NativeFinish(r)
    PROVE  SafeInv'
<1> DEFINE c == call[r]
           p == [phys[r] EXCEPT !.st = "ran"]
<1>1. /\ phys[r] \in PhysType /\ phys[r].st = "held"
      /\ phys' = [phys EXCEPT ![r] = p]
      /\ UNCHANGED <<call, ins, src, row, srv, alive>>
      /\ CallSafe(c, phys[r], row[r], alive)
  BY DEF NativeFinish, TypeOK, SafeInv, CallsSafe
<1>2. p.st = "ran"
  BY <1>1 DEF PhysType
<1>3. phys'[r] = p /\ \A x \in Requests \ {r} : phys'[x] = phys[x]
  BY <1>1 DEF TypeOK
<1> HIDE DEF p
<1>4. call' = [call EXCEPT ![r] = c]
  BY <1>1 DEF TypeOK
<1>5. CallSafe(c, p, row[r], alive)
  BY <1>1, <1>2
     DEF CallSafe, UnslottedCall, EarlyCall, WaitingCall, RunningCall, ClosedCall,
         OwnedCall, FinishedCall, ExecutedCall, HeldCall, FinalCall
<1>6. SameOwner(c, c) /\ Past(c, c) /\ HeldLess(phys[r], p)
  BY <1>2 DEF SameOwner, Past, HeldLess
<1> QED BY <1>1, <1>3, <1>4, <1>5, <1>6, SameSlotsRefl, LocalSafe

\* What a container that exits held is gone.
LEMMA NativeExitSafe ==
    ASSUME TypeOK, SafeInv, NEW i \in Instances, NativeExit(i)
    PROVE  SafeInv'
<1>1. UNCHANGED <<call, ins, src, row, srv>> /\ alive' = alive \ {i}
  BY DEF NativeExit
<1>2. ASSUME NEW r \in Requests
      PROVE  \/ phys[r].st = "held" /\ phys[r].at = i /\ phys'[r].st = "over"
             \/ ~(phys[r].st = "held" /\ phys[r].at = i) /\ phys'[r] = phys[r]
  BY DEF NativeExit, TypeOK, PhysType
<1>3. CallsSafe'
  <2> SUFFICES ASSUME NEW r \in Requests
               PROVE  CallSafe(call[r], phys'[r], row[r], alive')
    BY <1>1 DEF CallsSafe
  <2>1. CallSafe(call[r], phys[r], row[r], alive)
    BY DEF SafeInv, CallsSafe
  <2> QED BY <1>1, <1>2, <2>1
       DEF CallSafe, UnslottedCall, EarlyCall, WaitingCall, FinishedCall, ExecutedCall, HeldCall,
           FinalCall
<1>4. SlotsInv(call', ins')
  BY <1>1 DEF SafeInv
<1>5. SameReads
  BY <1>1 DEF SameReads, SameRead
<1>6. \A r \in Requests : HeldLess(phys[r], phys'[r]) /\ Past(call[r], call'[r])
  BY <1>1, <1>2 DEF HeldLess, Past
<1>7. \A r \in Requests : phys'[r].st = "held" /\ call'[r].instance # phys'[r].at =>
                             call[r].instance # phys[r].at
  BY <1>1, <1>2
<1> QED BY <1>1, <1>3, <1>4, <1>5, <1>6, <1>7, SafeFrame

\* Clients, the writer of the log and the executors.
LEMMA WorldSafe ==
    ASSUME TypeOK, SafeInv, WorldStep
    PROVE  SafeInv'
<1> USE SameSlotsRefl
<1>1. ASSUME NEW r \in Requests, ClientLeaves(r) \/ DeadlinePasses(r) PROVE SafeInv'
  <2>1. UNCHANGED <<call, ins, src, row, srv, phys, alive>>
    BY <1>1 DEF ClientLeaves, DeadlinePasses
  <2> QED BY <2>1, SafeQuiet DEF SameReads, SameRead
<1>2. ASSUME NEW r \in Requests, WriteRow(r) PROVE SafeInv'
  <2>1. UNCHANGED <<call, ins, src, srv, phys, alive>>
    BY <1>2 DEF WriteRow
  <2>2. \A x \in Requests : /\ row'[x].assigned = "none" <=> row[x].assigned = "none"
                            /\ row'[x].final = "none" <=> row[x].final = "none"
    BY <1>2 DEF WriteRow, TypeOK, RowType
  <2> QED BY <2>1, <2>2, SafeQuiet DEF SameReads, SameRead
<1>3. CASE LogFails
  <2>1. UNCHANGED <<call, ins, src, row, phys, alive>> /\ srv'.unknown = srv.unknown
    BY <1>3 DEF LogFails, TypeOK, ServerType
  <2> QED BY <2>1, SafeQuiet DEF SameReads, SameRead
<1> QED BY <1>1, <1>2, <1>3, NativeAdmitSafe, NativeFinishSafe, NativeExitSafe DEF WorldStep

-----------------------------------------------------------------------------
(* Native evidence                                                         *)

\* A live call that was sent and is waiting is running or answered.
LEMMA SentCall ==
    ASSUME TypeOK, ServedInv, NEW r \in Requests, call[r].assignment # None,
           call[r].at = "waiting", call[r].exec = "none"
    PROVE  call[r].sends = 1
<1>1. Unqueued(r)
  BY UnqueuedCall DEF ServedInv
<1>2. ServedCall(call[r], wl[call[r].uid].queue, r) /\ call[r].uid \in Workloads
  BY DEF ServedInv, WaitersInv, CallsInv, CallInv, NamedCall
<1> QED BY <1>1, <1>2 DEF ServedCall, Unqueued, Running

\* A call is safe once the executor has provably finished it.
LEMMA ProvenCall ==
    ASSUME NEW c, NEW d, NEW p, NEW w, NEW A, CallSafe(c, p, w, A), c.live,
           d.at = c.at, d.live = c.live, d.exec = c.exec, d.assignment = c.assignment,
           d.instance = c.instance, d.close = c.close, d.sends = c.sends,
           d.transportDone = c.transportDone,
           d.backendDone => c.backendDone \/
              /\ p.st # "held" /\ (p.st = "away" /\ c.exec \in Sending => c.assignment \notin A)
              /\ c.at = "waiting" /\ c.exec = "none" => c.sends = 1
    PROVE  /\ UnslottedCall(d, p, w, A) /\ OwnedCall(d)
           /\ SameOwner(c, d) /\ Past(c, d) /\ d.live /\ d.close = "open"
<1>1. EarlyCall(d, p) /\ WaitingCall(d, p) /\ RunningCall(d) /\ ClosedCall(d) /\ OwnedCall(d)
  BY DEF CallSafe, UnslottedCall, EarlyCall, Early, WaitingCall, RunningCall, ClosedCall, OwnedCall
<1>2. FinishedCall(d, p, A) /\ ExecutedCall(d, p, w) /\ HeldCall(d, p, w, A) /\ FinalCall(d, p, w)
  BY DEF CallSafe, UnslottedCall, FinishedCall, ExecutedCall, HeldCall, FinalCall
<1>3. SameOwner(c, d) /\ Past(c, d) /\ d.close = "open"
  BY DEF SameOwner, Past, PastCall, CallSafe, UnslottedCall, ClosedCall
<1> QED BY <1>1, <1>2, <1>3 DEF UnslottedCall

\* A progress line of the executor's log.
LEMMA ObserveBackendSafe ==
    ASSUME TypeOK, ServedInv, SafeInv, NEW r \in Requests, NEW finished \in BOOLEAN,
           ObserveBackend(r, finished)
    PROVE  SafeInv'
<1> DEFINE c == call[r]
           g == c.progress \/ ~c.backendDone
           b == c.backendDone \/ finished
           v == [c EXCEPT !.progress = g, !.backendDone = b]
<1>1. /\ c \in CallType /\ CallSafe(c, phys[r], row[r], alive) /\ OpenCall(c)
      /\ c.live /\ c.assignment # None
      /\ phys[r].st = "ran" \/ (phys[r].st = "held" /\ ~finished)
  BY DEF ObserveBackend, TypeOK, SafeInv, CallsSafe, ServedInv, CallsInv, CallInv
<1>2. /\ UNCHANGED <<src, row, phys, alive>>
      /\ \/ call' = [call EXCEPT ![r] = v] /\ UNCHANGED <<ins, srv>>
         \/ ReleaseAndDispatch([call EXCEPT ![r] = v], r)
  BY DEF ObserveBackend
<1>3. c.at = "waiting" /\ c.exec = "none" => c.sends = 1
  BY <1>1, SentCall
<1>4. g \in BOOLEAN /\ b \in BOOLEAN
  BY <1>1 DEF CallType
<1>5. b => c.backendDone \/ phys[r].st = "ran"
  BY <1>1
<1> HIDE DEF g, b
<1>6. /\ v.at = c.at /\ v.live = c.live /\ v.exec = c.exec /\ v.assignment = c.assignment
      /\ v.instance = c.instance /\ v.close = c.close /\ v.sends = c.sends
      /\ v.transportDone = c.transportDone /\ v.backendDone = b
      /\ v.responseRecorded = c.responseRecorded /\ v \in CallType
  BY <1>1, <1>4 DEF CallType
<1> HIDE DEF v
<1>7. /\ UnslottedCall(v, phys[r], row[r], alive) /\ OwnedCall(v)
      /\ SameOwner(c, v) /\ Past(c, v) /\ v.live /\ v.close = "open"
  BY <1>1, <1>3, <1>5, <1>6, ProvenCall
<1>8. OpenCall(v)
  BY <1>1, <1>6 DEF OpenCall
<1>9. CASE ReleaseAndDispatch([call EXCEPT ![r] = v], r)
  BY <1>2, <1>6, <1>7, <1>8, <1>9, ReleaseSafe
<1>10. CASE call' = [call EXCEPT ![r] = v] /\ UNCHANGED <<ins, srv>>
  BY <1>2, <1>7, <1>10, SameSlotsRefl, LocalSafe DEF CallSafe, HeldLess
<1> QED BY <1>2, <1>9, <1>10

\* Evidence that ends the backend part of the calls in S.
LEMMA EvidenceSafe ==
    ASSUME TypeOK, ServedInv, SafeInv, NEW S \in SUBSET Requests, NEW C,
           C = [r \in Requests |-> IF r \in S
                  THEN [call[r] EXCEPT !.backendDone = TRUE] ELSE call[r]],
           NEW J \in [Instances -> InstanceType], SlotsInv(call, J),
           call' = Released(C, S), SameSlots(InstancesReleased(J, C, S), ins'),
           UNCHANGED <<phys, row, alive>>,
           \A r \in S :
              /\ call[r].live /\ call[r].assignment # None /\ phys[r].st # "held"
              /\ call[r].exec \in Sending => call[r].assignment \notin alive
    PROVE  /\ CallsSafe' /\ SlotsInv(call', ins')
           /\ \A r \in Requests :
                 /\ Past(call[r], call'[r])
                 /\ phys'[r].st = "held" /\ call'[r].instance # phys'[r].at =>
                       call[r].instance # phys[r].at
<1>1. ASSUME NEW r \in S
      PROVE  /\ OpenCall(C[r]) /\ C[r].live /\ C[r].close = "open"
             /\ UnslottedCall(C[r], phys[r], row[r], alive) /\ OwnedCall(C[r])
             /\ C[r].instance = call[r].instance /\ Past(call[r], C[r])
             /\ SameOwner(call[r], C[r])
  <2> DEFINE c == call[r]
             v == [c EXCEPT !.backendDone = TRUE]
  <2>1. c \in CallType /\ CallSafe(c, phys[r], row[r], alive) /\ OpenCall(c) /\ C[r] = v
    BY DEF TypeOK, SafeInv, CallsSafe, ServedInv, CallsInv, CallInv
  <2>2. c.at = "waiting" /\ c.exec = "none" => c.sends = 1
    BY SentCall
  <2>3. /\ v.at = c.at /\ v.live = c.live /\ v.exec = c.exec /\ v.assignment = c.assignment
        /\ v.instance = c.instance /\ v.close = c.close /\ v.sends = c.sends
        /\ v.transportDone = c.transportDone /\ v.responseRecorded = c.responseRecorded
    BY <2>1 DEF CallType
  <2> HIDE DEF v
  <2>4. /\ UnslottedCall(v, phys[r], row[r], alive) /\ OwnedCall(v)
        /\ SameOwner(c, v) /\ Past(c, v) /\ v.live /\ v.close = "open"
    BY <2>1, <2>2, <2>3, ProvenCall
  <2>5. OpenCall(v)
    BY <2>1, <2>3 DEF OpenCall
  <2> QED BY <2>1, <2>3, <2>4, <2>5
<1>2. \A r \in Requests \ S : C[r] = call[r]
  OBVIOUS
<1>3. C \in [Requests -> CallType]
  BY EvidenceType
<1>4. \A r \in Requests : SameOwner(call[r], C[r])
  BY <1>1, <1>2 DEF SameOwner
<1>5. SlotsInv(C, J)
  BY <1>4, SameSlotsRefl, SlotsKept
<1> QED BY <1>1, <1>2, <1>3, <1>5, ReleasedSafe

\* The kubelet's report of a termination: what the executor held is gone.
LEMMA ConfirmInstanceStoppedSafe ==
    ASSUME TypeOK, ServedInv, SafeInv, NEW i \in Instances, ConfirmInstanceStopped(i)
    PROVE  SafeInv'
<1> DEFINE S == {r \in Requests : /\ call[r].live /\ call[r].assignment = i
                                  /\ ~call[r].backendDone}
           C == [r \in Requests |-> IF r \in S
                   THEN [call[r] EXCEPT !.backendDone = TRUE] ELSE call[r]]
           W == WorkloadsReleased(wl, C, S)
           f == ins[i].fenced /\ (srv.failed \/ ~srv.up)
           v == [ins[i] EXCEPT !.ready = FALSE, !.terminated = ins[i].known,
                               !.fenced = f, !.drained = FALSE]
           I == [ins EXCEPT ![i] = v]
           u == [src[i] EXCEPT !.terminated = TRUE, !.probe = "idle"]
<1>1. /\ call' = Released(C, S)
      /\ ins' = Bound(Released(C, S), W, InstancesReleased(I, C, S))
      /\ srv' = ServerReleased(srv, C, S)
      /\ src' = [src EXCEPT ![i] = u]
      /\ UNCHANGED <<phys, row, alive>> /\ i \notin alive
  BY DEF ConfirmInstanceStopped, Rebuild
<1>2. S \in SUBSET Requests
  OBVIOUS
<1>3. /\ ins[i] \in InstanceType /\ src[i] \in SourceType
      /\ ins \in [Instances -> InstanceType] /\ src \in [Instances -> SourceType]
      /\ i # None
  BY ConstantsAssumption DEF TypeOK
<1>4. /\ v \in InstanceType /\ ~v.ready /\ v.known = ins[i].known
      /\ v.outstanding = ins[i].outstanding /\ (v.fenced => ins[i].fenced)
  <2>1. f \in BOOLEAN /\ (f => ins[i].fenced)
    BY <1>3 DEF InstanceType
  <2> HIDE DEF f
  <2> QED BY <1>3, <2>1 DEF InstanceType
<1>5. /\ u.probe = "idle" /\ u.ended = src[i].ended /\ u.held = src[i].held
      /\ u.newEnded = src[i].newEnded /\ u.verified = src[i].verified
  BY <1>3 DEF SourceType
<1> HIDE DEF v, u
<1>6. I \in [Instances -> InstanceType] /\ I[i] = v /\ \A j \in Instances \ {i} : I[j] = ins[j]
  BY <1>3, <1>4
<1>7. src'[i] = u /\ \A j \in Instances \ {i} : src'[j] = src[j]
  BY <1>1, <1>3
<1>8. \A r \in Requests : ~(phys[r].st = "held" /\ phys[r].at = i)
  BY <1>1 DEF SafeInv, CallsSafe, CallSafe, UnslottedCall, HeldCall
<1>9. \A r \in S :
         /\ call[r].live /\ call[r].assignment # None /\ phys[r].st # "held"
         /\ call[r].exec \in Sending => call[r].assignment \notin alive
  BY <1>1, <1>3, <1>8 DEF SafeInv, CallsSafe, CallSafe, UnslottedCall, HeldCall
<1>10. SlotsInv(call, I)
  <2>1. SlotInv(call, ins[i], i) /\ \A j \in Instances \ {i} : SlotInv(call, ins[j], j)
    BY DEF SafeInv, SlotsInv
  <2>2. SlotInv(call, v, i)
    BY <1>4, <2>1 DEF SlotInv
  <2> QED BY <1>6, <2>1, <2>2 DEF SlotsInv
<1>c. C = [r \in Requests |-> IF r \in S
                   THEN [call[r] EXCEPT !.backendDone = TRUE] ELSE call[r]]
  OBVIOUS
<1> HIDE DEF S, C, I
<1>11. InstancesReleased(I, C, S) \in [Instances -> InstanceType]
  BY <1>2, <1>6, InstancesReleasedType
<1>12. SameSlots(InstancesReleased(I, C, S), ins')
  BY <1>1, <1>11, BoundSlots
<1>13. /\ CallsSafe' /\ SlotsInv(call', ins')
       /\ \A r \in Requests :
             /\ Past(call[r], call'[r])
             /\ phys'[r].st = "held" /\ call'[r].instance # phys'[r].at =>
                   call[r].instance # phys[r].at
  BY <1>1, <1>2, <1>6, <1>9, <1>10, <1>12, <1>c, EvidenceSafe
<1>14. ASSUME NEW j \in Instances \ {i}
       PROVE  /\ ins'[j].known = ins[j].known /\ ins'[j].fenced = ins[j].fenced
              /\ ins'[j].terminated = ins[j].terminated
  <2>1. /\ InstancesReleased(I, C, S)[j].known = ins[j].known
        /\ InstancesReleased(I, C, S)[j].fenced = ins[j].fenced
        /\ InstancesReleased(I, C, S)[j].terminated = ins[j].terminated
    BY <1>6, InstancesReleasedSlot
  <2> QED BY <1>12, <2>1 DEF SameSlots, SameSlot
<1>15. EndedInv'
  BY <1>1, <1>7, <1>14 DEF SafeInv, EndedInv
<1>16. LostInv'
  <2>1. srv'.unknown = srv.unknown
    BY <1>1, ServerReleasedUnknown DEF TypeOK
  <2> SUFFICES ASSUME NEW r \in Requests, NEW j \in Instances,
                      phys'[r].st = "held", phys'[r].at = j, call'[r].instance # j
               PROVE  /\ srv'.unknown
                      /\ ins'[j].known => ins'[j].fenced
                      /\ src'[j].probe = "read" => r \in src'[j].newHeld
                      /\ src'[j].verified => r \in src'[j].held
    BY DEF LostInv
  <2>2. phys[r].st = "held" /\ phys[r].at = j /\ j # i /\ call[r].instance # j
    BY <1>1, <1>8, <1>13
  <2> QED BY <1>7, <1>14, <2>1, <2>2 DEF SafeInv, LostInv
<1>17. ReadInv'
  <2>1. \A j \in Instances : src[j].newEnded \in SUBSET Requests /\ src[j].ended \in SUBSET Requests
    BY DEF TypeOK, SourceType
  <2>2. ReadInv
    BY DEF SafeInv
  <2>3. ASSUME NEW j \in Instances
        PROVE  /\ src'[j].newEnded = src[j].newEnded /\ src'[j].ended = src[j].ended
               /\ src'[j].held = src[j].held
               /\ src'[j].probe = "read" =>
                     src[j].probe = "read" /\ src'[j].newHeld = src[j].newHeld
    BY <1>5, <1>7
  <2>4. \A j \in Instances : \A r \in src[j].newEnded \cup src[j].ended : PastCall(call'[r])
    BY <1>13, <2>1, <2>2 DEF ReadInv, Past
  <2> QED BY <1>1, <2>1, <2>2, <2>3, <2>4 DEF ReadInv
<1>18. PhysicalCapacity'
  BY <1>1 DEF SafeInv, PhysicalCapacity, HeldAt
<1> QED BY <1>13, <1>15, <1>16, <1>17, <1>18 DEF SafeInv

\* installInstancesLocked makes an executor ready only outside the fence, which it
\* lifts only by proof, and keeps its slots.
LEMMA InstalledSlot ==
    ASSUME TypeOK, NEW L \in [Instances -> SourceType], NEW i \in Instances
    PROVE  LET x == ins[i]
               y == Installed(L, i) IN
           /\ y.ready => y.known /\ ~y.fenced
           /\ x.known => y.known /\ y.outstanding = x.outstanding
           /\ ~x.known => y.outstanding \in {0, x.outstanding}
           /\ x.known /\ y.fenced => x.fenced
           /\ y.terminated => L[i].terminated \/ x.terminated
           /\ y.known /\ ~y.fenced =>
                 \/ x.known /\ ~x.fenced
                 \/ ~x.known /\ ~srv.unknown
                 \/ LiftsFence(L, i)
<1> DEFINE x == ins[i]
           old == IF x.known THEN x
                  ELSE [NewInstance EXCEPT !.known = TRUE,
                                           !.fenced = srv.unknown]
           fenced == old.fenced /\ ~LiftsFence(L, i)
           terminated == L[i].terminated \/ old.terminated
           ready == L[i].ready /\ ~fenced /\ ~terminated
           kept == [old EXCEPT !.ready = ready, !.drained = FALSE,
                               !.fenced = fenced, !.terminated = terminated]
           profile == IF L[i].evidence THEN ProfileOf[i] ELSE None
           routing == L[i].routing
           full == [kept EXCEPT !.profile = profile, !.routing = routing]
           off == [x EXCEPT !.ready = FALSE, !.drained = FALSE]
           y == Installed(L, i)
<1>0. x \in InstanceType /\ srv.unknown \in BOOLEAN
  BY DEF TypeOK, ServerType
<1>1. y = full \/ y = kept \/ y = off
  BY DEF Installed
<1>2. /\ old \in InstanceType /\ old.known
      /\ x.known => old = x
      /\ ~x.known => old.fenced = srv.unknown /\ ~old.terminated /\ old.outstanding = 0
  <2> DEFINE n == [NewInstance EXCEPT !.known = TRUE, !.fenced = srv.unknown]
  <2>1. /\ n \in InstanceType /\ n.known /\ n.fenced = srv.unknown
        /\ ~n.terminated /\ n.outstanding = 0
    BY <1>0, NewTypes DEF InstanceType, NewInstance
  <2>2. old = IF x.known THEN x ELSE n
    OBVIOUS
  <2> HIDE DEF n, old
  <2> QED BY <1>0, <2>1, <2>2
<1>3. /\ fenced = (old.fenced /\ ~LiftsFence(L, i))
      /\ terminated = (L[i].terminated \/ old.terminated)
      /\ ready => ~fenced
  OBVIOUS
<1>4. /\ ~off.ready /\ off.known = x.known /\ off.outstanding = x.outstanding
      /\ off.fenced = x.fenced /\ off.terminated = x.terminated
  BY <1>0 DEF InstanceType
<1> HIDE DEF old, fenced, terminated, ready, profile, routing, off, x
<1>5. /\ kept.ready = ready /\ kept.known = old.known /\ kept.outstanding = old.outstanding
      /\ kept.fenced = fenced /\ kept.terminated = terminated
      /\ full.ready = ready /\ full.known = old.known /\ full.outstanding = old.outstanding
      /\ full.fenced = fenced /\ full.terminated = terminated
  BY <1>2 DEF InstanceType
<1> HIDE DEF kept, full, y
<1>6. CASE y = off
  <2> QED BY <1>4, <1>6 DEF x, y
<1>7. CASE y = kept \/ y = full
  <2>1. /\ y.ready = ready /\ y.known /\ y.outstanding = old.outstanding
        /\ y.fenced = fenced /\ y.terminated = terminated
    BY <1>2, <1>5, <1>7
  <2> QED BY <1>2, <1>3, <2>1 DEF x, y
<1> QED BY <1>1, <1>6, <1>7

\* An older boot's requests show in every read of L, and what L does not show of
\* an ended exchange is not held.
ShownAt(x, i) ==
    /\ x.terminated => src[i].terminated
    /\ \A r \in Requests :
          phys[r].st = "held" /\ phys[r].at = i /\ call[r].instance # i =>
              /\ x.probe = "read" => r \in x.newHeld
              /\ x.verified => r \in x.held
    /\ \A r \in x.newEnded \cup x.ended : PastCall(call[r])
    /\ x.probe = "read" =>
          \A r \in x.newEnded \ x.newHeld : ~(phys[r].st = "held" /\ phys[r].at = i)
    /\ \A r \in x.ended \ x.held : ~(phys[r].st = "held" /\ phys[r].at = i)

Shown(L) == \A i \in Instances : ShownAt(L[i], i)

\* publishLedger lifts a fence only of an executor that holds nothing, and ends
\* only calls that their executor does not hold.
LEMMA PublishLedgerSafe ==
    ASSUME TypeOK, ServedInv, SafeInv, NEW L \in [Instances -> SourceType],
           PublishLedger(L), Shown(L)
    PROVE  SafeInv'
<1> DEFINE S == {r \in Requests : Absent(L, r)}
           C == [r \in Requests |-> IF r \in S
                   THEN [call[r] EXCEPT !.backendDone = TRUE] ELSE call[r]]
           W == WorkloadsReleased(wl, C, S)
           I == [i \in Instances |-> Installed(L, i)]
           s == [srv EXCEPT !.up = TRUE]
<1>1. /\ call' = Released(C, S)
      /\ ins' = Bound(Released(C, S), W, InstancesReleased(I, C, S))
      /\ srv' = ServerReleased(s, C, S)
      /\ src' = L
      /\ UNCHANGED <<phys, row, alive>>
  BY DEF PublishLedger, Rebuild
<1>2. S \in SUBSET Requests
  OBVIOUS
<1>3. I \in [Instances -> InstanceType] /\ \A i \in Instances : I[i] = Installed(L, i)
  BY InstalledType
<1>4. s \in ServerType /\ s.unknown = srv.unknown
  BY DEF TypeOK, ServerType
<1>c. C = [r \in Requests |-> IF r \in S
                   THEN [call[r] EXCEPT !.backendDone = TRUE] ELSE call[r]]
  OBVIOUS
<1>5. \A r \in S :
         /\ call[r].live /\ call[r].assignment # None /\ phys[r].st # "held"
         /\ call[r].exec \in Sending => call[r].assignment \notin alive
  <2> SUFFICES ASSUME NEW r \in Requests, Absent(L, r)
               PROVE  /\ call[r].live /\ call[r].assignment # None /\ phys[r].st # "held"
                      /\ call[r].exec \notin Sending
    OBVIOUS
  <2>1. CallSafe(call[r], phys[r], row[r], alive) /\ call[r] \in CallType
    BY DEF SafeInv, CallsSafe, TypeOK
  <2>2. /\ call[r].live /\ call[r].assignment # None /\ call[r].transportDone
        /\ r \in L[call[r].assignment].ended /\ r \notin L[call[r].assignment].held
    BY DEF Absent
  <2>3. call[r].exec \notin Sending
    BY <2>1, <2>2 DEF CallSafe, UnslottedCall, RunningCall, Running, Sending
  <2>4. call[r].assignment \in Instances
    BY <2>1, <2>2 DEF CallType
  <2>5. phys[r].st # "held"
    BY <2>1, <2>2, <2>4 DEF Shown, ShownAt, CallSafe, UnslottedCall, HeldCall
  <2> QED BY <2>2, <2>3, <2>5
<1>6. SlotsInv(call, I)
  <2> SUFFICES ASSUME NEW i \in Instances PROVE SlotInv(call, I[i], i)
    BY DEF SlotsInv
  <2> DEFINE x == ins[i]
             y == Installed(L, i)
  <2>1. SlotInv(call, x, i)
    BY DEF SafeInv, SlotsInv
  <2>2. /\ y.ready => y.known /\ ~y.fenced
        /\ x.known => y.known /\ y.outstanding = x.outstanding
        /\ ~x.known => y.outstanding \in {0, x.outstanding}
        /\ x.known /\ y.fenced => x.fenced
    BY InstalledSlot
  <2>3. I[i] = y
    BY <1>3
  <2> HIDE DEF x, y
  <2>4. y.outstanding = x.outstanding
    <3>1. ~x.known => OwnedBy(call, i) = {}
      BY <2>1 DEF SlotInv, OwnedBy
    <3>2. ~x.known => x.outstanding = 0
      BY <2>1, <3>1, FS_EmptySet DEF SlotInv
    <3> QED BY <2>2, <3>2
  <2>5. \A r \in Requests : call[r].exec \in Sending /\ call[r].assignment = i =>
           call[r].instance = i
    BY DEF SafeInv, CallsSafe, CallSafe, UnslottedCall, RunningCall, Running, Sending
  <2>6. SlotInv(call, y, i)
    BY <2>1, <2>2, <2>4, <2>5 DEF SlotInv
  <2> QED BY <2>3, <2>6
<1> HIDE DEF S, C, I, s
<1>7. InstancesReleased(I, C, S) \in [Instances -> InstanceType]
  BY <1>2, <1>3, InstancesReleasedType
<1>8. SameSlots(InstancesReleased(I, C, S), ins')
  BY <1>1, <1>7, BoundSlots
<1>9. /\ CallsSafe' /\ SlotsInv(call', ins')
      /\ \A r \in Requests :
            /\ Past(call[r], call'[r])
            /\ phys'[r].st = "held" /\ call'[r].instance # phys'[r].at =>
                  call[r].instance # phys[r].at
  BY <1>1, <1>2, <1>3, <1>5, <1>6, <1>8, <1>c, EvidenceSafe
<1>10. ASSUME NEW i \in Instances
       PROVE  /\ ins'[i].known = Installed(L, i).known
              /\ ins'[i].fenced = Installed(L, i).fenced
              /\ ins'[i].terminated = Installed(L, i).terminated
  <2>1. /\ InstancesReleased(I, C, S)[i].known = I[i].known
        /\ InstancesReleased(I, C, S)[i].fenced = I[i].fenced
        /\ InstancesReleased(I, C, S)[i].terminated = I[i].terminated
    BY <1>3, InstancesReleasedSlot
  <2> QED BY <1>3, <1>8, <2>1 DEF SameSlots, SameSlot
<1>11. EndedInv'
  <2> SUFFICES ASSUME NEW i \in Instances, ins'[i].terminated \/ L[i].terminated
               PROVE  i \notin alive
    BY <1>1 DEF EndedInv
  <2>1. ins[i].terminated \/ src[i].terminated
    BY <1>10, InstalledSlot DEF Shown, ShownAt
  <2> QED BY <2>1 DEF SafeInv, EndedInv
<1>12. LostInv'
  <2> SUFFICES ASSUME NEW r \in Requests, NEW i \in Instances,
                      phys'[r].st = "held", phys'[r].at = i, call'[r].instance # i
               PROVE  /\ srv'.unknown
                      /\ ins'[i].known => ins'[i].fenced
                      /\ L[i].probe = "read" => r \in L[i].newHeld
                      /\ L[i].verified => r \in L[i].held
    BY <1>1 DEF LostInv
  <2>1. phys[r].st = "held" /\ phys[r].at = i /\ call[r].instance # i
    BY <1>1, <1>9
  <2>2. srv'.unknown = srv.unknown
    BY <1>1, <1>4, ServerReleasedUnknown
  <2>3. srv.unknown /\ (ins[i].known => ins[i].fenced)
    BY <2>1 DEF SafeInv, LostInv
  <2>4. /\ L[i].probe = "read" => r \in L[i].newHeld
        /\ L[i].verified => r \in L[i].held
    BY <2>1 DEF Shown, ShownAt
  <2>5. ~LiftsFence(L, i)
    <3>1. i \in alive
      BY <2>1 DEF SafeInv, CallsSafe, CallSafe, UnslottedCall, HeldCall
    <3>2. ~L[i].terminated /\ ~ins[i].terminated
      BY <3>1 DEF Shown, ShownAt, SafeInv, EndedInv
    <3> QED BY <2>4, <3>2 DEF LiftsFence
  <2>6. ins'[i].known => ins'[i].fenced
    BY <1>10, <2>3, <2>5, InstalledSlot
  <2> QED BY <2>2, <2>3, <2>4, <2>6
<1>13. ReadInv'
  <2>1. \A j \in Instances : L[j].newEnded \in SUBSET Requests /\ L[j].ended \in SUBSET Requests
    BY DEF SourceType
  <2>2. \A j \in Instances : \A r \in L[j].newEnded \cup L[j].ended : PastCall(call'[r])
    BY <1>9, <2>1 DEF Shown, ShownAt, Past
  <2> QED BY <1>1, <2>1, <2>2 DEF ReadInv, Shown, ShownAt
<1>14. PhysicalCapacity'
  BY <1>1 DEF SafeInv, PhysicalCapacity, HeldAt
<1> QED BY <1>9, <1>11, <1>12, <1>13, <1>14 DEF SafeInv

\* What the ledger shows now.
LEMMA ShownNow ==
    ASSUME SafeInv
    PROVE  Shown(src)
BY DEF SafeInv, LostInv, ReadInv, Shown, ShownAt

\* One observation replaced by a truthful one: all remain truthful.
LEMMA ShownUpdate ==
    ASSUME TypeOK, SafeInv, NEW i \in Instances, NEW u, ShownAt(u, i)
    PROVE  Shown([src EXCEPT ![i] = u])
<1>1. [src EXCEPT ![i] = u][i] = u
      /\ \A j \in Instances \ {i} : [src EXCEPT ![i] = u][j] = src[j]
  BY DEF TypeOK
<1> QED BY <1>1, ShownNow DEF Shown

\* A step of the ledger alone.
LEMMA LedgerSafe ==
    ASSUME TypeOK, SafeInv, NEW i \in Instances, NEW u \in SourceType,
           src' = [src EXCEPT ![i] = u], ShownAt(u, i),
           UNCHANGED <<call, ins, phys, row, alive, srv>>
    PROVE  SafeInv'
<1>1. Shown(src')
  BY ShownUpdate
<1>2. LostInv' /\ ReadInv'
  BY <1>1 DEF SafeInv, LostInv, ReadInv, Shown, ShownAt
<1>3. EndedInv'
  BY <1>1 DEF SafeInv, EndedInv, Shown, ShownAt
<1>4. CallsSafe' /\ SlotsInv(call', ins') /\ PhysicalCapacity'
  BY DEF SafeInv, CallsSafe, PhysicalCapacity, HeldAt
<1> QED BY <1>2, <1>3, <1>4 DEF SafeInv

\* A native read notes the ended exchanges before it reads what is held.
LEMMA ProbeSafe ==
    ASSUME TypeOK, SafeInv, NEW i \in Instances, ProbeBegin(i) \/ ProbeRead(i)
    PROVE  SafeInv'
<1>1. ShownAt(src[i], i) /\ src[i] \in SourceType
  BY ShownNow DEF Shown, TypeOK
<1>2. UNCHANGED <<call, ins, phys, row, alive, srv>>
  BY DEF ProbeBegin, ProbeRead
<1>3. CASE ProbeBegin(i)
  <2> DEFINE u == [src[i] EXCEPT !.probe = "begun", !.newEnded = Ended(i)]
  <2>1. src' = [src EXCEPT ![i] = u]
    BY <1>3 DEF ProbeBegin
  <2>2. Ended(i) \in SUBSET Requests
    BY DEF Ended
  <2>3. /\ u \in SourceType /\ u.probe = "begun" /\ u.newEnded = Ended(i)
        /\ u.verified = src[i].verified /\ u.ended = src[i].ended
        /\ u.held = src[i].held /\ u.terminated = src[i].terminated
    BY <1>1, <2>2 DEF SourceType
  <2> HIDE DEF u
  <2>4. \A r \in Ended(i) : PastCall(call[r])
    BY DEF Ended, PastCall
  <2>5. ShownAt(u, i)
    BY <1>1, <2>3, <2>4 DEF ShownAt
  <2> QED BY <1>2, <2>1, <2>3, <2>5, LedgerSafe
<1>4. CASE ProbeRead(i)
  <2> DEFINE u == [src[i] EXCEPT !.probe = "read", !.newHeld = HeldAt(i)]
  <2>1. src' = [src EXCEPT ![i] = u]
    BY <1>4 DEF ProbeRead
  <2>2. HeldAt(i) \in SUBSET Requests
    BY DEF HeldAt
  <2>3. /\ u \in SourceType /\ u.probe = "read" /\ u.newHeld = HeldAt(i)
        /\ u.newEnded = src[i].newEnded
        /\ u.verified = src[i].verified /\ u.ended = src[i].ended
        /\ u.held = src[i].held /\ u.terminated = src[i].terminated
    BY <1>1, <2>2 DEF SourceType
  <2> HIDE DEF u
  <2>4. \A r \in Requests : phys[r].st = "held" /\ phys[r].at = i <=> r \in HeldAt(i)
    <3>1. \A r \in Requests : phys[r] \in PhysType
      BY DEF TypeOK
    <3>2. \A r \in Requests :
             phys[r].st = "held" /\ phys[r].at = i <=> phys[r] = [st |-> "held", at |-> i]
      BY <3>1 DEF PhysType
    <3> QED BY <3>2 DEF HeldAt
  <2>5. src[i].newEnded \in SUBSET Requests
    BY <1>1 DEF SourceType
  <2>6. ShownAt(u, i)
    BY <1>1, <2>3, <2>4, <2>5 DEF ShownAt
  <2> QED BY <1>2, <2>1, <2>3, <2>6, LedgerSafe
<1> QED BY <1>3, <1>4

\* A refresh of the ledger.
LEMMA PublishSafe ==
    ASSUME TypeOK, ServedInv, SafeInv, NEW i \in Instances,
           PublishProbe(i) \/ PublishUnavailable(i) \/ PublishAgain(i)
    PROVE  SafeInv'
<1> DEFINE s == src[i]
<1>1. ShownAt(s, i) /\ s \in SourceType
  BY ShownNow DEF Shown, TypeOK
<1>2. CASE PublishProbe(i)
  <2>1. PICK ready \in BOOLEAN, routing \in Routing[i] \cup {None} :
          PublishLedger([src EXCEPT ![i] =
              [src[i] EXCEPT !.probe = "idle", !.verified = TRUE,
                        !.ready = ready /\ src[i].evidence,
                        !.routing = IF src[i].evidence THEN routing ELSE None,
                        !.ended = src[i].newEnded, !.held = src[i].newHeld]])
    BY <1>2 DEF PublishProbe
  <2> DEFINE a == ready /\ src[i].evidence
             b == IF src[i].evidence THEN routing ELSE None
             u == [s EXCEPT !.probe = "idle", !.verified = TRUE,
                            !.ready = a, !.routing = b,
                            !.ended = s.newEnded, !.held = s.newHeld]
  <2>2. a \in BOOLEAN /\ b \in Workloads \cup {None}
    BY <1>1, <2>1, ConstantsAssumption DEF SourceType
  <2>3. PublishLedger([src EXCEPT ![i] = u])
    BY <2>1
  <2>p. s.probe = "read"
    BY <1>2 DEF PublishProbe
  <2> HIDE DEF a, b, s
  <2>4. /\ u \in SourceType /\ u.probe = "idle" /\ u.newEnded = s.newEnded
        /\ u.ended = s.newEnded /\ u.held = s.newHeld /\ u.terminated = s.terminated
    BY <1>1, <2>2 DEF SourceType
  <2> HIDE DEF u
  <2>5. ShownAt(u, i)
    BY <1>1, <2>4, <2>p DEF ShownAt
  <2>6. [src EXCEPT ![i] = u] \in [Instances -> SourceType]
    BY <2>4, SourceUpdateType
  <2> QED BY <2>3, <2>5, <2>6, ShownUpdate, PublishLedgerSafe
<1>3. CASE PublishUnavailable(i)
  <2> DEFINE u == [s EXCEPT !.probe = "idle", !.ready = FALSE, !.verified = FALSE]
  <2>1. PublishLedger([src EXCEPT ![i] = u])
    BY <1>3 DEF PublishUnavailable
  <2>2. /\ u \in SourceType /\ u.probe = "idle" /\ ~u.verified /\ u.newEnded = s.newEnded
        /\ u.ended = s.ended /\ u.held = s.held /\ u.terminated = s.terminated
    BY <1>1 DEF SourceType
  <2> HIDE DEF u, s
  <2>3. ShownAt(u, i)
    BY <1>1, <2>2 DEF ShownAt
  <2>4. [src EXCEPT ![i] = u] \in [Instances -> SourceType]
    BY <2>2, SourceUpdateType
  <2> QED BY <2>1, <2>3, <2>4, ShownUpdate, PublishLedgerSafe
<1>4. CASE PublishAgain(i)
  <2>1. PICK evidence \in BOOLEAN :
          PublishLedger([src EXCEPT ![i] =
              [src[i] EXCEPT !.evidence = evidence,
                             !.ready = src[i].ready /\ evidence,
                             !.routing = IF evidence THEN src[i].routing
                                                    ELSE None]])
    BY <1>4 DEF PublishAgain
  <2> DEFINE a == src[i].ready /\ evidence
             b == IF evidence THEN src[i].routing ELSE None
             u == [s EXCEPT !.evidence = evidence, !.ready = a, !.routing = b]
  <2>2. a \in BOOLEAN /\ b \in Workloads \cup {None}
    BY <1>1, <2>1 DEF SourceType
  <2>3. PublishLedger([src EXCEPT ![i] = u])
    BY <2>1
  <2> HIDE DEF a, b, s
  <2>4. /\ u \in SourceType /\ u.probe = s.probe /\ u.verified = s.verified
        /\ u.newEnded = s.newEnded /\ u.newHeld = s.newHeld
        /\ u.ended = s.ended /\ u.held = s.held /\ u.terminated = s.terminated
    BY <1>1, <2>2 DEF SourceType
  <2> HIDE DEF u
  <2>5. ShownAt(u, i)
    BY <1>1, <2>4 DEF ShownAt
  <2>6. [src EXCEPT ![i] = u] \in [Instances -> SourceType]
    BY <2>4, SourceUpdateType
  <2> QED BY <2>3, <2>5, <2>6, ShownUpdate, PublishLedgerSafe
<1> QED BY <1>2, <1>3, <1>4

\* A Pod is retired only when no call owns a slot of it.
LEMMA RetirePodEndSafe ==
    ASSUME TypeOK, SafeInv, NEW i \in Instances, RetirePodEnd(i)
    PROVE  SafeInv'
<1>1. UNCHANGED <<call, row, srv, phys, alive>>
  BY DEF RetirePodEnd
<1>2. CASE UNCHANGED <<ins, src>>
  <2>1. SameReads
    BY <1>2 DEF SameReads, SameRead
  <2> QED BY <1>1, <1>2, <2>1, SameSlotsRefl, SafeQuiet
<1>3. CASE /\ ins[i].known => ins[i].outstanding = 0
           /\ Rebuild(call, wl, [ins EXCEPT ![i] = NewInstance])
           /\ src' = [src EXCEPT ![i].retired = TRUE]
  <2> DEFINE I == [ins EXCEPT ![i] = NewInstance]
  <2>1. /\ NewInstance \in InstanceType /\ ~NewInstance.known /\ NewInstance.outstanding = 0
        /\ ~NewInstance.ready /\ ~NewInstance.fenced /\ ~NewInstance.terminated
    BY NewTypes DEF NewInstance
  <2>2. /\ I \in [Instances -> InstanceType] /\ I[i] = NewInstance
        /\ \A j \in Instances \ {i} : I[j] = ins[j]
    BY <2>1 DEF TypeOK
  <2>3. SlotsInv(call, I)
    <3>1. \A j \in Instances : SlotInv(call, ins[j], j)
      BY DEF SafeInv, SlotsInv
    <3>2. OwnedBy(call, i) = {}
      <4>1. CASE ~ins[i].known
        BY <3>1, <4>1 DEF SlotInv, OwnedBy
      <4>2. CASE ins[i].known
        <5>1. Cardinality(OwnedBy(call, i)) = 0
          BY <1>3, <3>1, <4>2 DEF SlotInv
        <5>2. IsFiniteSet(OwnedBy(call, i))
          BY ConstantsAssumption, FS_Subset DEF OwnedBy
        <5> QED BY <5>1, <5>2, FS_EmptySet
      <4> QED BY <4>1, <4>2
    <3>3. \A r \in Requests : call[r].instance # i
      BY <3>2 DEF OwnedBy
    <3>4. \A r \in Requests : call[r].exec \in Sending => call[r].assignment # i
      BY <3>3 DEF SafeInv, CallsSafe, CallSafe, UnslottedCall, RunningCall, Running, Sending
    <3>5. SlotInv(call, NewInstance, i)
      BY <2>1, <3>2, <3>3, <3>4, FS_EmptySet DEF SlotInv
    <3> QED BY <2>2, <3>1, <3>5 DEF SlotsInv
  <2>4. ins' = Bound(call, wl, I)
    BY <1>3 DEF Rebuild
  <2> HIDE DEF I
  <2>5. SameSlots(I, ins')
    BY <2>2, <2>4, BoundSlots
  <2>6. SlotsInv(call', ins')
    BY <1>1, <2>3, <2>5, SlotsKept DEF SameOwner
  <2>7. SameReads
    <3> DEFINE u == [src[i] EXCEPT !.retired = TRUE]
    <3>1. src' = [src EXCEPT ![i] = u] /\ src \in [Instances -> SourceType]
      BY <1>3 DEF TypeOK
    <3>2. SameRead(src[i], u)
      BY <3>1 DEF SourceType, SameRead
    <3> HIDE DEF u
    <3>3. \A j \in Instances : src'[j] = IF j = i THEN u ELSE src[j]
      BY <3>1
    <3> QED BY <3>2, <3>3 DEF SameReads, SameRead
  <2>8. CallsSafe'
    BY <1>1 DEF SafeInv, CallsSafe
  <2>9. \A j \in Instances :
           /\ ins'[j].known /\ ~ins'[j].fenced => ins[j].known /\ ~ins[j].fenced
           /\ ins'[j].terminated => ins[j].terminated
    BY <2>1, <2>2, <2>5 DEF SameSlots, SameSlot
  <2> QED BY <1>1, <2>6, <2>7, <2>8, <2>9, SafeFrame DEF HeldLess, Past
<1> QED BY <1>2, <1>3 DEF RetirePodEnd

\* A rebuild over executors of the same slots.
LEMMA RebuildSafe ==
    ASSUME TypeOK, SafeInv, NEW W, NEW I \in [Instances -> InstanceType],
           Rebuild(call, W, I), SameSlots(ins, I), SameReads,
           UNCHANGED <<call, row, phys, alive>>, srv'.unknown = srv.unknown
    PROVE  SafeInv'
<1>1. SameSlots(I, ins')
  BY BoundSlots DEF Rebuild
<1>2. SameSlots(ins, ins')
  BY <1>1, SameSlotsTrans
<1> QED BY <1>2, SafeQuiet

\* An executor that is not ready any more takes no calls; it frees no slot.
LEMMA DisableInstanceSafe ==
    ASSUME TypeOK, SafeInv, NEW i \in Instances, DisableInstance(i)
    PROVE  SafeInv'
<1> DEFINE v == [ins[i] EXCEPT !.ready = FALSE, !.drained = FALSE]
           I == [ins EXCEPT ![i] = v]
<1>1. Rebuild(call, wl, I) /\ UNCHANGED <<call, row, phys, alive, srv>>
  BY DEF DisableInstance
<1>2. PICK lost \in BOOLEAN : src' = [src EXCEPT ![i] =
         [src[i] EXCEPT !.ready = src[i].ready /\ ~lost,
                        !.verified = src[i].verified /\ ~lost]]
  BY DEF DisableInstance
<1>3. SameReads
  <2> DEFINE a == src[i].ready /\ ~lost
             b == src[i].verified /\ ~lost
             u == [src[i] EXCEPT !.ready = a, !.verified = b]
  <2>1. src' = [src EXCEPT ![i] = u] /\ (b => src[i].verified)
        /\ src \in [Instances -> SourceType]
    BY <1>2 DEF TypeOK
  <2> HIDE DEF a, b
  <2>2. SameRead(src[i], u)
    BY <2>1 DEF SourceType, SameRead
  <2> HIDE DEF u
  <2>3. \A j \in Instances : src'[j] = IF j = i THEN u ELSE src[j]
    BY <2>1
  <2> QED BY <2>2, <2>3 DEF SameReads, SameRead
<1>4. v \in InstanceType /\ SameSlot(ins[i], v) /\ ins \in [Instances -> InstanceType]
  BY ZenonT(60) DEF TypeOK, InstanceType, SameSlot
<1> HIDE DEF v
<1>5. I \in [Instances -> InstanceType] /\ \A j \in Instances : I[j] = IF j = i THEN v ELSE ins[j]
  BY <1>4
<1> HIDE DEF I
<1>6. SameSlots(ins, I)
  BY <1>4, <1>5 DEF SameSlots, SameSlot
<1> QED BY <1>1, <1>3, <1>5, <1>6, RebuildSafe

\* DetachNode only takes executors out of the routes.
LEMMA DetachNodeSafe ==
    ASSUME TypeOK, SafeInv, NEW n \in Nodes, DetachNodeBegin(n) \/ DetachNodeEnd(n)
    PROVE  SafeInv'
<1>1. UNCHANGED <<call, src, row, srv, phys, alive>>
  BY DEF DetachNodeBegin, DetachNodeEnd
<1>2. SameReads
  BY <1>1 DEF SameReads, SameRead
<1>3. ASSUME NEW drained \in BOOLEAN
      PROVE  /\ Unready(n, drained) \in [Instances -> InstanceType]
             /\ SameSlots(ins, Unready(n, drained))
  <2>1. ASSUME NEW i \in Instances
        PROVE  /\ Unready(n, drained)[i] \in InstanceType
               /\ SameSlot(ins[i], Unready(n, drained)[i])
    <3> DEFINE a == ins[i].drained \/ drained
               b == IF drained THEN {} ELSE ins[i].bindings
               v == [ins[i] EXCEPT !.ready = FALSE, !.drained = a, !.bindings = b]
    <3>1. Unready(n, drained)[i] = v \/ Unready(n, drained)[i] = ins[i]
      BY DEF Unready
    <3>2. a \in BOOLEAN /\ b \in SUBSET Workloads /\ ins[i] \in InstanceType
      BY DEF TypeOK, InstanceType
    <3> HIDE DEF a, b
    <3>3. v \in InstanceType /\ SameSlot(ins[i], v)
      BY <3>2 DEF InstanceType, SameSlot
    <3> HIDE DEF v
    <3> QED BY <3>1, <3>2, <3>3 DEF SameSlot
  <2> QED BY <2>1 DEF Unready, SameSlots
<1>4. CASE \E drained \in BOOLEAN : Rebuild(call, wl, Unready(n, drained))
  BY <1>1, <1>2, <1>3, <1>4, RebuildSafe
<1>5. CASE UNCHANGED ins
  BY <1>1, <1>2, <1>5, SameSlotsRefl, SafeQuiet
<1> QED BY <1>4, <1>5 DEF DetachNodeBegin, DetachNodeEnd

\* The observer: log lines, exits, probes, the ledger, retirement, Node drain.
LEMMA ObserverSafe ==
    ASSUME TypeOK, ServedInv, SafeInv, ObserverStep
    PROVE  SafeInv'
<1>1. ASSUME NEW i \in Instances, RetirePodBegin(i) PROVE SafeInv'
  <2>1. UNCHANGED <<call, ins, src, row, srv, phys, alive>>
    BY <1>1 DEF RetirePodBegin
  <2> QED BY <2>1, SameSlotsRefl, SafeQuiet DEF SameReads, SameRead
<1> QED BY <1>1, ObserveBackendSafe, ConfirmInstanceStoppedSafe, DisableInstanceSafe, ProbeSafe,
           PublishSafe, RetirePodEndSafe, DetachNodeSafe
        DEF ObserverStep

-----------------------------------------------------------------------------
(* Management and the process                                              *)

\* Management changes routes and bindings.
LEMMA ManagementSafe ==
    ASSUME TypeOK, SafeInv, ManagementStep
    PROVE  SafeInv'
<1>1. UNCHANGED <<call, src, row, srv, phys, alive>>
  BY DEF ManagementStep, PublishBegin, PublishEnd, OpenBegin, OpenEnd, ResumeBegin, ResumeEnd,
         StopAdmission, DetachBegin, DetachEnd, ForgetBegin, ForgetEnd
<1>2. SameReads
  BY <1>1 DEF SameReads, SameRead
<1>3. \/ UNCHANGED ins
      \/ \E W : Rebuild(call, W, ins)
      \/ \E w \in Workloads :
            ins' = [i \in Instances |-> [ins[i] EXCEPT !.bindings = @ \ {w}]]
  BY DEF ManagementStep, PublishBegin, PublishEnd, OpenBegin, OpenEnd, ResumeBegin, ResumeEnd,
         StopAdmission, DetachBegin, DetachEnd, ForgetBegin, ForgetEnd
<1>4. CASE UNCHANGED ins
  BY <1>1, <1>2, <1>4, SameSlotsRefl, SafeQuiet
<1>5. ASSUME NEW W, Rebuild(call, W, ins) PROVE SafeInv'
  BY <1>1, <1>2, <1>5, SameSlotsRefl, RebuildSafe DEF TypeOK
<1>6. ASSUME NEW w \in Workloads,
             ins' = [i \in Instances |-> [ins[i] EXCEPT !.bindings = @ \ {w}]]
      PROVE  SafeInv'
  <2>1. ASSUME NEW i \in Instances PROVE SameSlot(ins[i], ins'[i])
    <3> DEFINE b == ins[i].bindings \ {w}
    <3>1. ins'[i] = [ins[i] EXCEPT !.bindings = b] /\ ins[i] \in InstanceType
      BY <1>6 DEF TypeOK
    <3> HIDE DEF b
    <3> QED BY <3>1 DEF InstanceType, SameSlot
  <2>2. SameSlots(ins, ins')
    BY <2>1 DEF SameSlots
  <2> QED BY <1>1, <1>2, <2>2, SafeQuiet
<1> QED BY <1>3, <1>4, <1>5, <1>6

\* Canceling every exchange changes nothing that an executor holds.
LEMMA CanceledSafe ==
    ASSUME TypeOK, SafeInv, call' = AllCanceled, UNCHANGED <<ins, src, row, phys, alive>>,
           srv'.unknown = srv.unknown
    PROVE  SafeInv'
<1>1. ASSUME NEW r \in Requests
      PROVE  /\ CallSafe(call'[r], phys[r], row[r], alive)
             /\ SameOwner(call[r], call'[r]) /\ Past(call[r], call'[r])
  <2> DEFINE c == call[r]
             v == [c EXCEPT !.canceled = TRUE]
  <2>1. c \in CallType /\ call'[r] = v /\ CallSafe(c, phys[r], row[r], alive)
    BY DEF TypeOK, SafeInv, CallsSafe, AllCanceled
  <2>2. Elsewhere(c, v)
    BY <2>1 DEF Elsewhere, Early, CallType
  <2> HIDE DEF v
  <2>3. CallSafe(v, phys[r], row[r], alive) /\ SameOwner(c, v) /\ Past(c, v)
    BY <2>1, <2>2, ElsewhereSafe
  <2> QED BY <2>1, <2>3
<1>2. CallsSafe'
  BY <1>1 DEF CallsSafe
<1>3. SlotsInv(call', ins')
  BY <1>1, SameSlotsRefl, SlotsKept DEF SafeInv
<1>4. SameReads
  BY DEF SameReads, SameRead
<1> QED BY <1>1, <1>2, <1>3, <1>4, SafeFrame DEF HeldLess, SameOwner

\* NewRuntime: what an executor still holds is either restored with its row or an
\* older boot's, and then the boot knows of it.
LEMMA BootSafe ==
    ASSUME TypeOK, ServedInv, SafeInv, NEW unknown \in BOOLEAN, NEW disk,
           \A r \in Requests :
              /\ disk[r].assigned \in {"none", "disk"} /\ disk[r].final \in {"none", "disk"}
              /\ disk[r].assigned # "none" => row[r].assigned # "none"
              /\ disk[r].final # "none" => row[r].final # "none",
           \/ unknown
           \/ /\ unknown = srv.unknown
              /\ \A r \in Requests :
                    disk[r].assigned = "none" => row[r].assigned = "none",
           Boot(unknown, disk)
    PROVE  SafeInv'
<1>1. row' = disk /\ alive' = alive /\ srv'.unknown = unknown
  <2>1. srv' = [boots |-> srv.boots + 1, up |-> FALSE, unknown |-> unknown,
                failed |-> FALSE, shuttingDown |-> FALSE,
                executionsStopped |-> FALSE, drained |-> FALSE,
                finalizing |-> 0]
    BY ZenonT(60) DEF Boot
  <2>2. row' = disk /\ UNCHANGED alive
    BY DEF Boot
  <2>3. srv'.unknown = unknown
    BY <2>1
  <2> QED BY SMTT(30), <2>2, <2>3
<1>2. ASSUME NEW r \in Requests
      PROVE  \/ phys'[r] = phys[r] /\ ~(call[r].exec = "exchanging" /\ phys[r].st = "away")
             \/ phys[r].st = "away" /\ phys'[r].st = "over" /\ call[r].exec = "exchanging"
  <2>1. phys'[r] = IF call[r].exec = "exchanging" /\ phys[r].st = "away"
                   THEN [phys[r] EXCEPT !.st = "over"] ELSE phys[r]
    <3>1. phys' = [x \in Requests |-> IF call[x].exec = "exchanging" /\ phys[x].st = "away"
                      THEN [phys[x] EXCEPT !.st = "over"] ELSE phys[x]]
      BY DEF Boot
    <3> QED BY SMTT(30), <3>1
  <2>2. phys[r] \in PhysType
    BY DEF TypeOK
  <2> QED BY <2>1, <2>2 DEF PhysType
<1>3. ASSUME NEW r \in Requests
      PROVE  LET c == call[r]
                 d == call'[r] IN
             \/ c.at = "new" /\ r \notin Pending(disk) /\ d = NewCall
             \/ /\ c.at # "new" /\ r \in Pending(disk)
                /\ d.at = "done" /\ d.live /\ d.assignment = c.assignment
                /\ d.instance = c.assignment /\ d.exec = "over" /\ d.transportDone
                /\ ~d.backendDone /\ d.close = "open"
             \/ c.at # "new" /\ r \notin Pending(disk) /\ d = RowOnly(c)
  <2> DEFINE c == call[r]
             v == [NewCall EXCEPT
                   !.at = "done", !.uid = c.uid, !.def = c.def,
                   !.live = TRUE, !.assignment = c.assignment,
                   !.instance = c.assignment, !.exec = "over",
                   !.transportDone = TRUE, !.responseRecorded = TRUE]
  <2>1. c.at = "new" => r \notin Pending(disk)
    BY DEF ServedInv, CallsInv, CallInv, FreshCall, Pending
  <2>2. /\ v.at = "done" /\ v.live /\ v.assignment = c.assignment
        /\ v.instance = c.assignment /\ v.exec = "over" /\ v.transportDone
        /\ ~v.backendDone /\ v.close = "open"
    BY SMTT(30) DEF NewCall
  <2>3. call'[r] = CASE c.at = "new" -> NewCall
                     [] r \in Pending(disk) -> v
                     [] OTHER -> RowOnly(c)
    BY DEF Boot
  <2> HIDE DEF c, v
  <2>4. \/ c.at = "new" /\ r \notin Pending(disk) /\ call'[r] = NewCall
        \/ c.at # "new" /\ r \in Pending(disk) /\ call'[r] = v
        \/ c.at # "new" /\ r \notin Pending(disk) /\ call'[r] = RowOnly(c)
    BY <2>1, <2>3
  <2> QED BY <2>2, <2>4 DEF c
<1>4. /\ NewCall.at = "new" /\ ~NewCall.live /\ NewCall.exec = "none" /\ NewCall.assignment = None
      /\ NewCall.instance = None /\ NewCall.close = "open" /\ ~NewCall.backendDone
      /\ ~NewCall.transportDone
  BY DEF NewCall
<1>5. \A r \in Requests : r \in Pending(disk) <=> disk[r].assigned = "disk" /\ disk[r].final # "disk"
  BY DEF Pending
<1>6. CallsSafe'
  <2> SUFFICES ASSUME NEW r \in Requests PROVE CallSafe(call'[r], phys'[r], disk[r], alive)
    BY <1>1 DEF CallsSafe
  <2>1. CallSafe(call[r], phys[r], row[r], alive) /\ phys[r] \in PhysType
    BY DEF SafeInv, CallsSafe, TypeOK
  <2> DEFINE c == call[r]
             d == call'[r]
             p == phys'[r]
  <2>2. p.st = "held" => p = phys[r]
    BY <1>2
  <2>3. disk[r].final # "none" => c.close \in {"rowed", "closed"} /\ p.st # "held"
    BY <2>1, <2>2 DEF CallSafe, UnslottedCall, FinalCall
  <2>4. CASE c.at = "new" /\ d = NewCall
    <3>1. p.st = "away" /\ disk[r].final = "none"
      BY <1>2, <2>1, <2>3, <2>4
         DEF CallSafe, UnslottedCall, EarlyCall, Early, ClosedCall
    <3> QED BY <1>4, <2>4, <3>1
         DEF CallSafe, UnslottedCall, EarlyCall, Early, WaitingCall, RunningCall, Running,
             ClosedCall, OwnedCall, FinishedCall, ExecutedCall, HeldCall, FinalCall
  <2>5. CASE /\ r \in Pending(disk)
             /\ d.at = "done" /\ d.live /\ d.assignment = c.assignment
             /\ d.instance = c.assignment /\ d.exec = "over" /\ d.transportDone
             /\ ~d.backendDone /\ d.close = "open"
    <3>1. disk[r].assigned # "none" /\ disk[r].final = "none"
      BY <1>5, <2>5
    <3>2. p.st = "held" => p.at = c.assignment /\ p.at \in alive
      BY <2>1, <2>2 DEF CallSafe, UnslottedCall, HeldCall
    <3> QED BY <2>5, <3>1, <3>2
         DEF CallSafe, UnslottedCall, EarlyCall, Early, WaitingCall, RunningCall, Running,
             ClosedCall, OwnedCall, FinishedCall, ExecutedCall, HeldCall, FinalCall
  <2>6. CASE d = RowOnly(c)
    <3>1. /\ d.at = "done" /\ ~d.live /\ d.exec = "none" /\ d.assignment = c.assignment
          /\ d.instance = None /\ d.close = "closed" /\ ~d.backendDone /\ ~d.transportDone
      BY <2>6, RowOnlyFields
    <3>2. p.st = "held" => p.at = c.assignment /\ p.at \in alive
      BY <2>1, <2>2 DEF CallSafe, UnslottedCall, HeldCall
    <3>3. None \notin alive
      BY ConstantsAssumption DEF TypeOK
    <3> QED BY <2>3, <3>1, <3>2, <3>3
         DEF CallSafe, UnslottedCall, EarlyCall, Early, WaitingCall, RunningCall, Running,
             ClosedCall, OwnedCall, FinishedCall, ExecutedCall, HeldCall, FinalCall
  <2> QED BY <1>3, <2>4, <2>5, <2>6
<1>7. ASSUME NEW r \in Requests
      PROVE  /\ call'[r].exec \notin Sending
             /\ call'[r].instance = IF r \in Pending(disk) THEN call[r].assignment ELSE None
  BY <1>3, <1>4, RowOnlyFields DEF Sending
<1>8. ASSUME NEW i \in Instances
      PROVE  /\ SlotInv(call', ins'[i], i)
             /\ ~ins'[i].terminated
             /\ ins'[i].known => ins'[i].fenced = unknown
  <2> DEFINE P == {r \in Pending(disk) : call[r].assignment = i}
             b == {call[r].uid : r \in P}
             n == Cardinality(P)
             v == [NewInstance EXCEPT !.known = TRUE, !.fenced = unknown,
                     !.bindings = b, !.outstanding = n]
  <2>1. ins'[i] = IF P = {} THEN NewInstance ELSE v
    BY DEF Boot
  <2>2. OwnedBy(call', i) = P
    <3>1. i # None /\ Pending(disk) \in SUBSET Requests
      BY ConstantsAssumption DEF Pending
    <3> QED BY <1>7, <3>1 DEF OwnedBy
  <2>3. P = {} => Cardinality(P) = 0
    BY FS_EmptySet
  <2>4. \A r \in Requests : call'[r].instance = i => r \in P
    BY <2>2 DEF OwnedBy
  <2>n. n = Cardinality(P)
    OBVIOUS
  <2> HIDE DEF P, b, n
  <2>5. /\ v.known /\ v.fenced = unknown /\ v.outstanding = n /\ ~v.ready /\ ~v.terminated
        /\ ~NewInstance.known /\ NewInstance.outstanding = 0 /\ ~NewInstance.ready
        /\ ~NewInstance.terminated
    BY DEF NewInstance
  <2> HIDE DEF v
  <2>6. CASE P = {}
    <3>1. ins'[i] = NewInstance
      BY <2>1, <2>6
    <3> QED BY <1>7, <2>2, <2>3, <2>4, <2>5, <2>6, <3>1 DEF SlotInv
  <2>7. CASE P # {}
    <3>1. ins'[i] = v
      BY <2>1, <2>7
    <3> QED BY <1>7, <2>2, <2>5, <2>n, <3>1 DEF SlotInv
  <2> QED BY SMTT(30), <2>6, <2>7
<1>9. ASSUME NEW i \in Instances
      PROVE  /\ src'[i].probe = "idle" /\ ~src'[i].verified /\ ~src'[i].terminated
             /\ src'[i].newEnded = {} /\ src'[i].ended = {}
  <2> DEFINE a == src[i].retired
             b == src[i].evidence
  <2>1. src'[i] = [NewSource EXCEPT !.retired = a, !.evidence = b]
    BY DEF Boot
  <2> HIDE DEF a, b
  <2> QED BY SMTT(30), <2>1 DEF NewSource
<1>10. SlotsInv(call', ins') /\ EndedInv' /\ ReadInv'
  BY <1>8, <1>9 DEF SlotsInv, EndedInv, ReadInv
<1>11. LostInv'
  <2> SUFFICES ASSUME NEW r \in Requests, NEW i \in Instances,
                      phys'[r].st = "held", phys'[r].at = i, call'[r].instance # i
               PROVE  unknown
    BY <1>1, <1>8, <1>9 DEF LostInv
  <2>1. phys[r].st = "held" /\ phys[r].at = i
    BY <1>2
  <2>2. CallSafe(call[r], phys[r], row[r], alive)
    BY DEF SafeInv, CallsSafe
  <2>3. CASE call[r].instance # i
    <3>1. srv.unknown
      BY <2>1, <2>3 DEF SafeInv, LostInv
    <3> QED BY <3>1
  <2>4. CASE call[r].instance = i
    <3>1. call[r].assignment = i /\ row[r].assigned # "none" /\ row[r].final = "none"
      BY <2>1, <2>2, <2>4 DEF CallSafe, UnslottedCall, HeldCall, FinalCall
    <3>2. r \notin Pending(disk)
      BY <1>7, <3>1
    <3>3. disk[r].final = "none"
      BY <3>1
    <3>4. disk[r].assigned = "none"
      BY <1>5, <3>2, <3>3
    <3> QED BY <3>1, <3>4
  <2> QED BY <2>3, <2>4
<1>12. PhysicalCapacity'
  <2>1. \A r \in Requests : HeldLess(phys[r], phys'[r])
    BY <1>2 DEF HeldLess
  <2> QED BY <2>1, HeldLessCapacity DEF SafeInv
<1> QED BY <1>6, <1>10, <1>11, <1>12 DEF SafeInv

\* Shutdown, exit, crash and boot.
LEMMA ProcessSafe ==
    ASSUME TypeOK, ServedInv, SafeInv, ProcessStep
    PROVE  SafeInv'
<1>1. CASE BeginShutdown \/ ShutdownBegin
  <2>1. UNCHANGED <<call, ins, src, row, phys, alive>> /\ srv'.unknown = srv.unknown
    BY <1>1 DEF BeginShutdown, ShutdownBegin, TypeOK, ServerType
  <2> QED BY <2>1, SameSlotsRefl, SafeQuiet DEF SameReads, SameRead
<1>2. CASE ShutdownEnd \/ ShutdownTimeout \/ JoinExecutions
  <2>1. UNCHANGED <<ins, src, row, phys, alive>> /\ srv'.unknown = srv.unknown
    BY <1>2 DEF ShutdownEnd, ShutdownTimeout, JoinExecutions, TypeOK, ServerType
  <2>2. CASE call' = AllCanceled
    BY <2>1, <2>2, CanceledSafe
  <2>3. CASE UNCHANGED call
    BY <2>1, <2>3, SameSlotsRefl, SafeQuiet DEF SameReads, SameRead
  <2> QED BY <1>2, <2>2, <2>3 DEF ShutdownEnd, ShutdownTimeout, JoinExecutions
<1>3. CASE Crash
  <2> DEFINE disk == [r \in Requests |->
         [assigned |-> IF row[r].assigned = "disk" THEN "disk" ELSE "none",
          final |-> IF row[r].final = "disk" THEN "disk" ELSE "none"]]
  <2>1. \A r \in Requests :
           /\ disk[r].assigned \in {"none", "disk"} /\ disk[r].final \in {"none", "disk"}
           /\ disk[r].assigned # "none" => row[r].assigned # "none"
           /\ disk[r].final # "none" => row[r].final # "none"
    OBVIOUS
  <2>2. Boot(TRUE, disk)
    BY <1>3 DEF Crash
  <2> HIDE DEF disk
  <2> QED BY <2>1, <2>2, BootSafe
<1>4. CASE CleanExit
  <2> DEFINE disk == [r \in Requests |->
         [assigned |-> IF row[r].assigned = "none" THEN "none" ELSE "disk",
          final |-> IF row[r].final = "none" THEN "none" ELSE "disk"]]
  <2>1. \A r \in Requests :
           /\ disk[r].assigned \in {"none", "disk"} /\ disk[r].final \in {"none", "disk"}
           /\ disk[r].assigned # "none" => row[r].assigned # "none"
           /\ disk[r].final # "none" => row[r].final # "none"
           /\ disk[r].assigned = "none" => row[r].assigned = "none"
    OBVIOUS
  <2>2. Boot(srv.unknown, disk) /\ srv.unknown \in BOOLEAN
    BY <1>4 DEF CleanExit, TypeOK, ServerType
  <2> HIDE DEF disk
  <2> QED BY <2>1, <2>2, BootSafe
<1> QED BY <1>1, <1>2, <1>3, <1>4 DEF ProcessStep

-----------------------------------------------------------------------------
(* The theorems                                                            *)

\* The first boot satisfies the inductive invariant: nothing is held yet.
LEMMA InitSafe == Init => SafeInv
<1> SUFFICES ASSUME Init PROVE SafeInv
  OBVIOUS
<1>1. \A r \in Requests : /\ call[r] = NewCall /\ phys[r].st = "away"
                          /\ row[r].assigned = "none" /\ row[r].final = "none"
  BY DEF Init
<1>2. CallsSafe
  BY <1>1
     DEF NewCall, CallsSafe, CallSafe, UnslottedCall, EarlyCall, Early, WaitingCall, RunningCall,
         Running, ClosedCall, OwnedCall, FinishedCall, ExecutedCall, HeldCall, FinalCall
<1>3. SlotsInv(call, ins)
  <2> SUFFICES ASSUME NEW i \in Instances PROVE SlotInv(call, ins[i], i)
    BY DEF SlotsInv
  <2>1. ins[i] = NewInstance /\ i # None
    BY ConstantsAssumption DEF Init
  <2>2. \A r \in Requests : call[r].instance # i /\ call[r].exec \notin Sending
    BY <1>1, <2>1 DEF NewCall, Sending
  <2>3. OwnedBy(call, i) = {}
    BY <2>2 DEF OwnedBy
  <2> QED BY <2>1, <2>2, <2>3, FS_EmptySet DEF SlotInv, NewInstance
<1>4. EndedInv /\ LostInv /\ ReadInv
  BY <1>1 DEF Init, NewInstance, NewSource, EndedInv, LostInv, ReadInv
<1>5. PhysicalCapacity
  <2> SUFFICES ASSUME NEW i \in Instances PROVE Cardinality(HeldAt(i)) <= Capacity[i]
    BY DEF PhysicalCapacity
  <2>1. HeldAt(i) = {}
    BY <1>1 DEF HeldAt
  <2>2. Cardinality(HeldAt(i)) = 0 /\ Capacity[i] \in Nat
    BY <2>1, FS_EmptySet, ConstantsAssumption
  <2> QED BY <2>2
<1> QED BY <1>2, <1>3, <1>4, <1>5 DEF SafeInv

\* Every step keeps the inductive invariant.
LEMMA NextSafe == TypeOK /\ ServedInv /\ SafeInv /\ [Next]_vars => SafeInv'
<1> SUFFICES ASSUME TypeOK, ServedInv, SafeInv, [Next]_vars PROVE SafeInv'
  OBVIOUS
<1>1. ASSUME NEW r \in Requests, HandlerStep(r) PROVE SafeInv'
  BY <1>1, HandlerSafe
<1>2. ASSUME NEW r \in Requests, ExecuteStep(r) PROVE SafeInv'
  BY <1>2, ExecuteSafe
<1>3. CASE DispatchStep
  BY <1>3, DispatchSafe
<1>4. CASE WorldStep
  BY <1>4, WorldSafe
<1>5. CASE ObserverStep
  BY <1>5, ObserverSafe
<1>6. CASE ManagementStep
  BY <1>6, ManagementSafe
<1>7. CASE ProcessStep
  BY <1>7, ProcessSafe
<1>8. CASE UNCHANGED vars
  <2>1. UNCHANGED <<call, ins, src, row, srv, phys, alive>>
    BY <1>8 DEF vars
  <2> QED BY <2>1, SameSlotsRefl, SafeQuiet DEF SameReads, SameRead
<1> QED BY <1>1, <1>2, <1>3, <1>4, <1>5, <1>6, <1>7, <1>8 DEF Next

\* The strengthening holds in every reachable state.
LEMMA Safe == Spec => [](TypeOK /\ ServedInv /\ SafeInv)
BY InitInv, InitSafe, NextInv, NextSafe, PTL DEF Spec

\* Every request has at most one final row and nothing of its call is left then:
\* unlock writes it once, also for calls that NewRuntime restored.
THEOREM FinalRowOnce == Spec => []FinalOnce
<1>1. SafeInv => FinalOnce
  BY DEF SafeInv, CallsSafe, CallSafe, UnslottedCall, FinalCall, ClosedCall, FinalOnce
<1> QED BY <1>1, Safe, PTL

\* A final row tells the truth: no executor holds the request, whichever of reply,
\* log line, absence or termination released it, and after any crash.
THEOREM FinalRowTrue == Spec => []NoFinalWhileHeld
<1>1. SafeInv => NoFinalWhileHeld
  BY DEF SafeInv, CallsSafe, CallSafe, UnslottedCall, FinalCall, NoFinalWhileHeld
<1> QED BY <1>1, Safe, PTL

\* outstanding counts the calls that own a slot, through every release path, so
\* chooseLocked compares the true number with Capacity.
THEOREM SlotsCounted == Spec => []Accounting
<1>1. SafeInv => Accounting
  BY DEF SafeInv, SlotsInv, SlotInv, OwnedBy, Accounting
<1> QED BY <1>1, Safe, PTL

\* An executor outside the recovery fence holds only requests of this boot's calls:
\* updateInstanceRecoveryLocked never lifts the fence over an older one.
THEOREM HeldOwned == Spec => []HeldAccounted
<1>1. SafeInv => HeldAccounted
  BY DEF SafeInv, LostInv, HeldAt, HeldAccounted
<1> QED BY <1>1, Safe, PTL

\* No executor ever holds more requests than its bound, over any number of crashes
\* and restarts of the process that counts them.
THEOREM CapacityKept == Spec => []PhysicalCapacity
<1>1. SafeInv => PhysicalCapacity
  BY DEF SafeInv
<1> QED BY <1>1, Safe, PTL
=============================================================================
