---------------------------- MODULE MCReservation ----------------------------
(***************************************************************************)
(* Instances of Reservation for TLC, one behaviour of which is a scene:    *)
(*   "two"   o1 replaces i1 by i2 on another Node while o2 prepares i3     *)
(*           where i1 was; answers are lost and the Workload is deleted    *)
(*   "one"   o1 alone, with everything that can happen to it               *)
(*   "pair"  o1 prepares an instance on each of two Nodes at once          *)
(***************************************************************************)
EXTENDS Reservation, TLC

CONSTANTS Scenes, o1, o2, a1, a2, m1, r1, s1, u1, i1, i2, i3, n1, n2

TwoOwners == {o1, o2}
TwoActions == {a1, a2, r1, s1, m1}
TwoInstances == {i1, i2, i3}
TwoOwnerOf == [a \in TwoActions |-> IF a = a2 THEN o2 ELSE o1]
TwoKindOf == a1 :> "prepare" @@ a2 :> "prepare" @@ r1 :> "route" @@ s1 :> "stop" @@ m1 :> "remove"
TwoTouches == a1 :> {i2} @@ a2 :> {i3} @@ r1 :> {i2} @@ s1 :> {i1} @@ m1 :> {i1}
TwoDependsOn == a1 :> {} @@ a2 :> {} @@ r1 :> {a1} @@ s1 :> {r1} @@ m1 :> {s1}
TwoNodeOf == i1 :> n1 @@ i2 :> n2 @@ i3 :> n1
TwoInitial == {i1}

VARIABLE scene

OneOwners == {o1}
OneActions == {a1, r1, s1, m1, u1}
OneOwnerOf == [a \in OneActions |-> o1]
OneKindOf == a1 :> "prepare" @@ r1 :> "route" @@ s1 :> "stop" @@ m1 :> "remove" @@ u1 :> "undo"
OneTouches == a1 :> {i2} @@ r1 :> {i2} @@ s1 :> {i1} @@ m1 :> {i1} @@ u1 :> {i2}
OneDependsOn == a1 :> {} @@ r1 :> {a1} @@ s1 :> {r1} @@ m1 :> {s1} @@ u1 :> {}
OneEnv == {"startfail", "fail", "lost", "bad", "foreign", "crash", "delete"}
One == INSTANCE Reservation WITH
    Owners <- OneOwners, Actions <- OneActions, OwnerOf <- OneOwnerOf, KindOf <- OneKindOf,
    Touches <- OneTouches, DependsOn <- OneDependsOn, Env <- OneEnv

PairActions == {a1, a2}
PairInstances == {i1, i2}
PairOwnerOf == [a \in PairActions |-> o1]
PairKindOf == [a \in PairActions |-> "prepare"]
PairTouches == a1 :> {i1} @@ a2 :> {i2}
PairDependsOn == [a \in PairActions |-> {}]
PairInitial == {}
PairEnv == {"startfail"}
Pair == INSTANCE Reservation WITH
    Owners <- OneOwners, Actions <- PairActions, Instances <- PairInstances, OwnerOf <- PairOwnerOf,
    KindOf <- PairKindOf, Touches <- PairTouches, DependsOn <- PairDependsOn, Initial <- PairInitial, Env <- PairEnv

\* TLC evaluates Reservation's own assumptions for the scene "two".
ASSUME \A a \in OneActions : OneKindOf[a] = "stop" => One!RemoveAfter(a) # {}

Turn(two, one, pair) == \/ scene = "two" /\ two /\ UNCHANGED scene
                        \/ scene = "one" /\ one /\ UNCHANGED scene
                        \/ scene = "pair" /\ pair /\ UNCHANGED scene

SceneInit == /\ \/ Init /\ scene = "two"
                \/ One!Init /\ scene = "one"
                \/ Pair!Init /\ scene = "pair"
             /\ scene \in Scenes

SceneSpec ==
    /\ SceneInit
    /\ [][Turn(Next, One!Next, Pair!Next)]_<<vars, scene>>
    /\ WF_<<vars, scene>>(Turn(Control, One!Control, Pair!Control))
    /\ WF_<<vars, scene>>(Turn(\E a \in Actions : Effects(a), \E a \in OneActions : One!Effects(a), \E a \in PairActions : Pair!Effects(a)))
    /\ SF_<<vars, scene>>(Turn(\E a \in Actions : Ends(a), \E a \in OneActions : One!Ends(a), \E a \in PairActions : Pair!Ends(a)))

\* Reservation's safety: WritersCovered, NothingLeftBehind and DeletionAlone.
ResponsibilityKept ==
    /\ scene = "two" => WritersCovered /\ NothingLeftBehind /\ DeletionAlone
    /\ scene = "one" => One!WritersCovered /\ One!NothingLeftBehind /\ One!DeletionAlone
    /\ scene = "pair" => Pair!WritersCovered /\ Pair!NothingLeftBehind /\ Pair!DeletionAlone

\* Reservation.NodesReturn, of owners that prepare on one Node.
NodesComeBack ==
    /\ \A o \in TwoOwners : (scene = "two" /\ Owes(o)) ~> (scene = "two" /\ Paid(o))
    /\ \A o \in OneOwners : (scene = "one" /\ One!Owes(o)) ~> (scene = "one" /\ One!Paid(o))

\* Reservation.ReservationReturns, of an owner that prepares on two Nodes.
EverythingReturns ==
    \A o \in OneOwners : (scene = "pair" /\ Pair!Failed(o)) ~> (scene = "pair" /\ Pair!Returned(o))
==============================================================================
