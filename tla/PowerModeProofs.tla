---------------------------- MODULE PowerModeProofs ----------------------------
(***************************************************************************)
(* What PowerMode promises for any modes, requests, faults, crashes and    *)
(* reboots:                                                                *)
(*   TypeCorrect        every variable has its type, a patch included,     *)
(*   SettledIsReadBack  done names the mode that was last read back,       *)
(*   FenceIsFirst       no host change without its fence on the Node,      *)
(*   FailureIsTerminal  no host change for a failed request,               *)
(*   RestartedOnce      at most one restart of the Node per request.       *)
(*                                                                         *)
(* The pass of the agent is one read, some host commands and one patch     *)
(* without a resourceVersion, so the invariants speak of the Node as that  *)
(* patch will leave it (After).  SettledInv is for an agent whose cache    *)
(* does not lag (~Cached).  RestartInv bounds how far the cache lags (Lag) *)
(* and says what keeps a restarted request from a second restart (Spent);  *)
(* it is for machines that are published before their agent runs           *)
(* (KubeletFirst).                                                         *)
(***************************************************************************)
EXTENDS PowerMode, TLAPS

AgentFields == {"gen", "readBack", "rbBoot", "record", "state"}

States == {"", "pending", "success", "failed"}
Records == [mode : Modes \cup {NoMode}, requestedAt : 0..MaxRequests,
            gen : Nat, applyAt : 0..MaxTime \cup {None},
            settlingAt : 0..MaxTime \cup {None}]

\* What the agent patches: some of its fields, each of its type.
PatchOK(p) ==
    /\ DOMAIN p \subseteq AgentFields
    /\ "gen" \in DOMAIN p => p.gen \in Nat
    /\ "readBack" \in DOMAIN p => p.readBack \in Modes \cup {NoMode}
    /\ "rbBoot" \in DOMAIN p => p.rbBoot \in Nat
    /\ "state" \in DOMAIN p => p.state \in States
    /\ "record" \in DOMAIN p => p.record \in Records

\* The fields of a Node.
LEMMA NodesIs ==
    Nodes = [desired : Modes \cup {NoMode}, requestedAt : 0..MaxRequests,
             state : States, gen : Nat \cup {None},
             readBack : Modes \cup {NoMode}, rbBoot : Nat, bootId : Nat,
             record : Records]
BY DEF Nodes, Records, States

\* A patch of agent fields replaces those fields and keeps the others.
LEMMA MergedFields ==
    ASSUME NEW p, NEW n \in Nodes, DOMAIN p \subseteq AgentFields
    PROVE  /\ DOMAIN Merge(p, n) = DOMAIN n
           /\ Merge(p, n).desired = n.desired
           /\ Merge(p, n).requestedAt = n.requestedAt
           /\ Merge(p, n).bootId = n.bootId
           /\ Merge(p, n).gen = IF "gen" \in DOMAIN p THEN p.gen ELSE n.gen
           /\ Merge(p, n).readBack = IF "readBack" \in DOMAIN p THEN p.readBack ELSE n.readBack
           /\ Merge(p, n).rbBoot = IF "rbBoot" \in DOMAIN p THEN p.rbBoot ELSE n.rbBoot
           /\ Merge(p, n).record = IF "record" \in DOMAIN p THEN p.record ELSE n.record
           /\ Merge(p, n).state = IF "state" \in DOMAIN p THEN p.state ELSE n.state
<1>1. DOMAIN n = {"desired", "requestedAt", "state", "gen", "readBack", "rbBoot", "bootId", "record"}
  BY NodesIs
<1> QED BY <1>1 DEF Merge, AgentFields

\* A patch of well-typed agent fields leaves a Node.
LEMMA MergedType ==
    ASSUME NEW p, NEW n \in Nodes, PatchOK(p)
    PROVE  Merge(p, n) \in Nodes
<1>1. DOMAIN n = {"desired", "requestedAt", "state", "gen", "readBack", "rbBoot", "bootId", "record"}
  BY NodesIs
<1> DEFINE m == Merge(p, n)
<1>2. m = [f \in DOMAIN m |-> m[f]]
  BY DEF Merge
<1>3. /\ DOMAIN m = DOMAIN n
      /\ m.desired = n.desired /\ m.requestedAt = n.requestedAt /\ m.bootId = n.bootId
      /\ m.gen = IF "gen" \in DOMAIN p THEN p.gen ELSE n.gen
      /\ m.readBack = IF "readBack" \in DOMAIN p THEN p.readBack ELSE n.readBack
      /\ m.rbBoot = IF "rbBoot" \in DOMAIN p THEN p.rbBoot ELSE n.rbBoot
      /\ m.record = IF "record" \in DOMAIN p THEN p.record ELSE n.record
      /\ m.state = IF "state" \in DOMAIN p THEN p.state ELSE n.state
  BY MergedFields DEF PatchOK
<1> HIDE DEF m
<1>4. /\ m.desired \in Modes \cup {NoMode} /\ m.requestedAt \in 0..MaxRequests
      /\ m.bootId \in Nat /\ m.gen \in Nat \cup {None}
      /\ m.readBack \in Modes \cup {NoMode} /\ m.rbBoot \in Nat
      /\ m.state \in States /\ m.record \in Records
  BY <1>3, NodesIs DEF PatchOK
<1>5. m = [desired |-> m.desired, requestedAt |-> m.requestedAt, state |-> m.state,
           gen |-> m.gen, readBack |-> m.readBack, rbBoot |-> m.rbBoot,
           bootId |-> m.bootId, record |-> m.record]
  BY <1>1, <1>2, <1>3
<1>6. m \in Nodes
  BY <1>4, <1>5, NodesIs
<1> QED BY <1>6 DEF m

\* An empty patch names no field.
LEMMA NoPatchIs == DOMAIN NoPatch = {}
BY DEF NoPatch

\* An empty patch adds nothing to another one.
LEMMA MergeNothing ==
    ASSUME NEW p, NEW q, DOMAIN p = {}
    PROVE  /\ DOMAIN Merge(p, q) = DOMAIN q
           /\ \A f \in DOMAIN q : Merge(p, q)[f] = q[f]
BY DEF Merge

\* Write patches the record and the state label.
LEMMA WriteIs ==
    ASSUME NEW r, NEW s
    PROVE  /\ DOMAIN Write(r, s) = {"record", "state"}
           /\ Write(r, s).record = r /\ Write(r, s).state = s
BY DEF Write

\* Two patches of one pass make one patch.
LEMMA PatchMerge ==
    ASSUME NEW p, NEW q, PatchOK(p), PatchOK(q)
    PROVE  /\ PatchOK(Merge(p, q))
           /\ DOMAIN Merge(p, q) = DOMAIN p \cup DOMAIN q
           /\ "gen" \in DOMAIN Merge(p, q) =>
                Merge(p, q).gen = IF "gen" \in DOMAIN p THEN p.gen ELSE q.gen
           /\ "readBack" \in DOMAIN Merge(p, q) =>
                Merge(p, q).readBack = IF "readBack" \in DOMAIN p THEN p.readBack ELSE q.readBack
           /\ "rbBoot" \in DOMAIN Merge(p, q) =>
                Merge(p, q).rbBoot = IF "rbBoot" \in DOMAIN p THEN p.rbBoot ELSE q.rbBoot
           /\ "record" \in DOMAIN Merge(p, q) =>
                Merge(p, q).record = IF "record" \in DOMAIN p THEN p.record ELSE q.record
           /\ "state" \in DOMAIN Merge(p, q) =>
                Merge(p, q).state = IF "state" \in DOMAIN p THEN p.state ELSE q.state
<1>1. DOMAIN Merge(p, q) = DOMAIN p \cup DOMAIN q
  BY DEF Merge
<1>2. \A f \in DOMAIN p \cup DOMAIN q :
         Merge(p, q)[f] = IF f \in DOMAIN p THEN p[f] ELSE q[f]
  BY DEF Merge
<1> QED BY <1>1, <1>2 DEF PatchOK

\* The two forms of the read-back's patch: nothing, or all three annotations.
SameReadBack(n, seen) ==
    n.gen # None /\ n.rbBoot = n.bootId /\ (seen # NoMode => n.readBack = seen)

NewReadBack(b, n, seen) ==
    /\ DOMAIN b = {"gen", "readBack", "rbBoot"}
    /\ b.rbBoot = n.bootId /\ (seen # NoMode => b.readBack = seen)
    /\ n.gen = None => b.gen = 0
    /\ n.gen # None => b.gen \in {n.gen, n.gen + 1}
    /\ n.gen # None /\ (~Clock \/ n.desired # NoMode) => b.gen = n.gen + 1

\* publishReadBack patches its three annotations, or nothing.
LEMMA ReadBackIs ==
    ASSUME NEW n \in Nodes, NEW seen \in Modes \cup {NoMode}
    PROVE  /\ PatchOK(ReadBack(n, seen))
           /\ \/ ReadBack(n, seen) = NoPatch /\ SameReadBack(n, seen)
              \/ NewReadBack(ReadBack(n, seen), n, seen)
<1> DEFINE back == IF seen # NoMode THEN seen
                   ELSE IF n.rbBoot = n.bootId THEN n.readBack ELSE NoMode
<1> DEFINE clockOnly == Clock /\ seen # NoMode /\ n.desired = NoMode /\ n.rbBoot = n.bootId
<1> DEFINE new == [gen |-> IF n.gen = None THEN 0
                           ELSE IF clockOnly THEN n.gen ELSE n.gen + 1,
                   readBack |-> back, rbBoot |-> n.bootId]
<1>1. back \in Modes \cup {NoMode} /\ (seen # NoMode => back = seen)
  BY DEF Nodes
<1>2. n.gen \in Nat \cup {None} /\ n.bootId \in Nat
  BY DEF Nodes
<1>3. CASE n.gen # None /\ back = n.readBack /\ n.rbBoot = n.bootId
  <2>1. ReadBack(n, seen) = NoPatch
    BY <1>3 DEF ReadBack
  <2> QED BY <1>1, <1>3, <2>1, NoPatchIs DEF PatchOK, SameReadBack
<1>4. CASE ~(n.gen # None /\ back = n.readBack /\ n.rbBoot = n.bootId)
  <2>1. ReadBack(n, seen) = new
    BY <1>4 DEF ReadBack
  <2>2. /\ DOMAIN new = {"gen", "readBack", "rbBoot"}
        /\ new.rbBoot = n.bootId /\ new.readBack = back
        /\ new.gen = IF n.gen = None THEN 0
                     ELSE IF clockOnly THEN n.gen ELSE n.gen + 1
    OBVIOUS
  <2> HIDE DEF new, back
  <2>3. PatchOK(new)
    BY <1>1, <1>2, <2>2 DEF PatchOK, AgentFields, None
  <2>4. NewReadBack(new, n, seen)
    BY <1>1, <1>2, <2>2 DEF NewReadBack, None
  <2> QED BY <2>1, <2>3, <2>4
<1> QED BY <1>3, <1>4

\* The fields of a record.
LEMMA RecordFields ==
    ASSUME NEW rec \in Records
    PROVE  /\ rec.mode \in Modes \cup {NoMode} /\ rec.requestedAt \in 0..MaxRequests
           /\ rec.gen \in Nat /\ rec.applyAt \in 0..MaxTime \cup {None}
           /\ rec.settlingAt \in 0..MaxTime \cup {None}
BY DEF Records

\* A fresh record is for the current request and the given generation.
LEMMA FreshRecordIs ==
    ASSUME NEW n \in Nodes, NEW gen \in Nat, NEW t \in 0..MaxTime \cup {None}
    PROVE  /\ FreshRecord(n, gen, t) \in Records
           /\ FreshRecord(n, gen, t).mode = n.desired
           /\ FreshRecord(n, gen, t).requestedAt = n.requestedAt
           /\ FreshRecord(n, gen, t).gen = gen
           /\ FreshRecord(n, gen, t).applyAt = t
BY DEF FreshRecord, NoRecord, Records, Nodes, None

\* The record drive takes for a refused request, which is fenced by no time, is
\* such a record.
LEMMA UnfencedRecordIs ==
    ASSUME NEW n \in Nodes, NEW gen \in Nat
    PROVE  /\ FreshRecord(n, gen, None) \in Records
           /\ FreshRecord(n, gen, None).mode = n.desired
           /\ FreshRecord(n, gen, None).requestedAt = n.requestedAt
           /\ FreshRecord(n, gen, None).gen = gen
<1>1. n.desired \in Modes \cup {NoMode} /\ n.requestedAt \in 0..MaxRequests
  BY DEF Nodes
<1> QED BY <1>1 DEF FreshRecord, NoRecord, Records, None

\* What settle leaves behind: nothing, the read that starts the settling time,
\* or success.
LEMMA SettleIs ==
    ASSUME NEW n \in Nodes, NEW gen \in Nat, now \in 0..MaxTime
    PROVE  /\ PatchOK(Settle(n, gen))
           /\ \/ Settle(n, gen) = NoPatch
              \/ /\ DOMAIN Settle(n, gen) = {"record", "state"}
                 /\ Settle(n, gen).state = "pending"
                 /\ Settle(n, gen).record.gen = gen
                 /\ Settle(n, gen).record.mode = n.record.mode
                 /\ Settle(n, gen).record.requestedAt = n.record.requestedAt
                 /\ Settle(n, gen).record.applyAt = n.record.applyAt
              \/ /\ DOMAIN Settle(n, gen) = {"record", "state"}
                 /\ Settle(n, gen).state = "success"
                 /\ Settle(n, gen).record = n.record
<1>1. n.record \in Records
  BY NodesIs
<1>2. CASE n.record.settlingAt = None
  <2> DEFINE rec == [n.record EXCEPT !.gen = gen, !.settlingAt = now]
  <2>1. /\ rec \in Records /\ rec.gen = gen /\ rec.mode = n.record.mode
        /\ rec.requestedAt = n.record.requestedAt /\ rec.applyAt = n.record.applyAt
    BY <1>1 DEF Records
  <2>2. Settle(n, gen) = Write(rec, "pending")
    BY <1>2 DEF Settle
  <2> HIDE DEF rec
  <2> QED BY <2>1, <2>2, WriteIs DEF Write, PatchOK, AgentFields, States
<1>3. CASE n.record.settlingAt # None /\ ~Elapsed(n.record.settlingAt)
  BY <1>3, NoPatchIs DEF Settle, PatchOK
<1>4. CASE n.record.settlingAt # None /\ Elapsed(n.record.settlingAt)
  <2>1. Settle(n, gen) = Write(n.record, "success")
    BY <1>4 DEF Settle
  <2> QED BY <1>1, <2>1, WriteIs DEF Write, PatchOK, AgentFields, States
<1> QED BY <1>2, <1>3, <1>4

\* A failed Apply keeps the record and writes the label failed.
LEMMA FailIs ==
    ASSUME NEW n \in Nodes
    PROVE  /\ PatchOK(Fail(n)) /\ DOMAIN Fail(n) = {"record", "state"}
           /\ Fail(n).record = n.record /\ Fail(n).state = "failed"
BY NodesIs DEF Write, Fail, PatchOK, AgentFields, States

\* What drive writes when it leaves the host alone.
Untouched(d, n, seen) ==
    /\ d = NoPatch
    /\ n.desired = NoMode \/ StateOf(n) = "failed" \/ StateOf(n) = "success"
         \/ (Held(n, seen) /\ StateOf(n) = "pending")

Withdrawn(d, n) == n.desired = NoMode /\ DOMAIN d = {"state"} /\ d.state = ""

Answered(d, n, seen, gen) ==
    /\ n.desired # NoMode /\ DOMAIN d = {"record", "state"}
    /\ \/ /\ d.state = "failed"
          /\ \/ d.record.mode = n.desired /\ d.record.requestedAt = n.requestedAt
                  /\ d.record.gen = gen
             \/ d.record = n.record /\ StateOf(n) = "pending"
       \/ /\ d.state = "success" /\ Held(n, seen)
          /\ \/ d.record.mode = n.desired /\ d.record.requestedAt = n.requestedAt
                  /\ d.record.gen = gen
             \/ d.record = n.record /\ StateOf(n) = "pending"
       \/ /\ d.state = "pending"
          /\ d.record.gen = gen /\ d.record.mode = n.desired
          /\ d.record.requestedAt = n.requestedAt
          /\ \/ /\ d.record.applyAt # None
                /\ StateOf(n) = "" \/ (StateOf(n) = "pending" /\ n.record.applyAt = None)
             \/ /\ d.record.applyAt = n.record.applyAt
                /\ StateOf(n) = "pending" /\ Held(n, seen)

\* The label counts when the record serves the request.
LEMMA StateOfIs ==
    ASSUME NEW n \in Nodes
    PROVE  /\ StateOf(n) \in States
           /\ StateOf(n) # "" => ServesRequest(n) /\ StateOf(n) = n.state
BY NodesIs DEF StateOf, States

\* The value for "no mode" is not a mode.
LEMMA NoModeIs == ASSUME PowerModeAssumption PROVE NoMode \notin Modes /\ NoMode \notin Refused
BY DEF PowerModeAssumption

\* What drive decides: nothing, the label of a withdrawn request, or an answer.
LEMMA DriveIs ==
    ASSUME PowerModeAssumption, NEW n \in Nodes, NEW seen, NEW gen \in Nat,
           now \in 0..MaxTime
    PROVE  /\ PatchOK(Drive(n, seen, gen))
           /\ \/ Untouched(Drive(n, seen, gen), n, seen)
              \/ Withdrawn(Drive(n, seen, gen), n)
              \/ Answered(Drive(n, seen, gen), n, seen, gen)
<1> DEFINE d == Drive(n, seen, gen)
           fresh == FreshRecord(n, gen, None)
           fenced == FreshRecord(n, gen, now)
<1>1. n.record \in Records /\ StateOf(n) \in States
      /\ (StateOf(n) # "" => ServesRequest(n) /\ StateOf(n) = n.state)
  BY NodesIs, StateOfIs
<1>2. /\ fresh \in Records /\ fresh.mode = n.desired /\ fresh.requestedAt = n.requestedAt
      /\ fresh.gen = gen
  BY UnfencedRecordIs
<1>3. /\ fenced \in Records /\ fenced.mode = n.desired /\ fenced.requestedAt = n.requestedAt
      /\ fenced.gen = gen /\ fenced.applyAt # None
  <2>1. now \in 0..MaxTime \cup {None} /\ now # None
    BY DEF None
  <2> QED BY <2>1, FreshRecordIs
<1> HIDE DEF fresh, fenced
<1>4. CASE n.desired = NoMode
  <2>1. CASE n.state = ""
    <3>1. d = NoPatch
      BY <1>4, <2>1, NoModeIs DEF Drive
    <3> QED BY <1>4, <3>1, NoPatchIs DEF Untouched, PatchOK
  <2>2. CASE n.state # ""
    <3>1. d = [state |-> ""]
      BY <1>4, <2>2, NoModeIs DEF Drive
    <3> HIDE DEF d
    <3>2. DOMAIN d = {"state"}
      BY <3>1
    <3>3. d.state = ""
      BY <3>1
    <3>4. PatchOK(d) /\ Withdrawn(d, n)
      BY <1>4, <3>2, <3>3 DEF Withdrawn, PatchOK, AgentFields, States
    <3> QED BY <3>4 DEF d
  <2> QED BY <2>1, <2>2
<1>5. CASE n.desired # NoMode /\ StateOf(n) = "failed"
  <2>1. d = NoPatch
    BY <1>5 DEF Drive
  <2> QED BY <1>5, <2>1, NoPatchIs DEF Untouched, PatchOK
<1>6. CASE n.desired # NoMode /\ n.desired \in Refused /\ StateOf(n) # "failed"
  <2>1. d = Write(fresh, "failed")
    BY <1>6 DEF Drive, fresh
  <2> QED BY <1>2, <1>6, <2>1 DEF Write, Answered, PatchOK, AgentFields, States
<1> DEFINE Usual == n.desired # NoMode /\ n.desired \notin Refused /\ StateOf(n) # "failed"
<1>7. CASE Usual /\ Held(n, seen)
  <2>1. CASE StateOf(n) = "pending"
    <3>1. d = Settle(n, gen)
      BY <1>7, <2>1 DEF Drive
    <3>2. n.record.mode = n.desired /\ n.record.requestedAt = n.requestedAt
      BY <1>1, <2>1 DEF ServesRequest
    <3>3. /\ PatchOK(d)
          /\ \/ d = NoPatch
             \/ /\ DOMAIN d = {"record", "state"} /\ d.state = "pending"
                /\ d.record.gen = gen /\ d.record.mode = n.record.mode
                /\ d.record.requestedAt = n.record.requestedAt
                /\ d.record.applyAt = n.record.applyAt
             \/ DOMAIN d = {"record", "state"} /\ d.state = "success" /\ d.record = n.record
      <4>1. \A x : x = Settle(n, gen) =>
              /\ PatchOK(x)
              /\ \/ x = NoPatch
                 \/ /\ DOMAIN x = {"record", "state"} /\ x.state = "pending"
                    /\ x.record.gen = gen /\ x.record.mode = n.record.mode
                    /\ x.record.requestedAt = n.record.requestedAt
                    /\ x.record.applyAt = n.record.applyAt
                 \/ DOMAIN x = {"record", "state"} /\ x.state = "success" /\ x.record = n.record
        BY SettleIs
      <4> HIDE DEF d
      <4> QED BY <3>1, <4>1
    <3>4. Untouched(d, n, seen) \/ Answered(d, n, seen, gen)
      <4> HIDE DEF d
      <4> QED BY <1>7, <2>1, <3>2, <3>3 DEF Untouched, Answered
    <3> QED BY <3>3, <3>4
  <2>2. CASE StateOf(n) = ""
    <3>1. d = Write(fresh, "success")
      BY <1>7, <2>2 DEF Drive, fresh
    <3> QED BY <1>2, <1>7, <3>1 DEF Write, Answered, PatchOK, AgentFields, States
  <2>3. CASE StateOf(n) = "success"
    <3>1. d = NoPatch
      BY <1>7, <2>3 DEF Drive
    <3> QED BY <2>3, <3>1, NoPatchIs DEF Untouched, PatchOK
  <2> QED BY <1>1, <1>7, <2>1, <2>2, <2>3 DEF States
<1>8. CASE Usual /\ ~Held(n, seen)
  <2>1. CASE StateOf(n) = "success"
    <3>1. d = NoPatch
      BY <1>1, <1>8, <2>1 DEF Drive, ServesRequest
    <3> QED BY <2>1, <3>1, NoPatchIs DEF Untouched, PatchOK
  <2>2. CASE StateOf(n) = "" \/ (StateOf(n) = "pending" /\ n.record.applyAt = None)
    <3>1. d = Write(fenced, "pending")
      BY <1>8, <2>2 DEF Drive, fenced
    <3>2. DOMAIN d = {"record", "state"} /\ d.record = fenced /\ d.state = "pending"
      BY <3>1, WriteIs
    <3> HIDE DEF d
    <3>3. PatchOK(d)
      BY <1>3, <3>2 DEF PatchOK, AgentFields, States
    <3>4. Answered(d, n, seen, gen)
      BY <1>3, <1>8, <2>2, <3>2 DEF Answered
    <3> QED BY <3>3, <3>4 DEF d
  <2>3. CASE StateOf(n) = "pending" /\ n.record.applyAt # None
    <3>1. d = Write(n.record, "failed")
      BY <1>8, <2>3 DEF Drive
    <3> QED BY <1>1, <1>8, <2>3, <3>1 DEF Write, Answered, PatchOK, AgentFields, States
  <2> QED BY <1>1, <1>8, <2>1, <2>2, <2>3 DEF States
<1> QED BY <1>4, <1>5, <1>6, <1>7, <1>8

------------------------------------------------------------------------------
(* Types.                                                                  *)

\* The running pass has read the Node; the part of it that may change the host.
Working == {"apply", "set", "force", "restart", "readback"}

Hosts == [mode : Modes, eff : Modes, boot : Nat]
Budgets == [foreign : Nat, reboots : Nat, crashes : Nat, faults : Nat]

TypeInv ==
    /\ TypeOK
    /\ host \in Hosts /\ left \in Budgets
    /\ DOMAIN pass = {"pc", "n", "patch"} /\ PatchOK(pass.patch)
    /\ pass.pc \in Working => pass.n.desired \in Modes

\* What a boot brings up.
LEMMA BootedIs ==
    ASSUME PowerModeAssumption, NEW h \in Hosts, NEW up \in Booted(h)
    PROVE  /\ up \in Hosts /\ up.boot = h.boot + 1
           /\ ~Clock => up.mode = h.mode
           /\ ~Clock => up.eff = h.mode \/ h.mode \in BootModes
<1>1. Default \in Modes
  BY DEF PowerModeAssumption
<1>2. PICK e \in IF Clock THEN {Default}
                 ELSE {h.mode} \cup (IF h.mode \in BootModes THEN {Default} ELSE {}) :
         up = [mode |-> IF Clock THEN Default ELSE h.mode, boot |-> h.boot + 1, eff |-> e]
  BY DEF Booted
<1> QED BY <1>1, <1>2 DEF Hosts

\* What TypeInv says of each variable.
LEMMA TypeFacts ==
    ASSUME TypeInv
    PROVE  /\ node \in Nodes /\ view \in Nodes /\ pass.n \in Nodes
           /\ now \in 0..MaxTime /\ PatchOK(pass.patch)
           /\ host \in Hosts /\ left \in Budgets
           /\ restarts \in [1..MaxRequests -> Nat]
BY DEF TypeInv, TypeOK

\* Values a variable may take keep the types.
LEMMA TypeFrom ==
    ASSUME host' \in Hosts, left' \in Budgets, node' \in Nodes, view' \in Nodes,
           DOMAIN pass' = {"pc", "n", "patch"}, PatchOK(pass.patch)',
           pass'.n \in Nodes,
           pass'.pc \in {"down", "idle", "apply", "set", "force", "restart", "readback", "patch"},
           pass'.pc \in Working => pass'.n.desired \in Modes,
           now' \in 0..MaxTime, restarts' \in [1..MaxRequests -> Nat]
    PROVE  TypeInv'
<1>1. \A k \in DOMAIN left' : left'[k] >= 0
  BY DEF Budgets
<1>2. host'.mode \in Modes /\ host'.eff \in Modes /\ host'.boot \in Nat
  BY DEF Hosts
<1> QED BY <1>1, <1>2 DEF TypeInv, TypeOK

\* The fields of a pass that EXCEPT changes.
LEMMA PassExcept ==
    ASSUME DOMAIN pass = {"pc", "n", "patch"}, NEW pc, NEW p
    PROVE  /\ DOMAIN [pass EXCEPT !.pc = pc] = {"pc", "n", "patch"}
           /\ [pass EXCEPT !.pc = pc].pc = pc
           /\ [pass EXCEPT !.pc = pc].n = pass.n
           /\ [pass EXCEPT !.pc = pc].patch = pass.patch
           /\ DOMAIN [pass EXCEPT !.pc = pc, !.patch = p] = {"pc", "n", "patch"}
           /\ [pass EXCEPT !.pc = pc, !.patch = p].pc = pc
           /\ [pass EXCEPT !.pc = pc, !.patch = p].n = pass.n
           /\ [pass EXCEPT !.pc = pc, !.patch = p].patch = p
OBVIOUS

\* The pass after a failed command.
LEMMA ApplyFailsIs ==
    ASSUME TypeInv, ApplyFails
    PROVE  /\ DOMAIN pass' = {"pc", "n", "patch"}
           /\ pass'.pc = "patch" /\ pass'.n = pass.n
           /\ pass'.patch = Merge(Fail(pass.n), pass.patch)
           /\ PatchOK(pass.patch)'
<1>1. PatchOK(Merge(Fail(pass.n), pass.patch))
  BY TypeFacts, FailIs, PatchMerge
<1>2. DOMAIN pass = {"pc", "n", "patch"}
  BY DEF TypeInv
<1> DEFINE p == Merge(Fail(pass.n), pass.patch)
<1>3. pass' = [pass EXCEPT !.pc = "patch", !.patch = p]
  BY DEF ApplyFails
<1> HIDE DEF p
<1>4. /\ DOMAIN pass' = {"pc", "n", "patch"} /\ pass'.pc = "patch"
      /\ pass'.n = pass.n /\ pass'.patch = p
  BY <1>2, <1>3, PassExcept
<1> QED BY <1>1, <1>4 DEF p

\* The pass after Apply returned.
LEMMA ApplyReturnsIs ==
    ASSUME TypeInv, ApplyReturns
    PROVE  /\ DOMAIN pass' = {"pc", "n", "patch"}
           /\ pass'.pc = "patch" /\ pass'.n = pass.n /\ pass'.patch = pass.patch
BY PassExcept DEF ApplyReturns, TypeInv

\* The pass after a command that is followed by another.
LEMMA GoesOn ==
    ASSUME TypeInv, NEW pc, pass' = [pass EXCEPT !.pc = pc]
    PROVE  /\ DOMAIN pass' = {"pc", "n", "patch"}
           /\ pass'.pc = pc /\ pass'.n = pass.n /\ pass'.patch = pass.patch
BY PassExcept DEF TypeInv

\* The pass of an agent that waits, and of one that is down.
LEMMA IdleIs ==
    /\ DOMAIN Idle = {"pc", "n", "patch"} /\ Idle.pc = "idle" /\ Idle.n = node
    /\ Idle.patch = NoPatch
    /\ DOMAIN [Idle EXCEPT !.pc = "down"] = {"pc", "n", "patch"}
    /\ [Idle EXCEPT !.pc = "down"].pc = "down" /\ [Idle EXCEPT !.pc = "down"].n = node
    /\ [Idle EXCEPT !.pc = "down"].patch = NoPatch
BY DEF Idle

\* An empty patch is well typed.
LEMMA NoPatchOK == PatchOK(NoPatch)
BY NoPatchIs DEF PatchOK

\* A read of the host: its recorded mode unless that is nominal, or an error.
LEMMA HostReadIs ==
    ASSUME PowerModeAssumption, TypeInv, NEW seen \in HostRead(host)
    PROVE  /\ seen \in Modes \cup {NoMode}
           /\ seen # NoMode => seen = host.mode /\ ~Nominal(host)
           /\ ReadFaults(host, seen) \in Budgets
           /\ ReadFaults(host, seen).foreign = left.foreign
           /\ ReadFaults(host, seen).reboots = left.reboots
           /\ ReadFaults(host, seen).crashes = left.crashes
<1>1. host.mode \in Modes /\ left \in Budgets
  BY DEF TypeInv, TypeOK
<1>2. seen = NoMode \/ (seen = host.mode /\ ~Nominal(host))
  BY DEF HostRead
<1>3. seen = NoMode /\ ~Nominal(host) => left.faults > 0 \/ seen = host.mode
  BY DEF HostRead
<1>4. CASE seen = NoMode /\ ~Nominal(host) /\ left.faults > 0
  BY <1>1, <1>2, <1>4 DEF ReadFaults, Budgets
<1>5. CASE ~(seen = NoMode /\ ~Nominal(host))
  BY <1>1, <1>2, <1>5 DEF ReadFaults, Budgets
<1>6. CASE seen = NoMode /\ ~Nominal(host) /\ seen = host.mode /\ ~(left.faults > 0)
  BY <1>1, <1>6, NoModeIs
<1> QED BY <1>1, <1>2, <1>3, <1>4, <1>5, <1>6

\* The three ways a pass goes on after its reads.
ReadOnly(b) == pass'.pc = "patch" /\ pass'.patch = b
GoesToApply(seen, b, local) ==
    pass'.pc = "apply" /\ pass'.patch = b /\ Applies(view, seen, local.gen)
Drives(seen, b, local) ==
    pass'.pc = "patch" /\ pass'.patch = Merge(Drive(view, seen, local.gen), b)

\* The four ends of Reconcile: wait, patch the read-back, apply, decide.
LEMMA ReconcileIs ==
    ASSUME PowerModeAssumption, TypeInv, NEW seen, NEW ok \in BOOLEAN, Reconcile(seen, ok),
           NEW b, b = ReadBack(view, seen), NEW local, local = Merge(b, view)
    PROVE  /\ PatchOK(b) /\ local \in Nodes /\ local.gen \in Nat
           /\ left' \in Budgets /\ left'.reboots = left.reboots
           /\ \/ pass' = pass
              \/ /\ DOMAIN pass' = {"pc", "n", "patch"} /\ pass'.n = local
                 /\ PatchOK(pass.patch)'
                 /\ ReadOnly(b) \/ GoesToApply(seen, b, local) \/ Drives(seen, b, local)
<1>1. /\ seen \in HostRead(host) /\ seen \in Modes \cup {NoMode}
      /\ view \in Nodes /\ now \in 0..MaxTime
  BY HostReadIs, TypeFacts DEF Reconcile
<1>2. PatchOK(b) /\ ((b = NoPatch /\ SameReadBack(view, seen)) \/ NewReadBack(b, view, seen))
  BY <1>1, ReadBackIs
<1>3. local \in Nodes
  BY <1>1, <1>2, MergedType
<1>4. local.gen = IF "gen" \in DOMAIN b THEN b.gen ELSE view.gen
  BY <1>1, <1>2, MergedFields DEF PatchOK
<1>5. local.gen \in Nat
  <2>1. view.gen \in Nat \cup {None}
    BY <1>1, NodesIs
  <2> QED BY <1>2, <1>4, <2>1, NoPatchIs DEF SameReadBack, NewReadBack, PatchOK
<1>6. left' \in Budgets /\ left'.reboots = left.reboots
  <2>1. left' = [ReadFaults(host, seen) EXCEPT !.faults = IF ok THEN @ ELSE @ - 1]
        /\ left'.faults >= 0
    BY DEF Reconcile
  <2> DEFINE rf == ReadFaults(host, seen)
  <2>2. rf \in Budgets /\ rf.reboots = left.reboots
    BY <1>1, HostReadIs
  <2> HIDE DEF rf
  <2>3. left' = [rf EXCEPT !.faults = IF ok THEN @ ELSE @ - 1]
    BY <2>1 DEF rf
  <2>4. /\ DOMAIN rf = {"foreign", "reboots", "crashes", "faults"}
        /\ rf.foreign \in Nat /\ rf.reboots \in Nat /\ rf.crashes \in Nat /\ rf.faults \in Nat
        /\ rf = [f \in DOMAIN rf |-> rf[f]]
    BY <2>2 DEF Budgets
  <2>5. CASE ok
    <3>1. left' = rf
      BY <2>3, <2>4, <2>5
    <3> QED BY <2>2, <3>1
  <2>6. CASE ~ok
    <3>1. left' = [rf EXCEPT !.faults = rf.faults - 1]
      BY <2>3, <2>6
    <3>2. left'.faults = rf.faults - 1 /\ left'.reboots = rf.reboots
      BY <2>4, <3>1
    <3>3. rf.faults - 1 \in Nat
      BY <2>1, <2>4, <3>2
    <3> QED BY <2>2, <3>1, <3>2, <3>3 DEF Budgets
  <2> QED BY <2>5, <2>6
<1>7. PatchOK(Drive(view, seen, local.gen))
  BY <1>1, <1>5, DriveIs
<1> DEFINE p == Merge(Drive(view, seen, local.gen), b)
<1>8. PatchOK(p)
  BY <1>2, <1>7, PatchMerge
<1>9. \/ pass' = pass
      \/ pass' = [pc |-> "patch", n |-> local, patch |-> b]
      \/ pass' = [pc |-> "apply", n |-> local, patch |-> b] /\ Applies(view, seen, local.gen)
      \/ pass' = [pc |-> "patch", n |-> local, patch |-> p]
  BY DEF Reconcile
<1> HIDE DEF p
<1>10. CASE pass' = pass
  BY <1>2, <1>3, <1>5, <1>6, <1>10
<1>11. CASE pass' = [pc |-> "patch", n |-> local, patch |-> b]
  BY <1>2, <1>3, <1>5, <1>6, <1>11 DEF ReadOnly
<1>12. CASE /\ pass' = [pc |-> "apply", n |-> local, patch |-> b]
            /\ Applies(view, seen, local.gen)
  BY <1>2, <1>3, <1>5, <1>6, <1>12 DEF GoesToApply
<1>13. CASE pass' = [pc |-> "patch", n |-> local, patch |-> p]
  <2>1. DOMAIN pass' = {"pc", "n", "patch"} /\ pass'.n = local /\ pass'.pc = "patch"
        /\ pass'.patch = p
    BY <1>13
  <2> QED BY <1>2, <1>3, <1>5, <1>6, <1>8, <2>1 DEF Drives, p
<1> QED BY <1>9, <1>10, <1>11, <1>12, <1>13

\* The two ends of the read after Apply.
LEMMA ClockReadBackIs ==
    ASSUME PowerModeAssumption, TypeInv, NEW seen, ClockReadBack(seen),
           NEW b, b = ReadBack(pass.n, seen), NEW local, local = Merge(b, pass.n),
           NEW s, s = Settle(pass.n, local.gen)
    PROVE  /\ seen \in HostRead(host) /\ left' \in Budgets /\ left'.reboots = left.reboots
           /\ PatchOK(b) /\ local \in Nodes /\ local.gen \in Nat
           /\ PatchOK(s) /\ PatchOK(Merge(b, pass.patch))
           /\ DOMAIN pass' = {"pc", "n", "patch"} /\ pass'.pc = "patch" /\ PatchOK(pass.patch)'
           /\ \/ pass'.n = pass.n /\ ApplyFails
              \/ /\ pass'.n = local /\ seen = pass.n.desired
                 /\ pass'.patch = Merge(s, Merge(b, pass.patch))
<1>1. /\ seen \in HostRead(host) /\ seen \in Modes \cup {NoMode}
      /\ pass.n \in Nodes /\ now \in 0..MaxTime /\ PatchOK(pass.patch)
      /\ left' \in Budgets /\ left'.reboots = left.reboots
  BY HostReadIs, TypeFacts DEF ClockReadBack
<1>2. PatchOK(b) /\ ((b = NoPatch /\ SameReadBack(pass.n, seen)) \/ NewReadBack(b, pass.n, seen))
  BY <1>1, ReadBackIs
<1>3. local \in Nodes
  BY <1>1, <1>2, MergedType
<1>4. local.gen = IF "gen" \in DOMAIN b THEN b.gen ELSE pass.n.gen
  BY <1>1, <1>2, MergedFields DEF PatchOK
<1>5. local.gen \in Nat
  <2>1. pass.n.gen \in Nat \cup {None}
    BY <1>1, NodesIs
  <2> QED BY <1>2, <1>4, <2>1, NoPatchIs DEF SameReadBack, NewReadBack, PatchOK
<1>6. PatchOK(s)
  BY <1>1, <1>5, SettleIs
<1>7. PatchOK(Merge(b, pass.patch))
  BY <1>1, <1>2, PatchMerge
<1> DEFINE p == Merge(s, Merge(b, pass.patch))
<1>8. PatchOK(p)
  BY <1>6, <1>7, PatchMerge
<1>9. \/ ApplyFails
      \/ seen = pass.n.desired /\ pass' = [pc |-> "patch", n |-> local, patch |-> p]
  BY DEF ClockReadBack
<1> HIDE DEF p
<1>10. CASE ApplyFails
  BY <1>1, <1>2, <1>3, <1>5, <1>6, <1>7, <1>10, ApplyFailsIs
<1>11. CASE /\ seen = pass.n.desired
            /\ pass' = [pc |-> "patch", n |-> local, patch |-> p]
  <2>1. DOMAIN pass' = {"pc", "n", "patch"} /\ pass'.n = local /\ pass'.pc = "patch"
        /\ pass'.patch = p
    BY <1>11
  <2>2. PatchOK(pass.patch)'
    BY <1>8, <2>1
  <2> QED BY <1>1, <1>2, <1>3, <1>5, <1>6, <1>7, <1>11, <2>1, <2>2 DEF p
<1> QED BY <1>9, <1>10, <1>11

\* Node changes by people, the writer and the kubelet.
LEMMA NodeExcept ==
    ASSUME PowerModeAssumption, TypeInv
    PROVE  /\ \A m \in Modes : node.requestedAt < MaxRequests =>
                [node EXCEPT !.desired = m, !.requestedAt = @ + 1] \in Nodes
           /\ [node EXCEPT !.desired = NoMode] \in Nodes
           /\ [node EXCEPT !.bootId = host.boot] \in Nodes
<1>1. node \in Nodes /\ host \in Hosts
  BY TypeFacts
<1>2. node.requestedAt \in 0..MaxRequests /\ host.boot \in Nat
  BY <1>1, NodesIs DEF Hosts
<1>3. node.requestedAt < MaxRequests => node.requestedAt + 1 \in 0..MaxRequests
  BY <1>2 DEF PowerModeAssumption
<1> QED BY <1>1, <1>2, <1>3, NodesIs

\* The initial state has the types.
LEMMA TypeInit == ASSUME PowerModeAssumption, Init PROVE TypeInv
<1>1. /\ MaxRequests \in Nat /\ MaxTime \in Nat /\ MaxForeign \in Nat /\ MaxReboots \in Nat
      /\ MaxCrashes \in Nat /\ MaxFaults \in Nat /\ Default \in Modes
  BY DEF PowerModeAssumption
<1>2. 0 \in 0..MaxRequests /\ 0 \in 0..MaxTime /\ None \in Nat \cup {None}
  BY <1>1
<1>3. NoRecord \in Records
  BY <1>2 DEF NoRecord, Records
<1>4. node \in Nodes /\ view \in Nodes
  <2>1. node = [desired |-> NoMode, requestedAt |-> 0, state |-> "", gen |-> None,
                readBack |-> NoMode, rbBoot |-> 0, bootId |-> 1, record |-> NoRecord]
        /\ view = node
    BY DEF Init
  <2>2. "" \in States
    BY DEF States
  <2> QED BY <1>2, <1>3, <2>1, <2>2, NodesIs
<1>5. host \in Hosts
  <2>1. PICK m \in IF Clock THEN {Default} ELSE Modes : host = [mode |-> m, eff |-> m, boot |-> 1]
    BY DEF Init
  <2> QED BY <1>1, <2>1 DEF Hosts
<1>6. left \in Budgets
  <2>1. left = [foreign |-> MaxForeign, reboots |-> MaxReboots,
                crashes |-> MaxCrashes, faults |-> MaxFaults]
    BY DEF Init
  <2> QED BY <1>1, <2>1 DEF Budgets
<1>7. /\ DOMAIN pass = {"pc", "n", "patch"} /\ pass.pc = "idle" /\ pass.n = node
      /\ PatchOK(pass.patch)
  <2>1. pass = Idle
    BY DEF Init
  <2> QED BY <2>1, IdleIs, NoPatchOK
<1>8. now \in 0..MaxTime /\ restarts \in [1..MaxRequests -> Nat]
  BY <1>2 DEF Init
<1>9. \A k \in DOMAIN left : left[k] >= 0
  BY <1>6 DEF Budgets
<1>10. host.mode \in Modes /\ host.eff \in Modes /\ host.boot \in Nat
  BY <1>5 DEF Hosts
<1> QED BY <1>4, <1>5, <1>6, <1>7, <1>8, <1>9, <1>10 DEF TypeInv, TypeOK, Working

\* Every step keeps the types: in particular a patch carries whole records.
LEMMA TypeStep == ASSUME PowerModeAssumption, TypeInv, [Next]_vars PROVE TypeInv'
<1> DEFINE Pcs == {"down", "idle", "apply", "set", "force", "restart", "readback", "patch"}
<1>1. /\ node \in Nodes /\ view \in Nodes /\ pass.n \in Nodes
      /\ now \in 0..MaxTime /\ PatchOK(pass.patch)
      /\ host \in Hosts /\ left \in Budgets
      /\ restarts \in [1..MaxRequests -> Nat]
  BY TypeFacts
<1>2. /\ DOMAIN pass = {"pc", "n", "patch"} /\ pass.pc \in Pcs
      /\ pass.pc \in Working => pass.n.desired \in Modes
  BY DEF TypeInv, TypeOK
<1>3. host.mode \in Modes /\ host.eff \in Modes /\ host.boot \in Nat
  BY <1>1 DEF Hosts
<1>4. \A m \in Modes :
        [host EXCEPT !.mode = m, !.eff = m] \in Hosts /\ [host EXCEPT !.mode = m] \in Hosts
  BY <1>1 DEF Hosts
<1>5. /\ left.foreign > 0 => [left EXCEPT !.foreign = @ - 1] \in Budgets
      /\ left.crashes > 0 => [left EXCEPT !.crashes = @ - 1] \in Budgets
      /\ left.reboots > 0 => [left EXCEPT !.reboots = @ - 1] \in Budgets
      /\ left.faults > 0 => [left EXCEPT !.faults = @ - 1] \in Budgets
  BY <1>1 DEF Budgets
<1>6. ASSUME NEW seen \in Modes \cup {NoMode}, NEW ok \in BOOLEAN, Reconcile(seen, ok)
      PROVE  TypeInv'
  <2> DEFINE b == ReadBack(view, seen)
             local == Merge(b, view)
  <2>1. /\ left' \in Budgets
        /\ \/ pass' = pass
           \/ /\ DOMAIN pass' = {"pc", "n", "patch"} /\ pass'.n = local
              /\ local \in Nodes /\ PatchOK(b) /\ PatchOK(pass.patch)'
              /\ ReadOnly(b) \/ GoesToApply(seen, b, local) \/ Drives(seen, b, local)
    BY <1>6, ReconcileIs
  <2>2. UNCHANGED <<host, node, view, now, restarts>>
    BY <1>6 DEF Reconcile
  <2>3. local.desired = view.desired \/ pass' = pass
    BY <1>1, <2>1, MergedFields DEF PatchOK
  <2> HIDE DEF b, local
  <2>4. pass'.pc \in Pcs /\ pass'.n \in Nodes /\ PatchOK(pass.patch)'
        /\ DOMAIN pass' = {"pc", "n", "patch"}
    BY <1>1, <1>2, <2>1 DEF ReadOnly, GoesToApply, Drives
  <2>5. pass'.pc \in Working => pass'.n.desired \in Modes
    <3>1. GoesToApply(seen, b, local) => view.desired \in Modes
      BY <1>1, NodesIs DEF GoesToApply, Applies
    <3> QED BY <1>2, <2>1, <2>3, <3>1 DEF ReadOnly, Drives, Working
  <2> QED BY <1>1, <2>1, <2>2, <2>4, <2>5, TypeFrom
<1>7. ASSUME NEW ok \in BOOLEAN, Query(ok) PROVE TypeInv'
  <2>1. /\ left' \in Budgets
        /\ UNCHANGED <<host, node, view, now, restarts>>
        /\ pass.pc = "apply"
    BY <1>1, <1>5, <1>7 DEF Query
  <2>2. ApplyFails \/ ApplyReturns \/ pass' = [pass EXCEPT !.pc = "set"]
    BY <1>7 DEF Query
  <2>3. pass'.pc \in {"patch", "set"} /\ pass'.n = pass.n /\ PatchOK(pass.patch)'
        /\ DOMAIN pass' = {"pc", "n", "patch"}
    BY <1>1, <2>2, ApplyFailsIs, ApplyReturnsIs, GoesOn
  <2> QED BY <1>1, <1>2, <2>1, <2>3, TypeFrom DEF Working
<1>8. CASE SetMode
  <2>1. /\ UNCHANGED <<node, view, now, left, restarts>>
        /\ pass.pc = "set"
        /\ \/ pass' = [pass EXCEPT !.pc = "force"] /\ host' = host
           \/ /\ ApplyReturns
              /\ host' = [host EXCEPT !.mode = pass.n.desired, !.eff = pass.n.desired]
    BY <1>8 DEF SetMode
  <2>2. pass'.pc \in {"patch", "force"} /\ pass'.n = pass.n /\ PatchOK(pass.patch)'
        /\ DOMAIN pass' = {"pc", "n", "patch"}
    BY <1>1, <2>1, ApplyReturnsIs, GoesOn
  <2>3. pass.n.desired \in Modes
    BY <1>2, <2>1 DEF Working
  <2>4. host' \in Hosts
    BY <1>1, <1>4, <2>1, <2>3
  <2> QED BY <1>1, <2>1, <2>2, <2>3, <2>4, TypeFrom
<1>9. CASE ForceMode
  <2>1. /\ UNCHANGED <<node, view, now, left, restarts>>
        /\ pass.pc = "force" /\ pass' = [pass EXCEPT !.pc = "restart"]
        /\ host' = [host EXCEPT !.mode = pass.n.desired]
    BY <1>9 DEF ForceMode
  <2>2. pass'.pc = "restart" /\ pass'.n = pass.n /\ PatchOK(pass.patch)'
        /\ DOMAIN pass' = {"pc", "n", "patch"}
    BY <1>1, <2>1, GoesOn
  <2>3. pass.n.desired \in Modes
    BY <1>2, <2>1 DEF Working
  <2>4. host' \in Hosts
    BY <1>4, <2>1, <2>3
  <2> QED BY <1>1, <2>1, <2>2, <2>3, <2>4, TypeFrom
<1>10. CASE Restart
  <2>1. /\ UNCHANGED <<node, view, now, left>> /\ host' \in Booted(host)
        /\ pass' = [Idle EXCEPT !.pc = "down"]
        /\ restarts' = [restarts EXCEPT ![pass.n.requestedAt] = @ + 1]
    BY <1>10 DEF Restart
  <2>2. host' \in Hosts
    BY <1>1, <2>1, BootedIs
  <2>3. restarts' \in [1..MaxRequests -> Nat]
    <3> DEFINE q == pass.n.requestedAt
    <3> HIDE DEF q
    <3>1. restarts' = [restarts EXCEPT ![q] = restarts[q] + 1]
      BY <2>1 DEF q
    <3>2. q \in 1..MaxRequests => restarts[q] + 1 \in Nat
      BY <1>1
    <3> QED BY <1>1, <3>1, <3>2
  <2>4. pass'.pc = "down" /\ pass'.n = node /\ PatchOK(pass.patch)'
        /\ DOMAIN pass' = {"pc", "n", "patch"}
    BY <2>1, IdleIs, NoPatchOK
  <2> QED BY <1>1, <2>1, <2>2, <2>3, <2>4, TypeFrom DEF Working
<1>11. CASE CommandFails
  <2>1. /\ UNCHANGED <<host, node, view, now, restarts>> /\ left' \in Budgets /\ ApplyFails
    BY <1>5, <1>11 DEF CommandFails
  <2>2. pass'.pc = "patch" /\ pass'.n = pass.n /\ PatchOK(pass.patch)'
        /\ DOMAIN pass' = {"pc", "n", "patch"}
    BY <2>1, ApplyFailsIs
  <2> QED BY <1>1, <2>1, <2>2, TypeFrom DEF Working
<1>12. CASE SetClock
  <2>1. /\ UNCHANGED <<node, view, now, left, restarts>>
        /\ pass.pc = "apply" /\ pass' = [pass EXCEPT !.pc = "readback"]
        /\ host' = [host EXCEPT !.mode = pass.n.desired, !.eff = pass.n.desired]
    BY <1>12 DEF SetClock
  <2>2. pass'.pc = "readback" /\ pass'.n = pass.n /\ PatchOK(pass.patch)'
        /\ DOMAIN pass' = {"pc", "n", "patch"}
    BY <1>1, <2>1, GoesOn
  <2>3. pass.n.desired \in Modes
    BY <1>2, <2>1 DEF Working
  <2>4. host' \in Hosts
    BY <1>4, <2>1, <2>3
  <2> QED BY <1>1, <2>1, <2>2, <2>3, <2>4, TypeFrom
<1>13. ASSUME NEW mode \in Modes, ClockFails(mode) PROVE TypeInv'
  <2>1. /\ UNCHANGED <<node, view, now, restarts>> /\ left' \in Budgets /\ ApplyFails
        /\ host' = [host EXCEPT !.mode = mode, !.eff = mode]
    BY <1>5, <1>13 DEF ClockFails
  <2>2. pass'.pc = "patch" /\ pass'.n = pass.n /\ PatchOK(pass.patch)'
        /\ DOMAIN pass' = {"pc", "n", "patch"}
    BY <2>1, ApplyFailsIs
  <2>3. host' \in Hosts
    BY <1>4, <2>1
  <2> QED BY <1>1, <2>1, <2>2, <2>3, TypeFrom DEF Working
<1>14. ASSUME NEW seen \in Modes \cup {NoMode}, ClockReadBack(seen) PROVE TypeInv'
  <2>1. UNCHANGED <<host, node, view, now, restarts>>
    BY <1>14 DEF ClockReadBack
  <2>2. /\ left' \in Budgets /\ pass'.n \in Nodes /\ pass'.pc = "patch"
        /\ DOMAIN pass' = {"pc", "n", "patch"} /\ PatchOK(pass.patch)'
    BY <1>1, <1>14, ClockReadBackIs
  <2> QED BY <1>1, <2>1, <2>2, TypeFrom DEF Working
<1>15. CASE Patch
  <2>1. /\ node' = Merge(pass.patch, node) /\ pass' = [Idle EXCEPT !.n = node']
        /\ view' = IF Cached THEN view ELSE node'
        /\ UNCHANGED <<host, now, left, restarts>>
    BY <1>15 DEF Patch
  <2>2. node' \in Nodes /\ view' \in Nodes
    BY <1>1, <2>1, MergedType
  <2>3. pass'.pc = "idle" /\ pass'.n = node' /\ PatchOK(pass.patch)'
        /\ DOMAIN pass' = {"pc", "n", "patch"}
    <3>1. pass' = [pc |-> "idle", n |-> node', patch |-> NoPatch]
      BY <2>1 DEF Idle
    <3>2. pass'.patch = NoPatch
      BY <3>1
    <3> QED BY <3>1, <3>2, NoPatchOK
  <2> QED BY <1>1, <2>1, <2>2, <2>3, TypeFrom DEF Working
<1>16. CASE PatchFails
  <2>1. /\ left' \in Budgets /\ pass' = Idle
        /\ UNCHANGED <<host, node, view, now, restarts>>
    BY <1>5, <1>16 DEF PatchFails
  <2>2. pass'.pc = "idle" /\ pass'.n = node /\ PatchOK(pass.patch)'
        /\ DOMAIN pass' = {"pc", "n", "patch"}
    BY <2>1, IdleIs, NoPatchOK
  <2> QED BY <1>1, <2>1, <2>2, TypeFrom DEF Working
<1>17. ASSUME NEW mode \in Modes, RequestPowerMode(mode) PROVE TypeInv'
  <2>1. /\ node' \in Nodes /\ view' \in Nodes /\ UNCHANGED <<host, pass, now, left, restarts>>
    BY <1>1, <1>17, NodeExcept DEF RequestPowerMode
  <2> QED BY <1>1, <1>2, <2>1, TypeFrom
<1>18. CASE Withdraw
  <2>1. /\ node' \in Nodes /\ view' \in Nodes /\ left' \in Budgets
        /\ UNCHANGED <<host, pass, now, restarts>>
    BY <1>1, <1>5, <1>18, NodeExcept DEF Withdraw
  <2> QED BY <1>1, <1>2, <2>1, TypeFrom
<1>19. CASE Deliver
  BY <1>1, <1>2, <1>19, TypeFrom DEF Deliver
<1>20. CASE Kubelet
  <2>1. /\ node' \in Nodes /\ view' \in Nodes /\ UNCHANGED <<host, pass, now, left, restarts>>
    BY <1>1, <1>20, NodeExcept DEF Kubelet
  <2> QED BY <1>1, <1>2, <2>1, TypeFrom
<1>21. ASSUME NEW mode \in Modes, Foreign(mode) PROVE TypeInv'
  <2>1. /\ host' \in Hosts /\ left' \in Budgets
        /\ UNCHANGED <<node, view, pass, now, restarts>>
    BY <1>4, <1>5, <1>21 DEF Foreign
  <2> QED BY <1>1, <1>2, <2>1, TypeFrom
<1>22. CASE Crash
  <2>1. /\ UNCHANGED <<host, node, view, now, restarts>> /\ left' \in Budgets
        /\ pass' = [Idle EXCEPT !.pc = "down"]
    BY <1>5, <1>22 DEF Crash
  <2>2. pass'.pc = "down" /\ pass'.n = node /\ PatchOK(pass.patch)'
        /\ DOMAIN pass' = {"pc", "n", "patch"}
    BY <2>1, IdleIs, NoPatchOK
  <2> QED BY <1>1, <2>1, <2>2, TypeFrom DEF Working
<1>23. CASE Reboot
  <2>1. /\ UNCHANGED <<node, view, now, restarts>> /\ left' \in Budgets
        /\ host' \in Booted(host) /\ pass' = [Idle EXCEPT !.pc = "down"]
    BY <1>5, <1>23 DEF Reboot
  <2>2. host' \in Hosts
    BY <1>1, <2>1, BootedIs
  <2>3. pass'.pc = "down" /\ pass'.n = node /\ PatchOK(pass.patch)'
        /\ DOMAIN pass' = {"pc", "n", "patch"}
    BY <2>1, IdleIs, NoPatchOK
  <2> QED BY <1>1, <2>1, <2>2, <2>3, TypeFrom DEF Working
<1>24. CASE Start
  <2>1. /\ UNCHANGED <<host, node, now, left, restarts>> /\ view' = node /\ pass' = Idle
    BY <1>24 DEF Start
  <2>2. pass'.pc = "idle" /\ pass'.n = node /\ PatchOK(pass.patch)'
        /\ DOMAIN pass' = {"pc", "n", "patch"}
    BY <2>1, IdleIs, NoPatchOK
  <2> QED BY <1>1, <2>1, <2>2, TypeFrom DEF Working
<1>25. CASE Tick
  <2>1. now' \in 0..MaxTime
    BY <1>1, <1>25 DEF Tick, PowerModeAssumption
  <2> QED BY <1>1, <1>2, <1>25, <2>1, TypeFrom DEF Tick
<1>26. CASE UNCHANGED vars
  BY <1>1, <1>2, <1>26, TypeFrom DEF vars
<1> QED BY <1>6, <1>7, <1>8, <1>9, <1>10, <1>11, <1>12, <1>13, <1>14, <1>15, <1>16, <1>17,
           <1>18, <1>19, <1>20, <1>21, <1>22, <1>23, <1>24, <1>25, <1>26 DEF Next

\* Every variable keeps its type, for every set of modes, every number of
\* requests and every budget of failures.
THEOREM TypeCorrect == ASSUME PowerModeAssumption PROVE Spec => []TypeInv
<1>1. Init => TypeInv
  BY TypeInit
<1>2. TypeInv /\ [Next]_vars => TypeInv'
  BY TypeStep
<1> QED BY <1>1, <1>2, PTL DEF Spec

------------------------------------------------------------------------------
(* Patches and the Nodes they leave.                                       *)

\* What the Node will be when the patch of the running pass lands.
After == Merge(pass.patch, node)

SameAgentFields(m, n) ==
    /\ m.gen = n.gen /\ m.readBack = n.readBack /\ m.rbBoot = n.rbBoot
    /\ m.record = n.record /\ m.state = n.state

\* m is an earlier state of the requests of n: the request is the same one, or
\* withdrawn, or a later one.
Follows(m, n) ==
    /\ m.requestedAt <= n.requestedAt
    /\ m.requestedAt = n.requestedAt => n.desired \in {m.desired, NoMode}

\* A record is never ahead of its Node.
RecordBehind(n) ==
    /\ n.record.requestedAt <= n.requestedAt
    /\ n.record.mode # NoMode => n.record.gen <= n.gen

\* The read-back part of a pass over a Node it read.
LEMMA LocalIs ==
    ASSUME NEW n \in Nodes, NEW seen \in Modes \cup {NoMode}, RecordBehind(n),
           NEW b, b = ReadBack(n, seen), NEW local, local = Merge(b, n)
    PROVE  /\ DOMAIN b \subseteq {"gen", "readBack", "rbBoot"}
           /\ local.desired = n.desired /\ local.requestedAt = n.requestedAt
           /\ local.record = n.record /\ local.state = n.state
           /\ local.rbBoot = n.bootId /\ local.gen >= n.gen /\ local.gen \in Nat
           /\ seen # NoMode => local.readBack = seen
           /\ n.desired # NoMode \/ ~Clock =>
                 \/ b = NoPatch /\ n.rbBoot = n.bootId /\ SameAgentFields(n, local)
                 \/ /\ DOMAIN b = {"gen", "readBack", "rbBoot"} /\ b.rbBoot = n.bootId
                    /\ local.gen = n.gen + 1 /\ b.gen = n.gen + 1
           /\ RecordBehind(local)
<1>1. PatchOK(b) /\ ((b = NoPatch /\ SameReadBack(n, seen)) \/ NewReadBack(b, n, seen))
  BY ReadBackIs
<1>2. n.gen \in Nat \cup {None} /\ n.record \in Records
  BY NodesIs
<1>3. n.record.gen \in Nat
  BY <1>2, RecordFields
<1>4. /\ local.desired = n.desired /\ local.requestedAt = n.requestedAt
      /\ local.gen = IF "gen" \in DOMAIN b THEN b.gen ELSE n.gen
      /\ local.readBack = IF "readBack" \in DOMAIN b THEN b.readBack ELSE n.readBack
      /\ local.rbBoot = IF "rbBoot" \in DOMAIN b THEN b.rbBoot ELSE n.rbBoot
      /\ local.record = IF "record" \in DOMAIN b THEN b.record ELSE n.record
      /\ local.state = IF "state" \in DOMAIN b THEN b.state ELSE n.state
  BY <1>1, MergedFields DEF PatchOK
<1>5. CASE b = NoPatch /\ SameReadBack(n, seen)
  BY <1>2, <1>3, <1>4, <1>5, NoPatchIs DEF SameReadBack, SameAgentFields, RecordBehind, None
<1>6. CASE NewReadBack(b, n, seen)
  <2>1. /\ local.record = n.record /\ local.state = n.state /\ local.gen = b.gen
        /\ local.rbBoot = n.bootId /\ (seen # NoMode => local.readBack = seen)
        /\ DOMAIN b = {"gen", "readBack", "rbBoot"} /\ b.rbBoot = n.bootId
    BY <1>4, <1>6 DEF NewReadBack
  <2>2. b.gen \in Nat /\ b.gen >= n.gen
    BY <1>2, <1>6 DEF NewReadBack, None
  <2>3. n.desired # NoMode \/ ~Clock => b.gen = n.gen + 1
    BY <1>2, <1>6 DEF NewReadBack, None
  <2>4. RecordBehind(local)
    BY <1>2, <1>3, <1>4, <2>1, <2>2 DEF RecordBehind, None
  <2> QED BY <1>4, <2>1, <2>2, <2>3, <2>4
<1> QED BY <1>1, <1>5, <1>6

\* A read-back and a decision, patched together.
LEMMA MergeOver ==
    ASSUME NEW d, PatchOK(d), DOMAIN d \subseteq {"record", "state"},
           NEW b, PatchOK(b), DOMAIN b \subseteq {"gen", "readBack", "rbBoot"},
           NEW n \in Nodes, NEW x, x = Merge(Merge(d, b), n)
    PROVE  /\ x.desired = n.desired /\ x.requestedAt = n.requestedAt
           /\ x.gen = IF "gen" \in DOMAIN b THEN b.gen ELSE n.gen
           /\ x.readBack = IF "readBack" \in DOMAIN b THEN b.readBack ELSE n.readBack
           /\ x.rbBoot = IF "rbBoot" \in DOMAIN b THEN b.rbBoot ELSE n.rbBoot
           /\ x.record = IF "record" \in DOMAIN d THEN d.record ELSE n.record
           /\ x.state = IF "state" \in DOMAIN d THEN d.state ELSE n.state
<1> DEFINE p == Merge(d, b)
<1>1. /\ PatchOK(p) /\ DOMAIN p = DOMAIN d \cup DOMAIN b
      /\ "gen" \in DOMAIN p => p.gen = IF "gen" \in DOMAIN d THEN d.gen ELSE b.gen
      /\ "readBack" \in DOMAIN p =>
            p.readBack = IF "readBack" \in DOMAIN d THEN d.readBack ELSE b.readBack
      /\ "rbBoot" \in DOMAIN p => p.rbBoot = IF "rbBoot" \in DOMAIN d THEN d.rbBoot ELSE b.rbBoot
      /\ "record" \in DOMAIN p => p.record = IF "record" \in DOMAIN d THEN d.record ELSE b.record
      /\ "state" \in DOMAIN p => p.state = IF "state" \in DOMAIN d THEN d.state ELSE b.state
  BY ZenonT(120), PatchMerge
<1>2. x = Merge(p, n)
  OBVIOUS
<1> HIDE DEF p
<1>3. /\ x.desired = n.desired /\ x.requestedAt = n.requestedAt
      /\ x.gen = IF "gen" \in DOMAIN p THEN p.gen ELSE n.gen
      /\ x.readBack = IF "readBack" \in DOMAIN p THEN p.readBack ELSE n.readBack
      /\ x.rbBoot = IF "rbBoot" \in DOMAIN p THEN p.rbBoot ELSE n.rbBoot
      /\ x.record = IF "record" \in DOMAIN p THEN p.record ELSE n.record
      /\ x.state = IF "state" \in DOMAIN p THEN p.state ELSE n.state
  BY <1>1, <1>2, MergedFields DEF PatchOK
<1> QED BY <1>1, <1>3

\* A patch decided on over a Node the writer has moved since.
LEMMA LaterMerge ==
    ASSUME NEW m \in Nodes, NEW n \in Nodes, NEW p, PatchOK(p),
           SameAgentFields(m, n), Follows(m, n)
    PROVE  SameAgentFields(Merge(p, m), Merge(p, n)) /\ Follows(Merge(p, m), Merge(p, n))
<1>1. DOMAIN p \subseteq AgentFields
  BY DEF PatchOK
<1>2. /\ Merge(p, m).desired = m.desired /\ Merge(p, m).requestedAt = m.requestedAt
      /\ Merge(p, n).desired = n.desired /\ Merge(p, n).requestedAt = n.requestedAt
  BY <1>1, MergedFields
<1>3. SameAgentFields(Merge(p, m), Merge(p, n))
  BY <1>1, MergedFields DEF SameAgentFields
<1> QED BY <1>2, <1>3 DEF Follows


\* Requests, withdrawals and the kubelet leave the agent's fields alone.
LEMMA NodeMovesIs ==
    ASSUME PowerModeAssumption, TypeInv,
           (\E mode \in Modes : RequestPowerMode(mode)) \/ Withdraw \/ Kubelet
    PROVE  /\ SameAgentFields(node, node') /\ Follows(node, node')
           /\ UNCHANGED <<host, pass, restarts>>
           /\ view' = IF Cached THEN view ELSE node'
<1>1. node \in Nodes /\ node.requestedAt \in 0..MaxRequests
  BY TypeFacts, NodesIs
<1>2. ASSUME NEW mode \in Modes, RequestPowerMode(mode)
      PROVE  SameAgentFields(node, node') /\ Follows(node, node')
  <2>1. node' = [node EXCEPT !.desired = mode, !.requestedAt = @ + 1]
    BY <1>2 DEF RequestPowerMode
  <2>2. node'.requestedAt = node.requestedAt + 1 /\ SameAgentFields(node, node')
    BY <1>1, <2>1, NodesIs DEF SameAgentFields
  <2> QED BY <1>1, <2>2 DEF Follows
<1>3. CASE Withdraw
  BY <1>1, <1>3, NodesIs DEF Withdraw, SameAgentFields, Follows
<1>4. CASE Kubelet
  BY <1>1, <1>4, NodesIs DEF Kubelet, SameAgentFields, Follows
<1> QED BY <1>2, <1>3, <1>4 DEF RequestPowerMode, Withdraw, Kubelet

------------------------------------------------------------------------------
(* The fence and the settled mode, for an agent whose cache does not lag.  *)

ReadsBack(n) == Done(n) => n.readBack = n.desired
Truthful(n) == RecordBehind(n) /\ ReadsBack(n)

\* A pass that changes the host has read the fence, and the agent's part of
\* the Node is still what the pass knows.
Fenced ==
    /\ ServesRequest(pass.n) /\ pass.n.state = "pending" /\ pass.n.record.applyAt # None
    /\ DOMAIN pass.patch \subseteq {"gen", "readBack", "rbBoot"}
    /\ SameAgentFields(After, pass.n)
    /\ RecordBehind(pass.n)
    /\ Follows(pass.n, node)

SettledInv ==
    /\ view = node
    /\ Truthful(node)
    /\ pass.pc \in Working => Fenced
    /\ pass.pc = "patch" => Truthful(After)

\* What is true of a Node stays true while only its requests move.
LEMMA TruthfulMoves ==
    ASSUME NEW m \in Nodes, NEW n \in Nodes, SameAgentFields(m, n), Follows(m, n), Truthful(m)
    PROVE  Truthful(n)
<1>1. /\ m.requestedAt \in Nat /\ n.requestedAt \in Nat /\ m.record \in Records
      /\ m.record.requestedAt \in Nat
  BY NodesIs, RecordFields
<1>2. RecordBehind(n)
  BY <1>1 DEF Truthful, RecordBehind, SameAgentFields, Follows
<1>3. ASSUME Done(n) PROVE n.readBack = n.desired
  <2>1. /\ n.desired # NoMode /\ m.record.mode = n.desired
        /\ m.record.requestedAt = n.requestedAt
        /\ m.state = "success" /\ m.record.gen = m.gen
    BY <1>3 DEF Done, ServesRequest, SameAgentFields
  <2>2. m.requestedAt = n.requestedAt
    BY <1>1, <2>1 DEF Truthful, RecordBehind, Follows
  <2>3. m.desired = n.desired
    BY <2>1, <2>2 DEF Follows
  <2>4. Done(m)
    BY <2>1, <2>2, <2>3 DEF Done, ServesRequest
  <2> QED BY <2>3, <2>4 DEF Truthful, ReadsBack, SameAgentFields
<1> QED BY <1>2, <1>3 DEF Truthful, ReadsBack

\* A read-back alone does not make a settled mode untrue: another read is
\* another generation.
LEMMA TruthfulLocal ==
    ASSUME PowerModeAssumption, NEW n \in Nodes, NEW seen \in Modes \cup {NoMode}, Truthful(n),
           NEW b, b = ReadBack(n, seen), NEW local, local = Merge(b, n)
    PROVE  Truthful(local)
<1>1. /\ local.desired = n.desired /\ local.requestedAt = n.requestedAt
      /\ local.record = n.record /\ local.state = n.state
      /\ RecordBehind(local)
      /\ n.desired # NoMode =>
            \/ SameAgentFields(n, local)
            \/ local.gen = n.gen + 1
  BY LocalIs DEF Truthful
<1>2. n.record.gen \in Nat /\ n.gen \in Nat \cup {None}
  BY NodesIs, RecordFields
<1>3. ASSUME Done(local) PROVE local.readBack = local.desired
  <2>1. /\ n.desired # NoMode /\ n.record.mode = n.desired
        /\ n.record.requestedAt = n.requestedAt
        /\ n.state = "success" /\ n.record.gen = local.gen
    BY <1>1, <1>3 DEF Done, ServesRequest
  <2>2. n.record.gen <= n.gen
    BY <2>1 DEF Truthful, RecordBehind
  <2>3. SameAgentFields(n, local)
    BY <1>1, <1>2, <2>1, <2>2 DEF None
  <2>4. Done(n)
    BY <2>1, <2>3 DEF Done, ServesRequest, SameAgentFields
  <2> QED BY <1>1, <2>3, <2>4 DEF Truthful, ReadsBack, SameAgentFields
<1> QED BY <1>1, <1>3 DEF Truthful, ReadsBack

\* What drive writes with the read-back is true of the host as it was read.
LEMMA TruthfulDrive ==
    ASSUME PowerModeAssumption, now \in 0..MaxTime, NEW n \in Nodes,
           NEW seen \in Modes \cup {NoMode}, Truthful(n),
           NEW b, b = ReadBack(n, seen), NEW local, local = Merge(b, n),
           NEW d, d = Drive(n, seen, local.gen), NEW x, x = Merge(Merge(d, b), n)
    PROVE  Truthful(x)
<1>1. /\ DOMAIN b \subseteq {"gen", "readBack", "rbBoot"}
      /\ local.desired = n.desired /\ local.requestedAt = n.requestedAt
      /\ local.record = n.record /\ local.state = n.state
      /\ local.gen >= n.gen /\ local.gen \in Nat
      /\ seen # NoMode => local.readBack = seen
  BY LocalIs DEF Truthful
<1>2. Truthful(local) /\ PatchOK(b)
  BY TruthfulLocal, ReadBackIs
<1>3. /\ PatchOK(d)
      /\ Untouched(d, n, seen) \/ Withdrawn(d, n) \/ Answered(d, n, seen, local.gen)
  BY <1>1, DriveIs
<1>4. DOMAIN d \subseteq {"record", "state"}
  BY <1>3, NoPatchIs DEF Untouched, Withdrawn, Answered
<1>5. /\ x.desired = n.desired /\ x.requestedAt = n.requestedAt
      /\ x.gen = IF "gen" \in DOMAIN b THEN b.gen ELSE n.gen
      /\ x.readBack = IF "readBack" \in DOMAIN b THEN b.readBack ELSE n.readBack
      /\ x.record = IF "record" \in DOMAIN d THEN d.record ELSE n.record
      /\ x.state = IF "state" \in DOMAIN d THEN d.state ELSE n.state
  BY <1>2, <1>3, <1>4, <1>1, MergeOver
<1>6. x.gen = local.gen /\ x.readBack = local.readBack
  BY <1>2, <1>5, MergedFields DEF PatchOK
<1>7. /\ n.requestedAt \in Nat /\ n.record.requestedAt \in Nat /\ n.record.gen \in Nat
      /\ n.record.requestedAt <= n.requestedAt
      /\ n.record.mode # NoMode => n.record.gen <= local.gen
  BY <1>1, <1>2, NodesIs, RecordFields DEF Truthful, RecordBehind
<1>8. CASE Untouched(d, n, seen)
  <2>1. x.record = local.record /\ x.state = local.state
    BY <1>1, <1>5, <1>8, NoPatchIs DEF Untouched
  <2> QED BY <1>1, <1>2, <1>5, <1>6, <2>1 DEF Truthful, ReadsBack, RecordBehind, Done, ServesRequest
<1>9. CASE Withdrawn(d, n)
  BY <1>1, <1>5, <1>6, <1>7, <1>9
     DEF Withdrawn, Truthful, ReadsBack, RecordBehind, Done, ServesRequest
<1>10. CASE Answered(d, n, seen, local.gen)
  <2>1. x.record = d.record /\ x.state = d.state
    BY <1>5, <1>10 DEF Answered
  <2>2. \/ d.record.requestedAt = n.requestedAt /\ d.record.gen = local.gen
        \/ d.record = n.record
    BY <1>10 DEF Answered
  <2>3. RecordBehind(x)
    BY <1>1, <1>5, <1>6, <1>7, <2>1, <2>2 DEF RecordBehind
  <2>4. ASSUME Done(x) PROVE x.readBack = x.desired
    <3>1. d.state = "success" /\ n.desired # NoMode
      BY <1>5, <2>1, <2>4 DEF Done, ServesRequest
    <3>2. seen = n.desired
      BY <1>10, <3>1 DEF Answered, Held
    <3> QED BY <1>1, <1>5, <1>6, <3>1, <3>2
  <2> QED BY <2>3, <2>4 DEF Truthful, ReadsBack
<1> QED BY <1>3, <1>8, <1>9, <1>10

\* A step that leaves the Node and the view alone and stops the pass.
LEMMA SettledStop ==
    ASSUME SettledInv, UNCHANGED <<node, view>>, pass'.pc \in {"idle", "down"}
    PROVE  SettledInv'
BY DEF SettledInv, Truthful, RecordBehind, ReadsBack, Done, ServesRequest, Working

\* A command of Apply failed: the request ends.
LEMMA SettledFails ==
    ASSUME TypeInv, SettledInv, pass.pc \in Working, ApplyFails, UNCHANGED <<node, view>>
    PROVE  SettledInv'
<1>1. /\ PatchOK(pass.patch) /\ pass.n \in Nodes /\ node \in Nodes
      /\ DOMAIN pass.patch \subseteq {"gen", "readBack", "rbBoot"}
      /\ SameAgentFields(After, pass.n) /\ RecordBehind(pass.n) /\ Follows(pass.n, node)
      /\ ServesRequest(pass.n)
  BY TypeFacts DEF SettledInv, Fenced
<1> DEFINE d == Fail(pass.n)
           x == Merge(Merge(d, pass.patch), node)
<1>2. PatchOK(d) /\ DOMAIN d = {"record", "state"} /\ d.record = pass.n.record /\ d.state = "failed"
  BY <1>1, FailIs
<1> HIDE DEF d
<1>3. /\ x.desired = node.desired /\ x.requestedAt = node.requestedAt
      /\ x.gen = IF "gen" \in DOMAIN pass.patch THEN pass.patch.gen ELSE node.gen
      /\ x.record = d.record /\ x.state = d.state
  BY <1>1, <1>2, MergeOver
<1>4. After.gen = IF "gen" \in DOMAIN pass.patch THEN pass.patch.gen ELSE node.gen
  BY <1>1, MergedFields DEF After, PatchOK
<1> HIDE DEF x
<1>5. x.gen = pass.n.gen
  BY <1>1, <1>3, <1>4 DEF SameAgentFields
<1>6. /\ pass.n.requestedAt \in Nat /\ node.requestedAt \in Nat
      /\ pass.n.record.requestedAt \in Nat
  BY <1>1, NodesIs, RecordFields
<1>7. Truthful(x)
  BY <1>1, <1>2, <1>3, <1>5, <1>6
     DEF Truthful, RecordBehind, ReadsBack, Done, Follows
<1>8. pass'.pc = "patch" /\ pass'.patch = Merge(d, pass.patch)
  BY ApplyFailsIs DEF d
<1>9. After' = x
  BY <1>8 DEF After, x
<1>10. Truthful(After')
  BY <1>7, <1>9
<1>11. view' = node' /\ Truthful(node)' /\ ~(pass.pc \in Working)'
  BY <1>8 DEF SettledInv, Truthful, RecordBehind, ReadsBack, Done, ServesRequest, Working
<1>12. Truthful(After)'
  BY <1>10 DEF Truthful, RecordBehind, ReadsBack, Done, ServesRequest
<1> QED BY <1>11, <1>12 DEF SettledInv

\* Apply goes on, or returns with nothing to add.
LEMMA SettledGoes ==
    ASSUME TypeInv, SettledInv, pass.pc \in Working, UNCHANGED <<node, view>>,
           pass'.n = pass.n, pass'.patch = pass.patch, pass'.pc \in Working \cup {"patch"}
    PROVE  SettledInv'
<1>1. Fenced
  BY DEF SettledInv
<1>2. After' = After
  BY DEF After
<1>3. Fenced'
  BY <1>1, <1>2 DEF Fenced, ServesRequest, SameAgentFields, RecordBehind, Follows
<1>4. Truthful(After)'
  <2>1. /\ After.desired = node.desired /\ After.requestedAt = node.requestedAt
    BY TypeFacts, MergedFields DEF After, PatchOK
  <2>2. /\ pass.n \in Nodes /\ pass.n.requestedAt \in Nat /\ node.requestedAt \in Nat
        /\ pass.n.record.requestedAt \in Nat
    BY TypeFacts, NodesIs, RecordFields
  <2>3. Truthful(After)
    BY <1>1, <2>1, <2>2
       DEF Fenced, Truthful, RecordBehind, ReadsBack, Done, SameAgentFields, Follows
  <2> QED BY <1>2, <2>3 DEF Truthful, RecordBehind, ReadsBack, Done, ServesRequest
<1>5. view' = node' /\ Truthful(node)'
  BY DEF SettledInv, Truthful, RecordBehind, ReadsBack, Done, ServesRequest
<1> QED BY <1>3, <1>4, <1>5 DEF SettledInv

\* Reconcile keeps SettledInv.
LEMMA SettledReconcile ==
    ASSUME PowerModeAssumption, TypeInv, SettledInv, NEW seen \in Modes \cup {NoMode},
           NEW ok \in BOOLEAN, Reconcile(seen, ok)
    PROVE  SettledInv'
<1> DEFINE b == ReadBack(view, seen)
           local == Merge(b, view)
           d == Drive(view, seen, local.gen)
           x == Merge(Merge(d, b), view)
<1>1. /\ view = node /\ Truthful(node) /\ view \in Nodes /\ now \in 0..MaxTime
      /\ UNCHANGED <<node, view>> /\ pass.pc = "idle"
  BY TypeFacts DEF SettledInv, Reconcile
<1>2. /\ PatchOK(b)
      /\ \/ pass' = pass
         \/ /\ pass'.n = local
            /\ ReadOnly(b) \/ GoesToApply(seen, b, local) \/ Drives(seen, b, local)
  BY ReconcileIs
<1>3. /\ DOMAIN b \subseteq {"gen", "readBack", "rbBoot"}
      /\ local.desired = view.desired /\ local.requestedAt = view.requestedAt
      /\ local.record = view.record /\ local.state = view.state
      /\ RecordBehind(local)
  BY <1>1, LocalIs DEF Truthful
<1>4. Truthful(local)
  BY <1>1, TruthfulLocal
<1>5. Truthful(x)
  BY <1>1, TruthfulDrive
<1> HIDE DEF b, local
<1>6. view' = node' /\ Truthful(node)'
  BY <1>1 DEF Truthful, RecordBehind, ReadsBack, Done, ServesRequest
<1>7. CASE pass' = pass
  BY <1>1, <1>6, <1>7 DEF SettledInv, Working
<1>8. CASE pass'.n = local /\ ReadOnly(b)
  <2>1. After' = local /\ pass'.pc = "patch"
    BY <1>1, <1>8 DEF ReadOnly, After, local
  <2>2. Truthful(After')
    BY <1>4, <2>1
  <2>3. Truthful(After)'
    BY <2>2 DEF Truthful, RecordBehind, ReadsBack, Done, ServesRequest
  <2> QED BY <1>6, <2>1, <2>3 DEF SettledInv, Working
<1>9. CASE pass'.n = local /\ GoesToApply(seen, b, local)
  <2>1. After' = local /\ pass'.pc = "apply" /\ pass'.patch = b
    BY <1>1, <1>9 DEF GoesToApply, After, local
  <2>2. StateOf(view) = "pending" /\ view.record.applyAt # None
    BY <1>9 DEF GoesToApply, Applies
  <2>3. ServesRequest(view) /\ view.state = "pending"
    BY <1>1, <2>2, StateOfIs
  <2>4. Fenced'
    <3>1. /\ (pass'.n).desired # NoMode /\ (pass'.n).record.mode = (pass'.n).desired
          /\ (pass'.n).record.requestedAt = (pass'.n).requestedAt
          /\ (pass'.n).state = "pending" /\ (pass'.n).record.applyAt # None
      BY <1>3, <1>9, <2>2, <2>3 DEF ServesRequest
    <3>2. DOMAIN pass'.patch \subseteq {"gen", "readBack", "rbBoot"}
      BY <1>3, <2>1
    <3>3. SameAgentFields(After', pass'.n) /\ RecordBehind(pass'.n)
      BY <1>3, <1>9, <2>1 DEF SameAgentFields
    <3>4. Follows(pass'.n, node')
      <4>1. view.requestedAt \in Nat
        BY <1>1, NodesIs
      <4> QED BY <1>1, <1>3, <1>9, <4>1 DEF Follows
    <3> QED BY <3>1, <3>2, <3>3, <3>4
            DEF Fenced, ServesRequest, SameAgentFields, RecordBehind, Follows
  <2> QED BY <1>6, <2>1, <2>4 DEF SettledInv
<1>10. CASE pass'.n = local /\ Drives(seen, b, local)
  <2>1. After' = x /\ pass'.pc = "patch"
    BY <1>1, <1>10 DEF Drives, After
  <2> HIDE DEF x
  <2>2. Truthful(After')
    BY <1>5, <2>1
  <2>3. Truthful(After)'
    BY <2>2 DEF Truthful, RecordBehind, ReadsBack, Done, ServesRequest
  <2> QED BY <1>6, <2>1, <2>3 DEF SettledInv, Working
<1> QED BY <1>2, <1>7, <1>8, <1>9, <1>10

\* The read after Apply keeps SettledInv.
LEMMA SettledReadBack ==
    ASSUME PowerModeAssumption, TypeInv, SettledInv, NEW seen \in Modes \cup {NoMode},
           ClockReadBack(seen)
    PROVE  SettledInv'
<1> DEFINE b == ReadBack(pass.n, seen)
           local == Merge(b, pass.n)
           s == Settle(pass.n, local.gen)
           c == Merge(b, pass.patch)
           x == Merge(Merge(s, c), node)
<1>1. /\ pass.pc = "readback" /\ UNCHANGED <<node, view>>
      /\ pass.n \in Nodes /\ node \in Nodes /\ PatchOK(pass.patch) /\ now \in 0..MaxTime
      /\ Fenced
  BY TypeFacts DEF ClockReadBack, SettledInv, Working
<1>2. /\ seen \in HostRead(host) /\ PatchOK(b) /\ local \in Nodes /\ local.gen \in Nat
      /\ PatchOK(s) /\ PatchOK(c) /\ pass'.pc = "patch"
      /\ \/ pass'.n = pass.n /\ ApplyFails
         \/ seen = pass.n.desired /\ pass'.patch = Merge(s, c)
  BY ClockReadBackIs
<1>3. CASE ApplyFails
  BY <1>1, <1>3, SettledFails DEF Working
<1>4. CASE seen = pass.n.desired /\ pass'.patch = Merge(s, c)
  <2>1. /\ DOMAIN b \subseteq {"gen", "readBack", "rbBoot"}
        /\ local.gen >= pass.n.gen /\ (seen # NoMode => local.readBack = seen)
        /\ RecordBehind(local)
        /\ local.record = pass.n.record
    BY <1>1, LocalIs DEF Fenced
  <2>2. /\ local.gen = IF "gen" \in DOMAIN b THEN b.gen ELSE pass.n.gen
        /\ local.readBack = IF "readBack" \in DOMAIN b THEN b.readBack ELSE pass.n.readBack
    BY <1>1, <1>2, MergedFields DEF PatchOK
  <2>3. \/ s = NoPatch
        \/ /\ DOMAIN s = {"record", "state"} /\ s.state = "pending"
           /\ s.record.gen = local.gen /\ s.record.requestedAt = pass.n.record.requestedAt
        \/ DOMAIN s = {"record", "state"} /\ s.state = "success" /\ s.record = pass.n.record
    BY <1>1, <1>2, SettleIs
  <2>4. /\ DOMAIN c = DOMAIN b \cup DOMAIN pass.patch
        /\ "gen" \in DOMAIN c => c.gen = IF "gen" \in DOMAIN b THEN b.gen ELSE pass.patch.gen
        /\ "readBack" \in DOMAIN c =>
             c.readBack = IF "readBack" \in DOMAIN b THEN b.readBack ELSE pass.patch.readBack
    <3> DEFINE q == pass.patch
    <3>1. PatchOK(b) /\ PatchOK(q) /\ c = Merge(b, q)
      BY <1>1, <1>2
    <3> HIDE DEF b, c, q
    <3>2. /\ DOMAIN Merge(b, q) = DOMAIN b \cup DOMAIN q
          /\ "gen" \in DOMAIN Merge(b, q) =>
                Merge(b, q).gen = IF "gen" \in DOMAIN b THEN b.gen ELSE q.gen
          /\ "readBack" \in DOMAIN Merge(b, q) =>
                Merge(b, q).readBack = IF "readBack" \in DOMAIN b THEN b.readBack ELSE q.readBack
      BY ZenonT(60), <3>1, PatchMerge
    <3> QED BY Zenon, <3>1, <3>2 DEF q
  <2>5. /\ After.gen = IF "gen" \in DOMAIN pass.patch THEN pass.patch.gen ELSE node.gen
        /\ After.readBack = IF "readBack" \in DOMAIN pass.patch THEN pass.patch.readBack ELSE node.readBack
        /\ After.record = IF "record" \in DOMAIN pass.patch THEN pass.patch.record ELSE node.record
        /\ After.state = IF "state" \in DOMAIN pass.patch THEN pass.patch.state ELSE node.state
    BY <1>1, MergedFields DEF After, PatchOK
  <2> HIDE DEF b, s, c, local
  <2>6. DOMAIN c \subseteq {"gen", "readBack", "rbBoot"} /\ DOMAIN s \subseteq {"record", "state"}
    BY <1>1, <2>1, <2>3, <2>4, NoPatchIs DEF Fenced
  <2>7. /\ x.desired = node.desired /\ x.requestedAt = node.requestedAt
        /\ x.gen = IF "gen" \in DOMAIN c THEN c.gen ELSE node.gen
        /\ x.readBack = IF "readBack" \in DOMAIN c THEN c.readBack ELSE node.readBack
        /\ x.record = IF "record" \in DOMAIN s THEN s.record ELSE node.record
        /\ x.state = IF "state" \in DOMAIN s THEN s.state ELSE node.state
    BY <1>1, <1>2, <2>6, MergeOver
  <2> HIDE DEF x
  <2>8. /\ After.gen = pass.n.gen /\ After.readBack = pass.n.readBack
        /\ node.record = pass.n.record /\ node.state = "pending"
        /\ pass.n.record.mode = pass.n.desired /\ pass.n.desired # NoMode
        /\ pass.n.record.requestedAt = pass.n.requestedAt
    BY <1>1, <2>5 DEF Fenced, SameAgentFields, ServesRequest
  <2>9. x.gen = local.gen /\ x.readBack = local.readBack
    BY <2>2, <2>4, <2>5, <2>7, <2>8
  <2>10. /\ pass.n.requestedAt \in Nat /\ node.requestedAt \in Nat
         /\ pass.n.requestedAt <= node.requestedAt
         /\ pass.n.requestedAt = node.requestedAt => node.desired \in {pass.n.desired, NoMode}
    BY <1>1, NodesIs DEF Fenced, Follows
  <2>11. x.record.requestedAt = pass.n.requestedAt
    BY <2>3, <2>7, <2>8, NoPatchIs
  <2>12. RecordBehind(x)
    BY <2>1, <2>3, <2>7, <2>8, <2>9, <2>10, <2>11, <1>2, NoPatchIs DEF RecordBehind
  <2>13. ASSUME Done(x) PROVE x.readBack = x.desired
    <3>1. x.requestedAt = pass.n.requestedAt /\ x.desired # NoMode
      BY <2>11, <2>13 DEF Done, ServesRequest
    <3>2. x.desired = pass.n.desired
      BY <2>7, <2>10, <3>1
    <3> QED BY <1>4, <2>1, <2>8, <2>9, <3>2
  <2>14. After' = x
    BY <1>1, <1>4 DEF After, x
  <2>15. Truthful(After')
    BY <2>12, <2>13, <2>14 DEF Truthful, ReadsBack
  <2>16. Truthful(After)'
    BY <2>15 DEF Truthful, RecordBehind, ReadsBack, Done, ServesRequest
  <2>17. view' = node' /\ Truthful(node)'
    BY <1>1 DEF SettledInv, Truthful, RecordBehind, ReadsBack, Done, ServesRequest
  <2> QED BY <1>2, <2>16, <2>17 DEF SettledInv, Working
<1> QED BY <1>2, <1>3, <1>4

\* A state of the requests that follows a later one follows an earlier one.
LEMMA FollowsOn ==
    ASSUME NEW k \in Nodes, NEW m \in Nodes, NEW n \in Nodes, Follows(k, m), Follows(m, n)
    PROVE  Follows(k, n)
<1>1. k.requestedAt \in Nat /\ m.requestedAt \in Nat /\ n.requestedAt \in Nat
  BY NodesIs
<1> QED BY <1>1 DEF Follows

\* The writer, people and the kubelet move requests: the pass that runs
\* answers a request that is still the Node's, or was withdrawn or replaced.
LEMMA SettledMoves ==
    ASSUME PowerModeAssumption, ~Cached, TypeInv, SettledInv, TypeInv',
           (\E mode \in Modes : RequestPowerMode(mode)) \/ Withdraw \/ Kubelet
    PROVE  SettledInv'
<1>1. /\ SameAgentFields(node, node') /\ Follows(node, node')
      /\ pass' = pass /\ view' = node'
  BY NodeMovesIs
<1>2. /\ node \in Nodes /\ node' \in Nodes /\ pass.n \in Nodes /\ PatchOK(pass.patch)
  BY TypeFacts DEF TypeInv, TypeOK
<1>3. After \in Nodes /\ Merge(pass.patch, node') \in Nodes
  BY <1>2, MergedType DEF After
<1>4. After' = Merge(pass.patch, node')
  BY <1>1 DEF After
<1>5. SameAgentFields(After, After') /\ Follows(After, After')
  BY <1>1, <1>2, <1>4, LaterMerge DEF After
<1>6. Truthful(node')
  BY <1>1, <1>2, TruthfulMoves DEF SettledInv
<1>7. ASSUME pass.pc = "patch" PROVE Truthful(After')
  BY <1>3, <1>4, <1>5, <1>7, TruthfulMoves DEF SettledInv
<1>8. ASSUME pass.pc \in Working PROVE Fenced'
  <2>1. Fenced
    BY <1>8 DEF SettledInv
  <2>2. SameAgentFields(After', pass.n)
    BY <1>5, <2>1 DEF Fenced, SameAgentFields
  <2>3. Follows(pass.n, node')
    BY <1>1, <1>2, <2>1, FollowsOn DEF Fenced
  <2> QED BY <1>1, <2>1, <2>2, <2>3
          DEF Fenced, ServesRequest, SameAgentFields, RecordBehind, Follows
<1>9. Truthful(node)' /\ (pass.pc = "patch" => Truthful(After)')
  BY <1>6, <1>7 DEF Truthful, RecordBehind, ReadsBack, Done, ServesRequest
<1> QED BY <1>1, <1>8, <1>9 DEF SettledInv

\* A patch that lands keeps SettledInv.
LEMMA SettledPatch ==
    ASSUME ~Cached, SettledInv, Patch
    PROVE  SettledInv'
<1>1. node' = After /\ view' = node' /\ pass.pc = "patch"
  BY DEF Patch, After
<1>2. pass'.pc = "idle"
  <2>1. pass' = [pc |-> "idle", n |-> node', patch |-> NoPatch]
    BY DEF Patch, Idle
  <2> QED BY <2>1
<1>3. Truthful(node')
  BY <1>1 DEF SettledInv
<1>4. Truthful(node)'
  BY <1>3 DEF Truthful, RecordBehind, ReadsBack, Done, ServesRequest
<1> QED BY <1>1, <1>2, <1>4 DEF SettledInv, Working

\* SettledInv holds at first.
LEMMA SettledInit == ASSUME PowerModeAssumption, Init PROVE SettledInv
<1>1. /\ node = [desired |-> NoMode, requestedAt |-> 0, state |-> "", gen |-> None,
                 readBack |-> NoMode, rbBoot |-> 0, bootId |-> 1, record |-> NoRecord]
      /\ view = node /\ pass = Idle
  BY DEF Init
<1>2. node.desired = NoMode /\ node.requestedAt = 0 /\ node.record = NoRecord
  BY <1>1
<1>3. NoRecord.requestedAt = 0 /\ NoRecord.mode = NoMode
  BY DEF NoRecord
<1>4. Truthful(node)
  BY <1>2, <1>3 DEF Truthful, RecordBehind, ReadsBack, Done, ServesRequest
<1>5. pass.pc = "idle"
  BY <1>1, IdleIs
<1> QED BY <1>1, <1>4, <1>5 DEF SettledInv, Working

\* Every step keeps SettledInv.
LEMMA SettledStep ==
    ASSUME PowerModeAssumption, ~Cached, TypeInv, SettledInv, [Next]_vars
    PROVE  SettledInv'
<1>1. TypeInv'
  BY TypeStep
<1>2. ASSUME NEW seen \in Modes \cup {NoMode}, NEW ok \in BOOLEAN, Reconcile(seen, ok)
      PROVE  SettledInv'
  BY <1>2, SettledReconcile
<1>3. ASSUME NEW ok \in BOOLEAN, Query(ok) PROVE SettledInv'
  <2>1. UNCHANGED <<node, view>> /\ pass.pc \in Working
        /\ (ApplyFails \/ ApplyReturns \/ pass' = [pass EXCEPT !.pc = "set"])
    BY <1>3 DEF Query, Working
  <2>2. ApplyReturns \/ pass' = [pass EXCEPT !.pc = "set"] =>
           pass'.n = pass.n /\ pass'.patch = pass.patch /\ pass'.pc \in Working \cup {"patch"}
    BY ApplyReturnsIs, GoesOn DEF Working
  <2> QED BY <2>1, <2>2, SettledFails, SettledGoes
<1>4. CASE SetMode
  <2>1. UNCHANGED <<node, view>> /\ pass.pc \in Working
        /\ (ApplyReturns \/ pass' = [pass EXCEPT !.pc = "force"])
    BY <1>4 DEF SetMode, Working
  <2>2. pass'.n = pass.n /\ pass'.patch = pass.patch /\ pass'.pc \in Working \cup {"patch"}
    BY <2>1, ApplyReturnsIs, GoesOn DEF Working
  <2> QED BY <2>1, <2>2, SettledGoes
<1>5. CASE ForceMode
  <2>1. UNCHANGED <<node, view>> /\ pass.pc \in Working /\ pass' = [pass EXCEPT !.pc = "restart"]
    BY <1>5 DEF ForceMode, Working
  <2>2. pass'.n = pass.n /\ pass'.patch = pass.patch /\ pass'.pc \in Working \cup {"patch"}
    BY <2>1, GoesOn DEF Working
  <2> QED BY <2>1, <2>2, SettledGoes
<1>6. CASE Restart
  <2>1. UNCHANGED <<node, view>> /\ pass'.pc = "down"
    BY <1>6, IdleIs DEF Restart
  <2> QED BY <2>1, SettledStop
<1>7. CASE CommandFails
  <2>1. UNCHANGED <<node, view>> /\ pass.pc \in Working /\ ApplyFails
    BY <1>7 DEF CommandFails, Working
  <2> QED BY <2>1, SettledFails
<1>8. CASE SetClock
  <2>1. UNCHANGED <<node, view>> /\ pass.pc \in Working /\ pass' = [pass EXCEPT !.pc = "readback"]
    BY <1>8 DEF SetClock, Working
  <2>2. pass'.n = pass.n /\ pass'.patch = pass.patch /\ pass'.pc \in Working \cup {"patch"}
    BY <2>1, GoesOn DEF Working
  <2> QED BY <2>1, <2>2, SettledGoes
<1>9. ASSUME NEW mode \in Modes, ClockFails(mode) PROVE SettledInv'
  <2>1. UNCHANGED <<node, view>> /\ pass.pc \in Working /\ ApplyFails
    BY <1>9 DEF ClockFails, Working
  <2> QED BY <2>1, SettledFails
<1>10. ASSUME NEW seen \in Modes \cup {NoMode}, ClockReadBack(seen) PROVE SettledInv'
  BY <1>10, SettledReadBack
<1>11. CASE Patch
  BY <1>11, SettledPatch
<1>12. CASE PatchFails
  <2>1. UNCHANGED <<node, view>> /\ pass'.pc = "idle"
    BY <1>12, IdleIs DEF PatchFails
  <2> QED BY <2>1, SettledStop
<1>13. CASE (\E mode \in Modes : RequestPowerMode(mode)) \/ Withdraw \/ Kubelet
  BY <1>1, <1>13, SettledMoves
<1>14. CASE Deliver
  BY <1>14 DEF Deliver, SettledInv
<1>15. CASE Crash \/ Reboot
  <2>1. UNCHANGED <<node, view>> /\ pass'.pc = "down"
    BY <1>15, IdleIs DEF Crash, Reboot
  <2> QED BY <2>1, SettledStop
<1>16. CASE Start
  <2>1. UNCHANGED <<node, view>> /\ pass'.pc = "idle"
    BY <1>16, IdleIs DEF Start, SettledInv
  <2> QED BY <2>1, SettledStop
<1>17. CASE (\E mode \in Modes : Foreign(mode)) \/ Tick \/ UNCHANGED vars
  <2>1. UNCHANGED <<node, view, pass>>
    BY <1>17 DEF Foreign, Tick, vars
  <2> QED BY <2>1 DEF SettledInv, Fenced, After, Truthful, RecordBehind, ReadsBack, Done,
                      ServesRequest, SameAgentFields, Follows
<1> QED BY <1>2, <1>3, <1>4, <1>5, <1>6, <1>7, <1>8, <1>9, <1>10, <1>11, <1>12, <1>13,
           <1>14, <1>15, <1>16, <1>17 DEF Next

\* SettledInv is an invariant.
LEMMA Settled == ASSUME PowerModeAssumption, ~Cached PROVE Spec => [](TypeInv /\ SettledInv)
<1>1. Init => TypeInv /\ SettledInv
  BY TypeInit, SettledInit
<1>2. TypeInv /\ SettledInv /\ [Next]_vars => (TypeInv /\ SettledInv)'
  BY TypeStep, SettledStep
<1> QED BY <1>1, <1>2, PTL DEF Spec

\* A settled transition (PowerModeOutcome done) names the mode the agent last
\* read from the host, whatever requests, foreign changes, failed patches,
\* crashes and reboots come between a read and its patch.
THEOREM SettledIsReadBack ==
    ASSUME PowerModeAssumption, ~Cached
    PROVE  Spec => []DoneReadsBack
<1>1. SettledInv => DoneReadsBack
  BY DEF SettledInv, Truthful, ReadsBack, DoneReadsBack
<1> QED BY <1>1, Settled, PTL

\* What a pass that may change the host knows of the Node.
LEMMA FenceHolds ==
    ASSUME TypeInv, SettledInv, pass.pc \in Working
    PROVE  /\ node.record.applyAt # None /\ node.record.mode = pass.n.desired
           /\ node.state = "pending"
<1>1. Fenced /\ PatchOK(pass.patch) /\ node \in Nodes
  BY TypeFacts DEF SettledInv
<1>2. /\ After.record = IF "record" \in DOMAIN pass.patch THEN pass.patch.record ELSE node.record
      /\ After.state = IF "state" \in DOMAIN pass.patch THEN pass.patch.state ELSE node.state
  BY <1>1, MergedFields DEF After, PatchOK
<1> QED BY <1>1, <1>2 DEF Fenced, SameAgentFields, ServesRequest

\* The fence is on the Node before the agent changes the host: whatever crash
\* follows, the Node says which mode an apply was under way to.
THEOREM FenceIsFirst ==
    ASSUME PowerModeAssumption, ~Cached
    PROVE  Spec => FencedFirst
<1>1. TypeInv /\ SettledInv => FencedFirstStep
  BY FenceHolds DEF FencedFirstStep, AgentSets, Working
<1>2. TypeInv /\ SettledInv /\ [Next]_vars => [FencedFirstStep]_vars
  BY <1>1
<1> QED BY <1>2, Settled, PTL DEF Spec, FencedFirst

\* A failed request is terminal: until it is requested again the agent leaves
\* the host alone.
THEOREM FailureIsTerminal ==
    ASSUME PowerModeAssumption, ~Cached
    PROVE  Spec => FailedIsTerminal
<1> DEFINE A == (host' # host /\ AgentSets /\ left'.reboots = left.reboots) =>
                    ~(ServesRequest(node) /\ node.state = "failed")
<1>1. TypeInv /\ SettledInv => A
  BY FenceHolds DEF AgentSets, Working
<1>2. TypeInv /\ SettledInv /\ [Next]_vars => [A]_vars
  BY <1>1
<1> QED BY <1>2, Settled, PTL DEF Spec, FailedIsTerminal

------------------------------------------------------------------------------
(* One restart per request, for an nvpmodel agent that runs after the      *)
(* kubelet published the boot.  The cache may lag.                         *)

Up == pass.pc # "down"

\* A record describes a request of its Node, and a pending one is fenced.
Coherent(n) ==
    /\ RecordBehind(n)
    /\ n.state = "pending" => n.record.applyAt # None /\ n.record.mode # NoMode
    /\ n.record.requestedAt = n.requestedAt => n.desired \in {n.record.mode, NoMode}
    /\ ServesRequest(n) => n.state # ""

\* What the Node n tells of request r, restarted for, keeps an agent on the
\* host h from restarting for it again: the request is over, or a boot or a
\* generation passed since the fence, or the mode is set in place.
Spent(h, n, r) ==
    /\ n.record.requestedAt >= r
    /\ n.record.requestedAt = r /\ n.state = "pending" =>
          \/ n.rbBoot # h.boot
          \/ n.record.gen # n.gen
          \/ ~NeedsBoot(h, n.record.mode)

\* A restart that was prepared and not taken.
Prepared(h) == h.mode \notin BootModes /\ h.eff \in BootModes

Boots ==
    /\ node.bootId <= host.boot /\ node.rbBoot <= host.boot
    /\ Up => node.bootId = host.boot /\ view.bootId = host.boot

\* How far the cached copy m of the Node n may lag on a machine in boot k.
Lag(k, m, n) ==
    /\ Follows(m, n)
    /\ m.gen <= n.gen /\ n.gen <= m.gen + 1
    /\ m.record.requestedAt <= n.record.requestedAt
    /\ n.record.requestedAt <= m.requestedAt
    /\ n.rbBoot # k => SameAgentFields(m, n)

\* The patch of the running pass against the Node and the cache.
PassLag ==
    /\ Follows(pass.n, node)
    /\ node.record.requestedAt <= pass.n.requestedAt
    /\ pass.n.requestedAt <= view.requestedAt
    /\ "gen" \in DOMAIN pass.patch =>
         pass.patch.gen >= node.gen /\ pass.patch.gen <= view.gen + 1
    /\ "rbBoot" \in DOMAIN pass.patch => pass.patch.rbBoot = host.boot
    /\ node.rbBoot # host.boot => "rbBoot" \in DOMAIN pass.patch
    /\ "record" \in DOMAIN pass.patch =>
           /\ pass.patch.record.requestedAt = pass.n.requestedAt
           /\ pass.patch.record.mode = pass.n.desired

\* A pass that changes the host has the record of its request on the Node.
WorkLag ==
    /\ ServesRequest(pass.n)
    /\ pass.patch = NoPatch
    /\ pass.n.record.requestedAt = node.record.requestedAt
    /\ pass.n.record.requestedAt = view.record.requestedAt
    /\ pass.n.record.gen <= node.gen

LagInv ==
    /\ Boots
    /\ Coherent(node)
    /\ Up => Coherent(view) /\ Lag(host.boot, view, node)
    /\ pass.pc \in Working \cup {"patch"} => PassLag
    /\ pass.pc \in Working => WorkLag
    /\ pass.pc = "patch" => Coherent(After)
    /\ pass.pc # "readback"

\* Request r was restarted for, once, and will not be again.
Once(r) ==
    /\ restarts[r] <= 1
    /\ Spent(host, node, r)
    /\ Up => Spent(host, view, r)
    /\ pass.pc = "patch" => Spent(host, After, r)
    /\ pass.pc \in {"apply", "set"} =>
          pass.n.requestedAt # r \/ ~NeedsBoot(host, pass.n.desired)
    /\ pass.pc \in {"force", "restart"} => pass.n.requestedAt # r
    /\ Prepared(host) =>
          node.record.requestedAt > r /\ (Up => view.record.requestedAt > r)

RestartInv == LagInv /\ \A r \in 1..MaxRequests : restarts[r] > 0 => Once(r)

\* The numbers of a Node.
LEMMA NumberFacts ==
    ASSUME NEW n \in Nodes
    PROVE  /\ n.requestedAt \in Nat /\ n.gen \in Nat \cup {None} /\ n.gen \in Int
           /\ n.rbBoot \in Nat /\ n.bootId \in Nat
           /\ n.record \in Records /\ n.record.requestedAt \in Nat /\ n.record.gen \in Nat
           /\ n.gen >= None
<1>1. n.gen \in Nat \cup {None} /\ n.record \in Records
  BY NodesIs
<1> QED BY <1>1, NodesIs, RecordFields DEF None

\* A request or a boot keeps a coherent Node coherent.
LEMMA CoherentMoves ==
    ASSUME NEW m \in Nodes, NEW n \in Nodes, SameAgentFields(m, n), Follows(m, n), Coherent(m)
    PROVE  Coherent(n)
<1>1. m.requestedAt \in Nat /\ n.requestedAt \in Nat /\ m.record.requestedAt \in Nat
  BY NumberFacts
<1> RecordBehind(m)
  BY DEF Coherent
<1>2. RecordBehind(n)
  BY <1>1 DEF RecordBehind, SameAgentFields, Follows
<1>3. n.record.requestedAt = n.requestedAt =>
        m.record.requestedAt = m.requestedAt /\ n.desired \in {m.desired, NoMode}
  BY <1>1 DEF RecordBehind, SameAgentFields, Follows
<1> QED BY <1>2, <1>3 DEF Coherent, SameAgentFields, ServesRequest

\* What a Node tells of a request is in the agent's fields.
LEMMA SpentMoves ==
    ASSUME NEW h, NEW m, NEW n, NEW r, SameAgentFields(m, n), Spent(h, m, r)
    PROVE  Spent(h, n, r)
BY DEF Spent, SameAgentFields

\* A cache that was just filled does not lag.
LEMMA LagReflexive ==
    ASSUME NEW k, NEW n \in Nodes, Coherent(n)
    PROVE  Lag(k, n, n)
<1>1. RecordBehind(n)
  BY DEF Coherent
<1>2. n.requestedAt \in Nat /\ n.gen \in Int /\ n.record.requestedAt \in Nat
  BY NumberFacts
<1> QED BY <1>1, <1>2 DEF Lag, Follows, SameAgentFields, RecordBehind

\* A request or a boot does not make the cache lag further.
LEMMA LagMoves ==
    ASSUME NEW k, NEW v \in Nodes, NEW m \in Nodes, NEW n \in Nodes, Lag(k, v, m),
           SameAgentFields(m, n), Follows(m, n)
    PROVE  Lag(k, v, n)
<1>1. Follows(v, n)
  BY FollowsOn DEF Lag
<1> QED BY <1>1 DEF Lag, SameAgentFields

\* The read-back alone, patched over a Node that moved on from the cached one.
LEMMA ReadBackOver ==
    ASSUME ~Clock, NEW k, NEW m \in Nodes, NEW n \in Nodes, Lag(k, m, n), m.bootId = k,
           Coherent(m), Coherent(n), NEW seen \in Modes \cup {NoMode},
           NEW b, b = ReadBack(m, seen), NEW y, y = Merge(b, n)
    PROVE  /\ Coherent(y)
           /\ y.desired = n.desired /\ y.requestedAt = n.requestedAt
           /\ y.record = n.record /\ y.state = n.state
           /\ y.gen >= n.gen /\ y.gen >= m.gen
           /\ \/ b = NoPatch /\ m.rbBoot = k /\ SameAgentFields(n, y)
              \/ /\ DOMAIN b = {"gen", "readBack", "rbBoot"} /\ b.rbBoot = k
                 /\ b.gen = m.gen + 1 /\ y.gen = m.gen + 1
<1>1. m.gen \in Int /\ n.gen \in Int /\ n.record.gen \in Nat
  BY NumberFacts
<1>2. RecordBehind(m) /\ RecordBehind(n)
  BY DEF Coherent
<1>3. PatchOK(b)
  BY ReadBackIs
<1>4. \/ b = NoPatch /\ m.rbBoot = k
      \/ /\ DOMAIN b = {"gen", "readBack", "rbBoot"} /\ b.rbBoot = k
         /\ b.gen = m.gen + 1
  BY <1>2, LocalIs
<1>5. /\ y.desired = n.desired /\ y.requestedAt = n.requestedAt
      /\ y.gen = IF "gen" \in DOMAIN b THEN b.gen ELSE n.gen
      /\ y.readBack = IF "readBack" \in DOMAIN b THEN b.readBack ELSE n.readBack
      /\ y.rbBoot = IF "rbBoot" \in DOMAIN b THEN b.rbBoot ELSE n.rbBoot
      /\ y.record = IF "record" \in DOMAIN b THEN b.record ELSE n.record
      /\ y.state = IF "state" \in DOMAIN b THEN b.state ELSE n.state
  BY <1>3, MergedFields DEF PatchOK
<1>6. y.record = n.record /\ y.state = n.state
  BY <1>4, <1>5, NoPatchIs
<1>7. y.gen >= n.gen /\ y.gen >= m.gen
  BY <1>1, <1>4, <1>5, NoPatchIs DEF Lag
<1>8. y.gen \in Int
  BY <1>1, <1>4, <1>5, NoPatchIs
<1>9. RecordBehind(y)
  BY <1>1, <1>2, <1>5, <1>6, <1>7, <1>8 DEF RecordBehind
<1>10. Coherent(y)
  BY <1>5, <1>6, <1>9 DEF Coherent, ServesRequest
<1>11. CASE b = NoPatch /\ m.rbBoot = k
  BY <1>5, <1>6, <1>7, <1>10, <1>11, NoPatchIs DEF SameAgentFields
<1>12. CASE /\ DOMAIN b = {"gen", "readBack", "rbBoot"} /\ b.rbBoot = k
            /\ b.gen = m.gen + 1
  BY <1>5, <1>6, <1>7, <1>10, <1>12
<1> QED BY <1>4, <1>11, <1>12

\* A boot or a change since the fence is another generation.
LEMMA ReadBackSpends ==
    ASSUME ~Clock, NEW h \in Hosts, NEW m \in Nodes, NEW n \in Nodes, Lag(h.boot, m, n),
           m.bootId = h.boot,
           Coherent(m), Coherent(n), NEW seen \in Modes \cup {NoMode},
           NEW b, b = ReadBack(m, seen), NEW y, y = Merge(b, n), NEW r, Spent(h, n, r)
    PROVE  Spent(h, y, r)
<1>1. /\ y.record = n.record /\ y.state = n.state /\ y.gen >= n.gen /\ Coherent(y)
      /\ \/ b = NoPatch /\ m.rbBoot = h.boot /\ SameAgentFields(n, y)
         \/ y.gen = m.gen + 1
  BY ReadBackOver
<1>2. CASE SameAgentFields(n, y)
  BY <1>2, SpentMoves
<1>3. CASE y.gen = m.gen + 1
  <2>1. m.gen \in Int /\ n.gen \in Int /\ n.record.gen \in Nat
    BY NumberFacts
  <2>2. SUFFICES ASSUME n.record.requestedAt = r, n.state = "pending"
                 PROVE  n.rbBoot # h.boot \/ n.record.gen # n.gen => n.record.gen # y.gen
    BY <1>1 DEF Spent
  <2>3. n.record.mode # NoMode
    BY <2>2 DEF Coherent
  <2>4. RecordBehind(n)
    BY DEF Coherent
  <2>5. n.record.gen <= n.gen
    BY <2>3, <2>4 DEF RecordBehind
  <2>6. CASE n.rbBoot # h.boot
    <3>1. m.gen = n.gen
      BY <2>6 DEF Lag, SameAgentFields
    <3> QED BY <1>3, <2>1, <2>5, <3>1
  <2>7. CASE n.record.gen # n.gen
    BY <1>1, <1>3, <2>1, <2>5, <2>7
  <2> QED BY <2>6, <2>7
<1> QED BY <1>1, <1>2, <1>3

\* The read-back b and the decision d of a pass over m, and the Node x they
\* leave of n.
Decides(k, m, n, seen, b, gen, d, x) ==
    /\ Lag(k, m, n) /\ m.bootId = k /\ Coherent(m) /\ Coherent(n)
    /\ b = ReadBack(m, seen) /\ gen = Merge(b, m).gen
    /\ d = Drive(m, seen, gen) /\ x = Merge(Merge(d, b), n)

\* What such a decision is for both.
Decided(m, n, seen, b, gen, d, x) ==
    /\ Coherent(x)
    /\ x.desired = n.desired /\ x.requestedAt = n.requestedAt
    /\ x.gen = Merge(b, n).gen /\ x.rbBoot = Merge(b, n).rbBoot
    /\ \/ x.record = n.record /\ (x.state = n.state \/ x.state = "")
       \/ /\ Answered(d, m, seen, gen)
          /\ x.record = d.record /\ x.state = d.state
    /\ PatchOK(d) /\ DOMAIN d \subseteq {"record", "state"}
    /\ "record" \in DOMAIN d =>
         d.record.requestedAt = m.requestedAt /\ d.record.mode = m.desired

\* What drive decides over the cached Node, patched over the Node itself.
LEMMA DriveOver ==
    ASSUME PowerModeAssumption, now \in 0..MaxTime,
           ~Clock, NEW k, NEW m \in Nodes, NEW n \in Nodes, NEW seen \in Modes \cup {NoMode},
           NEW b, NEW gen \in Nat, NEW d, NEW x, Decides(k, m, n, seen, b, gen, d, x)
    PROVE  Decided(m, n, seen, b, gen, d, x)
<1> DEFINE y == Merge(b, n)
<1> USE DEF Decides, Decided
<1>1. PatchOK(b) /\ PatchOK(d)
      /\ (Untouched(d, m, seen) \/ Withdrawn(d, m) \/ Answered(d, m, seen, gen))
  BY ReadBackIs, DriveIs
<1>2. /\ Coherent(y) /\ y.desired = n.desired /\ y.requestedAt = n.requestedAt
      /\ y.record = n.record /\ y.state = n.state
      /\ y.gen >= n.gen /\ y.gen >= m.gen
      /\ \/ b = NoPatch
         \/ DOMAIN b = {"gen", "readBack", "rbBoot"} /\ b.gen = m.gen + 1 /\ y.gen = m.gen + 1
  BY ReadBackOver
<1>3. DOMAIN b \subseteq {"gen", "readBack", "rbBoot"} /\ DOMAIN d \subseteq {"record", "state"}
  BY <1>1, <1>2, NoPatchIs DEF Untouched, Withdrawn, Answered
<1>4. /\ x.desired = n.desired /\ x.requestedAt = n.requestedAt
      /\ x.gen = IF "gen" \in DOMAIN b THEN b.gen ELSE n.gen
      /\ x.rbBoot = IF "rbBoot" \in DOMAIN b THEN b.rbBoot ELSE n.rbBoot
      /\ x.record = IF "record" \in DOMAIN d THEN d.record ELSE n.record
      /\ x.state = IF "state" \in DOMAIN d THEN d.state ELSE n.state
  BY <1>1, <1>3, MergeOver
<1>5. x.gen = y.gen /\ x.rbBoot = y.rbBoot
  BY <1>1, <1>4, MergedFields DEF PatchOK
<1>6. gen = IF "gen" \in DOMAIN b THEN b.gen ELSE m.gen
  BY <1>1, MergedFields DEF PatchOK
<1>7. gen <= x.gen
  <2>1. m.gen \in Int /\ n.gen \in Int
    BY NumberFacts
  <2> QED BY <1>2, <1>4, <1>6, <2>1, NoPatchIs DEF Lag
<1>8. /\ m.requestedAt \in Nat /\ n.requestedAt \in Nat /\ n.record.requestedAt \in Nat
      /\ m.gen \in Int /\ n.gen \in Int /\ m.record.gen \in Nat
      /\ m.record.requestedAt \in Nat /\ y.gen \in Int
  <2>1. y \in Nodes
    BY <1>1, MergedType
  <2> QED BY <2>1, NumberFacts
<1>9. RecordBehind(y) /\ RecordBehind(m)
  BY <1>2 DEF Coherent
<1>10. CASE Untouched(d, m, seen)
  <2>1. x.record = n.record /\ x.state = n.state /\ "record" \notin DOMAIN d
    BY <1>4, <1>10, NoPatchIs DEF Untouched
  <2>2. RecordBehind(x)
    BY <1>2, <1>4, <1>5, <1>9, <2>1 DEF RecordBehind
  <2>3. Coherent(x)
    BY <1>2, <1>4, <2>1, <2>2 DEF Coherent, ServesRequest
  <2> QED BY <1>1, <1>3, <1>4, <1>5, <2>1, <2>3
<1>11. CASE Withdrawn(d, m)
  <2>1. x.record = n.record /\ x.state = "" /\ "record" \notin DOMAIN d
    BY <1>4, <1>11 DEF Withdrawn
  <2>2. RecordBehind(x)
    BY <1>2, <1>4, <1>5, <1>9, <2>1 DEF RecordBehind
  <2>3. ~ServesRequest(x)
    <3>1. SUFFICES ASSUME ServesRequest(x) PROVE FALSE
      OBVIOUS
    <3>2. n.record.requestedAt = n.requestedAt /\ n.desired # NoMode
      BY <1>4, <2>1, <3>1 DEF ServesRequest
    <3>3. m.requestedAt = n.requestedAt
      BY <1>8, <3>2 DEF Lag, Follows
    <3> QED BY <1>11, <3>2, <3>3 DEF Lag, Follows, Withdrawn
  <2>4. Coherent(x)
    BY <1>2, <1>4, <2>1, <2>2, <2>3 DEF Coherent
  <2> QED BY <1>1, <1>3, <1>4, <1>5, <2>1, <2>4
<1>12. CASE Answered(d, m, seen, gen)
  <2>1. x.record = d.record /\ x.state = d.state /\ m.desired # NoMode /\ "record" \in DOMAIN d
    BY <1>4, <1>12 DEF Answered
  <2>2. StateOf(m) = "pending" => ServesRequest(m) /\ m.state = "pending"
    BY StateOfIs
  <2>3. d.record.requestedAt = m.requestedAt /\ d.record.mode = m.desired
    BY <1>12, <2>2 DEF Answered, ServesRequest
  <2>4. d.record.gen = gen \/ d.record = m.record
    BY <1>12 DEF Answered
  <2>5. d.record.gen <= x.gen
    <3>1. CASE d.record.gen = gen
      BY <1>7, <3>1
    <3>2. CASE d.record = m.record
      <4>1. m.record.gen <= m.gen
        BY <1>9, <2>1, <2>3, <3>2 DEF RecordBehind
      <4> QED BY <1>2, <1>5, <1>8, <3>2, <4>1
    <3> QED BY <2>4, <3>1, <3>2
  <2>6. RecordBehind(x)
    BY <1>4, <2>1, <2>3, <2>5 DEF RecordBehind, Lag, Follows
  <2>7. ASSUME x.state = "pending" PROVE x.record.applyAt # None
    <3>1. d.state = "pending"
      BY <2>1, <2>7
    <3>2. d.record.applyAt # None \/ (d.record.applyAt = m.record.applyAt /\ StateOf(m) = "pending")
      BY <1>12, <3>1 DEF Answered
    <3>3. StateOf(m) = "pending" => m.record.applyAt # None
      BY <2>2 DEF Coherent
    <3> QED BY <2>1, <3>2, <3>3
  <2>8. x.state # ""
    BY <1>12, <2>1 DEF Answered
  <2>9. x.record.requestedAt = x.requestedAt => x.desired \in {x.record.mode, NoMode}
    BY <1>4, <2>1, <2>3 DEF Lag, Follows
  <2>10. Coherent(x)
    BY <2>1, <2>3, <2>6, <2>7, <2>8, <2>9 DEF Coherent
  <2> QED BY <1>1, <1>3, <1>4, <1>5, <1>12, <2>1, <2>3, <2>10
<1> QED BY <1>1, <1>10, <1>11, <1>12

\* A decision never asks for a second restart: a request that was fenced is
\* settled in place or ended.
LEMMA DriveSpends ==
    ASSUME PowerModeAssumption, now \in 0..MaxTime, host \in Hosts,
           ~Clock, NEW m \in Nodes, NEW n \in Nodes, NEW seen \in Modes \cup {NoMode},
           seen # NoMode => seen = host.mode /\ ~Nominal(host),
           NEW b, NEW gen \in Nat, NEW d, NEW x,
           Decides(host.boot, m, n, seen, b, gen, d, x),
           NEW r \in Nat, Spent(host, m, r), Spent(host, n, r),
           Prepared(host) => m.record.requestedAt > r
    PROVE  Spent(host, x, r)
<1> DEFINE y == Merge(b, n)
<1>1. /\ x.gen = y.gen /\ x.rbBoot = y.rbBoot
      /\ \/ x.record = n.record /\ (x.state = n.state \/ x.state = "")
         \/ /\ Answered(d, m, seen, gen)
            /\ x.record = d.record /\ x.state = d.state
      /\ "record" \in DOMAIN d =>
           d.record.requestedAt = m.requestedAt /\ d.record.mode = m.desired
  <2>1. Decided(m, n, seen, b, gen, d, x)
    BY DriveOver
  <2> QED BY <2>1 DEF Decided
<1>2. Spent(host, y, r) /\ y.record = n.record /\ y.state = n.state
  BY ReadBackSpends, ReadBackOver DEF Decides
<1> HIDE DEF y
<1>3. CASE x.record = n.record /\ (x.state = n.state \/ x.state = "")
  BY <1>1, <1>2, <1>3 DEF Spent
<1>4. CASE Answered(d, m, seen, gen) /\ x.record = d.record /\ x.state = d.state
  <2>1. /\ x.record.requestedAt = m.requestedAt /\ x.record.mode = m.desired
        /\ m.desired # NoMode
    BY <1>1, <1>4 DEF Answered
  <2>2. /\ m.requestedAt \in Nat /\ m.record.requestedAt \in Nat
        /\ m.record.requestedAt <= m.requestedAt /\ m.record.requestedAt >= r
    BY NumberFacts DEF Coherent, RecordBehind, Spent, Decides
  <2>3. x.record.requestedAt >= r
    BY <2>1, <2>2
  <2>4. ASSUME x.record.requestedAt = r, x.state = "pending"
        PROVE  ~NeedsBoot(host, x.record.mode)
    <3>1. m.record.requestedAt = m.requestedAt
      BY <2>1, <2>2, <2>4
    <3>2. m.desired = m.record.mode
      BY <2>1, <3>1 DEF Coherent, Decides
    <3>3. ServesRequest(m) /\ m.state # ""
      BY <2>1, <3>1, <3>2 DEF ServesRequest, Coherent, Decides
    <3>4. StateOf(m) = m.state
      BY <3>3 DEF StateOf
    <3>5. m.state = "pending" => m.record.applyAt # None
      BY DEF Coherent, Decides
    <3>6. Held(m, seen)
      BY <1>4, <2>4, <3>3, <3>4, <3>5 DEF Answered
    <3>7. seen = m.desired /\ seen = host.mode /\ ~Nominal(host)
      BY <2>1, <3>6 DEF Held
    <3>8. ~Prepared(host)
      BY <2>1, <2>2, <2>4, <3>1
    <3> QED BY <2>1, <3>7, <3>8 DEF NeedsBoot, Nominal, Prepared
  <2> QED BY <2>3, <2>4 DEF Spent
<1> QED BY <1>1, <1>3, <1>4

\* A pass of the agent over its cached Node.
LEMMA RestartReconcile ==
    ASSUME PowerModeAssumption, ~Clock, TypeInv, LagInv,
           NEW seen \in Modes \cup {NoMode}, NEW ok \in BOOLEAN, Reconcile(seen, ok)
    PROVE  LagInv' /\ \A r \in 1..MaxRequests : Once(r) => Once(r)'
<1> DEFINE b == ReadBack(view, seen)
           local == Merge(b, view)
           d == Drive(view, seen, local.gen)
           x == Merge(Merge(d, b), node)
           y == Merge(b, node)
           k == host.boot
<1>1. /\ view \in Nodes /\ node \in Nodes /\ now \in 0..MaxTime /\ host \in Hosts
      /\ UNCHANGED <<host, node, view, restarts>> /\ pass.pc = "idle"
      /\ seen \in HostRead(host)
  BY TypeFacts DEF Reconcile
<1>2. /\ PatchOK(b) /\ local.gen \in Nat
      /\ \/ pass' = pass
         \/ /\ pass'.n = local /\ PatchOK(pass.patch)'
            /\ ReadOnly(b) \/ GoesToApply(seen, b, local) \/ Drives(seen, b, local)
  BY ReconcileIs
<1>3. seen # NoMode => seen = host.mode /\ ~Nominal(host)
  BY <1>1, HostReadIs
<1>4. /\ Boots /\ Coherent(node) /\ Coherent(view) /\ Lag(k, view, node)
      /\ view.bootId = k
  BY <1>1 DEF LagInv, Up, Boots
<1>5. RecordBehind(view)
  BY <1>4 DEF Coherent
<1>6. /\ DOMAIN b \subseteq {"gen", "readBack", "rbBoot"}
      /\ local.desired = view.desired /\ local.requestedAt = view.requestedAt
      /\ local.record = view.record /\ local.state = view.state
      /\ RecordBehind(local)
      /\ \/ b = NoPatch /\ view.rbBoot = k /\ SameAgentFields(view, local)
         \/ /\ DOMAIN b = {"gen", "readBack", "rbBoot"} /\ b.rbBoot = k
            /\ local.gen = view.gen + 1 /\ b.gen = view.gen + 1
  BY <1>1, <1>4, <1>5, LocalIs
<1>7. Coherent(y)
  BY <1>1, <1>4, ReadBackOver
<1>8. \A r \in 1..MaxRequests : Once(r) =>
          /\ Spent(host, node, r) /\ Spent(host, view, r)
          /\ Prepared(host) => node.record.requestedAt > r /\ view.record.requestedAt > r
  BY <1>1 DEF Once, Up
<1>9. \A r : Spent(host, node, r) => Spent(host, y, r)
  BY <1>1, <1>4, ReadBackSpends
<1>10. Decides(k, view, node, seen, b, local.gen, d, x)
  BY <1>4 DEF Decides
<1>11. Decided(view, node, seen, b, local.gen, d, x)
  BY <1>1, <1>2, <1>10, DriveOver
<1>12. \A r \in 1..MaxRequests :
          Spent(host, node, r) /\ Spent(host, view, r)
            /\ (Prepared(host) => view.record.requestedAt > r) => Spent(host, x, r)
  BY <1>1, <1>2, <1>3, <1>10, DriveSpends
<1>13. /\ Follows(view, node) /\ node.record.requestedAt <= view.requestedAt
       /\ view.gen <= node.gen /\ node.gen <= view.gen + 1
       /\ view.record.requestedAt <= node.record.requestedAt
       /\ node.rbBoot # k => SameAgentFields(view, node)
       /\ view.gen \in Int /\ node.gen \in Int /\ view.requestedAt \in Nat
  BY <1>1, <1>4, NumberFacts DEF Lag
<1> DEFINE PatchFits(p) ==
        /\ "gen" \in DOMAIN p => p.gen >= node.gen /\ p.gen <= view.gen + 1
        /\ "rbBoot" \in DOMAIN p => p.rbBoot = k
        /\ node.rbBoot # k => "rbBoot" \in DOMAIN p
        /\ "record" \in DOMAIN p =>
               p.record.requestedAt = view.requestedAt /\ p.record.mode = view.desired
<1>14. PatchFits(b)
  BY <1>6, <1>13, NoPatchIs DEF SameAgentFields
<1>15. ASSUME pass'.n = local, PatchFits(pass'.patch) PROVE PassLag'
  <2>1. Follows(local, node)
    BY <1>6, <1>13 DEF Follows
  <2> HIDE DEF local
  <2>2. /\ Follows(pass'.n, node') /\ node'.record.requestedAt <= (pass'.n).requestedAt
        /\ (pass'.n).requestedAt <= view'.requestedAt
        /\ (pass'.n).requestedAt = view.requestedAt /\ (pass'.n).desired = view.desired
    BY <1>1, <1>6, <1>13, <1>15, <2>1
  <2> QED BY <1>1, <1>15, <2>2 DEF PassLag, Follows
<1>16. ASSUME pass'.pc # "down", pass'.pc # "readback",
              pass'.pc \in Working \cup {"patch"} => PassLag',
              pass'.pc \in Working => WorkLag',
              pass'.pc = "patch" => Coherent(After')
       PROVE  LagInv'
  <2>1. Boots' /\ Coherent(node)' /\ Coherent(view)' /\ Lag(host.boot, view, node)'
    BY <1>1, <1>4, <1>16
       DEF Boots, Coherent, RecordBehind, ServesRequest, Lag, Follows, SameAgentFields, Up
  <2>2. pass'.pc = "patch" => Coherent(After)'
    BY <1>16 DEF Coherent, RecordBehind, ServesRequest
  <2> QED BY <1>16, <2>1, <2>2 DEF LagInv, Up
<1>17. ASSUME NEW r \in 1..MaxRequests, Once(r), pass'.pc # "down",
              pass'.pc = "patch" => Spent(host, After', r),
              pass'.pc \in {"apply", "set"} =>
                 pass'.n.requestedAt # r \/ ~NeedsBoot(host, pass'.n.desired),
              pass'.pc \notin {"force", "restart"}
       PROVE  Once(r)'
  <2>1. restarts'[r] <= 1
    BY <1>1, <1>17 DEF Once
  <2>2. Spent(host, node, r)' /\ Spent(host, view, r)'
    BY <1>1, <1>8, <1>17 DEF Spent, NeedsBoot
  <2>3. pass'.pc = "patch" => Spent(host, After, r)'
    BY <1>1, <1>17 DEF Spent, NeedsBoot
  <2>4. Prepared(host)' => node'.record.requestedAt > r /\ view'.record.requestedAt > r
    BY <1>1, <1>8, <1>17 DEF Prepared
  <2> QED BY <1>1, <1>17, <2>1, <2>2, <2>3, <2>4 DEF Once, NeedsBoot
<1> HIDE DEF b, local, d, x, y, k, PatchFits
<1>18. CASE pass' = pass
  <2>1. pass'.pc = "idle"
    BY <1>1, <1>18
  <2>2. LagInv'
    BY <1>16, <2>1 DEF Working
  <2>3. ASSUME NEW r \in 1..MaxRequests, Once(r) PROVE Once(r)'
    BY <1>17, <2>1, <2>3
  <2> QED BY <2>2, <2>3
<1>19. CASE pass'.n = local /\ ReadOnly(b)
  <2>1. pass'.pc = "patch" /\ pass'.patch = b /\ After' = y
    BY <1>1, <1>19 DEF ReadOnly, After, y
  <2>2. PassLag'
    BY <1>14, <1>15, <1>19, <2>1
  <2>3. LagInv'
    BY <1>7, <1>16, <2>1, <2>2 DEF Working
  <2>4. ASSUME NEW r \in 1..MaxRequests, Once(r) PROVE Once(r)'
    BY <1>8, <1>9, <1>17, <2>1, <2>4
  <2> QED BY <2>3, <2>4
<1>20. CASE pass'.n = local /\ Drives(seen, b, local)
  <2>1. pass'.pc = "patch" /\ pass'.patch = Merge(d, b) /\ After' = x
    BY <1>1, <1>20 DEF Drives, After, x, d
  <2>2. /\ Coherent(x) /\ PatchOK(d) /\ DOMAIN d \subseteq {"record", "state"}
        /\ "record" \in DOMAIN d =>
             d.record.requestedAt = view.requestedAt /\ d.record.mode = view.desired
    BY <1>11 DEF Decided
  <2>3. PatchFits(Merge(d, b))
    <3> DEFINE p == Merge(d, b)
    <3>1. /\ DOMAIN p = DOMAIN d \cup DOMAIN b
          /\ "gen" \in DOMAIN p => p.gen = IF "gen" \in DOMAIN d THEN d.gen ELSE b.gen
          /\ "rbBoot" \in DOMAIN p => p.rbBoot = IF "rbBoot" \in DOMAIN d THEN d.rbBoot ELSE b.rbBoot
          /\ "record" \in DOMAIN p => p.record = IF "record" \in DOMAIN d THEN d.record ELSE b.record
      BY ZenonT(60), <1>2, <2>2, PatchMerge
    <3> HIDE DEF p
    <3>2. /\ "gen" \notin DOMAIN d /\ "rbBoot" \notin DOMAIN d /\ "record" \notin DOMAIN b
      BY <1>6, <2>2
    <3>3. PatchFits(p)
      BY <1>14, <2>2, <3>1, <3>2 DEF PatchFits
    <3> QED BY <3>3 DEF p
  <2>4. PassLag'
    BY <1>15, <1>20, <2>1, <2>3
  <2>5. LagInv'
    BY <1>16, <2>1, <2>2, <2>4 DEF Working
  <2>6. ASSUME NEW r \in 1..MaxRequests, Once(r) PROVE Once(r)'
    BY <1>8, <1>12, <1>17, <2>1, <2>6
  <2> QED BY <2>5, <2>6
<1>21. CASE pass'.n = local /\ GoesToApply(seen, b, local)
  <2>1. pass'.pc = "apply" /\ pass'.patch = b
    BY <1>21 DEF GoesToApply
  <2>2. /\ StateOf(view) = "pending" /\ local.gen = view.record.gen
    BY <1>1, <1>21 DEF GoesToApply, Applies, NeedsClockApply
  <2>3. ServesRequest(view) /\ view.state = "pending"
    BY <1>1, <2>2, StateOfIs
  <2>4. view.record.gen <= view.gen
    BY <1>5, <2>3 DEF RecordBehind, ServesRequest
  <2>5. b = NoPatch /\ view.rbBoot = k /\ local.gen = view.gen
    BY <1>6, <1>13, <2>2, <2>4 DEF SameAgentFields
  <2>6. PassLag'
    BY <1>14, <1>15, <1>21, <2>1
  <2>7. WorkLag'
    <3>1. ServesRequest(local)
      BY <1>6, <2>3 DEF ServesRequest
    <3>2. ServesRequest(pass.n)'
      BY <1>21, <3>1 DEF ServesRequest
    <3>3. view.record.requestedAt = node.record.requestedAt
      BY <1>1, <1>13, <2>3, NumberFacts DEF ServesRequest
    <3>4. /\ (pass'.n).record.requestedAt = node'.record.requestedAt
          /\ (pass'.n).record.requestedAt = view'.record.requestedAt
          /\ (pass'.n).record.gen <= node'.gen
      BY <1>1, <1>6, <1>13, <1>21, <2>2, <2>5, <3>3
    <3> QED BY <2>1, <2>5, <3>2, <3>4 DEF WorkLag
  <2>8. LagInv'
    BY <1>16, <2>1, <2>6, <2>7
  <2>9. ASSUME NEW r \in 1..MaxRequests, Once(r) PROVE Once(r)'
    <3>1. Spent(host, view, r)
      BY <1>8, <2>9
    <3>2. view.requestedAt = r => ~NeedsBoot(host, view.desired)
      BY <1>1, <2>2, <2>3, <2>5, <3>1 DEF Spent, ServesRequest, k
    <3> QED BY <1>6, <1>17, <1>21, <2>1, <2>9, <3>2
  <2> QED BY <2>8, <2>9
<1> QED BY <1>2, <1>18, <1>19, <1>20, <1>21

\* A pass that ends without a patch.
LEMMA RestartStop ==
    ASSUME LagInv, UNCHANGED <<host, node, view, restarts>>, pass'.pc \in {"idle", "down"},
           pass'.pc # "down" => Up
    PROVE  LagInv' /\ \A r \in 1..MaxRequests : Once(r) => Once(r)'
<1>1. /\ Boots /\ Coherent(node) /\ (Up => Coherent(view) /\ Lag(host.boot, view, node))
  BY DEF LagInv
<1>2. LagInv'
  BY ZenonT(60), <1>1 DEF LagInv, Boots, Coherent, RecordBehind, ServesRequest, Lag, Follows,
              SameAgentFields, Up, Working
<1>3. ASSUME NEW r \in 1..MaxRequests, Once(r) PROVE Once(r)'
  BY <1>3 DEF Once, Spent, NeedsBoot, Prepared, Up
<1> QED BY <1>2, <1>3

\* A boot, whoever asked for it, ends every fence.
LEMMA RestartBoot ==
    ASSUME PowerModeAssumption, ~Clock, TypeInv, LagInv, UNCHANGED <<node, view>>,
           host' \in Booted(host), pass'.pc = "down"
    PROVE  /\ LagInv'
           /\ \A r \in 1..MaxRequests :
                 restarts'[r] <= 1 /\ node.record.requestedAt >= r => Once(r)'
<1>1. /\ host \in Hosts /\ host' \in Hosts /\ host'.boot = host.boot + 1
      /\ host'.mode = host.mode /\ (host'.eff = host.mode \/ host.mode \in BootModes)
  BY TypeFacts, BootedIs
<1>2. host.boot \in Nat /\ node.rbBoot \in Nat /\ node.bootId \in Nat
  BY <1>1, TypeFacts, NumberFacts DEF Hosts
<1>3. Boots /\ Coherent(node)
  BY DEF LagInv
<1>4. Boots'
  BY <1>1, <1>2, <1>3 DEF Boots, Up
<1>5. LagInv'
  BY <1>3, <1>4 DEF LagInv, Coherent, RecordBehind, ServesRequest, Up, Working
<1>6. node.rbBoot # host'.boot
  BY <1>1, <1>2, <1>3 DEF Boots
<1>7. ~Prepared(host')
  BY <1>1 DEF Prepared
<1>8. ASSUME NEW r \in 1..MaxRequests, restarts'[r] <= 1, node.record.requestedAt >= r
      PROVE  Once(r)'
  <2>1. Spent(host', node', r)
    BY <1>6, <1>8 DEF Spent
  <2>2. Spent(host, node, r)' /\ ~Prepared(host)'
    BY <1>7, <2>1 DEF Spent, NeedsBoot, Prepared
  <2> QED BY <1>8, <2>2 DEF Once, Up
<1> QED BY <1>5, <1>8

\* A new agent lists its Node, which has the boot of the host.
LEMMA RestartStart ==
    ASSUME KubeletFirst, TypeInv, LagInv, Start
    PROVE  LagInv' /\ \A r \in 1..MaxRequests : Once(r) => Once(r)'
<1>1. /\ UNCHANGED <<host, node, restarts>> /\ view' = node /\ pass' = Idle
      /\ node.bootId = host.boot
  BY DEF Start
<1>2. pass'.pc = "idle"
  BY <1>1, IdleIs
<1>3. Boots /\ Coherent(node) /\ Lag(host.boot, node, node)
  BY TypeFacts, LagReflexive DEF LagInv
<1>4. LagInv'
  BY <1>1, <1>2, <1>3 DEF LagInv, Boots, Coherent, RecordBehind, ServesRequest, Lag, Follows,
                          SameAgentFields, Up, Working
<1>5. ASSUME NEW r \in 1..MaxRequests, Once(r) PROVE Once(r)'
  BY <1>1, <1>2, <1>5 DEF Once, Spent, NeedsBoot, Prepared, Up
<1> QED BY <1>4, <1>5

\* Requests move, or the cache catches up.
LEMMA RestartMoves ==
    ASSUME TypeInv, TypeInv', LagInv, SameAgentFields(node, node'), Follows(node, node'),
           UNCHANGED <<host, pass, restarts>>, view' \in {view, node'},
           node'.bootId \in {node.bootId, host.boot}
    PROVE  LagInv' /\ \A r \in 1..MaxRequests : Once(r) => Once(r)'
<1>1. /\ node \in Nodes /\ node' \in Nodes /\ view \in Nodes /\ pass.n \in Nodes
      /\ PatchOK(pass.patch) /\ host \in Hosts /\ view' \in Nodes
  BY TypeFacts DEF TypeInv, TypeOK
<1>2. After' = Merge(pass.patch, node') /\ After \in Nodes /\ After' \in Nodes
  BY <1>1, MergedType DEF After
<1>3. SameAgentFields(After, After') /\ Follows(After, After')
  BY <1>1, <1>2, LaterMerge DEF After
<1>4. Coherent(node')
  BY <1>1, CoherentMoves DEF LagInv
<1>5. ASSUME pass.pc = "patch" PROVE Coherent(After')
  BY <1>2, <1>3, <1>5, CoherentMoves DEF LagInv
<1>6. ASSUME Up PROVE Coherent(view') /\ Lag(host.boot, view', node')
  <2>1. Coherent(view) /\ Lag(host.boot, view, node)
    BY <1>6 DEF LagInv
  <2>2. CASE view' = view
    BY <1>1, <2>1, <2>2, LagMoves
  <2>3. CASE view' = node'
    BY <1>1, <1>4, <2>3, LagReflexive
  <2> QED BY <2>2, <2>3
<1>7. Boots'
  BY <1>1, NumberFacts DEF LagInv, Boots, Up, SameAgentFields, Hosts
<1>8. ASSUME pass.pc \in Working \cup {"patch"} PROVE PassLag'
  <2>1. PassLag /\ Lag(host.boot, view, node)
    BY <1>8 DEF LagInv, Up, Working
  <2>2. Follows(pass.n, node')
    BY <1>1, <2>1, FollowsOn DEF PassLag
  <2>3. /\ node.gen = node'.gen /\ node.record = node'.record /\ node.rbBoot = node'.rbBoot
    BY DEF SameAgentFields
  <2>4. pass.n.requestedAt <= view'.requestedAt
    BY <2>1, <2>2 DEF PassLag, Follows
  <2>5. "gen" \in DOMAIN pass.patch => pass.patch.gen <= view'.gen + 1
    <3>1. view.gen \in Int /\ node.gen \in Int /\ ("gen" \in DOMAIN pass.patch => pass.patch.gen \in Nat)
      BY <1>1, NumberFacts DEF PatchOK
    <3> QED BY <2>1, <2>3, <3>1 DEF PassLag, Lag
  <2> QED BY <2>1, <2>2, <2>3, <2>4, <2>5 DEF PassLag, Follows
<1>9. ASSUME pass.pc \in Working PROVE WorkLag'
  <2>1. WorkLag
    BY <1>9 DEF LagInv
  <2> QED BY <2>1 DEF WorkLag, SameAgentFields, ServesRequest
<1>10. LagInv'
  <2>1. Coherent(node)' /\ (pass.pc = "patch" => Coherent(After)')
        /\ (Up => Coherent(view)' /\ Lag(host.boot, view, node)')
    BY <1>4, <1>5, <1>6
       DEF Coherent, RecordBehind, ServesRequest, Lag, Follows, SameAgentFields
  <2>2. Up' = Up
    BY DEF Up
  <2> QED BY <1>7, <1>8, <1>9, <2>1, <2>2 DEF LagInv
<1>11. ASSUME NEW r \in 1..MaxRequests, Once(r) PROVE Once(r)'
  <2>1. Spent(host, node', r) /\ (pass.pc = "patch" => Spent(host, After', r))
    BY <1>3, <1>11, SpentMoves DEF Once
  <2>2. Up => Spent(host, view', r)
    BY <1>11, <2>1 DEF Once
  <2>3. /\ Spent(host, node, r)' /\ (pass.pc = "patch" => Spent(host, After, r)')
        /\ (Up => Spent(host, view, r)')
    BY <2>1, <2>2 DEF Spent, NeedsBoot
  <2>4. Prepared(host) => node'.record.requestedAt > r /\ (Up => view'.record.requestedAt > r)
    BY <1>11 DEF Once, SameAgentFields
  <2> QED BY <1>11, <2>3, <2>4 DEF Once, Prepared, NeedsBoot, Up
<1> QED BY <1>10, <1>11

\* A host that changes in place stays in its boot and in its gating.
InPlace(g, h) == h.boot = g.boot /\ ((h.eff \in BootModes) = (g.eff \in BootModes))

\* A change in place does not bring a request back.
LEMMA InPlaceSpends ==
    ASSUME NEW g, NEW h, InPlace(g, h), NEW n, NEW r, Spent(g, n, r)
    PROVE  Spent(h, n, r)
BY DEF InPlace, Spent, NeedsBoot

\* People change the host in place.
LEMMA RestartForeign ==
    ASSUME LagInv, UNCHANGED <<node, view, pass, restarts>>, InPlace(host, host'),
           ~Prepared(host')
    PROVE  LagInv' /\ \A r \in 1..MaxRequests : Once(r) => Once(r)'
<1>1. host'.boot = host.boot
  BY DEF InPlace
<1>2. LagInv'
  <2>1. Boots' = Boots /\ PassLag' = PassLag /\ Lag(host.boot, view, node)' = Lag(host.boot, view, node)
    BY <1>1 DEF Boots, Up, PassLag, Lag, Follows, SameAgentFields
  <2>2. /\ Coherent(node)' = Coherent(node) /\ Coherent(view)' = Coherent(view)
        /\ WorkLag' = WorkLag /\ Coherent(After)' = Coherent(After) /\ Up' = Up
    BY DEF Coherent, RecordBehind, ServesRequest, WorkLag, Up, After
  <2> QED BY <2>1, <2>2 DEF LagInv
<1>3. ASSUME NEW r \in 1..MaxRequests, Once(r) PROVE Once(r)'
  <2>1. After' = After
    BY DEF After
  <2>2. /\ Spent(host', node, r) /\ (Up => Spent(host', view, r))
        /\ (pass.pc = "patch" => Spent(host', After, r))
    BY <1>3, InPlaceSpends DEF Once
  <2>3. /\ Spent(host, node, r)' /\ (Up => Spent(host, view, r)')
        /\ (pass.pc = "patch" => Spent(host, After, r)')
    BY <2>1, <2>2 DEF Spent, NeedsBoot
  <2>4. ~Prepared(host)'
    BY DEF Prepared
  <2>5. pass.pc \in {"apply", "set"} =>
          pass.n.requestedAt # r \/ ~NeedsBoot(host, pass.n.desired)'
    BY <1>3 DEF Once, InPlace, NeedsBoot
  <2> QED BY <1>3, <2>3, <2>4, <2>5 DEF Once, Up, NeedsBoot
<1> QED BY <1>2, <1>3

\* A pass that found nothing to add leaves the Node as it is.
LEMMA NothingAfter ==
    ASSUME TypeInv, pass.patch = NoPatch
    PROVE  SameAgentFields(node, After) /\ Follows(node, After)
<1>1. node \in Nodes /\ PatchOK(pass.patch) /\ DOMAIN pass.patch = {}
  BY TypeFacts, NoPatchIs
<1>2. /\ After.desired = node.desired /\ After.requestedAt = node.requestedAt
      /\ After.gen = node.gen /\ After.readBack = node.readBack /\ After.rbBoot = node.rbBoot
      /\ After.record = node.record /\ After.state = node.state
  BY <1>1, MergedFields DEF After
<1>3. node.requestedAt \in Nat
  BY <1>1, NumberFacts
<1> QED BY <1>2, <1>3 DEF SameAgentFields, Follows

\* Apply goes on, in place or towards a restart.
LEMMA RestartGoes ==
    ASSUME TypeInv, LagInv, UNCHANGED <<node, view, restarts>>, InPlace(host, host'),
           pass.pc \in Working, pass'.n = pass.n, pass'.patch = pass.patch,
           pass'.pc \in {"set", "force", "restart", "patch"},
           pass'.pc = "set" => pass.pc = "apply",
           pass'.pc = "force" => pass.pc = "set" /\ NeedsBoot(host, pass.n.desired),
           pass'.pc = "restart" => pass.pc = "force",
           Prepared(host') => Prepared(host) \/ pass.pc = "force"
    PROVE  LagInv' /\ \A r \in 1..MaxRequests : Once(r) => Once(r)'
<1>1. host'.boot = host.boot
  BY DEF InPlace
<1>2. WorkLag /\ PassLag /\ Up /\ Coherent(node)
  BY DEF LagInv, Working, Up
<1>3. SameAgentFields(node, After) /\ Follows(node, After)
  BY <1>2, NothingAfter DEF WorkLag
<1>4. After' = After
  BY DEF After
<1>5. Coherent(After)
  <2>1. node \in Nodes /\ After \in Nodes
    BY TypeFacts, MergedType DEF After
  <2> QED BY <1>2, <1>3, <2>1, CoherentMoves
<1>6. LagInv'
  <2>1. Coherent(After)'
    BY <1>4, <1>5 DEF Coherent, RecordBehind, ServesRequest
  <2>2. PassLag' /\ WorkLag'
    BY <1>1, <1>2 DEF PassLag, WorkLag, Follows, ServesRequest
  <2>3. Boots' /\ Coherent(node)' /\ Coherent(view)' /\ Lag(host.boot, view, node)'
    BY ZenonT(60), <1>1, <1>2 DEF LagInv, Boots, Coherent, RecordBehind, ServesRequest, Lag, Follows,
                      SameAgentFields, Up
  <2> QED BY <2>1, <2>2, <2>3 DEF LagInv
<1>7. ASSUME NEW r \in 1..MaxRequests, Once(r) PROVE Once(r)'
  <2>1. Spent(host', node, r) /\ Spent(host', view, r)
    BY <1>2, <1>7, InPlaceSpends DEF Once
  <2>2. Spent(host', After, r)
    BY <1>3, <2>1, SpentMoves
  <2>3. Spent(host, node, r)' /\ Spent(host, view, r)' /\ Spent(host, After, r)'
    BY <1>4, <2>1, <2>2 DEF Spent, NeedsBoot
  <2>4. pass'.pc = "set" => pass'.n.requestedAt # r \/ ~NeedsBoot(host', pass'.n.desired)
    BY <1>7 DEF Once, InPlace, NeedsBoot
  <2>5. pass'.pc \in {"force", "restart"} => pass'.n.requestedAt # r
    BY <1>7 DEF Once
  <2>6. Prepared(host') => node.record.requestedAt > r /\ view.record.requestedAt > r
    <3>1. CASE Prepared(host)
      BY <1>2, <1>7, <3>1 DEF Once
    <3>2. CASE pass.pc = "force"
      <4>1. /\ pass.n.requestedAt # r
            /\ pass.n.record.requestedAt = pass.n.requestedAt
            /\ pass.n.record.requestedAt = node.record.requestedAt
            /\ pass.n.record.requestedAt = view.record.requestedAt
            /\ node.record.requestedAt >= r
        BY <1>2, <1>7, <3>2 DEF Once, WorkLag, ServesRequest, Spent
      <4>2. node.record.requestedAt \in Nat
        BY TypeFacts, NumberFacts
      <4> QED BY <4>1, <4>2
    <3> QED BY <3>1, <3>2
  <2>7. Prepared(host)' => node.record.requestedAt > r /\ view.record.requestedAt > r
    BY <2>6 DEF Prepared
  <2> QED BY <1>7, <2>3, <2>4, <2>5, <2>7 DEF Once, NeedsBoot
<1> QED BY <1>6, <1>7

\* A command of Apply failed: the request ends.
LEMMA RestartFails ==
    ASSUME TypeInv, LagInv, UNCHANGED <<host, node, view, restarts>>,
           pass.pc \in Working, ApplyFails
    PROVE  LagInv' /\ \A r \in 1..MaxRequests : Once(r) => Once(r)'
<1> DEFINE d == Fail(pass.n)
           p == Merge(d, pass.patch)
           x == Merge(p, node)
<1>1. /\ WorkLag /\ PassLag /\ Up /\ Coherent(node) /\ pass.n \in Nodes /\ node \in Nodes
      /\ PatchOK(pass.patch) /\ pass.patch = NoPatch /\ DOMAIN pass.patch = {}
  BY TypeFacts, NoPatchIs DEF LagInv, Working, Up, WorkLag
<1>2. /\ PatchOK(d) /\ DOMAIN d = {"record", "state"}
      /\ d.record = pass.n.record /\ d.state = "failed"
  BY <1>1, FailIs
<1>3. pass'.pc = "patch" /\ pass'.n = pass.n /\ pass'.patch = p
  BY ApplyFailsIs
<1> HIDE DEF d
<1>4. /\ DOMAIN p = {"record", "state"} /\ p.record = pass.n.record
  <2>1. DOMAIN p = DOMAIN d \cup DOMAIN pass.patch
    BY DEF Merge
  <2>2. p["record"] = d["record"]
    BY <1>2, <2>1 DEF Merge
  <2> QED BY <1>1, <1>2, <2>1, <2>2
<1>5. /\ x.desired = node.desired /\ x.requestedAt = node.requestedAt
      /\ x.gen = node.gen /\ x.rbBoot = node.rbBoot
      /\ x.record = pass.n.record /\ x.state = "failed"
  BY <1>1, <1>2, MergeOver
<1> HIDE DEF p
<1>6. After' = x
  BY <1>3 DEF After
<1> HIDE DEF x
<1>7. /\ pass.n.desired # NoMode /\ pass.n.record.mode = pass.n.desired
      /\ pass.n.record.requestedAt = pass.n.requestedAt
      /\ pass.n.record.requestedAt = node.record.requestedAt
      /\ pass.n.record.gen <= node.gen
  BY <1>1 DEF WorkLag, ServesRequest
<1>8. /\ pass.n.requestedAt \in Nat /\ node.requestedAt \in Nat
      /\ pass.n.requestedAt <= node.requestedAt
      /\ pass.n.requestedAt = node.requestedAt => node.desired \in {pass.n.desired, NoMode}
  BY <1>1, NumberFacts DEF PassLag, Follows
<1>9. RecordBehind(x)
  BY <1>5, <1>7, <1>8 DEF RecordBehind
<1>10. Coherent(x)
  BY <1>5, <1>7, <1>8, <1>9 DEF Coherent
<1>11. PassLag'
  <2>1. /\ "gen" \notin DOMAIN pass.patch /\ "rbBoot" \notin DOMAIN pass.patch
    BY <1>1
  <2> QED BY <1>1, <1>3, <1>4, <1>7, <2>1 DEF PassLag, Follows
<1>12. LagInv'
  <2>1. Coherent(After)'
    BY <1>6, <1>10 DEF Coherent, RecordBehind, ServesRequest
  <2>2. Boots' /\ Coherent(node)' /\ Coherent(view)' /\ Lag(host.boot, view, node)'
    BY <1>1, <1>3 DEF LagInv, Boots, Coherent, RecordBehind, ServesRequest, Lag, Follows,
                      SameAgentFields, Up
  <2> QED BY <1>3, <1>11, <2>1, <2>2 DEF LagInv, Working
<1>13. ASSUME NEW r \in 1..MaxRequests, Once(r) PROVE Once(r)'
  <2>1. Spent(host, x, r)
    BY <1>5, <1>7, <1>13 DEF Once, Spent
  <2>2. Spent(host, After, r)' /\ Spent(host, node, r)' /\ Spent(host, view, r)'
    BY <1>1, <1>6, <1>13, <2>1 DEF Once, Spent, NeedsBoot
  <2> QED BY <1>1, <1>3, <1>13, <2>2 DEF Once, Prepared, Up
<1> QED BY <1>12, <1>13

\* The patch lands, over a Node the writer may have changed since the read.
LEMMA RestartPatch ==
    ASSUME TypeInv, TypeInv', LagInv, Patch
    PROVE  LagInv' /\ \A r \in 1..MaxRequests : Once(r) => Once(r)'
<1>1. /\ node' = After /\ pass.pc = "patch" /\ UNCHANGED <<host, restarts>>
      /\ view' \in {view, node'}
  BY DEF Patch, After
<1>2. pass'.pc = "idle"
  <2>1. pass' = [pc |-> "idle", n |-> node', patch |-> NoPatch]
    BY DEF Patch, Idle
  <2> QED BY <2>1
<1>3. /\ PassLag /\ Up /\ Coherent(After) /\ Lag(host.boot, view, node) /\ Boots
      /\ Coherent(view)
  BY <1>1 DEF LagInv, Up
<1>4. /\ node \in Nodes /\ view \in Nodes /\ node' \in Nodes /\ After \in Nodes
      /\ pass.n \in Nodes /\ PatchOK(pass.patch)
  BY <1>1, TypeFacts DEF TypeInv, TypeOK
<1>5. /\ After.desired = node.desired /\ After.requestedAt = node.requestedAt
      /\ After.bootId = node.bootId
      /\ After.gen = IF "gen" \in DOMAIN pass.patch THEN pass.patch.gen ELSE node.gen
      /\ After.rbBoot = IF "rbBoot" \in DOMAIN pass.patch THEN pass.patch.rbBoot ELSE node.rbBoot
      /\ After.record = IF "record" \in DOMAIN pass.patch THEN pass.patch.record ELSE node.record
  BY <1>4, MergedFields DEF After, PatchOK
<1>6. After.rbBoot = host.boot
  BY <1>3, <1>5 DEF PassLag
<1>7. /\ view.gen \in Int /\ node.gen \in Int /\ After.gen \in Int
      /\ view.requestedAt \in Nat /\ pass.n.requestedAt \in Nat
      /\ node.record.requestedAt \in Nat /\ view.record.requestedAt \in Nat
  BY <1>4, NumberFacts
<1>8. After.record.requestedAt >= node.record.requestedAt
      /\ After.record.requestedAt <= view.requestedAt
  BY <1>3, <1>5, <1>7 DEF PassLag, Lag
<1>9. Lag(host.boot, view, After)
  <2>1. view.gen <= After.gen /\ After.gen <= view.gen + 1
    BY <1>3, <1>5, <1>7 DEF PassLag, Lag
  <2>2. Follows(view, After)
    BY <1>3, <1>5 DEF Lag, Follows
  <2>3. view.record.requestedAt <= After.record.requestedAt
    <3>1. After.record.requestedAt \in Nat
      BY <1>4, NumberFacts
    <3> QED BY <1>3, <1>7, <1>8, <3>1 DEF Lag
  <2> QED BY <1>6, <1>8, <2>1, <2>2, <2>3 DEF Lag
<1>10. Lag(host.boot, After, After)
  BY <1>3, <1>4, LagReflexive
<1>11. LagInv'
  <2>1. Lag(host.boot, view', node') /\ Coherent(view') /\ Coherent(node')
    BY <1>1, <1>3, <1>9, <1>10
  <2>2. Lag(host.boot, view, node)' /\ Coherent(view)' /\ Coherent(node)'
    BY <1>1, <2>1 DEF Lag, Follows, SameAgentFields, Coherent, RecordBehind, ServesRequest
  <2>3. host.boot \in Nat
    BY TypeFacts DEF Hosts
  <2>4. Boots'
    BY <1>1, <1>2, <1>3, <1>5, <1>6, <2>3 DEF Boots, Up
  <2> QED BY <1>2, <2>2, <2>4 DEF LagInv, Working
<1>12. ASSUME NEW r \in 1..MaxRequests, Once(r) PROVE Once(r)'
  <2>1. Spent(host, After, r) /\ Spent(host, view, r)
    BY <1>1, <1>12 DEF Once, Up
  <2>2. Spent(host, node, r)' /\ Spent(host, view, r)'
    BY <1>1, <2>1 DEF Spent, NeedsBoot
  <2>3. Prepared(host) => After.record.requestedAt > r /\ view.record.requestedAt > r
    <3>1. Prepared(host) => node.record.requestedAt > r /\ view.record.requestedAt > r
      BY <1>3, <1>12 DEF Once
    <3>2. After.record.requestedAt \in Nat
      BY <1>4, NumberFacts
    <3> QED BY <1>7, <1>8, <3>1, <3>2
  <2>4. Prepared(host)' => node'.record.requestedAt > r /\ view'.record.requestedAt > r
    BY <1>1, <2>3 DEF Prepared
  <2> QED BY <1>1, <1>2, <1>12, <2>2, <2>4 DEF Once, Up
<1> QED BY <1>11, <1>12

\* The restart itself: it is counted for the request of the pass, which was
\* not restarted for before, and the boot ends its fence.
LEMMA RestartTaken ==
    ASSUME PowerModeAssumption, ~Clock, TypeInv, RestartInv, Restart
    PROVE  RestartInv'
<1> DEFINE q == pass.n.requestedAt
<1>1. /\ pass.pc = "restart" /\ host' \in Booted(host) /\ UNCHANGED <<node, view>>
      /\ restarts' = [restarts EXCEPT ![q] = @ + 1] /\ pass'.pc = "down"
  BY IdleIs DEF Restart
<1>2. LagInv /\ WorkLag /\ RecordBehind(node)
  BY <1>1 DEF RestartInv, LagInv, Working, Coherent
<1>3. /\ restarts \in [1..MaxRequests -> Nat] /\ node.record.requestedAt = q
  BY <1>2, TypeFacts DEF WorkLag, ServesRequest
<1>4. /\ LagInv'
      /\ \A r \in 1..MaxRequests :
            restarts'[r] <= 1 /\ node.record.requestedAt >= r => Once(r)'
  BY <1>1, <1>2, RestartBoot
<1>5. ASSUME NEW r \in 1..MaxRequests, restarts'[r] > 0 PROVE Once(r)'
  <2>1. restarts[r] > 0 => Once(r)
    BY DEF RestartInv
  <2>2. CASE r = q
    <3>1. ~Once(r)
      BY <1>1, <2>2 DEF Once
    <3>2. restarts[r] = 0 /\ restarts'[r] = restarts[r] + 1
      BY <1>1, <1>3, <2>1, <2>2, <3>1
    <3>3. r \in Nat
      OBVIOUS
    <3> QED BY <1>3, <1>4, <2>2, <3>2, <3>3
  <2>3. CASE r # q
    <3>1. restarts'[r] = restarts[r]
      BY <1>1, <1>3, <2>3
    <3>2. restarts'[r] <= 1 /\ node.record.requestedAt >= r
      BY <1>5, <2>1, <3>1 DEF Once, Spent
    <3> QED BY <1>4, <3>2
  <2> QED BY <2>2, <2>3
<1> QED BY <1>4, <1>5 DEF RestartInv

\* At first nothing was asked for and nothing was restarted.
LEMMA RestartInit == ASSUME PowerModeAssumption, Init PROVE RestartInv
<1>1. TypeInv
  BY TypeInit
<1>2. /\ node = [desired |-> NoMode, requestedAt |-> 0, state |-> "", gen |-> None,
                 readBack |-> NoMode, rbBoot |-> 0, bootId |-> 1, record |-> NoRecord]
      /\ view = node /\ restarts = [r \in 1..MaxRequests |-> 0]
      /\ host \in {[mode |-> m, eff |-> m, boot |-> 1] : m \in IF Clock THEN {Default} ELSE Modes}
  BY DEF Init
<1>3. /\ node.requestedAt = 0 /\ node.state = "" /\ node.desired = NoMode
      /\ node.rbBoot = 0 /\ node.bootId = 1 /\ node.record = NoRecord
  BY <1>2
<1>4. host.boot = 1
  <2>1. PICK m \in IF Clock THEN {Default} ELSE Modes : host = [mode |-> m, eff |-> m, boot |-> 1]
    BY <1>2
  <2> QED BY <2>1
<1>5. pass.pc = "idle"
  BY IdleIs DEF Init
<1>6. NoRecord.mode = NoMode /\ NoRecord.requestedAt = 0
  BY DEF NoRecord
<1>7. RecordBehind(node)
  <2>1. node.record.mode = NoMode /\ node.record.requestedAt = 0 /\ node.requestedAt = 0
    BY <1>3, <1>6
  <2>2. 0 <= 0
    OBVIOUS
  <2>3. node.record.requestedAt <= node.requestedAt
    BY <2>1, <2>2
  <2> QED BY <2>1, <2>3 DEF RecordBehind
<1>8. Coherent(node)
  BY <1>3, <1>7 DEF Coherent, ServesRequest
<1>9. Lag(host.boot, view, node)
  BY <1>1, <1>2, <1>8, TypeFacts, LagReflexive
<1>10. Boots
  <2>1. 1 <= 1 /\ 0 <= 1
    OBVIOUS
  <2>2. node.bootId <= host.boot /\ node.rbBoot <= host.boot
    BY <1>3, <1>4, <2>1
  <2>3. view.bootId = host.boot /\ node.bootId = host.boot
    BY <1>2, <1>3, <1>4
  <2> QED BY <2>2, <2>3 DEF Boots
<1>11. LagInv
  BY <1>2, <1>5, <1>8, <1>9, <1>10 DEF LagInv, Working
<1>12. ASSUME NEW r \in 1..MaxRequests PROVE ~(restarts[r] > 0)
  <2>1. restarts[r] = 0
    BY <1>2
  <2> QED BY <2>1
<1> QED BY <1>11, <1>12 DEF RestartInv

\* Every step keeps RestartInv.
LEMMA RestartStep ==
    ASSUME PowerModeAssumption, KubeletFirst, ~Clock, TypeInv, RestartInv, [Next]_vars
    PROVE  RestartInv'
<1> DEFINE Keeps == LagInv' /\ \A r \in 1..MaxRequests : Once(r) => Once(r)'
<1>1. TypeInv' /\ LagInv
  BY TypeStep DEF RestartInv
<1>2. ASSUME NEW seen \in Modes \cup {NoMode}, NEW ok \in BOOLEAN, Reconcile(seen, ok)
      PROVE  Keeps /\ UNCHANGED restarts
  BY <1>1, <1>2, RestartReconcile DEF Reconcile
<1>3. ASSUME NEW ok \in BOOLEAN, Query(ok) PROVE Keeps /\ UNCHANGED restarts
  <2>1. UNCHANGED <<host, node, view, restarts>> /\ pass.pc = "apply" /\ pass.pc \in Working
        /\ (ApplyFails \/ ApplyReturns \/ pass' = [pass EXCEPT !.pc = "set"])
    BY <1>3 DEF Query, Working
  <2>2. CASE ApplyFails
    BY <1>1, <2>1, <2>2, RestartFails
  <2>3. CASE ApplyReturns \/ pass' = [pass EXCEPT !.pc = "set"]
    <3>1. pass'.n = pass.n /\ pass'.patch = pass.patch /\ pass'.pc \in {"set", "patch"}
      BY <2>3, ApplyReturnsIs, GoesOn
    <3>2. InPlace(host, host') /\ (Prepared(host') => Prepared(host))
      BY <2>1 DEF InPlace, Prepared
    <3> QED BY <1>1, <2>1, <3>1, <3>2, RestartGoes
  <2> QED BY <2>1, <2>2, <2>3
<1>4. ASSUME SetMode PROVE Keeps /\ UNCHANGED restarts
  <2>1. UNCHANGED <<node, view, restarts>> /\ pass.pc = "set" /\ pass.pc \in Working
        /\ pass.n.desired \in Modes /\ host \in Hosts
    BY <1>4, TypeFacts DEF SetMode, Working, TypeInv
  <2>2. CASE NeedsBoot(host, pass.n.desired)
    <3>1. host' = host /\ pass' = [pass EXCEPT !.pc = "force"]
      BY <1>4, <2>2 DEF SetMode
    <3>2. pass'.n = pass.n /\ pass'.patch = pass.patch /\ pass'.pc = "force"
      BY <3>1, GoesOn
    <3>3. InPlace(host, host') /\ (Prepared(host') => Prepared(host))
      BY <3>1 DEF InPlace, Prepared
    <3> QED BY <1>1, <2>1, <2>2, <3>1, <3>2, <3>3, RestartGoes
  <2>3. CASE ~NeedsBoot(host, pass.n.desired)
    <3>1. host' = [host EXCEPT !.mode = pass.n.desired, !.eff = pass.n.desired] /\ ApplyReturns
      BY <1>4, <2>3 DEF SetMode
    <3>2. pass'.n = pass.n /\ pass'.patch = pass.patch /\ pass'.pc = "patch"
      BY <3>1, ApplyReturnsIs
    <3>3. host'.boot = host.boot /\ host'.mode = pass.n.desired /\ host'.eff = pass.n.desired
      BY <2>1, <3>1 DEF Hosts
    <3>4. InPlace(host, host') /\ ~Prepared(host')
      BY <2>3, <3>3 DEF InPlace, Prepared, NeedsBoot
    <3> QED BY <1>1, <2>1, <3>2, <3>4, RestartGoes
  <2> QED BY <2>2, <2>3
<1>5. ASSUME ForceMode PROVE Keeps /\ UNCHANGED restarts
  <2>1. UNCHANGED <<node, view, restarts>> /\ pass.pc = "force" /\ pass.pc \in Working
        /\ host \in Hosts /\ pass' = [pass EXCEPT !.pc = "restart"]
        /\ host' = [host EXCEPT !.mode = pass.n.desired]
    BY <1>5, TypeFacts DEF ForceMode, Working
  <2>2. pass'.n = pass.n /\ pass'.patch = pass.patch /\ pass'.pc = "restart"
    BY <2>1, GoesOn
  <2>3. host'.boot = host.boot /\ host'.eff = host.eff
    BY <2>1 DEF Hosts
  <2>4. InPlace(host, host')
    BY <2>3 DEF InPlace
  <2> QED BY <1>1, <2>1, <2>2, <2>4, RestartGoes
<1>6. CASE Restart
  BY <1>6, RestartTaken
<1>7. ASSUME CommandFails PROVE Keeps /\ UNCHANGED restarts
  <2>1. UNCHANGED <<host, node, view, restarts>> /\ pass.pc \in Working /\ ApplyFails
    BY <1>7 DEF CommandFails, Working
  <2> QED BY <1>1, <2>1, RestartFails
<1>8. ~SetClock /\ (\A mode : ~ClockFails(mode)) /\ (\A seen : ~ClockReadBack(seen))
  BY <1>1 DEF SetClock, ClockFails, ClockReadBack, LagInv
<1>9. ASSUME Patch PROVE Keeps /\ UNCHANGED restarts
  BY <1>1, <1>9, RestartPatch DEF Patch
<1>10. ASSUME PatchFails \/ Crash PROVE Keeps /\ UNCHANGED restarts
  <2>1. UNCHANGED <<host, node, view, restarts>> /\ pass'.pc \in {"idle", "down"}
        /\ (pass'.pc # "down" => Up)
    BY <1>10, IdleIs DEF PatchFails, Crash, Up
  <2> QED BY <1>1, <2>1, RestartStop
<1>11. ASSUME (\E mode \in Modes : RequestPowerMode(mode)) \/ Withdraw \/ Kubelet PROVE Keeps /\ UNCHANGED restarts
  <2>1. /\ SameAgentFields(node, node') /\ Follows(node, node')
        /\ UNCHANGED <<host, pass, restarts>> /\ view' \in {view, node'}
    BY <1>11, NodeMovesIs
  <2>2. node'.bootId \in {node.bootId, host.boot}
    <3>1. node \in Nodes
      BY TypeFacts
    <3>2. ASSUME NEW mode, RequestPowerMode(mode) PROVE node'.bootId = node.bootId
      BY <3>1, <3>2, NodesIs DEF RequestPowerMode
    <3>3. Withdraw => node'.bootId = node.bootId
      BY <3>1, NodesIs DEF Withdraw
    <3>4. Kubelet => node'.bootId = host.boot
      BY <3>1, NodesIs DEF Kubelet
    <3> QED BY <1>11, <3>2, <3>3, <3>4
  <2> QED BY <1>1, <2>1, <2>2, RestartMoves
<1>12. ASSUME Deliver PROVE Keeps /\ UNCHANGED restarts
  <2>1. view' = node /\ UNCHANGED <<host, node, pass, restarts>>
    BY <1>12 DEF Deliver
  <2>2. SameAgentFields(node, node') /\ Follows(node, node')
    BY <2>1, TypeFacts, NumberFacts DEF SameAgentFields, Follows
  <2> QED BY <1>1, <2>1, <2>2, RestartMoves
<1>13. ASSUME Reboot PROVE Keeps /\ UNCHANGED restarts
  <2>1. host' \in Booted(host) /\ pass'.pc = "down" /\ UNCHANGED <<node, view, restarts>>
    BY <1>13, IdleIs DEF Reboot
  <2>2. LagInv' /\ \A r \in 1..MaxRequests :
                      restarts'[r] <= 1 /\ node.record.requestedAt >= r => Once(r)'
    BY <1>1, <2>1, RestartBoot
  <2>3. \A r \in 1..MaxRequests : Once(r) => Once(r)'
    BY <2>1, <2>2 DEF Once, Spent
  <2> QED BY <2>1, <2>2, <2>3
<1>14. ASSUME NEW mode \in Modes, Foreign(mode) PROVE Keeps /\ UNCHANGED restarts
  <2>1. /\ host' = [host EXCEPT !.mode = mode, !.eff = mode] /\ ~NeedsBoot(host, mode)
        /\ UNCHANGED <<node, view, pass, restarts>> /\ host \in Hosts
    BY <1>14, TypeFacts DEF Foreign
  <2>2. host'.boot = host.boot /\ host'.mode = mode /\ host'.eff = mode
    BY <2>1 DEF Hosts
  <2>3. InPlace(host, host') /\ ~Prepared(host')
    BY <2>1, <2>2 DEF InPlace, Prepared, NeedsBoot
  <2> QED BY <1>1, <2>1, <2>3, RestartForeign
<1>15. ASSUME Start PROVE Keeps /\ UNCHANGED restarts
  BY <1>1, <1>15, RestartStart DEF Start
<1>16. ASSUME Tick \/ UNCHANGED vars PROVE Keeps /\ UNCHANGED restarts
  <2>1. UNCHANGED <<host, node, view, pass, restarts>>
    BY <1>16 DEF Tick, vars
  <2>2. SameAgentFields(node, node') /\ Follows(node, node')
    BY <2>1, TypeFacts, NumberFacts DEF SameAgentFields, Follows
  <2> QED BY <1>1, <2>1, <2>2, RestartMoves
<1>17. Keeps /\ UNCHANGED restarts => RestartInv'
  BY DEF RestartInv
<1> HIDE DEF Keeps
<1> QED BY <1>2, <1>3, <1>4, <1>5, <1>6, <1>7, <1>8, <1>9, <1>10, <1>11, <1>12, <1>13,
           <1>14, <1>15, <1>16, <1>17 DEF Next

\* The clock adapter has no command that restarts.
ClockInv == pass.pc \notin {"set", "force", "restart"} /\ \A r \in 1..MaxRequests : restarts[r] = 0

\* Every step keeps ClockInv.
LEMMA ClockStep ==
    ASSUME PowerModeAssumption, Clock, TypeInv, ClockInv, [Next]_vars
    PROVE  ClockInv'
<1>1. ~Restart /\ ~ForceMode /\ ~SetMode /\ ~CommandFails /\ \A ok : ~Query(ok)
  BY DEF ClockInv, Restart, ForceMode, SetMode, CommandFails, Query
<1>2. ASSUME NEW seen \in Modes \cup {NoMode}, NEW ok \in BOOLEAN, Reconcile(seen, ok)
      PROVE  ClockInv'
  <2>1. UNCHANGED restarts /\ pass.pc = "idle"
    BY <1>2 DEF Reconcile
  <2>2. pass'.pc \in {"idle", "patch", "apply"}
    BY <1>2, <2>1 DEF Reconcile
  <2> QED BY <2>1, <2>2 DEF ClockInv
<1>3. CASE SetClock
  <2>1. UNCHANGED restarts /\ pass' = [pass EXCEPT !.pc = "readback"]
    BY <1>3 DEF SetClock
  <2> QED BY <2>1, GoesOn DEF ClockInv
<1>4. ASSUME NEW mode \in Modes, ClockFails(mode) PROVE ClockInv'
  BY <1>4, ApplyFailsIs DEF ClockFails, ClockInv
<1>5. ASSUME NEW seen \in Modes \cup {NoMode}, ClockReadBack(seen) PROVE ClockInv'
  <2>1. UNCHANGED restarts
    BY <1>5 DEF ClockReadBack
  <2>2. pass'.pc = "patch"
    BY <1>5, ApplyFailsIs DEF ClockReadBack
  <2> QED BY <2>1, <2>2 DEF ClockInv
<1>6. CASE Patch \/ PatchFails \/ Crash \/ Reboot \/ Start
  <2>1. UNCHANGED restarts
    BY <1>6 DEF Patch, PatchFails, Crash, Reboot, Start
  <2>2. CASE Patch
    <3>1. pass' = [pc |-> "idle", n |-> node', patch |-> NoPatch]
      BY <2>2 DEF Patch, Idle
    <3> QED BY <2>1, <3>1 DEF ClockInv
  <2>3. CASE PatchFails \/ Crash \/ Reboot \/ Start
    <3>1. pass'.pc \in {"idle", "down"}
      BY <2>3, IdleIs DEF PatchFails, Crash, Reboot, Start
    <3> QED BY <2>1, <3>1 DEF ClockInv
  <2> QED BY <1>6, <2>2, <2>3
<1>7. CASE (\E mode \in Modes : RequestPowerMode(mode)) \/ Withdraw \/ Kubelet
  BY <1>7, NodeMovesIs DEF ClockInv
<1>8. CASE Deliver \/ (\E mode \in Modes : Foreign(mode)) \/ Tick \/ UNCHANGED vars
  <2>1. UNCHANGED <<pass, restarts>>
    BY <1>8 DEF Deliver, Foreign, Tick, vars
  <2> QED BY <2>1 DEF ClockInv
<1> QED BY <1>1, <1>2, <1>3, <1>4, <1>5, <1>6, <1>7, <1>8 DEF Next

\* A request restarts its Node at most once, whatever crashes, reboots, failed
\* commands, lost patches and lagging reads of the cache come in between, when
\* a booted machine is published before its agent runs.
THEOREM RestartedOnce ==
    ASSUME PowerModeAssumption, KubeletFirst
    PROVE  Spec => []RestartsOnce
<1>1. CASE ~Clock
  <2>1. Init => TypeInv /\ RestartInv
    BY TypeInit, RestartInit
  <2>2. TypeInv /\ RestartInv /\ [Next]_vars => (TypeInv /\ RestartInv)'
    BY <1>1, TypeStep, RestartStep
  <2>3. TypeInv /\ RestartInv => RestartsOnce
    <3>1. SUFFICES ASSUME TypeInv, RestartInv, NEW r \in 1..MaxRequests PROVE restarts[r] <= 1
      BY DEF RestartsOnce
    <3>2. restarts[r] \in Nat
      BY <3>1, TypeFacts
    <3>3. CASE restarts[r] > 0
      BY <3>1, <3>3 DEF RestartInv, Once
    <3> QED BY <3>2, <3>3
  <2> QED BY <2>1, <2>2, <2>3, PTL DEF Spec
<1>2. CASE Clock
  <2>1. Init => TypeInv /\ ClockInv
    <3>1. Init => pass.pc = "idle" /\ \A r \in 1..MaxRequests : restarts[r] = 0
      BY IdleIs DEF Init
    <3> QED BY <3>1, TypeInit DEF ClockInv
  <2>2. TypeInv /\ ClockInv /\ [Next]_vars => (TypeInv /\ ClockInv)'
    BY <1>2, TypeStep, ClockStep
  <2>3. ClockInv => RestartsOnce
    BY DEF ClockInv, RestartsOnce
  <2> QED BY <2>1, <2>2, <2>3, PTL DEF Spec
<1> QED BY <1>1, <1>2
=============================================================================
