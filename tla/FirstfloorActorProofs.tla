----------------------- MODULE FirstfloorActorProofs -----------------------
(***************************************************************************)
(* What module FirstfloorActor promises, for all requests, limits, sizes,  *)
(* targets, costs and profiles: its lists stay within their limits, every  *)
(* request gets one answer, no answer is early, nothing is admitted late,  *)
(* every batch is one the policy may start, and it implements              *)
(* NativeExecutor.                                                         *)
(*                                                                         *)
(* First, what chooseBatch returns for every snapshot, every set of        *)
(* profiles and every measured cost: a choice that names a request names a *)
(* queued one, a batch chosen for its energy is feasible for each of its   *)
(* members, and a fixed batch has as many compatible requests as it needs. *)
(* That rests on what the operators of Subsequences return for sequences   *)
(* of any length, and on finite sets having minimal elements; counting     *)
(* replaces induction over the length of a sequence: a position's place    *)
(* among those kept is a bijection, because the places are as many as the  *)
(* positions.                                                              *)
(*                                                                         *)
(* IInv below is inductive.  Its proof has one lemma per action; what an   *)
(* action does to the requests is exported as Ended or Moved, and the      *)
(* refinement follows from these.                                          *)
(***************************************************************************)
EXTENDS FirstfloorActor, Functions, FiniteSetTheorems, WellFoundedInduction, TLAPS

-----------------------------------------------------------------------------
(* Least elements                                                          *)

\* A set of naturals has a least member.
LEMMA NatMinimum ==
    ASSUME NEW T \in SUBSET Nat, T # {}
    PROVE  \E x \in T : \A y \in T : x <= y
<1>1. PICK x \in T : \A y \in T : <<y, x>> \notin OpToRel(<, Nat)
  BY WFMin, NatLessThanWellFounded
<1>2. ASSUME NEW y \in T PROVE ~(y < x)
  BY <1>1 DEF OpToRel
<1> QED BY <1>2

\* A finite set has an element before which there is none in a strict order.
LEMMA FiniteMinimum ==
    ASSUME NEW I, IsFiniteSet(I), I # {}, NEW R,
           \A i \in I : <<i, i>> \notin R,
           \A i, j, k \in I : <<i, j>> \in R /\ <<j, k>> \in R => <<i, k>> \in R
    PROVE  \E i \in I : \A j \in I : <<j, i>> \notin R
<1> DEFINE Before(i) == {j \in I : <<j, i>> \in R}
           T == {Cardinality(Before(i)) : i \in I}
<1>1. \A i \in I : IsFiniteSet(Before(i)) /\ Cardinality(Before(i)) \in Nat
  <2> TAKE i \in I
  <2>1. IsFiniteSet(Before(i))
    BY FS_Subset
  <2> QED BY <2>1, FS_CardinalityType
<1>2. T \in SUBSET Nat /\ T # {}
  <2> HIDE DEF Before
  <2> QED BY <1>1
<1>3. PICK x \in T : \A y \in T : x <= y
  BY <1>2, NatMinimum
<1>4. PICK i \in I : Cardinality(Before(i)) = x
  BY <1>3
<1>5. ASSUME NEW j \in I, <<j, i>> \in R
      PROVE  FALSE
  <2>1. Before(j) \in SUBSET Before(i) /\ j \in Before(i) /\ j \notin Before(j)
    BY <1>5
  <2>2. /\ Cardinality(Before(j)) <= Cardinality(Before(i))
        /\ Cardinality(Before(i)) # Cardinality(Before(j))
    BY <2>1, <1>1, FS_Subset
  <2>3. Cardinality(Before(j)) \in T
    OBVIOUS
  <2>4. Cardinality(Before(i)) <= Cardinality(Before(j))
    BY <1>3, <1>4, <2>3
  <2>5. Cardinality(Before(i)) \in Nat /\ Cardinality(Before(j)) \in Nat
    BY <1>1
  <2> HIDE DEF Before
  <2> QED BY <2>2, <2>4, <2>5
<1> QED BY <1>5

-----------------------------------------------------------------------------
(* Places                                                                  *)

\* The place of a kept position is one of the places there are.
LEMMA RankType ==
    ASSUME NEW D \in SUBSET Int, IsFiniteSet(D), NEW n \in D
    PROVE  Rank(D, n) \in 1..Cardinality(D)
<1> DEFINE B == {k \in D : k <= n}
<1>1. B \in SUBSET D /\ n \in B
  OBVIOUS
<1>2. IsFiniteSet(B) /\ Cardinality(B) <= Cardinality(D)
  BY <1>1, FS_Subset
<1>3. Cardinality(B) \in Nat /\ Cardinality(D) \in Nat
  BY <1>2, FS_CardinalityType
<1>4. Cardinality(B) # 0
  BY <1>1, <1>2, FS_EmptySet
<1> QED BY <1>2, <1>3, <1>4 DEF Rank

\* A later position has a higher place.
LEMMA RankMonotone ==
    ASSUME NEW D \in SUBSET Int, IsFiniteSet(D), NEW m \in D, NEW n \in D, m < n
    PROVE  Rank(D, m) < Rank(D, n)
<1> DEFINE A == {k \in D : k <= m}
           B == {k \in D : k <= n}
<1>1. B \in SUBSET D /\ n \in B /\ n \notin A
  OBVIOUS
<1>2. \A k \in A : k \in B
  OBVIOUS
<1>3. A \in SUBSET B
  BY <1>2, Zenon
<1>4. IsFiniteSet(B)
  BY <1>1, FS_Subset
<1>5. /\ IsFiniteSet(A) /\ Cardinality(A) <= Cardinality(B)
      /\ Cardinality(B) = Cardinality(A) => B = A
  BY <1>3, <1>4, FS_Subset
<1>6. Cardinality(A) \in Nat /\ Cardinality(B) \in Nat
  BY <1>4, <1>5, FS_CardinalityType
<1>7. Cardinality(B) # Cardinality(A)
  BY <1>1, <1>5
<1> QED BY <1>5, <1>6, <1>7 DEF Rank

\* Two positions do not share a place.
LEMMA RankInjective ==
    ASSUME NEW D \in SUBSET Int, IsFiniteSet(D), NEW m \in D, NEW n \in D,
           Rank(D, m) = Rank(D, n)
    PROVE  m = n
<1>1. Cardinality(D) \in Nat
  BY FS_CardinalityType
<1>2. Rank(D, m) \in Int /\ Rank(D, n) \in Int
  BY <1>1, RankType
<1>3. ~(m < n) /\ ~(n < m)
  BY <1>2, RankMonotone
<1> QED BY <1>3

\* Every place is taken.
LEMMA RankOnto ==
    ASSUME NEW D \in SUBSET Int, IsFiniteSet(D), NEW m \in 1..Cardinality(D)
    PROVE  \E n \in D : Rank(D, n) = m
<1> DEFINE T == 1..Cardinality(D)
           f == [n \in D |-> Rank(D, n)]
<1>1. Cardinality(D) \in Nat
  BY FS_CardinalityType
<1>2. IsFiniteSet(T) /\ Cardinality(T) = Cardinality(D)
  BY <1>1, FS_Interval
<1>3. f \in [D -> T]
  BY RankType
<1>4. ASSUME NEW a \in D, NEW b \in D, f[a] = f[b]
      PROVE  a = b
  BY <1>4, RankInjective
<1>5. f \in Injection(D, T)
  BY <1>3, <1>4 DEF Injection, IsInjective
<1>6. f \in Surjection(D, T)
  BY <1>2, <1>5, FS_Injection
<1> QED BY <1>6 DEF Surjection

\* The first n of at least n positions are n, and all of them when they are fewer.
LEMMA FirstOfCardinality ==
    ASSUME NEW D \in SUBSET Int, IsFiniteSet(D), NEW n \in Nat
    PROVE  /\ FirstOf(D, n) \in SUBSET D /\ IsFiniteSet(FirstOf(D, n))
           /\ Cardinality(FirstOf(D, n)) = IF n <= Cardinality(D) THEN n ELSE Cardinality(D)
<1> DEFINE k == IF n <= Cardinality(D) THEN n ELSE Cardinality(D)
           F == FirstOf(D, n)
           f == [i \in F |-> Rank(D, i)]
<1>1. Cardinality(D) \in Nat /\ k \in Nat /\ k <= n /\ k <= Cardinality(D)
  BY FS_CardinalityType
<1>2. F \in SUBSET D /\ IsFiniteSet(F)
  BY FS_Subset DEF FirstOf
<1>3. IsFiniteSet(1..k) /\ Cardinality(1..k) = k
  <2> HIDE DEF k
  <2>1. IsFiniteSet(1..k) /\ Cardinality(1..k) = IF 1 > k THEN 0 ELSE k - 1 + 1
    BY <1>1, FS_Interval
  <2> QED BY <1>1, <2>1
<1>4. ASSUME NEW i \in F PROVE Rank(D, i) \in 1..k
  BY <1>1, RankType DEF FirstOf
<1>5. ASSUME NEW a \in F, NEW b \in F, f[a] = f[b] PROVE a = b
  BY <1>2, <1>5, RankInjective
<1>6. ASSUME NEW m \in 1..k PROVE \E i \in F : f[i] = m
  <2>1. m \in 1..Cardinality(D) /\ m <= n
    BY <1>1
  <2>2. PICK i \in D : Rank(D, i) = m
    BY <2>1, RankOnto
  <2>3. i \in F
    BY <2>1, <2>2 DEF FirstOf
  <2> QED BY <2>2, <2>3
<1>7. f \in Injection(F, 1..k) /\ f \in Surjection(F, 1..k)
  <2> HIDE DEF k, F
  <2> QED BY <1>4, <1>5, <1>6 DEF Injection, IsInjective, Surjection
<1>8. Cardinality(F) = Cardinality(1..k)
  BY <1>3, <1>7, FS_Injection
<1> QED BY <1>2, <1>3, <1>8

-----------------------------------------------------------------------------
(* Subsequences                                                            *)

\* A sequence has finitely many positions.
LEMMA SeqDomain ==
    ASSUME NEW S, NEW s \in Seq(S)
    PROVE  /\ DOMAIN s = 1..Len(s) /\ DOMAIN s \in SUBSET Int /\ Len(s) \in Nat
           /\ IsFiniteSet(DOMAIN s) /\ Cardinality(DOMAIN s) = Len(s)
<1>1. Len(s) \in Nat /\ DOMAIN s = 1..Len(s)
  OBVIOUS
<1>2. IsFiniteSet(1..Len(s)) /\ Cardinality(1..Len(s)) = IF 1 > Len(s) THEN 0 ELSE Len(s) - 1 + 1
  BY <1>1, FS_Interval
<1> QED BY <1>1, <1>2

\* A sequence has finitely many elements.
LEMMA RangeFinite ==
    ASSUME NEW S, NEW s \in Seq(S)
    PROVE  IsFiniteSet(Range(s))
<1>1. s \in Surjection(DOMAIN s, Range(s))
  BY DEF Surjection, Range
<1> QED BY <1>1, SeqDomain, FS_Surjection

\* The elements at the positions D, each at the place of its position.
LEMMA AtElements ==
    ASSUME NEW S, NEW s \in Seq(S), NEW D \in SUBSET DOMAIN s
    PROVE  /\ D \in SUBSET Int /\ IsFiniteSet(D)
           /\ Cardinality(D) \in Nat /\ Cardinality(D) <= Len(s)
           /\ At(s, D) \in Seq(S) /\ Len(At(s, D)) = Cardinality(D)
           /\ DOMAIN At(s, D) = 1..Cardinality(D)
           /\ \A m \in DOMAIN At(s, D) :
                 \E n \in D : Rank(D, n) = m /\ At(s, D)[m] = s[n]
           /\ \A n \in D : Rank(D, n) \in DOMAIN At(s, D) /\ At(s, D)[Rank(D, n)] = s[n]
<1>1. DOMAIN s = 1..Len(s) /\ IsFiniteSet(DOMAIN s) /\ Cardinality(DOMAIN s) = Len(s)
  BY SeqDomain
<1>2. D \in SUBSET Int
  BY <1>1
<1>3. IsFiniteSet(D) /\ Cardinality(D) <= Cardinality(DOMAIN s)
  BY <1>1, FS_Subset
<1>4. Cardinality(D) \in Nat
  BY <1>3, FS_CardinalityType
<1>5. ASSUME NEW m \in 1..Cardinality(D)
      PROVE  \E n \in D : Rank(D, n) = m /\ At(s, D)[m] = s[n]
  <2>1. \E n \in D : Rank(D, n) = m
    BY <1>2, <1>3, RankOnto
  <2> QED BY <2>1 DEF At
<1>6. \A m \in 1..Cardinality(D) : At(s, D)[m] \in S
  BY <1>1, <1>5
<1>7. At(s, D) \in [1..Cardinality(D) -> S]
  <2>1. At(s, D) = [m \in 1..Cardinality(D) |-> At(s, D)[m]]
    BY DEF At
  <2> QED BY <2>1, <1>6
<1>8. At(s, D) \in Seq(S) /\ Len(At(s, D)) = Cardinality(D) /\ DOMAIN At(s, D) = 1..Cardinality(D)
  BY <1>4, <1>7
<1>9. ASSUME NEW n \in D
      PROVE  Rank(D, n) \in 1..Cardinality(D) /\ At(s, D)[Rank(D, n)] = s[n]
  <2>1. Rank(D, n) \in 1..Cardinality(D)
    BY <1>2, <1>3, RankType
  <2>2. PICK k \in D : Rank(D, k) = Rank(D, n) /\ At(s, D)[Rank(D, n)] = s[k]
    BY <2>1, <1>5
  <2>3. k = n
    BY <2>2, <1>2, <1>3, RankInjective
  <2> QED BY <2>1, <2>2, <2>3
<1> QED BY <1>1, <1>2, <1>3, <1>4, <1>5, <1>8, <1>9

\* Exactly the elements at these positions.
LEMMA AtRange ==
    ASSUME NEW S, NEW s \in Seq(S), NEW D \in SUBSET DOMAIN s
    PROVE  Range(At(s, D)) = {s[n] : n \in D}
<1>1. \A m \in DOMAIN At(s, D) : \E n \in D : At(s, D)[m] = s[n]
  BY AtElements
<1>2. \A n \in D : Rank(D, n) \in DOMAIN At(s, D) /\ At(s, D)[Rank(D, n)] = s[n]
  BY AtElements
<1>3. Range(At(s, D)) \subseteq {s[n] : n \in D}
  BY <1>1 DEF Range
<1>4. ASSUME NEW x \in {s[n] : n \in D} PROVE x \in Range(At(s, D))
  BY <1>2 DEF Range
<1> QED BY <1>3, <1>4

\* They keep their order.
LEMMA AtOrder ==
    ASSUME NEW S, NEW s \in Seq(S), NEW D \in SUBSET DOMAIN s,
           NEW i \in DOMAIN At(s, D), NEW j \in DOMAIN At(s, D), i < j
    PROVE  \E m, n \in D : m < n /\ At(s, D)[i] = s[m] /\ At(s, D)[j] = s[n]
<1>1. D \in SUBSET Int /\ IsFiniteSet(D)
  BY AtElements
<1>2. PICK m \in D : Rank(D, m) = i /\ At(s, D)[i] = s[m]
  BY AtElements
<1>3. PICK n \in D : Rank(D, n) = j /\ At(s, D)[j] = s[n]
  BY AtElements
<1>4. i \in Int /\ j \in Int
  BY AtElements
<1>5. ~(n < m)
  <2>1. SUFFICES ASSUME n < m PROVE FALSE
    OBVIOUS
  <2>2. Rank(D, n) < Rank(D, m)
    BY <2>1, <1>1, RankMonotone
  <2> QED BY <2>2, <1>2, <1>3, <1>4
<1>6. m # n
  BY <1>2, <1>3, <1>4
<1> QED BY <1>1, <1>2, <1>3, <1>5, <1>6

\* What remains is a sequence of the elements that are not removed; it is shorter
\* when something was removed.
LEMMA WithoutElements ==
    ASSUME NEW S, NEW s \in Seq(S), NEW R
    PROVE  /\ Without(s, R) \in Seq(S)
           /\ Range(Without(s, R)) = Range(s) \ R
           /\ Len(Without(s, R)) <= Len(s)
           /\ Range(s) \cap R # {} => Len(Without(s, R)) < Len(s)
<1> DEFINE D == {n \in DOMAIN s : s[n] \notin R}
<1>1. D \in SUBSET DOMAIN s /\ Without(s, R) = At(s, D)
  BY DEF Without
<1>2. Without(s, R) \in Seq(S) /\ Len(Without(s, R)) = Cardinality(D) /\ Cardinality(D) <= Len(s)
      /\ Cardinality(D) \in Nat
  BY <1>1, AtElements
<1>3. Range(Without(s, R)) = {s[n] : n \in D}
  BY <1>1, AtRange
<1>4. Range(Without(s, R)) = Range(s) \ R
  BY <1>3 DEF Range
<1>5. ASSUME Range(s) \cap R # {} PROVE Len(Without(s, R)) < Len(s)
  <2>1. D # DOMAIN s
    BY <1>5 DEF Range
  <2>2. IsFiniteSet(DOMAIN s) /\ Cardinality(DOMAIN s) = Len(s) /\ Len(s) \in Nat
    BY SeqDomain
  <2>3. Cardinality(D) # Cardinality(DOMAIN s)
    BY <2>1, <2>2, FS_Subset
  <2> QED BY <2>2, <2>3, <1>2
<1> QED BY <1>2, <1>4, <1>5

\* What remains keeps its order.
LEMMA WithoutOrder ==
    ASSUME NEW S, NEW s \in Seq(S), NEW R,
           NEW i \in DOMAIN Without(s, R), NEW j \in DOMAIN Without(s, R), i < j
    PROVE  \E m, n \in DOMAIN s :
              /\ m < n /\ Without(s, R)[i] = s[m] /\ Without(s, R)[j] = s[n]
<1> DEFINE D == {n \in DOMAIN s : s[n] \notin R}
<1>1. D \in SUBSET DOMAIN s /\ Without(s, R) = At(s, D)
  BY DEF Without
<1> HIDE DEF D
<1>2. PICK m \in D, n \in D : m < n /\ At(s, D)[i] = s[m] /\ At(s, D)[j] = s[n]
  BY <1>1, AtOrder
<1> QED BY <1>1, <1>2

-----------------------------------------------------------------------------
(* Snapshots                                                               *)

\* A snapshot: requests with any identity and queue key.
Snapshots(Id, Keys) ==
    Seq([id : Id, key : Keys, slo : Int, margin : Int, phase : Phases, queued : Int])

-----------------------------------------------------------------------------
(* Profiles                                                                *)

\* Profiles are in the order of their batch size.
LEMMA SizesIncrease ==
    ASSUME NEW m \in 1..Profiles, NEW n \in 1..Profiles, m < n
    PROVE  Size[m] < Size[n]
<1> DEFINE Bad == {k \in 1..Profiles : m < k /\ ~(Size[m] < Size[k])}
<1>1. SUFFICES ASSUME Bad # {} PROVE FALSE
  OBVIOUS
<1>2. Profiles \in Nat /\ Bad \in SUBSET Nat
  BY PolicyAssumption
<1>3. PICK k \in Bad : \A j \in Bad : k <= j
  BY <1>1, <1>2, NatMinimum
<1>4. k \in 2..Profiles /\ Size[k - 1] < Size[k] /\ k - 1 \in 1..Profiles
  BY <1>2, <1>3, PolicyAssumption
<1>5. Size[m] \in Nat /\ Size[k] \in Nat /\ Size[k - 1] \in Nat
  BY <1>4, PolicyAssumption
<1>6. CASE k - 1 = m
  BY <1>3, <1>4, <1>6
<1>7. CASE k - 1 # m
  <2>1. m < k - 1 /\ k - 1 \notin Bad
    BY <1>3, <1>4, <1>7
  <2>2. Size[m] < Size[k - 1]
    BY <2>1, <1>4
  <2> QED BY <2>2, <1>3, <1>4, <1>5
<1> QED BY <1>6, <1>7

\* The measured choice among feasible profiles is one of them.
LEMMA AvailableType ==
    ASSUME NEW P \in SUBSET (1..Profiles), P # {}
    PROVE  Available(P) \in P
<1> DEFINE Better(n, m) == Energy[n] < Energy[m] \/ (Energy[n] = Energy[m] /\ Size[n] > Size[m])
           R == {p \in P \X P : Better(p[1], p[2])}
<1>1. Profiles \in Nat /\ IsFiniteSet(P)
  <2>1. Profiles \in Nat /\ IsFiniteSet(1..Profiles)
    BY PolicyAssumption, FS_Interval
  <2> QED BY <2>1, FS_Subset
<1>2. \A n \in P : n \in 1..Profiles /\ Energy[n] \in Nat /\ Size[n] \in Nat
  BY PolicyAssumption
<1>3. \A n \in P : <<n, n>> \notin R
  BY <1>2
<1>4. \A i, j, k \in P : <<i, j>> \in R /\ <<j, k>> \in R => <<i, k>> \in R
  BY <1>2
<1>5. PICK n \in P : \A m \in P : <<m, n>> \notin R
  <2> HIDE DEF R
  <2> QED BY <1>1, <1>3, <1>4, FiniteMinimum
<1>6. ASSUME NEW m \in P \ {n} PROVE Better(n, m)
  <2>1. ~Better(m, n)
    BY <1>5
  <2>2. Size[m] # Size[n]
    BY <1>2, SizesIncrease
  <2> QED BY <2>1, <2>2, <1>2
<1> QED BY <1>6 DEF Available

-----------------------------------------------------------------------------
(* Heads                                                                   *)

\* The fields of a snapshot's requests.
LEMMA SnapshotFields ==
    ASSUME NEW Id, NEW Keys, NEW rs \in Snapshots(Id, Keys), NEW i \in DOMAIN rs
    PROVE  /\ i \in Nat \ {0} /\ rs[i].id \in Id /\ rs[i].key \in Keys /\ rs[i].slo \in Int
           /\ rs[i].margin \in Int /\ rs[i].phase \in Phases /\ rs[i].queued \in Int
<1> DEFINE T == [id : Id, key : Keys, slo : Int, margin : Int, phase : Phases, queued : Int]
<1>1. rs \in Seq(T)
  BY DEF Snapshots
<1>2. rs[i] \in T /\ i \in Nat \ {0}
  <2> HIDE DEF T
  <2> QED BY <1>1
<1> QED BY <1>2

\* The earliest of some positions of a snapshot is one of them, and none of them
\* has less of its SLO left.
LEMMA EarliestType ==
    ASSUME NEW Id, NEW Keys, NEW rs \in Snapshots(Id, Keys),
           NEW I \in SUBSET DOMAIN rs, I # {}
    PROVE  /\ Earliest(rs, I) \in I
           /\ \A j \in I : j = Earliest(rs, I) \/ EarlierEDF(rs, Earliest(rs, I), j)
<1> DEFINE R == {p \in I \X I : EarlierEDF(rs, p[1], p[2])}
<1>1. IsFiniteSet(I)
  BY SeqDomain, FS_Subset DEF Snapshots
<1>2. \A i \in I : rs[i].slo \in Int /\ i \in Int
  BY SnapshotFields
<1>3. \A i \in I : <<i, i>> \notin R
  BY <1>2 DEF EarlierEDF
<1>4. \A i, j, k \in I : <<i, j>> \in R /\ <<j, k>> \in R => <<i, k>> \in R
  BY <1>2 DEF EarlierEDF
<1>5. PICK i \in I : \A j \in I : <<j, i>> \notin R
  <2> HIDE DEF R
  <2> QED BY <1>1, <1>3, <1>4, FiniteMinimum
<1>6. ASSUME NEW j \in I PROVE j = i \/ EarlierEDF(rs, i, j)
  <2>1. ~EarlierEDF(rs, j, i)
    BY <1>5
  <2> QED BY <2>1, <1>2 DEF EarlierEDF
<1> QED BY <1>6 DEF Earliest

\* The head of a snapshot: a queued request if there is any, else the first
\* deferred one.
LEMMA HeadType ==
    ASSUME NEW Id, NEW Keys, NEW rs \in Snapshots(Id, Keys),
           NormalHead(rs) # {} \/ DeferredHead(rs) # {}
    PROVE  /\ Head0(rs) \in DOMAIN rs
           /\ NormalHead(rs) # {} => Head0(rs) = Earliest(rs, NormalHead(rs))
                                     /\ Head0(rs) \in NormalHead(rs)
           /\ NormalHead(rs) = {} => rs[Head0(rs)].phase = "deferred"
<1>1. NormalHead(rs) \in SUBSET DOMAIN rs /\ DeferredHead(rs) \in SUBSET DOMAIN rs
  BY DEF NormalHead, DeferredHead
<1>2. CASE NormalHead(rs) # {}
  <2>1. Earliest(rs, NormalHead(rs)) \in NormalHead(rs)
    BY <1>1, <1>2, EarliestType
  <2> QED BY <1>1, <1>2, <2>1 DEF Head0
<1>3. CASE NormalHead(rs) = {}
  <2>1. DeferredHead(rs) \in SUBSET Nat /\ DeferredHead(rs) # {}
    BY <1>1, <1>3 DEF Snapshots
  <2>2. \E i \in DeferredHead(rs) : \A j \in DeferredHead(rs) : i <= j
    BY <2>1, NatMinimum
  <2>3. Head0(rs) \in DeferredHead(rs)
    BY <1>3, <2>2 DEF Head0
  <2> QED BY <1>1, <1>3, <2>3 DEF DeferredHead
<1> QED BY <1>2, <1>3

\* Compatible requests are counted.
LEMMA CompatibleType ==
    ASSUME NEW Id, NEW Keys, NEW rs \in Snapshots(Id, Keys), NEW head \in DOMAIN rs
    PROVE  /\ Compatible(rs, head) \in SUBSET DOMAIN rs
           /\ IsFiniteSet(Compatible(rs, head)) /\ CompatibleCount(rs, head) \in Nat
<1>1. Compatible(rs, head) \in SUBSET DOMAIN rs
  BY DEF Compatible, DeferredRun, NormalOf
<1>2. IsFiniteSet(Compatible(rs, head))
  BY <1>1, SeqDomain, FS_Subset DEF Snapshots
<1> QED BY <1>1, <1>2, FS_CardinalityType DEF CompatibleCount

-----------------------------------------------------------------------------
(* Choices                                                                 *)

\* A fill that is awaited is a time.
LEMMA FillType ==
    ASSUME NEW Id, NEW Keys, NEW rs \in Snapshots(Id, Keys), NEW head \in DOMAIN rs,
           NEW n \in 1..Profiles, NEW interval \in Nat
    PROVE  Fill(rs, head, n, interval) \in Int
<1>1. CompatibleCount(rs, head) \in Nat /\ Size[n] \in Nat
  BY CompatibleType, PolicyAssumption
<1> QED BY <1>1 DEF Fill

\* energyGainWait either waits, and starts nothing, or starts the profile it was
\* given.
LEMMA EnergyGainWaitType ==
    ASSUME NEW Id, NEW Keys, NEW rs \in Snapshots(Id, Keys), NEW head \in DOMAIN rs,
           NEW avail \in 1..Profiles, NEW cap, NEW cost, NEW interval \in Nat
    PROVE  LET c == EnergyGainWait(rs, head, avail, cap, cost, interval)
           IN  \/ /\ c.reason = "wait" /\ c.size = 0 /\ c.profile = 0 /\ c.wait \in Int
               \/ /\ c.reason = "energy" /\ c.size = Size[avail] /\ c.profile = avail
                  /\ c.wait = 0 /\ c.key = rs[head].key
<1> DEFINE W == WorthWaiting(rs, head, avail, cap, cost, interval)
           first == CHOOSE n \in W : \A m \in W : n <= m
<1>1. W \in SUBSET (1..Profiles) /\ Profiles \in Nat
  BY PolicyAssumption DEF WorthWaiting
<1>2. head # 0
  BY SnapshotFields
<1>3. CASE interval > 0 /\ W # {}
  <2>1. \E n \in W : \A m \in W : n <= m
    BY <1>1, <1>3, NatMinimum
  <2>2. first \in 1..Profiles
    BY <2>1, <1>1
  <2>3. Fill(rs, head, first, interval) \in Int
    BY <2>2, FillType
  <2> QED BY <1>3, <2>3 DEF EnergyGainWait, Choice
<1>4. CASE ~(interval > 0 /\ W # {})
  BY <1>2, <1>4 DEF EnergyGainWait, Choice
<1> QED BY <1>3, <1>4

\* A snapshot with something queued or deferred.
Waiting(rs) == NormalHead(rs) # {} \/ DeferredHead(rs) # {}

\* What a fixed choice can be.
LEMMA ChooseFixedType ==
    ASSUME NEW Id, NEW Keys, NEW rs \in Snapshots(Id, Keys)
    PROVE  LET c == ChooseFixedBatch(rs)
           IN  /\ c.wait = 0 /\ c.profile = 0
               /\ \/ c.reason \in {"active", "filling"} /\ c.size = 0
                  \/ /\ c.reason = "fixed" /\ c.size = FixedBatchSize
                     /\ \E i \in NormalHead(rs) : /\ c.key = rs[i].key
                                                  /\ CompatibleCount(rs, i) >= FixedBatchSize
<1> DEFINE F == {i \in NormalHead(rs) : CompatibleCount(rs, i) >= FixedBatchSize}
<1>1. F \in SUBSET DOMAIN rs
  BY DEF NormalHead
<1>2. CASE F # {} /\ ~\E i \in DOMAIN rs : rs[i].phase = "running"
  <2>1. Earliest(rs, F) \in F
    BY <1>1, <1>2, EarliestType
  <2>2. Earliest(rs, F) # 0
    BY <2>1, <1>1, SnapshotFields
  <2> QED BY <1>2, <2>1, <2>2 DEF ChooseFixedBatch, Choice
<1>3. CASE ~(F # {} /\ ~\E i \in DOMAIN rs : rs[i].phase = "running")
  BY <1>3 DEF ChooseFixedBatch, Choice
<1> QED BY <1>2, <1>3

\* What a measured choice can be: a request that is dropped or deferred is a
\* queued one, and a batch chosen for its energy meets the SLO of each of its
\* members.
LEMMA ChooseMeasuredType ==
    ASSUME NEW Id, NEW Keys, NEW rs \in Snapshots(Id, Keys), Waiting(rs),
           NEW cap, NEW cost, NEW interval \in Nat
    PROVE  LET c == ChooseMeasured(rs, cap, cost, interval)
           IN  \/ /\ c.reason \in {"drop", "defer"} /\ c.size = 0
                  /\ c.wait = 0 /\ c.profile = 0
                  /\ \E i \in NormalHead(rs) : c.id = rs[i].id
               \/ /\ c.reason = "active" /\ c.size = 0 /\ c.wait = 0 /\ c.profile = 0
               \/ c.reason = "wait" /\ c.size = 0 /\ c.profile = 0 /\ c.wait \in Int
               \/ /\ c.reason = "energy" /\ c.wait = 0
                  /\ c.profile \in 1..Profiles /\ c.size = Size[c.profile]
                  /\ NormalHead(rs) # {} /\ c.key = rs[Head0(rs)].key
                  /\ BatchFeasible(rs, Head0(rs), c.profile, cost)
               \/ c.reason = "throughput" /\ c.wait = 0 /\ c.profile = 0
<1> DEFINE head == Head0(rs)
           U == Usable(rs, head, cap)
           F == IF rs[head].phase = "deferred" THEN {}
                ELSE {n \in U : BatchFeasible(rs, head, n, cost)}
           c == ChooseMeasured(rs, cap, cost, interval)
<1>1. /\ head \in DOMAIN rs /\ head # 0
      /\ NormalHead(rs) # {} => head \in NormalHead(rs)
      /\ NormalHead(rs) = {} => rs[head].phase = "deferred"
  <2>1. /\ head \in DOMAIN rs
        /\ NormalHead(rs) # {} => head \in NormalHead(rs)
        /\ NormalHead(rs) = {} => rs[head].phase = "deferred"
    BY HeadType DEF Waiting
  <2> QED BY <2>1, SnapshotFields
<1>2. F \in SUBSET (1..Profiles)
  BY SMTT(30) DEF Usable
<1>3. CASE DeadlinePolicy = "drop" /\ NormalHead(rs) # {} /\ SLOExpired(rs[head])
  BY <1>1, <1>3 DEF ChooseMeasured, Choice
<1>4. ASSUME ~(DeadlinePolicy = "drop" /\ NormalHead(rs) # {} /\ SLOExpired(rs[head])),
             \E i \in DOMAIN rs : rs[i].phase = "running"
      PROVE  c = Choice(rs, 0, 0, 0, "active")
  BY <1>4, Zenon DEF ChooseMeasured
<1>5. ASSUME ~(DeadlinePolicy = "drop" /\ NormalHead(rs) # {} /\ SLOExpired(rs[head])),
             ~\E i \in DOMAIN rs : rs[i].phase = "running", F # {}
      PROVE  /\ c = EnergyGainWait(rs, head, Available(F), cap, cost, interval)
             /\ Available(F) \in 1..Profiles /\ NormalHead(rs) # {}
             /\ BatchFeasible(rs, head, Available(F), cost)
  <2>1. c = EnergyGainWait(rs, head, Available(F), cap, cost, interval)
    BY <1>5, Zenon DEF ChooseMeasured
  <2>2. Available(F) \in F
    <3> HIDE DEF F
    <3> QED BY <1>2, <1>5, AvailableType
  <2> QED BY <2>1, <2>2, <1>1, <1>2, <1>5
<1>6. ASSUME ~(DeadlinePolicy = "drop" /\ NormalHead(rs) # {} /\ SLOExpired(rs[head])),
             ~\E i \in DOMAIN rs : rs[i].phase = "running", F = {},
             rs[head].phase # "deferred" /\ DeadlinePolicy # "keep"
      PROVE  c = Choice(rs, head, 0, 0, DeadlinePolicy) /\ NormalHead(rs) # {}
  <2>1. c = Choice(rs, head, 0, 0, DeadlinePolicy)
    BY <1>6, Zenon DEF ChooseMeasured
  <2> QED BY <2>1, <1>1, <1>6
<1>7. ASSUME ~(DeadlinePolicy = "drop" /\ NormalHead(rs) # {} /\ SLOExpired(rs[head])),
             ~\E i \in DOMAIN rs : rs[i].phase = "running", F = {},
             ~(rs[head].phase # "deferred" /\ DeadlinePolicy # "keep")
      PROVE  c = Choice(rs, head, IF U = {} THEN 0 ELSE Size[Throughput(U, cost)], 0, "throughput")
  BY <1>7, Zenon DEF ChooseMeasured
<1> HIDE DEF head, F, U, c
<1>8. CASE \E i \in DOMAIN rs : rs[i].phase = "running"
  BY <1>3, <1>4, <1>8 DEF Choice, c
<1>9. CASE ~(\E i \in DOMAIN rs : rs[i].phase = "running") /\ F # {}
  <2>1. CASE DeadlinePolicy = "drop" /\ NormalHead(rs) # {} /\ SLOExpired(rs[head])
    BY <1>3, <2>1 DEF head
  <2>2. CASE ~(DeadlinePolicy = "drop" /\ NormalHead(rs) # {} /\ SLOExpired(rs[head]))
    <3>1. /\ c = EnergyGainWait(rs, head, Available(F), cap, cost, interval)
          /\ Available(F) \in 1..Profiles /\ NormalHead(rs) # {}
          /\ BatchFeasible(rs, head, Available(F), cost)
      BY <1>5, <1>9, <2>2
    <3>2. \/ /\ c.reason = "wait" /\ c.size = 0 /\ c.profile = 0 /\ c.wait \in Int
          \/ /\ c.reason = "energy" /\ c.size = Size[Available(F)] /\ c.profile = Available(F)
             /\ c.wait = 0 /\ c.key = rs[head].key
      BY <1>1, <3>1, EnergyGainWaitType
    <3> QED BY <3>1, <3>2 DEF head, c
  <2> QED BY <2>1, <2>2
<1>10. CASE ~(\E i \in DOMAIN rs : rs[i].phase = "running") /\ F = {}
  <2>1. CASE DeadlinePolicy = "drop" /\ NormalHead(rs) # {} /\ SLOExpired(rs[head])
    BY <1>3, <2>1 DEF head
  <2>2. CASE ~(DeadlinePolicy = "drop" /\ NormalHead(rs) # {} /\ SLOExpired(rs[head]))
    <3>1. DeadlinePolicy \in {"keep", "drop", "defer"}
      BY PolicyAssumption
    <3> QED BY <3>1, <1>1, <1>6, <1>7, <1>10, <2>2 DEF Choice, c
  <2> QED BY <2>1, <2>2
<1> QED BY <1>8, <1>9, <1>10

\* What chooseBatch can choose from a snapshot.
LEMMA ChooseBatchType ==
    ASSUME NEW Id, NEW Keys, NEW rs \in Snapshots(Id, Keys),
           NEW cap, NEW cost, NEW interval \in Nat
    PROVE  LET c == ChooseBatch(rs, cap, cost, interval)
           IN  \/ /\ c.reason \in {"drop", "defer"} /\ c.size = 0
                  /\ c.wait = 0 /\ c.profile = 0
                  /\ \E i \in NormalHead(rs) : c.id = rs[i].id
               \/ /\ c.reason \in {"active", "empty", "filling"}
                  /\ c.size = 0 /\ c.wait = 0 /\ c.profile = 0
               \/ c.reason = "wait" /\ c.size = 0 /\ c.profile = 0 /\ c.wait \in Int
               \/ /\ c.reason = "fixed" /\ c.wait = 0 /\ c.profile = 0 /\ c.size = FixedBatchSize
                  /\ \E i \in NormalHead(rs) : /\ c.key = rs[i].key
                                               /\ CompatibleCount(rs, i) >= FixedBatchSize
               \/ /\ c.reason = "energy" /\ c.wait = 0
                  /\ c.profile \in 1..Profiles /\ c.size = Size[c.profile]
                  /\ NormalHead(rs) # {} /\ c.key = rs[Head0(rs)].key
                  /\ BatchFeasible(rs, Head0(rs), c.profile, cost)
               \/ c.reason = "throughput" /\ c.wait = 0 /\ c.profile = 0
<1> DEFINE c == ChooseBatch(rs, cap, cost, interval)
<1>1. CASE FixedBatchSize > 0
  <2>1. c = ChooseFixedBatch(rs)
    BY <1>1 DEF ChooseBatch
  <2> HIDE DEF c
  <2> QED BY <2>1, ChooseFixedType DEF c
<1>2. CASE ~(FixedBatchSize > 0) /\ ~Waiting(rs)
  BY <1>2 DEF ChooseBatch, Choice, Waiting
<1>3. CASE ~(FixedBatchSize > 0) /\ Waiting(rs)
  <2>1. c = ChooseMeasured(rs, cap, cost, interval)
    BY <1>3 DEF ChooseBatch, Waiting
  <2> HIDE DEF c
  <2> QED BY <2>1, <1>3, ChooseMeasuredType DEF c
<1> QED BY <1>1, <1>2, <1>3
-----------------------------------------------------------------------------
(* The inductive invariant                                                 *)

\* Where a request waits is what its progress line says.
ProgressInv ==
    /\ \A r \in Range(queue) : req[r].progress = "queued"
    /\ \A r \in Range(deferred) : req[r].progress = "deferred"
    /\ \A r \in Range(active) : req[r].progress = "running"

\* What the actor holds has no result yet, and its handler waits or left without
\* an answer.
HeldInv ==
    \A r \in Held : /\ req[r].sent = 0
                    /\ req[r].at = "wait" \/ (req[r].at = "gone" /\ req[r].answer = "incomplete")

\* What it never received or does not hold any more.
SentInv ==
    \A r \in Requests :
        /\ req[r].sent <= 1
        /\ req[r].at \in {"new", "offer"} => req[r].sent = 0 /\ req[r].progress = "none"
        /\ req[r].at # "gone" => req[r].answer = "none"
        /\ req[r].at = "wait" /\ r \notin Held => req[r].sent = 1
        /\ req[r].progress = "finished" => req[r].sent = 1

\* No list holds a request twice.
DistinctInv == IsInjective(queue) /\ IsInjective(deferred) /\ IsInjective(active)

\* A batch is only chosen while none is active.
TurnInv == act.pc = "batch" => active = <<>>

\* What is inductive.
IInv == /\ TypeOK /\ QueueBounds /\ ProgressInv /\ HeldInv /\ SentInv
        /\ DistinctInv /\ TurnInv

-----------------------------------------------------------------------------
(* The operators                                                           *)

BytesAt(R) == {{r} \X (1..Bytes[r]) : r \in R}

\* The bytes of a request are its size.
LEMMA BytesOfOne ==
    ASSUME NEW r \in Requests
    PROVE  /\ IsFiniteSet({r} \X (1..Bytes[r]))
           /\ Cardinality({r} \X (1..Bytes[r])) = Bytes[r]
           /\ BytesOf({r}) = Bytes[r]
<1> DEFINE I == 1..Bytes[r]
           P == {r} \X I
<1>1. Bytes[r] \in Nat
  BY ActorAssumption
<1>2. IsFiniteSet(I) /\ Cardinality(I) = Bytes[r]
  <2>1. IsFiniteSet(I) /\ Cardinality(I) = IF 1 > Bytes[r] THEN 0 ELSE Bytes[r] - 1 + 1
    BY SMTT(30), <1>1, FS_Interval
  <2> HIDE DEF I
  <2> QED BY <1>1, <2>1
<1>3. IsFiniteSet({r}) /\ Cardinality({r}) = 1
  BY FS_Singleton
<1> HIDE DEF I
<1>4. IsFiniteSet(P) /\ Cardinality(P) = 1 * Cardinality(I)
  BY <1>2, <1>3, FS_Product
<1>5. UNION BytesAt({r}) = P
  BY DEF BytesAt, I
<1> HIDE DEF P
<1>6. Cardinality(P) = Bytes[r]
  BY <1>1, <1>2, <1>4
<1>7. BytesOf({r}) = Cardinality(P)
  BY <1>5 DEF BytesOf, BytesAt
<1> QED BY <1>4, <1>6, <1>7 DEF P, I

\* Finitely many requests have finitely many bytes.
LEMMA BytesOfType ==
    ASSUME NEW R \in SUBSET Requests, IsFiniteSet(R)
    PROVE  IsFiniteSet(UNION BytesAt(R)) /\ BytesOf(R) \in Nat
<1> DEFINE f == [r \in R |-> {r} \X (1..Bytes[r])]
<1>1. f \in Surjection(R, BytesAt(R))
  BY DEF Surjection, BytesAt
<1>2. IsFiniteSet(BytesAt(R))
  BY <1>1, FS_Surjection
<1>3. \A T \in BytesAt(R) : IsFiniteSet(T)
  BY BytesOfOne DEF BytesAt
<1>4. IsFiniteSet(UNION BytesAt(R))
  BY <1>2, <1>3, FS_UNION
<1> QED BY <1>4, FS_CardinalityType DEF BytesOf, BytesAt

\* The bytes of requests that have nothing in common add up.
LEMMA BytesOfUnion ==
    ASSUME NEW A \in SUBSET Requests, NEW B \in SUBSET Requests,
           IsFiniteSet(A), IsFiniteSet(B), A \cap B = {}
    PROVE  BytesOf(A \cup B) = BytesOf(A) + BytesOf(B)
<1> DEFINE S == UNION BytesAt(A)
           T == UNION BytesAt(B)
<1>1. IsFiniteSet(S) /\ IsFiniteSet(T)
  BY BytesOfType
<1>2. UNION BytesAt(A \cup B) = S \cup T
  BY DEF BytesAt
<1>3. S \cap T = {}
  BY DEF BytesAt
<1>4. Cardinality(S \cup T) = Cardinality(S) + Cardinality(T) - Cardinality(S \cap T)
  BY <1>1, FS_Union
<1>5. Cardinality(S \cap T) = 0
  BY <1>3, FS_EmptySet
<1>6. Cardinality(S) \in Nat /\ Cardinality(T) \in Nat
  BY <1>1, FS_CardinalityType
<1>7. BytesOf(A \cup B) = Cardinality(S \cup T) /\ BytesOf(A) = Cardinality(S) /\ BytesOf(B) = Cardinality(T)
  BY <1>2 DEF BytesOf, BytesAt
<1> HIDE DEF S, T
<1> QED BY <1>4, <1>5, <1>6, <1>7

\* What leaves takes its bytes along.
LEMMA BytesOfRest ==
    ASSUME NEW A \in SUBSET Requests, IsFiniteSet(A), NEW B \in SUBSET A
    PROVE  /\ BytesOf(A \ B) = BytesOf(A) - BytesOf(B)
           /\ BytesOf(A) \in Nat /\ BytesOf(B) \in Nat /\ BytesOf(A \ B) \in Nat
<1>1. IsFiniteSet(B) /\ IsFiniteSet(A \ B)
  BY FS_Subset
<1>2. BytesOf(A) \in Nat /\ BytesOf(B) \in Nat /\ BytesOf(A \ B) \in Nat
  BY <1>1, BytesOfType
<1>3. A = (A \ B) \cup B /\ (A \ B) \cap B = {}
  OBVIOUS
<1>4. BytesOf((A \ B) \cup B) = BytesOf(A \ B) + BytesOf(B)
  BY <1>1, <1>3, BytesOfUnion
<1> DEFINE a == BytesOf(A)
           b == BytesOf(B)
           c == BytesOf(A \ B)
<1>5. a \in Nat /\ b \in Nat /\ c \in Nat /\ a = c + b
  BY Zenon, <1>2, <1>3, <1>4
<1> HIDE DEF a, b, c
<1>6. c = a - b
  BY <1>5
<1> QED BY Zenon, <1>5, <1>6 DEF a, b, c

\* An inserted request stands at its index, and the others around it.
LEMMA InsertAtElements ==
    ASSUME NEW q \in Seq(Requests), NEW i \in 1..Len(q) + 1, NEW r \in Requests
    PROVE  /\ InsertAt(q, i, r) \in Seq(Requests)
           /\ Len(InsertAt(q, i, r)) = Len(q) + 1
           /\ DOMAIN InsertAt(q, i, r) = 1..Len(q) + 1
           /\ \A k \in 1..Len(q) + 1 :
                 InsertAt(q, i, r)[k] = IF k < i THEN q[k] ELSE IF k = i THEN r ELSE q[k - 1]
           /\ Range(InsertAt(q, i, r)) = Range(q) \cup {r}
<1> DEFINE L == SubSeq(q, 1, i - 1)
           R == SubSeq(q, i, Len(q))
<1>1. InsertAt(q, i, r) = (L \o <<r>>) \o R
  BY DEF InsertAt
<1>a. Len(q) \in Nat /\ i \in Nat /\ 1 <= i /\ i <= Len(q) + 1
  OBVIOUS
<1>b. /\ L \in Seq(Requests) /\ Len(L) = i - 1
      /\ \A k \in 1..i - 1 : L[k] = q[k]
  BY <1>a
<1>c. /\ R \in Seq(Requests) /\ Len(R) = Len(q) - i + 1
      /\ \A k \in 1..Len(q) - i + 1 : R[k] = q[i + k - 1]
  BY <1>a
<1> HIDE DEF L, R
<1>d. /\ L \o <<r>> \in Seq(Requests) /\ Len(L \o <<r>>) = i
      /\ \A k \in 1..i - 1 : (L \o <<r>>)[k] = L[k]
      /\ (L \o <<r>>)[i] = r
  BY <1>a, <1>b
<1> DEFINE M == L \o <<r>>
<1>f. M \in Seq(Requests) /\ Len(M) = i
  BY <1>d
<1> HIDE DEF M
<1>e. /\ M \o R \in Seq(Requests) /\ Len(M \o R) = Len(q) + 1
      /\ \A k \in 1..i : (M \o R)[k] = M[k]
      /\ \A k \in i + 1..Len(q) + 1 : (M \o R)[k] = R[k - i]
  <2>t. M \in Seq(Requests) /\ R \in Seq(Requests)
    BY <1>c, <1>f
  <2>1. M \o R \in Seq(Requests) /\ Len(M \o R) = Len(M) + Len(R)
    BY <2>t
  <2>2. Len(M) + Len(R) = Len(q) + 1
    BY <1>a, <1>c, <1>f
  <2>3. \A k \in 1..Len(M) + Len(R) :
           (M \o R)[k] = IF k <= Len(M) THEN M[k] ELSE R[k - Len(M)]
    BY <2>t
  <2> DEFINE W == M \o R
  <2> HIDE DEF W
  <2>4. /\ \A k \in 1..i : W[k] = M[k]
        /\ \A k \in i + 1..Len(q) + 1 : W[k] = R[k - i]
    BY <1>a, <1>f, <2>2, <2>3 DEF W
  <2> QED BY <2>1, <2>2, <2>4 DEF W
<1>2. /\ InsertAt(q, i, r) \in Seq(Requests)
      /\ Len(InsertAt(q, i, r)) = Len(q) + 1
      /\ DOMAIN InsertAt(q, i, r) = 1..Len(q) + 1
  BY <1>1, <1>e DEF M
<1>3. \A k \in 1..Len(q) + 1 :
          InsertAt(q, i, r)[k] = IF k < i THEN q[k] ELSE IF k = i THEN r ELSE q[k - 1]
  <2>1. InsertAt(q, i, r) = M \o R
    BY <1>1 DEF M
  <2>2. \A k \in 1..i - 1 : (M \o R)[k] = q[k]
    <3>1. \A k \in 1..i - 1 : M[k] = q[k]
      BY <1>b, <1>d DEF M
    <3>2. \A k \in 1..i - 1 : k \in 1..i
      BY <1>a
    <3> QED BY <1>e, <3>1, <3>2
  <2>3. (M \o R)[i] = r
    BY <1>a, <1>d, <1>e DEF M
  <2>4. \A k \in i + 1..Len(q) + 1 : (M \o R)[k] = q[k - 1]
    <3> TAKE k \in i + 1..Len(q) + 1
    <3>1. k - i \in 1..Len(q) - i + 1 /\ i + (k - i) - 1 = k - 1
      BY <1>a
    <3> QED BY <3>1, <1>c, <1>e
  <2> DEFINE W == M \o R
  <2>5. /\ \A k \in 1..i - 1 : W[k] = q[k]
        /\ W[i] = r
        /\ \A k \in i + 1..Len(q) + 1 : W[k] = q[k - 1]
    BY <2>2, <2>3, <2>4
  <2> HIDE DEF W
  <2>6. \A k \in 1..Len(q) + 1 :
           W[k] = IF k < i THEN q[k] ELSE IF k = i THEN r ELSE q[k - 1]
    BY <1>a, <2>5
  <2> QED BY <2>1, <2>6 DEF W
<1> DEFINE s == InsertAt(q, i, r)
<1>s. /\ DOMAIN s = 1..Len(q) + 1 /\ DOMAIN q = 1..Len(q)
      /\ \A k \in 1..Len(q) + 1 : s[k] = IF k < i THEN q[k] ELSE IF k = i THEN r ELSE q[k - 1]
  BY <1>2, <1>3
<1> HIDE DEF s
<1>4. ASSUME NEW k \in 1..Len(q) + 1 PROVE s[k] \in Range(q) \cup {r}
  <2>1. CASE k < i
    <3>1. k \in DOMAIN q /\ s[k] = q[k]
      BY <1>a, <1>s, <2>1
    <3> QED BY <3>1 DEF Range
  <2>2. CASE k = i
    BY <1>a, <1>s, <2>2
  <2>3. CASE k > i
    <3>1. k - 1 \in DOMAIN q /\ s[k] = q[k - 1]
      BY <1>a, <1>s, <2>3
    <3> QED BY <3>1 DEF Range
  <2> QED BY <1>a, <2>1, <2>2, <2>3
<1>7. ASSUME NEW k \in 1..Len(q) PROVE q[k] \in Range(s)
  <2>1. CASE k < i
    <3>1. k \in DOMAIN s /\ s[k] = q[k]
      BY <1>a, <1>s, <2>1
    <3> QED BY <3>1 DEF Range
  <2>2. CASE ~(k < i)
    <3>1. k + 1 \in DOMAIN s /\ s[k + 1] = q[k]
      BY <1>a, <1>s, <2>2
    <3> QED BY <3>1 DEF Range
  <2> QED BY <2>1, <2>2
<1>8. r \in Range(s)
  <2>1. i \in DOMAIN s /\ s[i] = r
    BY <1>a, <1>s
  <2> QED BY <2>1 DEF Range
<1>9. Range(s) = Range(q) \cup {r}
  BY <1>s, <1>4, <1>7, <1>8 DEF Range
<1> QED BY <1>2, <1>3, <1>9 DEF s

\* s holds the elements of a, then those of b; of a, of b, then those of c.
IsJoin(s, a, b) ==
    /\ Len(s) = Len(a) + Len(b)
    /\ \A n \in 1..Len(a) + Len(b) : s[n] = IF n <= Len(a) THEN a[n] ELSE b[n - Len(a)]

IsJoinOfThree(s, a, b, c) ==
    /\ Len(s) = Len(a) + Len(b) + Len(c)
    /\ \A n \in 1..Len(a) + Len(b) + Len(c) :
          s[n] = IF n <= Len(a) THEN a[n]
                 ELSE IF n <= Len(a) + Len(b) THEN b[n - Len(a)]
                 ELSE c[n - Len(a) - Len(b)]

LEMMA JoinedTwo ==
    ASSUME NEW T, NEW a \in Seq(T), NEW b \in Seq(T)
    PROVE  a \o b \in Seq(T) /\ IsJoin(a \o b, a, b)
BY DEF IsJoin

LEMMA Joined ==
    ASSUME NEW T, NEW a \in Seq(T), NEW b \in Seq(T), NEW c \in Seq(T)
    PROVE  a \o b \o c \in Seq(T) /\ IsJoinOfThree(a \o b \o c, a, b, c)
<1> DEFINE p == a \o b
           w == p \o c
<1>1. p \in Seq(T) /\ IsJoin(p, a, b)
  BY Zenon, JoinedTwo
<1>2. w \in Seq(T) /\ IsJoin(w, p, c)
  BY Zenon, <1>1, JoinedTwo
<1> HIDE DEF p, w
<1>3. /\ Len(a) \in Nat /\ Len(b) \in Nat /\ Len(c) \in Nat
      /\ Len(p) = Len(a) + Len(b) /\ Len(w) = Len(a) + Len(b) + Len(c)
  BY <1>1, <1>2 DEF IsJoin
<1>4. ASSUME NEW n \in 1..Len(a) + Len(b) + Len(c)
      PROVE  w[n] = IF n <= Len(a) THEN a[n]
                    ELSE IF n <= Len(a) + Len(b) THEN b[n - Len(a)]
                    ELSE c[n - Len(a) - Len(b)]
  <2>1. w[n] = IF n <= Len(p) THEN p[n] ELSE c[n - Len(p)]
    BY <1>2, <1>3 DEF IsJoin
  <2>2. n - Len(p) = n - Len(a) - Len(b)
    BY <1>3
  <2>3. n \in 1..Len(p) => p[n] = IF n <= Len(a) THEN a[n] ELSE b[n - Len(a)]
    BY <1>1, <1>3 DEF IsJoin
  <2> QED BY <1>3, <2>1, <2>2, <2>3
<1> QED BY <1>2, <1>3, <1>4 DEF IsJoinOfThree, w, p

\* The snapshot of the actor's lists: its queued requests are those of the queue.
LEMMA StatesType ==
    ASSUME TypeOK
    PROVE  /\ RequestStates \in Snapshots(Requests, {Key[r] : r \in Requests})
           /\ \A i \in NormalHead(RequestStates) :
                 i \in DOMAIN queue /\ RequestStates[i] = State(queue[i], "queued")
<1> DEFINE T == [id : Requests, key : {Key[r] : r \in Requests}, slo : Int, margin : Int,
                 phase : Phases, queued : Int]
           Q == [n \in DOMAIN queue |-> State(queue[n], "queued")]
           D == [n \in DOMAIN deferred |-> State(deferred[n], "deferred")]
           A == [n \in DOMAIN active |-> State(active[n], "running")]
<1>1. ASSUME NEW r \in Requests, NEW phase \in Phases PROVE State(r, phase) \in T
  <2>1. Slo[r] \in Int /\ Margin[r] \in Nat /\ req[r] \in ReqType /\ now \in Int
        /\ batch.started \in Int /\ MaxTime \in Nat
    BY ActorAssumption DEF TypeOK
  <2>2. req[r].received \in Int
    BY <2>1 DEF ReqType
  <2> QED BY <2>1, <2>2 DEF State, Remaining
<1>2. queue \in Seq(Requests) /\ deferred \in Seq(Requests) /\ active \in Seq(Requests)
  BY DEF TypeOK
<1>3. {"queued", "deferred", "running"} \subseteq Phases
  BY DEF Phases
<1>4. /\ \A n \in DOMAIN queue : State(queue[n], "queued") \in T
      /\ \A n \in DOMAIN deferred : State(deferred[n], "deferred") \in T
      /\ \A n \in DOMAIN active : State(active[n], "running") \in T
  <2> HIDE DEF T
  <2> QED BY <1>1, <1>2, <1>3
<1> HIDE DEF T
<1>a. ASSUME NEW s \in Seq(Requests), NEW phase, \A n \in DOMAIN s : State(s[n], phase) \in T
      PROVE  /\ [n \in DOMAIN s |-> State(s[n], phase)] \in Seq(T)
             /\ Len([n \in DOMAIN s |-> State(s[n], phase)]) = Len(s)
  <2>1. DOMAIN s = 1..Len(s) /\ Len(s) \in Nat
    OBVIOUS
  <2>2. [n \in DOMAIN s |-> State(s[n], phase)] \in [1..Len(s) -> T]
    BY <1>a, <2>1
  <2> QED BY <2>1, <2>2
<1>5. Q \in Seq(T) /\ D \in Seq(T) /\ A \in Seq(T)
      /\ Len(Q) = Len(queue) /\ Len(D) = Len(deferred) /\ Len(A) = Len(active)
  BY <1>2, <1>4, <1>a
<1>6. RequestStates = Q \o D \o A
  BY DEF RequestStates
<1>7. Q \o D \o A \in Seq(T) /\ Len(Q \o D \o A) = Len(queue) + Len(deferred) + Len(active)
  <2> HIDE DEF Q, D, A
  <2>1. Q \o D \o A \in Seq(T) /\ IsJoinOfThree(Q \o D \o A, Q, D, A)
    BY Zenon, <1>5, Joined
  <2> QED BY Zenon, <1>5, <2>1 DEF IsJoinOfThree
<1>8. ASSUME NEW i \in NormalHead(RequestStates)
      PROVE  i \in DOMAIN queue /\ RequestStates[i] = State(queue[i], "queued")
  <2>1. i \in 1..Len(queue) + Len(deferred) + Len(active) /\ RequestStates[i].phase = "queued"
    BY <1>6, <1>7 DEF NormalHead, Normal
  <2>2. Len(queue) \in Nat /\ Len(deferred) \in Nat /\ Len(active) \in Nat
    BY <1>2
  <2>3. (Q \o D \o A)[i] = IF i <= Len(queue) THEN Q[i]
                          ELSE IF i <= Len(queue) + Len(deferred) THEN D[i - Len(queue)]
                          ELSE A[i - Len(queue) - Len(deferred)]
    <3> HIDE DEF Q, D, A
    <3>1. IsJoinOfThree(Q \o D \o A, Q, D, A)
      BY Zenon, <1>5, Joined
    <3> DEFINE w == Q \o D \o A
    <3>2. \A n \in 1..Len(Q) + Len(D) + Len(A) :
             w[n] = IF n <= Len(Q) THEN Q[n]
                    ELSE IF n <= Len(Q) + Len(D) THEN D[n - Len(Q)]
                    ELSE A[n - Len(Q) - Len(D)]
      BY <3>1 DEF IsJoinOfThree
    <3> HIDE DEF w
    <3>3. w[i] = IF i <= Len(queue) THEN Q[i]
                 ELSE IF i <= Len(queue) + Len(deferred) THEN D[i - Len(queue)]
                 ELSE A[i - Len(queue) - Len(deferred)]
      BY <1>5, <2>1, <3>2
    <3> QED BY <3>3 DEF w
  <2>4. CASE i <= Len(queue)
    BY <2>1, <2>2, <2>3, <2>4, <1>2, <1>6
  <2>5. CASE ~(i <= Len(queue)) /\ i <= Len(queue) + Len(deferred)
    <3>1. i - Len(queue) \in DOMAIN deferred
      BY <2>1, <2>2, <2>5, <1>2
    <3>2. RequestStates[i] = State(deferred[i - Len(queue)], "deferred")
      BY <3>1, <2>3, <2>5, <1>6
    <3> QED BY <3>2, <2>1 DEF State
  <2>6. CASE ~(i <= Len(queue) + Len(deferred))
    <3>1. i - Len(queue) - Len(deferred) \in DOMAIN active
      BY <2>1, <2>2, <2>6, <1>2
    <3>2. ~(i <= Len(queue))
      BY <2>1, <2>2, <2>6
    <3>3. RequestStates[i] = A[i - Len(queue) - Len(deferred)]
      BY <3>2, <2>3, <2>6, <1>6
    <3>4. RequestStates[i] = State(active[i - Len(queue) - Len(deferred)], "running")
      BY <3>1, <3>3
    <3> QED BY <3>4, <2>1 DEF State
  <2> QED BY <2>4, <2>5, <2>6
<1> QED BY <1>6, <1>7, <1>8 DEF Snapshots, T

\* A finite set of integers has a least member.
LEMMA IntMinimum ==
    ASSUME NEW T \in SUBSET Int, IsFiniteSet(T), T # {}
    PROVE  (CHOOSE t \in T : \A u \in T : t <= u) \in Int
<1> DEFINE R == {p \in T \X T : p[1] < p[2]}
<1>1. \A t \in T : <<t, t>> \notin R
  OBVIOUS
<1>2. \A t, u, v \in T : <<t, u>> \in R /\ <<u, v>> \in R => <<t, v>> \in R
  OBVIOUS
<1>3. \A t, u \in T : <<u, t>> \notin R => t <= u
  OBVIOUS
<1> HIDE DEF R
<1>4. \E t \in T : \A u \in T : <<u, t>> \notin R
  BY <1>1, <1>2, FiniteMinimum
<1>5. \E t \in T : \A u \in T : t <= u
  BY <1>3, <1>4
<1> QED BY <1>5

\* The values of a function on a finite set are finitely many.
LEMMA ImageFinite ==
    ASSUME NEW S, IsFiniteSet(S), NEW f
    PROVE  IsFiniteSet({f[x] : x \in S})
<1> DEFINE g == [x \in S |-> f[x]]
<1>1. g \in Surjection(S, {f[x] : x \in S})
  BY DEF Surjection
<1> QED BY <1>1, FS_Surjection

\* What the actor holds are requests, and finitely many.
LEMMA Lists ==
    ASSUME TypeOK
    PROVE  /\ Range(queue) \in SUBSET Requests /\ IsFiniteSet(Range(queue))
           /\ Range(deferred) \in SUBSET Requests /\ IsFiniteSet(Range(deferred))
           /\ Range(active) \in SUBSET Requests /\ IsFiniteSet(Range(active))
           /\ Held \in SUBSET Requests
           /\ IsFiniteSet(Range(queue) \cup Range(deferred))
<1>1. queue \in Seq(Requests) /\ deferred \in Seq(Requests) /\ active \in Seq(Requests)
  BY DEF TypeOK
<1>2. IsFiniteSet(Range(queue)) /\ IsFiniteSet(Range(deferred)) /\ IsFiniteSet(Range(active))
  BY <1>1, RangeFinite
<1>3. /\ Range(queue) \in SUBSET Requests /\ Range(deferred) \in SUBSET Requests
      /\ Range(active) \in SUBSET Requests
  BY <1>1 DEF Range
<1> QED BY <1>2, <1>3, FS_Union DEF Held

\* The times of a request are times.
LEMMA Times ==
    ASSUME TypeOK, NEW r \in Requests
    PROVE  /\ req[r].received \in Int /\ Slo[r] \in Int /\ Margin[r] \in Nat
           /\ Lifetime[r] \in Nat /\ Bytes[r] \in Nat
           /\ LifetimeEnd(r) \in Int /\ Remaining(r) \in Int /\ now \in Int
<1>1. req[r] \in ReqType /\ MaxTime \in Nat /\ now \in 0..MaxTime
  BY ActorAssumption DEF TypeOK
<1>2. req[r].received \in Int /\ now \in Int
  BY <1>1 DEF ReqType
<1> QED BY <1>2, ActorAssumption DEF LifetimeEnd, Remaining

\* The timer is set to a time or not at all.
LEMMA NextExpiryType ==
    ASSUME TypeOK, NEW kept \in SUBSET (Range(queue) \cup Range(deferred))
    PROVE  NextExpiry(kept) \in Int
<1> DEFINE ends == [r \in Requests |-> LifetimeEnd(r)]
           dues == [r \in Requests |-> now + Remaining(r)]
           K == {q \in kept : Lifetime[q] > 0}
           E == {LifetimeEnd(r) : r \in K}
           D == IF DropsLate THEN {now + Remaining(r) : r \in kept \cap Range(queue)} ELSE {}
<1>1. kept \in SUBSET Requests /\ IsFiniteSet(kept) /\ K \in SUBSET Requests
  BY Lists, FS_Subset
<1>2. IsFiniteSet(K) /\ IsFiniteSet(kept \cap Range(queue))
  BY <1>1, FS_Subset
<1>3. E = {ends[r] : r \in K}
  BY <1>1
<1>4. IsFiniteSet(E)
  <2> HIDE DEF ends, E, K
  <2> QED BY <1>2, <1>3, ImageFinite
<1>5. {now + Remaining(r) : r \in kept \cap Range(queue)} = {dues[r] : r \in kept \cap Range(queue)}
  BY <1>1
<1>6. IsFiniteSet({now + Remaining(r) : r \in kept \cap Range(queue)})
  <2> HIDE DEF dues
  <2> QED BY <1>2, <1>5, ImageFinite
<1>7. IsFiniteSet(D)
  BY <1>6, FS_EmptySet
<1>8. E \in SUBSET Int /\ D \in SUBSET Int
  BY <1>1, Times
<1>9. NextExpiry(kept) = IF E \cup D = {} THEN None ELSE CHOOSE t \in E \cup D : \A u \in E \cup D : t <= u
  BY DEF NextExpiry
<1>10. IsFiniteSet(E \cup D) /\ E \cup D \in SUBSET Int
  BY <1>4, <1>7, <1>8, FS_Union
<1> DEFINE U == E \cup D
<1>11. NextExpiry(kept) = IF U = {} THEN None ELSE CHOOSE t \in U : \A u \in U : t <= u
  BY <1>9
<1>12. IsFiniteSet(U) /\ U \in SUBSET Int
  BY <1>10
<1> HIDE DEF U
<1>13. U # {} => (CHOOSE t \in U : \A u \in U : t <= u) \in Int
  BY <1>12, IntMinimum
<1> QED BY <1>11, <1>13 DEF None

\* What the policy or profiling can choose.  Only what is queued is dropped or
\* deferred, and a batch has a reason and the cost of its profile.
LEMMA ChooseType ==
    ASSUME TypeOK, NEW cost \in Costs, NEW interval \in Intervals
    PROVE  LET c == Choose(cost, interval)
           IN  /\ c.reason \in Reasons
               /\ c.reason \in {"drop", "defer"} => c.size = 0 /\ c.id \in Range(queue)
               /\ c.wait \in Int
               /\ c.profile \in 0..Profiles
<1> DEFINE c == Choose(cost, interval)
<1>1. interval \in Nat /\ Profiles \in Nat
  BY ActorAssumption, PolicyAssumption
<1>2. CASE queue = <<>> /\ deferred = <<>>
  BY <1>1, <1>2 DEF Choose, Choice, Reasons
<1>3. CASE ~(queue = <<>> /\ deferred = <<>>) /\ Mode = "profiling"
  BY <1>1, <1>3 DEF Choose, Choice, Reasons
<1>4. CASE ~(queue = <<>> /\ deferred = <<>>) /\ Mode # "profiling"
  <2>1. c = ChooseBatch(RequestStates, act.cap, cost, interval)
    BY <1>4 DEF Choose
  <2>2. /\ RequestStates \in Snapshots(Requests, {Key[r] : r \in Requests})
        /\ \A i \in NormalHead(RequestStates) :
              i \in DOMAIN queue /\ RequestStates[i] = State(queue[i], "queued")
    BY StatesType
  <2>3. \A i \in NormalHead(RequestStates) : RequestStates[i].id \in Range(queue)
    <3> TAKE i \in NormalHead(RequestStates)
    <3>1. i \in DOMAIN queue /\ RequestStates[i] = State(queue[i], "queued")
      BY <2>2
    <3>2. RequestStates[i].id = queue[i]
      BY <3>1 DEF State
    <3> QED BY <3>1, <3>2 DEF Range
  <2> HIDE DEF c
  <2>4. \/ /\ c.reason \in {"drop", "defer"} /\ c.size = 0
           /\ c.wait = 0 /\ c.profile = 0
           /\ \E i \in NormalHead(RequestStates) : c.id = RequestStates[i].id
        \/ /\ c.reason \in {"active", "empty", "filling"}
           /\ c.size = 0 /\ c.wait = 0 /\ c.profile = 0
        \/ c.reason = "wait" /\ c.size = 0 /\ c.profile = 0 /\ c.wait \in Int
        \/ c.reason = "fixed" /\ c.wait = 0 /\ c.profile = 0
        \/ c.reason = "energy" /\ c.wait = 0 /\ c.profile \in 1..Profiles
        \/ c.reason = "throughput" /\ c.wait = 0 /\ c.profile = 0
    BY <1>1, <2>1, <2>2, ChooseBatchType
  <2> QED BY <1>1, <2>3, <2>4 DEF Reasons, c
<1> QED BY <1>2, <1>3, <1>4

\* A new request's place is in the queue or behind it.
LEMMA InsertIndexType ==
    ASSUME TypeOK, NEW r \in Requests
    PROVE  InsertIndex(r) \in 1..Len(queue) + 1
<1> DEFINE D == {n \in DOMAIN queue : Remaining(queue[n]) <= Remaining(r)}
<1>1. queue \in Seq(Requests)
  BY DEF TypeOK
<1>2. IsFiniteSet(DOMAIN queue) /\ Cardinality(DOMAIN queue) = Len(queue) /\ Len(queue) \in Nat
  BY <1>1, SeqDomain
<1>3. Cardinality(D) \in Nat /\ Cardinality(D) <= Len(queue)
  BY <1>2, FS_Subset, FS_CardinalityType
<1>4. InsertIndex(r) = 1 + Cardinality(D)
  BY DEF InsertIndex
<1> HIDE DEF D
<1> QED BY <1>2, <1>3, <1>4

\* What remains of a list without repetitions has none, and neither has a batch.
LEMMA WithoutInjective ==
    ASSUME NEW q \in Seq(Requests), IsInjective(q), NEW R
    PROVE  IsInjective(Without(q, R))
<1> DEFINE s == Without(q, R)
<1>1. s \in Seq(Requests)
  BY WithoutElements
<1>2. ASSUME NEW i \in DOMAIN s, NEW j \in DOMAIN s, i < j PROVE s[i] # s[j]
  <2>1. PICK m \in DOMAIN q, n \in DOMAIN q : m < n /\ s[i] = q[m] /\ s[j] = q[n]
    BY <1>2, WithoutOrder
  <2>2. m # n
    BY <2>1
  <2> QED BY <2>1, <2>2 DEF IsInjective
<1> HIDE DEF s
<1>3. \A i, j \in DOMAIN s : i < j \/ j < i \/ i = j
  BY <1>1
<1>4. IsInjective(s)
  BY <1>2, <1>3 DEF IsInjective
<1> QED BY <1>4 DEF s

LEMMA AtInjective ==
    ASSUME NEW q \in Seq(Requests), IsInjective(q), NEW D \in SUBSET DOMAIN q
    PROVE  IsInjective(At(q, D))
<1> DEFINE s == At(q, D)
<1>1. s \in Seq(Requests)
  BY AtElements
<1>2. ASSUME NEW i \in DOMAIN s, NEW j \in DOMAIN s, i < j PROVE s[i] # s[j]
  <2>1. PICK m \in D, n \in D : m < n /\ s[i] = q[m] /\ s[j] = q[n]
    BY <1>2, AtOrder
  <2>2. m # n
    BY <2>1
  <2> QED BY <2>1, <2>2 DEF IsInjective
<1> HIDE DEF s
<1>3. \A i, j \in DOMAIN s : i < j \/ j < i \/ i = j
  BY <1>1
<1>4. IsInjective(s)
  BY <1>2, <1>3 DEF IsInjective
<1> QED BY <1>4 DEF s

\* A request that is new to a list is appended or inserted without a repetition.
LEMMA NewInjective ==
    ASSUME NEW q \in Seq(Requests), IsInjective(q), NEW r \in Requests, r \notin Range(q),
           NEW i \in 1..Len(q) + 1
    PROVE  IsInjective(InsertAt(q, i, r))
<1> DEFINE s == InsertAt(q, i, r)
<1>1. /\ s \in Seq(Requests) /\ DOMAIN s = 1..Len(q) + 1
      /\ \A k \in 1..Len(q) + 1 : s[k] = IF k < i THEN q[k] ELSE IF k = i THEN r ELSE q[k - 1]
  BY InsertAtElements
<1> HIDE DEF s
<1>2. Len(q) \in Nat /\ i \in Nat /\ DOMAIN q = 1..Len(q)
  BY SMTT(30)
<1>3. ASSUME NEW j \in DOMAIN s, NEW k \in DOMAIN s, j < k PROVE s[j] # s[k]
  <2>1. \A m \in DOMAIN q : q[m] # r
    BY DEF Range
  <2>2. \A m, n \in DOMAIN q : m # n => q[m] # q[n]
    BY DEF IsInjective
  <2>3. CASE k < i
    BY <1>1, <1>2, <1>3, <2>2, <2>3
  <2>4. CASE k = i
    BY <1>1, <1>2, <1>3, <2>1, <2>4
  <2>5. CASE i < k /\ j < i
    <3>1. /\ j \in DOMAIN q /\ k - 1 \in DOMAIN q /\ j # k - 1
          /\ s[j] = q[j] /\ s[k] = q[k - 1]
      BY <1>1, <1>2, <1>3, <2>5
    <3> QED BY Zenon, <2>2, <3>1
  <2>6. CASE i < k /\ j = i
    BY <1>1, <1>2, <1>3, <2>1, <2>6
  <2>7. CASE i < k /\ i < j
    <3>1. /\ j - 1 \in DOMAIN q /\ k - 1 \in DOMAIN q /\ j - 1 # k - 1
          /\ s[j] = q[j - 1] /\ s[k] = q[k - 1]
      BY <1>1, <1>2, <1>3, <2>7
    <3> QED BY Zenon, <2>2, <3>1
  <2> QED BY <1>1, <1>2, <2>3, <2>4, <2>5, <2>6, <2>7
<1>4. \A j, k \in DOMAIN s : j < k \/ k < j \/ j = k
  BY <1>1
<1>5. IsInjective(s)
  BY <1>3, <1>4 DEF IsInjective
<1> QED BY <1>5 DEF s

\* So is a request that is appended to a list.
LEMMA AppendElements ==
    ASSUME NEW q \in Seq(Requests), NEW r \in Requests
    PROVE  /\ Append(q, r) \in Seq(Requests) /\ Len(Append(q, r)) = Len(q) + 1
           /\ Range(Append(q, r)) = Range(q) \cup {r}
           /\ IsInjective(q) /\ r \notin Range(q) => IsInjective(Append(q, r))
<1> DEFINE s == Append(q, r)
<1>1. /\ s \in Seq(Requests) /\ Len(s) = Len(q) + 1 /\ DOMAIN s = 1..Len(q) + 1
      /\ \A i \in 1..Len(q) : s[i] = q[i]
      /\ s[Len(q) + 1] = r
  OBVIOUS
<1>2. Len(q) \in Nat /\ DOMAIN q = 1..Len(q)
  OBVIOUS
<1> HIDE DEF s
<1>3. /\ \A i \in DOMAIN s : i \in DOMAIN q \/ i = Len(q) + 1
      /\ \A i \in DOMAIN q : i \in DOMAIN s
      /\ Len(q) + 1 \in DOMAIN s
  BY <1>1, <1>2
<1>4. Range(s) = Range(q) \cup {r}
  BY <1>1, <1>2, <1>3 DEF Range
<1>5. ASSUME IsInjective(q), r \notin Range(q) PROVE IsInjective(s)
  <2>1. \A i, j \in DOMAIN q : q[i] = q[j] => i = j
    BY <1>5 DEF IsInjective
  <2>2. \A i \in DOMAIN q : q[i] # r
    BY <1>5 DEF Range
  <2> QED BY <1>1, <1>2, <1>3, <2>1, <2>2 DEF IsInjective
<1> QED BY <1>1, <1>4, <1>5 DEF s

-----------------------------------------------------------------------------
(* The steps                                                               *)

\* The requests of R leave the lists with their results and finished lines, and
\* nothing else happens to requests.
Ended(R) ==
    /\ R \in SUBSET Held /\ Held' = Held \ R
    /\ \A r \in R : /\ req'[r].sent = 1 /\ req'[r].progress = "finished"
                    /\ req'[r].at = req[r].at /\ req'[r].answer = req[r].answer
    /\ \A r \in Requests \ R : req'[r] = req[r]

\* Requests move between the lists: nothing has ended.
Moved ==
    /\ Held' = Held
    /\ \A r \in Requests :
          /\ req'[r].sent = req[r].sent /\ req'[r].at = req[r].at
          /\ req'[r].answer = req[r].answer
          /\ req'[r].progress = "finished" <=> req[r].progress = "finished"

\* What the end of a request changes of it.
LEMMA FinishedType ==
    ASSUME NEW q \in ReqType, q.sent = 0
    PROVE  LET p == [q EXCEPT !.sent = @ + 1, !.progress = "finished"]
           IN  /\ p \in ReqType /\ p.sent = 1 /\ p.progress = "finished"
               /\ p.at = q.at /\ p.answer = q.answer
<1> DEFINE p == [q EXCEPT !.sent = @ + 1, !.progress = "finished"]
<1>1. p.sent = 1 /\ p.progress = "finished" /\ p.at = q.at /\ p.answer = q.answer
  BY DEF ReqType
<1>2. p = [at |-> q.at, canceled |-> q.canceled, received |-> q.received, sent |-> 1,
           progress |-> "finished", answer |-> q.answer]
  <2>1. q = [at |-> q.at, canceled |-> q.canceled, received |-> q.received, sent |-> q.sent,
             progress |-> q.progress, answer |-> q.answer]
    BY DEF ReqType
  <2> DEFINE w == [q EXCEPT !.sent = @ + 1]
  <2>2. w = [at |-> q.at, canceled |-> q.canceled, received |-> q.received, sent |-> 1,
             progress |-> q.progress, answer |-> q.answer]
    BY <2>1
  <2>3. p = [w EXCEPT !.progress = "finished"]
    OBVIOUS
  <2> HIDE DEF w, p
  <2> QED BY <2>2, <2>3
<1>3. 1 \in 0..2 /\ "finished" \in Phases \cup {"none", "finished"}
  OBVIOUS
<1>4. p \in ReqType
  <2> HIDE DEF p
  <2> QED BY <1>2, <1>3 DEF ReqType
<1> QED BY <1>1, <1>4

\* Results are sent to requests that leave the lists: expiry, a drop, the end of
\* a batch and a failure all do this.
LEMMA ResultsSent ==
    ASSUME TypeOK, ProgressInv, HeldInv, SentInv,
           NEW R \in SUBSET Held, req' = Finished(R),
           Range(queue') = Range(queue) \ R, Range(deferred') = Range(deferred) \ R,
           Range(active') = Range(active) \ R
    PROVE  /\ req' \in [Requests -> ReqType]
           /\ ProgressInv' /\ HeldInv' /\ SentInv' /\ Ended(R)
<1>1. Held' = Held \ R
  BY DEF Held
<1>2. R \in SUBSET Requests /\ Held \in SUBSET Requests
  BY Lists
<1>3. req \in [Requests -> ReqType]
  BY DEF TypeOK
<1>4. \A r \in R : req'[r] = [req[r] EXCEPT !.sent = @ + 1, !.progress = "finished"]
  BY <1>2 DEF Finished
<1>5. \A r \in Requests \ R : req'[r] = req[r]
  BY DEF Finished
<1>6. ASSUME NEW r \in R
      PROVE  /\ req[r].sent = 0 /\ req[r] \in ReqType /\ req'[r] \in ReqType
             /\ req'[r].sent = 1 /\ req'[r].progress = "finished"
             /\ req'[r].at = req[r].at /\ req'[r].answer = req[r].answer
  <2>1. req[r].sent = 0 /\ req[r] \in ReqType
    BY <1>2, <1>3 DEF HeldInv
  <2>2. req'[r] = [req[r] EXCEPT !.sent = @ + 1, !.progress = "finished"]
    BY <1>4
  <2> QED BY <2>1, <2>2, FinishedType
<1>7. req' \in [Requests -> ReqType]
  <2>1. req' = [r \in Requests |-> req'[r]]
    BY DEF Finished
  <2>2. \A r \in Requests : req'[r] \in ReqType
    BY <1>3, <1>5, <1>6
  <2> QED BY <2>1, <2>2
<1>8. ProgressInv'
  BY <1>2, <1>5, Lists DEF ProgressInv
<1>9. HeldInv'
  BY <1>1, <1>2, <1>5 DEF HeldInv
<1>10. SentInv'
  <2> SUFFICES ASSUME NEW r \in Requests
               PROVE  /\ req'[r].sent <= 1
                      /\ req'[r].at \in {"new", "offer"} => req'[r].sent = 0 /\ req'[r].progress = "none"
                      /\ req'[r].at # "gone" => req'[r].answer = "none"
                      /\ req'[r].at = "wait" /\ r \notin Held' => req'[r].sent = 1
                      /\ req'[r].progress = "finished" => req'[r].sent = 1
    BY DEF SentInv
  <2>1. CASE r \in R
    <3>1. req[r].at \notin {"new", "offer"}
      BY <2>1 DEF HeldInv
    <3> QED BY <3>1, <2>1, <1>6 DEF SentInv
  <2>2. CASE r \notin R
    BY <2>2, <1>1, <1>5 DEF SentInv
  <2> QED BY <2>1, <2>2
<1>11. Ended(R)
  BY <1>1, <1>5, <1>6 DEF Ended
<1> QED BY <1>7, <1>8, <1>9, <1>10, <1>11

\* The lists are disjoint: a request's progress tells which one holds it.
LEMMA Disjoint ==
    ASSUME ProgressInv
    PROVE  /\ Range(queue) \cap Range(deferred) = {}
           /\ Range(queue) \cap Range(active) = {}
           /\ Range(deferred) \cap Range(active) = {}
BY DEF ProgressInv

\* A step of a handler that leaves the lists and the actor's bytes alone, and
\* changes one request that is not held, or held and given up.
LEMMA HandlerStep ==
    ASSUME IInv, NEW r \in Requests, NEW q, req' = [req EXCEPT ![r] = q],
           UNCHANGED <<now, queue, deferred, active, batch, runner>>,
           act' = act \/ act' = [act EXCEPT !.wake = TRUE],
           q \in ReqType, q.sent = req[r].sent, q.progress = req[r].progress,
           q.at \in {"new", "offer"} => req[r].at \in {"new", "offer"},
           q.at # "gone" => q.answer = "none",
           q.at = "wait" => req[r].at = "wait",
           r \in Held => q.at = "wait" \/ (q.at = "gone" /\ q.answer = "incomplete")
    PROVE  IInv'
<1>1. req \in [Requests -> ReqType] /\ act \in ActType
  BY DEF IInv, TypeOK
<1>2. /\ req'[r] = q /\ \A p \in Requests \ {r} : req'[p] = req[p]
      /\ req' \in [Requests -> ReqType]
  BY <1>1
<1>3. act' \in ActType /\ act'.pc = act.pc /\ act'.bytes = act.bytes
  BY <1>1 DEF ActType
<1>4. Held' = Held /\ Held \in SUBSET Requests
  BY Lists DEF Held, IInv
<1>5. TypeOK'
  BY <1>2, <1>3 DEF IInv, TypeOK
<1>6. QueueBounds'
  BY <1>3 DEF IInv, QueueBounds
<1>7. ProgressInv'
  <2>1. \A p \in Requests : req'[p].progress = req[p].progress
    BY <1>2
  <2> QED BY <2>1, Lists DEF IInv, ProgressInv
<1>8. HeldInv'
  BY <1>2, <1>4 DEF IInv, HeldInv
<1>9. SentInv'
  BY <1>2, <1>4 DEF IInv, SentInv
<1>10. DistinctInv' /\ TurnInv'
  BY <1>3 DEF IInv, DistinctInv, TurnInv
<1> QED BY <1>5, <1>6, <1>7, <1>8, <1>9, <1>10 DEF IInv

LEMMA ServeStep == ASSUME IInv, NEW r \in Requests, Serve(r) PROVE IInv'
<1>1. req[r] \in ReqType /\ req \in [Requests -> ReqType] /\ now \in 0..MaxTime
  BY DEF IInv, TypeOK
<1>2. r \notin Held /\ req[r].answer = "none" /\ req[r].at = "new"
  BY DEF IInv, HeldInv, SentInv, Serve
<1>3. CASE req' = [req EXCEPT ![r].at = "offer", ![r].received = now]
  <2> DEFINE q == [[req[r] EXCEPT !.at = "offer"] EXCEPT !.received = now]
  <2>1. req' = [req EXCEPT ![r] = q]
    BY <1>1, <1>3
  <2>2. q.sent = req[r].sent /\ q.progress = req[r].progress /\ q.at = "offer" /\ q.answer = "none"
    BY <1>1, <1>2 DEF ReqType
  <2>3. q \in ReqType
    BY <1>1 DEF ReqType
  <2> HIDE DEF q
  <2> QED BY <2>1, <2>2, <2>3, <1>2, HandlerStep DEF Serve
<1>4. CASE req' = [req EXCEPT ![r].at = "gone", ![r].answer = "complete"]
  <2> DEFINE q == [[req[r] EXCEPT !.at = "gone"] EXCEPT !.answer = "complete"]
  <2>1. req' = [req EXCEPT ![r] = q]
    BY <1>1, <1>4
  <2>2. q.sent = req[r].sent /\ q.progress = req[r].progress /\ q.at = "gone"
    BY <1>1, <1>2 DEF ReqType
  <2>3. q \in ReqType
    BY <1>1 DEF ReqType
  <2> HIDE DEF q
  <2> QED BY <2>1, <2>2, <2>3, <1>2, HandlerStep DEF Serve
<1> QED BY <1>3, <1>4 DEF Serve

LEMMA CancelStep == ASSUME IInv, NEW r \in Requests, Cancel(r) PROVE IInv'
<1>1. req[r] \in ReqType /\ req \in [Requests -> ReqType]
  BY DEF IInv, TypeOK
<1> DEFINE q == [req[r] EXCEPT !.canceled = TRUE]
<1>2. req' = [req EXCEPT ![r] = q]
  BY <1>1 DEF Cancel
<1>3. /\ q.sent = req[r].sent /\ q.progress = req[r].progress /\ q.at = req[r].at
      /\ q.answer = req[r].answer /\ q \in ReqType
  BY <1>1 DEF ReqType
<1>4. req[r].at # "gone" => req[r].answer = "none"
  BY DEF IInv, SentInv
<1>5. r \in Held => req[r].at = "wait" \/ (req[r].at = "gone" /\ req[r].answer = "incomplete")
  BY DEF IInv, HeldInv
<1> HIDE DEF q
<1> QED BY <1>2, <1>3, <1>4, <1>5, HandlerStep DEF Cancel

\* Withdraw and Return: the handler leaves a request that the actor does not hold.
LEMMA LeaveStep ==
    ASSUME IInv, NEW r \in Requests, r \notin Held,
           req' = [req EXCEPT ![r].at = "gone", ![r].answer = "complete"],
           UNCHANGED <<now, queue, deferred, active, act, batch, runner>>
    PROVE  IInv'
<1>1. req[r] \in ReqType /\ req \in [Requests -> ReqType]
  BY DEF IInv, TypeOK
<1> DEFINE q == [[req[r] EXCEPT !.at = "gone"] EXCEPT !.answer = "complete"]
<1>2. req' = [req EXCEPT ![r] = q]
  BY <1>1
<1>3. /\ q.sent = req[r].sent /\ q.progress = req[r].progress /\ q.at = "gone" /\ q \in ReqType
  BY <1>1 DEF ReqType
<1> HIDE DEF q
<1> QED BY <1>2, <1>3, HandlerStep

LEMMA WithdrawStep == ASSUME IInv, NEW r \in Requests, Withdraw(r) PROVE IInv'
<1>1. r \notin Held
  BY DEF IInv, HeldInv, Withdraw
<1> QED BY <1>1, LeaveStep DEF Withdraw

LEMMA ReturnStep == ASSUME IInv, NEW r \in Requests, Return(r) PROVE IInv'
<1>1. r \notin Held
  BY DEF IInv, HeldInv, Return
<1> QED BY <1>1, LeaveStep DEF Return

LEMMA AbandonStep == ASSUME IInv, NEW r \in Requests, Abandon(r) PROVE IInv'
<1>1. req[r] \in ReqType /\ req \in [Requests -> ReqType]
  BY DEF IInv, TypeOK
<1> DEFINE q == [[req[r] EXCEPT !.at = "gone"] EXCEPT !.answer = "incomplete"]
<1>2. req' = [req EXCEPT ![r] = q]
  BY <1>1 DEF Abandon
<1>3. /\ q.sent = req[r].sent /\ q.progress = req[r].progress
      /\ q.at = "gone" /\ q.answer = "incomplete" /\ q \in ReqType
  BY <1>1 DEF ReqType
<1> HIDE DEF q
<1> QED BY <1>2, <1>3, HandlerStep DEF Abandon

\* The loop's bookkeeping, the runner and the clock touch no request.
LEMMA QuietStep ==
    ASSUME IInv, TypeOK', UNCHANGED <<req, queue, deferred, active>>,
           act'.bytes = act.bytes, act'.pc = "batch" => act.pc = "batch",
           act.pc = "done" => act'.pc = "done"
    PROVE  IInv'
<1>1. Held' = Held
  BY DEF Held
<1> QED BY <1>1 DEF IInv, QueueBounds, ProgressInv, HeldInv, SentInv, DistinctInv, TurnInv

\* A new turn changes the actor's position and its timer.
LEMMA TurnType ==
    ASSUME TypeOK
    PROVE  /\ Turn(act) \in ActType /\ act \in ActType
           /\ Turn(act).pc = "expire" /\ Turn(act).bytes = act.bytes
<1>1. act \in ActType
  BY DEF TypeOK
<1> DEFINE a == [act EXCEPT !.pc = "expire"]
<1>2. a \in ActType /\ a.pc = "expire" /\ a.bytes = act.bytes
  BY <1>1 DEF ActType
<1>3. Turn(act) = [a EXCEPT !.next = None]
  BY DEF Turn
<1> HIDE DEF a
<1>4. None \in Int
  BY DEF None
<1>5. Turn(act) \in ActType /\ Turn(act).pc = "expire" /\ Turn(act).bytes = act.bytes
  BY <1>2, <1>3, <1>4 DEF ActType
<1> QED BY <1>1, <1>5

LEMMA UpdateStep == ASSUME IInv, NEW cap \in Caps, Update(cap) PROVE IInv'
<1>1. cap \in Nat
  BY ActorAssumption
<1>2. Turn(act) \in ActType /\ Turn(act).pc = "expire" /\ Turn(act).bytes = act.bytes
  BY TurnType DEF IInv
<1>3. act' = [Turn(act) EXCEPT !.cap = cap] /\ act.pc = "select"
  BY DEF Update
<1>4. act' \in ActType /\ act'.bytes = act.bytes /\ act'.pc = "expire"
  BY <1>1, <1>2, <1>3 DEF ActType
<1>5. TypeOK'
  BY <1>4 DEF IInv, TypeOK, Update
<1> QED BY <1>3, <1>4, <1>5, QuietStep DEF Update

LEMMA WakeStep == ASSUME IInv, Wake PROVE IInv'
<1>1. Turn(act) \in ActType /\ Turn(act).pc = "expire" /\ Turn(act).bytes = act.bytes
  BY TurnType DEF IInv
<1>2. act' = Turn(act) \/ act' = [Turn(act) EXCEPT !.wake = FALSE]
  BY DEF Wake
<1>3. act' \in ActType /\ act'.bytes = act.bytes /\ act'.pc = "expire"
  BY <1>1, <1>2 DEF ActType
<1>4. TypeOK'
  BY <1>3 DEF IInv, TypeOK, Wake
<1> QED BY <1>3, <1>4, QuietStep DEF Wake

LEMMA InferStep == ASSUME IInv, Infer PROVE IInv'
<1>1. runner \in RunnerType
  BY DEF IInv, TypeOK
<1>2. ASSUME NEW v \in ExchangeResults,
             runner' = [runner EXCEPT !.exchange = "idle", !.completed = v]
      PROVE  runner' \in RunnerType
  <2> DEFINE i == [runner EXCEPT !.exchange = "idle"]
  <2>1. i \in RunnerType
    BY <1>1 DEF RunnerType
  <2>2. runner' = [i EXCEPT !.completed = v]
    BY <1>2
  <2>3. v \in {"output", "batch_error"}
    BY DEF ExchangeResults
  <2> HIDE DEF i
  <2> QED BY <2>1, <2>2, <2>3 DEF RunnerType
<1>3. ASSUME runner' = [alive |-> FALSE, exchange |-> "idle", completed |-> "fatal"]
      PROVE  runner' \in RunnerType
  BY <1>3 DEF RunnerType
<1>4. runner' \in RunnerType
  BY <1>2, <1>3 DEF Infer
<1>5. TypeOK' /\ act'.bytes = act.bytes /\ act'.pc = act.pc
  BY <1>4 DEF IInv, TypeOK, Infer
<1> QED BY <1>5, QuietStep DEF Infer

LEMMA RunnerExitStep == ASSUME IInv, RunnerExit PROVE IInv'
<1>1. TypeOK' /\ act'.bytes = act.bytes /\ act'.pc = act.pc
  BY DEF IInv, TypeOK, RunnerExit, RunnerType
<1> QED BY <1>1, QuietStep DEF RunnerExit

LEMMA TerminateStep == ASSUME IInv, Terminate PROVE IInv'
<1>1. TypeOK' /\ act'.bytes = act.bytes /\ act'.pc = act.pc
  BY DEF IInv, TypeOK, Terminate, ActType
<1> QED BY <1>1, QuietStep DEF Terminate

LEMMA TickStep == ASSUME IInv, Tick PROVE IInv'
<1>1. MaxTime \in Nat
  BY ActorAssumption
<1>2. TypeOK' /\ act'.bytes = act.bytes /\ act'.pc = act.pc
  BY <1>1 DEF IInv, TypeOK, Tick
<1> QED BY <1>2, QuietStep DEF Tick

\* The bytes that wait are the sum of what leaves and what stays.
LEMMA BytesLeft ==
    ASSUME IInv, act.pc # "done", NEW R \in SUBSET (Range(queue) \cup Range(deferred))
    PROVE  /\ act.bytes - BytesOf(R) = BytesOf((Range(queue) \cup Range(deferred)) \ R)
           /\ act.bytes - BytesOf(R) \in Nat /\ act.bytes - BytesOf(R) <= MaxQueueBytes
<1> DEFINE W == Range(queue) \cup Range(deferred)
<1>1. W \in SUBSET Requests /\ IsFiniteSet(W)
  BY Lists DEF IInv
<1>2. act.bytes = BytesOf(W) /\ act.bytes <= MaxQueueBytes /\ MaxQueueBytes \in Nat
  BY ActorAssumption DEF IInv, QueueBounds
<1> HIDE DEF W
<1>3. /\ BytesOf(W \ R) = BytesOf(W) - BytesOf(R)
      /\ BytesOf(W) \in Nat /\ BytesOf(R) \in Nat /\ BytesOf(W \ R) \in Nat
  BY <1>1, BytesOfRest DEF W
<1> QED BY <1>2, <1>3 DEF W

LEMMA ExpireStep == ASSUME IInv, ExpireQueued PROVE IInv' /\ Ended(Expired)
<1> DEFINE W == Range(queue) \cup Range(deferred)
<1>1. Expired \in SUBSET W /\ Expired \in SUBSET Held /\ Expired \cap Range(active) = {}
  BY Disjoint DEF Expired, Held, IInv
<1>2. queue \in Seq(Requests) /\ deferred \in Seq(Requests) /\ act \in ActType
  BY DEF IInv, TypeOK
<1>3. /\ queue' = Without(queue, Expired) /\ deferred' = Without(deferred, Expired)
      /\ req' = Finished(Expired) /\ active' = active /\ now' = now /\ batch' = batch
      /\ runner' = runner /\ act.pc = "expire"
      /\ act' = [[[act EXCEPT !.pc = IF active = <<>> THEN "batch" ELSE "select"]
                      EXCEPT !.bytes = @ - BytesOf(Expired)]
                      EXCEPT !.next = NextExpiry(W \ Expired)]
  BY DEF ExpireQueued
<1>4. /\ queue' \in Seq(Requests) /\ Range(queue') = Range(queue) \ Expired /\ Len(queue') <= Len(queue)
      /\ deferred' \in Seq(Requests) /\ Range(deferred') = Range(deferred) \ Expired
      /\ Len(deferred') <= Len(deferred)
      /\ Range(active') = Range(active) \ Expired
  BY <1>1, <1>2, <1>3, WithoutElements
<1>5. /\ req' \in [Requests -> ReqType] /\ ProgressInv' /\ HeldInv' /\ SentInv'
      /\ Ended(Expired)
  BY <1>1, <1>3, <1>4, ResultsSent DEF IInv
<1>6. DistinctInv'
  BY <1>2, <1>3, WithoutInjective DEF IInv, DistinctInv
<1>7. /\ act.bytes - BytesOf(Expired) = BytesOf(W \ Expired)
      /\ act.bytes - BytesOf(Expired) \in Nat /\ act.bytes - BytesOf(Expired) <= MaxQueueBytes
  BY <1>1, <1>3, BytesLeft
<1>8. NextExpiry(W \ Expired) \in Int
  BY NextExpiryType DEF IInv
<1>9. /\ act' \in ActType /\ act'.pc = (IF active = <<>> THEN "batch" ELSE "select")
      /\ act'.bytes = act.bytes - BytesOf(Expired)
  <2> DEFINE x == IF active = <<>> THEN "batch" ELSE "select"
             y == act.bytes - BytesOf(Expired)
             z == NextExpiry(W \ Expired)
             a == [act EXCEPT !.pc = x]
             b == [a EXCEPT !.bytes = y]
  <2>1. a \in ActType /\ a.pc = x /\ a.bytes = act.bytes
    BY <1>2 DEF ActType
  <2>2. act' = [[a EXCEPT !.bytes = @ - BytesOf(Expired)] EXCEPT !.next = z]
    BY <1>3
  <2>3. x \in {"batch", "select"}
    OBVIOUS
  <2> HIDE DEF a, x, z
  <2>4. act' = [b EXCEPT !.next = z]
    BY <2>1, <2>2
  <2> HIDE DEF y
  <2>5. b \in ActType /\ b.pc = x /\ b.bytes = y
    BY <1>7, <2>1 DEF ActType, y
  <2> HIDE DEF b
  <2>6. act' \in ActType /\ act'.pc = x /\ act'.bytes = y
    BY <1>8, <2>4, <2>5 DEF ActType, z
  <2> QED BY <2>6 DEF x, y
<1>10. TypeOK'
  BY <1>3, <1>4, <1>5, <1>9 DEF IInv, TypeOK
<1>11. QueueBounds'
  <2>1. Range(queue') \cup Range(deferred') = W \ Expired
    BY <1>4
  <2>2. Len(queue') + Len(deferred') <= MaxQueueRequests
    BY <1>2, <1>4, ActorAssumption DEF IInv, QueueBounds
  <2> QED BY <1>7, <1>9, <2>1, <2>2 DEF QueueBounds
<1>12. TurnInv'
  BY <1>3, <1>9 DEF TurnInv
<1> QED BY <1>5, <1>6, <1>10, <1>11, <1>12 DEF IInv

LEMMA FinishStep == ASSUME IInv, FinishBatch PROVE IInv' /\ Ended(Range(active))
<1> DEFINE R == Range(active)
<1>1. R \in SUBSET Held /\ R \cap Range(queue) = {} /\ R \cap Range(deferred) = {}
  BY Disjoint DEF IInv, Held
<1>2. /\ req' = Finished(R) /\ active' = <<>> /\ queue' = queue /\ deferred' = deferred
      /\ act' = Turn(act) /\ act.pc = "select" /\ now' = now /\ batch' = batch
      /\ runner' = [runner EXCEPT !.completed = "none"]
  BY DEF FinishBatch
<1>3. Range(queue') = Range(queue) \ R /\ Range(deferred') = Range(deferred) \ R
      /\ Range(active') = Range(active) \ R
  BY <1>1, <1>2 DEF Range
<1> HIDE DEF R
<1>4. req' \in [Requests -> ReqType] /\ ProgressInv' /\ HeldInv' /\ SentInv' /\ Ended(R)
  BY <1>1, <1>2, <1>3, ResultsSent DEF IInv
<1>5. Turn(act) \in ActType /\ Turn(act).pc = "expire" /\ Turn(act).bytes = act.bytes
  BY TurnType DEF IInv
<1>6. runner' \in RunnerType
  BY <1>2 DEF IInv, TypeOK, RunnerType
<1>7. active' \in Seq(Requests)
  BY <1>2
<1>8. TypeOK'
  BY <1>2, <1>4, <1>5, <1>6, <1>7 DEF IInv, TypeOK
<1>9. QueueBounds' /\ TurnInv'
  BY <1>2, <1>5 DEF IInv, QueueBounds, TurnInv
<1>10. DistinctInv'
  BY <1>2 DEF IInv, DistinctInv, IsInjective
<1> QED BY <1>4, <1>8, <1>9, <1>10 DEF IInv, R

LEMMA FailStep == ASSUME IInv, Fail PROVE IInv' /\ Ended(Held)
<1>1. /\ req' = Finished(Held) /\ active' = <<>> /\ queue' = <<>> /\ deferred' = <<>>
      /\ act' = [[act EXCEPT !.pc = "done"] EXCEPT !.next = None]
      /\ now' = now /\ batch' = batch
      /\ runner' = [[runner EXCEPT !.alive = FALSE] EXCEPT !.exchange = "idle"]
  BY DEF Fail
<1>2. Range(queue') = Range(queue) \ Held /\ Range(deferred') = Range(deferred) \ Held
      /\ Range(active') = Range(active) \ Held
  BY <1>1 DEF Range, Held
<1>3. req' \in [Requests -> ReqType] /\ ProgressInv' /\ HeldInv' /\ SentInv' /\ Ended(Held)
  BY <1>1, <1>2, ResultsSent DEF IInv
<1>4. act' \in ActType /\ act'.pc = "done" /\ act'.bytes = act.bytes
  <2> DEFINE a == [act EXCEPT !.pc = "done"]
  <2>1. a \in ActType /\ a.pc = "done" /\ a.bytes = act.bytes
    BY DEF IInv, TypeOK, ActType
  <2>2. act' = [a EXCEPT !.next = None] /\ None \in Int
    BY <1>1 DEF None
  <2> HIDE DEF a
  <2> QED BY <2>1, <2>2 DEF ActType
<1>5. runner' \in RunnerType
  BY <1>1 DEF IInv, TypeOK, RunnerType
<1>6. <<>> \in Seq(Requests) /\ Len(<<>>) = 0
  OBVIOUS
<1>7. TypeOK'
  BY <1>1, <1>3, <1>4, <1>5, <1>6 DEF IInv, TypeOK
<1>8. QueueBounds' /\ TurnInv'
  BY <1>1, <1>4, <1>6, ActorAssumption DEF IInv, QueueBounds, TurnInv
<1>9. DistinctInv'
  BY <1>1 DEF DistinctInv, IsInjective
<1> QED BY <1>3, <1>7, <1>8, <1>9 DEF IInv

\* The timer that a choice may set.
LEMMA TimerType ==
    ASSUME TypeOK, NEW c, c.wait \in Int
    PROVE  (IF c.wait > 0 THEN EarlierOf(act.next, now + c.wait) ELSE act.next) \in Int
<1>1. act.next \in Int /\ now \in Int
  BY ActorAssumption DEF TypeOK, ActType
<1> QED BY <1>1 DEF EarlierOf

LEMMA WaitStep ==
    ASSUME IInv, act.pc = "batch", NEW c, c.wait \in Int, WaitForMore(c)
    PROVE  IInv'
<1> DEFINE t == IF c.wait > 0 THEN EarlierOf(act.next, now + c.wait) ELSE act.next
           a == [act EXCEPT !.pc = "select"]
<1>1. t \in Int
  BY TimerType DEF IInv
<1>2. act \in ActType
  BY DEF IInv, TypeOK
<1>3. a \in ActType /\ a.pc = "select" /\ a.bytes = act.bytes /\ a.next = act.next
  BY <1>2 DEF ActType
<1>4. act' = [a EXCEPT !.next = t]
  BY <1>2, <1>3 DEF WaitForMore
<1> HIDE DEF t, a
<1>5. act' \in ActType /\ act'.pc = "select" /\ act'.bytes = act.bytes
  BY <1>1, <1>3, <1>4 DEF ActType
<1>6. TypeOK'
  BY <1>5 DEF IInv, TypeOK, WaitForMore
<1> QED BY <1>5, <1>6, QuietStep DEF WaitForMore

LEMMA DropStep ==
    ASSUME IInv, act.pc = "batch", NEW c, c.id \in Range(queue),
           DropOrDefer(c), c.reason # "defer"
    PROVE  IInv' /\ Ended({c.id})
<1> DEFINE R == {c.id}
<1>1. /\ R \in SUBSET Held /\ R \cap Range(deferred) = {} /\ R \cap Range(active) = {}
      /\ R \in SUBSET (Range(queue) \cup Range(deferred)) /\ c.id \in Requests
  BY Disjoint, Lists DEF IInv, Held
<1>2. /\ queue' = Without(queue, R) /\ req' = Finished(R) /\ deferred' = deferred
      /\ act' = [act EXCEPT !.bytes = @ - Bytes[c.id]]
      /\ now' = now /\ active' = active /\ batch' = batch /\ runner' = runner
  BY DEF DropOrDefer
<1>3. queue \in Seq(Requests) /\ deferred \in Seq(Requests) /\ act \in ActType
  BY DEF IInv, TypeOK
<1> HIDE DEF R
<1>4. queue' \in Seq(Requests) /\ Range(queue') = Range(queue) \ R /\ Len(queue') <= Len(queue)
  BY <1>2, <1>3, WithoutElements
<1>5. Range(deferred') = Range(deferred) \ R /\ Range(active') = Range(active) \ R
  BY <1>1, <1>2
<1>6. req' \in [Requests -> ReqType] /\ ProgressInv' /\ HeldInv' /\ SentInv' /\ Ended(R)
  BY <1>1, <1>2, <1>4, <1>5, ResultsSent DEF IInv
<1>7. BytesOf(R) = Bytes[c.id]
  BY <1>1, BytesOfOne DEF R
<1>8. /\ act.bytes - BytesOf(R) = BytesOf((Range(queue) \cup Range(deferred)) \ R)
      /\ act.bytes - BytesOf(R) \in Nat /\ act.bytes - BytesOf(R) <= MaxQueueBytes
  BY <1>1, BytesLeft
<1>9. act' \in ActType /\ act'.pc = "batch" /\ act'.bytes = act.bytes - BytesOf(R)
  BY <1>2, <1>3, <1>7, <1>8 DEF ActType
<1>10. TypeOK'
  BY <1>2, <1>4, <1>6, <1>9 DEF IInv, TypeOK
<1>11. QueueBounds'
  <2>1. Range(queue') \cup Range(deferred') = (Range(queue) \cup Range(deferred)) \ R
    BY <1>4, <1>5
  <2>2. Len(queue') + Len(deferred') <= MaxQueueRequests
    BY <1>2, <1>3, <1>4, ActorAssumption DEF IInv, QueueBounds
  <2> QED BY <1>8, <1>9, <2>1, <2>2 DEF QueueBounds
<1>12. DistinctInv' /\ TurnInv'
  BY <1>2, <1>3, <1>9, WithoutInjective DEF IInv, DistinctInv, TurnInv
<1> QED BY <1>6, <1>10, <1>11, <1>12 DEF IInv, R

LEMMA DeferStep ==
    ASSUME IInv, act.pc = "batch", NEW c, c.id \in Range(queue),
           DropOrDefer(c), c.reason = "defer"
    PROVE  IInv' /\ Moved
<1> DEFINE R == {c.id}
<1>1. c.id \in Requests /\ c.id \notin Range(deferred) /\ c.id \notin Range(active)
  BY Disjoint, Lists DEF IInv
<1>2. /\ queue' = Without(queue, R) /\ deferred' = Append(deferred, c.id)
      /\ req' = [req EXCEPT ![c.id].progress = "deferred"]
      /\ act' = act /\ now' = now /\ active' = active /\ batch' = batch /\ runner' = runner
  BY DEF DropOrDefer
<1>3. queue \in Seq(Requests) /\ deferred \in Seq(Requests) /\ req \in [Requests -> ReqType]
  BY DEF IInv, TypeOK
<1>4. Range(queue) \cap R # {}
  OBVIOUS
<1>5. queue' \in Seq(Requests) /\ Range(queue') = Range(queue) \ R /\ Len(queue') < Len(queue)
  <2> HIDE DEF R
  <2> QED BY <1>2, <1>3, <1>4, WithoutElements
<1>6. deferred' \in Seq(Requests) /\ Len(deferred') = Len(deferred) + 1
  BY <1>1, <1>2, <1>3, AppendElements
<1>7. Range(deferred') = Range(deferred) \cup R
  BY <1>1, <1>2, <1>3, AppendElements
<1>8. Held' = Held
  BY <1>2, <1>5, <1>7 DEF Held
<1>9. /\ req' \in [Requests -> ReqType]
      /\ req'[c.id].progress = "deferred" /\ req'[c.id].sent = req[c.id].sent
      /\ req'[c.id].at = req[c.id].at /\ req'[c.id].answer = req[c.id].answer
      /\ \A p \in Requests \ {c.id} : req'[p] = req[p]
  <2> DEFINE q == [req[c.id] EXCEPT !.progress = "deferred"]
  <2>1. req' = [req EXCEPT ![c.id] = q] /\ req[c.id] \in ReqType
    BY <1>1, <1>2, <1>3
  <2>2. q \in ReqType /\ q.progress = "deferred" /\ q.sent = req[c.id].sent
        /\ q.at = req[c.id].at /\ q.answer = req[c.id].answer
    BY <2>1 DEF ReqType, Phases
  <2> HIDE DEF q
  <2> QED BY <1>1, <1>3, <2>1, <2>2
<1>10. TypeOK'
  BY <1>2, <1>5, <1>6, <1>9 DEF IInv, TypeOK
<1>11. QueueBounds'
  <2>1. Range(queue') \cup Range(deferred') = Range(queue) \cup Range(deferred)
    BY <1>5, <1>7
  <2>2. Len(queue') + Len(deferred') <= MaxQueueRequests
    BY <1>3, <1>5, <1>6, ActorAssumption DEF IInv, QueueBounds
  <2> QED BY <1>2, <2>1, <2>2 DEF IInv, QueueBounds
<1>12. ProgressInv'
  <2>1. \A r \in Range(queue') : r \in Range(queue) /\ r \in Requests \ {c.id}
    BY <1>5, Lists DEF IInv
  <2>2. \A r \in Range(active') : r \in Range(active) /\ r \in Requests \ {c.id}
    BY <1>1, <1>2, Lists DEF IInv
  <2>3. \A r \in Range(deferred') : r = c.id \/ (r \in Range(deferred) /\ r \in Requests \ {c.id})
    BY <1>1, <1>7, Lists DEF IInv
  <2> QED BY <1>9, <2>1, <2>2, <2>3 DEF IInv, ProgressInv
<1>13. HeldInv'
  <2>1. Held \in SUBSET Requests
    BY Lists DEF IInv
  <2> QED BY <1>8, <1>9, <2>1 DEF IInv, HeldInv
<1>14. SentInv'
  <2>1. c.id \in Held /\ req[c.id].at \notin {"new", "offer"}
    BY DEF IInv, HeldInv, Held
  <2> QED BY <1>8, <1>9, <2>1 DEF IInv, SentInv
<1>15. DistinctInv'
  <2>1. IsInjective(queue') /\ IsInjective(active')
    BY <1>2, <1>3, WithoutInjective DEF IInv, DistinctInv
  <2>2. IsInjective(deferred')
    BY <1>1, <1>2, <1>3, AppendElements DEF IInv, DistinctInv
  <2> QED BY <2>1, <2>2 DEF DistinctInv
<1>16. TurnInv'
  BY <1>2 DEF IInv, TurnInv
<1>17. Moved
  <2>1. req[c.id].progress = "queued"
    BY DEF IInv, ProgressInv
  <2> QED BY <1>8, <1>9, <2>1 DEF Moved
<1> QED BY <1>10, <1>11, <1>12, <1>13, <1>14, <1>15, <1>16, <1>17 DEF IInv

\* A batch is made of requests that wait, each taken once.
LEMMA MembersType ==
    ASSUME IInv, NEW c
    PROVE  LET pending == IF queue = <<>> THEN deferred ELSE queue
           IN  /\ Members(pending, c) \in Seq(Requests)
               /\ IsInjective(Members(pending, c))
               /\ Range(Members(pending, c)) \in SUBSET (Range(queue) \cup Range(deferred))
<1> DEFINE pending == IF queue = <<>> THEN deferred ELSE queue
           D == FirstOf({n \in DOMAIN pending : Key[pending[n]] = c.key}, c.size)
<1>1. /\ pending \in Seq(Requests) /\ IsInjective(pending)
      /\ Range(pending) \in SUBSET (Range(queue) \cup Range(deferred))
  BY DEF IInv, TypeOK, DistinctInv
<1>2. D \in SUBSET DOMAIN pending
  BY DEF FirstOf
<1>3. Members(pending, c) = At(pending, D)
  BY DEF Members
<1> HIDE DEF pending, D
<1>4. At(pending, D) \in Seq(Requests) /\ IsInjective(At(pending, D))
  BY <1>1, <1>2, AtElements, AtInjective
<1>5. Range(At(pending, D)) = {pending[n] : n \in D}
  BY <1>1, <1>2, AtRange
<1>6. Range(At(pending, D)) \in SUBSET Range(pending)
  BY <1>2, <1>5 DEF Range
<1> QED BY <1>1, <1>3, <1>4, <1>6 DEF pending

LEMMA StartStep ==
    ASSUME IInv, act.pc = "batch", NEW c, NEW cost \in Costs, StartMembers(c, cost),
           c.wait \in Int, c.profile \in 0..Profiles, c.reason \in Reasons
    PROVE  IInv' /\ Moved
<1> DEFINE pending == IF queue = <<>> THEN deferred ELSE queue
           taken == Members(pending, c)
           R == Range(taken)
           W == Range(queue) \cup Range(deferred)
           t == IF c.wait > 0 THEN EarlierOf(act.next, now + c.wait) ELSE act.next
<1>1. taken \in Seq(Requests) /\ IsInjective(taken) /\ R \in SUBSET W
  BY MembersType
<1>2. active = <<>> /\ Range(active) = {}
  BY DEF IInv, TurnInv, Range
<1>3. /\ active' = taken
      /\ queue' = Without(queue, R) /\ deferred' = Without(deferred, R)
      /\ req' = [r \in Requests |->
           IF r \in R THEN [req[r] EXCEPT !.progress = "running"] ELSE req[r]]
      /\ act' = [[[act EXCEPT !.pc = "select"] EXCEPT !.bytes = @ - BytesOf(R)] EXCEPT
                   !.next = IF c.wait > 0 THEN EarlierOf(@, now + c.wait) ELSE @]
      /\ batch' = [started |-> now, reason |-> c.reason,
                   cost |-> IF c.profile = 0 THEN 0 ELSE cost.now[c.profile]]
      /\ runner' = [runner EXCEPT !.exchange = "running"]
      /\ now' = now
  BY DEF StartMembers
<1> HIDE DEF taken
<1>4. queue \in Seq(Requests) /\ deferred \in Seq(Requests) /\ req \in [Requests -> ReqType]
      /\ act \in ActType /\ runner \in RunnerType /\ now \in 0..MaxTime
  BY DEF IInv, TypeOK
<1> HIDE DEF R
<1>5. /\ queue' \in Seq(Requests) /\ Range(queue') = Range(queue) \ R /\ Len(queue') <= Len(queue)
      /\ deferred' \in Seq(Requests) /\ Range(deferred') = Range(deferred) \ R
      /\ Len(deferred') <= Len(deferred)
  BY <1>3, <1>4, WithoutElements
<1>6. Range(active') = R
  BY <1>3 DEF R
<1>7. Held' = Held
  BY <1>1, <1>2, <1>5, <1>6 DEF Held
<1>8. W \in SUBSET Requests /\ Held \in SUBSET Requests /\ R \in SUBSET Requests
  BY <1>1, Lists DEF IInv
<1>9. /\ \A r \in R : /\ req'[r] \in ReqType /\ req'[r].progress = "running"
                      /\ req'[r].sent = req[r].sent /\ req'[r].at = req[r].at
                      /\ req'[r].answer = req[r].answer
      /\ \A r \in Requests \ R : req'[r] = req[r]
  <2>1. ASSUME NEW r \in R
        PROVE  /\ req'[r] \in ReqType /\ req'[r].progress = "running"
               /\ req'[r].sent = req[r].sent /\ req'[r].at = req[r].at
               /\ req'[r].answer = req[r].answer
    <3>1. req'[r] = [req[r] EXCEPT !.progress = "running"] /\ req[r] \in ReqType
      BY <1>3, <1>4, <1>8
    <3> QED BY <3>1 DEF ReqType, Phases
  <2> QED BY <2>1, <1>3
<1>10. req' \in [Requests -> ReqType]
  <2>1. req' = [r \in Requests |-> req'[r]]
    BY <1>3
  <2>2. \A r \in Requests : req'[r] \in ReqType
    BY <1>4, <1>9
  <2> QED BY <2>1, <2>2
<1>11. /\ act.bytes - BytesOf(R) = BytesOf(W \ R)
       /\ act.bytes - BytesOf(R) \in Nat /\ act.bytes - BytesOf(R) <= MaxQueueBytes
  BY <1>1, BytesLeft
<1>12. act' \in ActType /\ act'.pc = "select" /\ act'.bytes = act.bytes - BytesOf(R)
  <2> DEFINE y == act.bytes - BytesOf(R)
             a == [act EXCEPT !.pc = "select"]
             b == [a EXCEPT !.bytes = y]
  <2>1. a \in ActType /\ a.pc = "select" /\ a.bytes = act.bytes /\ a.next = act.next
    BY <1>4 DEF ActType
  <2>2. act' = [[a EXCEPT !.bytes = @ - BytesOf(R)] EXCEPT
                  !.next = IF c.wait > 0 THEN EarlierOf(@, now + c.wait) ELSE @]
    BY <1>3
  <2> HIDE DEF a
  <2>3. b = [a EXCEPT !.bytes = @ - BytesOf(R)]
    BY <2>1
  <2> HIDE DEF y
  <2>4. b \in ActType /\ b.pc = "select" /\ b.bytes = y /\ b.next = act.next
    BY <1>11, <2>1 DEF ActType, y
  <2> HIDE DEF b
  <2>5. act' = [b EXCEPT !.next = t]
    BY <2>2, <2>3, <2>4
  <2>6. t \in Int
    BY TimerType DEF IInv
  <2> HIDE DEF t
  <2>7. act' \in ActType /\ act'.pc = "select" /\ act'.bytes = y
    BY <2>4, <2>5, <2>6 DEF ActType
  <2> QED BY <2>7 DEF y
<1>13. batch' \in [started : 0..MaxTime, cost : Nat, reason : Reasons]
  <2>1. c.profile # 0 => cost.now[c.profile] \in Nat
    BY ActorAssumption, PolicyAssumption
  <2> QED BY <1>3, <1>4, <2>1
<1>14. runner' \in RunnerType
  BY <1>3, <1>4 DEF RunnerType
<1>15. TypeOK'
  BY <1>1, <1>3, <1>4, <1>5, <1>10, <1>12, <1>13, <1>14 DEF TypeOK
<1>16. QueueBounds'
  <2>1. Range(queue') \cup Range(deferred') = W \ R
    BY <1>5
  <2>2. Len(queue') + Len(deferred') <= MaxQueueRequests
    BY <1>4, <1>5, ActorAssumption DEF IInv, QueueBounds
  <2> QED BY <1>11, <1>12, <2>1, <2>2 DEF QueueBounds
<1>17. ProgressInv'
  <2>1. \A r \in Range(queue') : r \in Range(queue) /\ r \in Requests \ R
    BY <1>5, <1>8
  <2>2. \A r \in Range(deferred') : r \in Range(deferred) /\ r \in Requests \ R
    BY <1>5, <1>8
  <2> QED BY <1>6, <1>9, <2>1, <2>2 DEF IInv, ProgressInv
<1>18. HeldInv'
  BY <1>7, <1>8, <1>9 DEF IInv, HeldInv
<1>19. SentInv'
  <2>1. \A r \in R : req[r].at \notin {"new", "offer"}
    BY <1>1 DEF IInv, HeldInv, Held
  <2> QED BY <1>7, <1>8, <1>9, <2>1 DEF IInv, SentInv
<1>20. DistinctInv'
  BY <1>1, <1>3, <1>4, WithoutInjective DEF IInv, DistinctInv
<1>21. TurnInv'
  BY <1>12 DEF TurnInv
<1>22. Moved
  <2>1. \A r \in R : req[r].progress \in {"queued", "deferred"}
    BY <1>1 DEF IInv, ProgressInv
  <2> QED BY <1>7, <1>9, <2>1 DEF Moved
<1> QED BY <1>15, <1>16, <1>17, <1>18, <1>19, <1>20, <1>21, <1>22 DEF IInv

\* A request that is refused has its result.
LEMMA RefuseStep ==
    ASSUME IInv, NEW r \in Requests, req[r].at = "offer", act.pc = "select",
           req' = [req EXCEPT ![r].at = "wait", ![r].sent = @ + 1], act' = Turn(act),
           UNCHANGED <<now, queue, deferred, active, batch, runner>>
    PROVE  IInv'
<1>1. req \in [Requests -> ReqType] /\ req[r] \in ReqType
  BY DEF IInv, TypeOK
<1>2. req[r].sent = 0 /\ req[r].progress = "none" /\ req[r].answer = "none" /\ r \notin Held
  BY DEF IInv, SentInv, HeldInv
<1> DEFINE w == [req[r] EXCEPT !.at = "wait"]
           q == [w EXCEPT !.sent = 1]
<1>3. w \in ReqType /\ w.sent = 0 /\ w.at = "wait" /\ w.progress = "none" /\ w.answer = "none"
  BY <1>1, <1>2 DEF ReqType
<1>4. req' = [req EXCEPT ![r] = [w EXCEPT !.sent = @ + 1]]
  BY <1>1
<1> HIDE DEF w
<1>5. q \in ReqType /\ q.sent = 1 /\ q.at = "wait" /\ q.progress = "none" /\ q.answer = "none"
  BY <1>3 DEF ReqType
<1>6. req' = [req EXCEPT ![r] = q]
  <2>1. [w EXCEPT !.sent = @ + 1] = q
    BY <1>3
  <2> HIDE DEF q
  <2> QED BY <1>4, <2>1
<1> HIDE DEF q
<1>7. req' \in [Requests -> ReqType] /\ req'[r] = q /\ \A p \in Requests \ {r} : req'[p] = req[p]
  BY <1>1, <1>5, <1>6
<1>8. Turn(act) \in ActType /\ Turn(act).pc = "expire" /\ Turn(act).bytes = act.bytes
  BY TurnType DEF IInv
<1>9. Held' = Held /\ Held \in SUBSET Requests
  BY Lists DEF Held, IInv
<1>10. TypeOK'
  BY <1>7, <1>8 DEF IInv, TypeOK
<1>11. QueueBounds' /\ DistinctInv' /\ TurnInv'
  BY <1>8 DEF IInv, QueueBounds, DistinctInv, TurnInv
<1>12. ProgressInv'
  BY <1>2, <1>7, Lists DEF IInv, ProgressInv, Held
<1>13. HeldInv'
  BY <1>2, <1>7, <1>9 DEF IInv, HeldInv
<1>14. SentInv'
  BY <1>5, <1>7, <1>9 DEF IInv, SentInv
<1> QED BY <1>10, <1>11, <1>12, <1>13, <1>14 DEF IInv

\* A request that fits is queued once and counted.
LEMMA QueueStep ==
    ASSUME IInv, NEW r \in Requests, req[r].at = "offer", Fits(r), act.pc = "select",
           req' = [req EXCEPT ![r].at = "wait", ![r].progress = "queued"],
           act' = [Turn(act) EXCEPT !.bytes = @ + Bytes[r]],
           queue' = IF Mode = "profiling" THEN Append(queue, r)
                    ELSE InsertAt(queue, InsertIndex(r), r),
           UNCHANGED <<now, deferred, active, batch, runner>>
    PROVE  /\ IInv' /\ Held' = Held \cup {r} /\ r \notin Held
           /\ req'[r].sent = 0 /\ req'[r].at = "wait" /\ req'[r].progress = "queued"
           /\ req'[r].answer = "none" /\ \A p \in Requests \ {r} : req'[p] = req[p]
<1>1. req \in [Requests -> ReqType] /\ req[r] \in ReqType /\ queue \in Seq(Requests)
      /\ deferred \in Seq(Requests)
  BY DEF IInv, TypeOK
<1>2. req[r].sent = 0 /\ req[r].progress = "none" /\ req[r].answer = "none" /\ r \notin Held
  BY DEF IInv, SentInv, HeldInv
<1>3. InsertIndex(r) \in 1..Len(queue) + 1
  BY InsertIndexType DEF IInv
<1>4. r \notin Range(queue) /\ r \notin Range(deferred) /\ r \notin Range(active) /\ IsInjective(queue)
  BY <1>2 DEF Held, IInv, DistinctInv
<1>5. /\ queue' \in Seq(Requests) /\ Len(queue') = Len(queue) + 1
      /\ Range(queue') = Range(queue) \cup {r} /\ IsInjective(queue')
  <2>1. CASE Mode = "profiling"
    BY <1>1, <1>4, <2>1, AppendElements
  <2>2. CASE Mode # "profiling"
    <3> DEFINE i == InsertIndex(r)
               s == InsertAt(queue, i, r)
    <3>1. queue' = s
      BY <2>2
    <3> HIDE DEF i
    <3>2. s \in Seq(Requests) /\ Len(s) = Len(queue) + 1 /\ Range(s) = Range(queue) \cup {r}
      BY <1>1, <1>3, InsertAtElements DEF i
    <3>3. IsInjective(s)
      BY <1>1, <1>3, <1>4, NewInjective DEF i
    <3> QED BY <3>1, <3>2, <3>3
  <2> QED BY <2>1, <2>2
<1> DEFINE w == [req[r] EXCEPT !.at = "wait"]
           q == [w EXCEPT !.progress = "queued"]
<1>6. w \in ReqType /\ w.sent = 0 /\ w.at = "wait" /\ w.answer = "none"
  BY <1>1, <1>2 DEF ReqType
<1>7. req' = [req EXCEPT ![r] = q]
  BY <1>1
<1> HIDE DEF w
<1>8. q \in ReqType /\ q.sent = 0 /\ q.at = "wait" /\ q.progress = "queued" /\ q.answer = "none"
  BY <1>6 DEF ReqType, Phases
<1> HIDE DEF q
<1>9. req' \in [Requests -> ReqType] /\ req'[r] = q /\ \A p \in Requests \ {r} : req'[p] = req[p]
  BY <1>1, <1>7, <1>8
<1>10. Held' = Held \cup {r} /\ Held \in SUBSET Requests
  BY <1>5, Lists DEF Held, IInv
<1> DEFINE W == Range(queue) \cup Range(deferred)
<1>11. W \in SUBSET Requests /\ IsFiniteSet(W) /\ W \cap {r} = {}
  BY <1>4, Lists DEF IInv
<1>12. /\ Bytes[r] \in Nat /\ MaxQueueBytes \in Nat /\ MaxQueueRequests \in Nat
       /\ act.bytes = BytesOf(W) /\ act.bytes \in Nat
       /\ Len(queue) \in Nat /\ Len(deferred) \in Nat
  BY SMTT(30), <1>1, ActorAssumption DEF IInv, QueueBounds, TypeOK, ActType
<1> HIDE DEF W
<1>13. BytesOf(W \cup {r}) = BytesOf(W) + Bytes[r]
  <2>1. IsFiniteSet({r}) /\ {r} \in SUBSET Requests
    BY FS_Singleton
  <2>2. BytesOf(W \cup {r}) = BytesOf(W) + BytesOf({r})
    BY <1>11, <2>1, BytesOfUnion
  <2> QED BY <2>2, BytesOfOne
<1>14. act' \in ActType /\ act'.pc = "expire" /\ act'.bytes = act.bytes + Bytes[r]
  <2>1. Turn(act) \in ActType /\ Turn(act).pc = "expire" /\ Turn(act).bytes = act.bytes
    BY TurnType DEF IInv
  <2> DEFINE a == Turn(act)
             y == act.bytes + Bytes[r]
  <2>2. act' = [a EXCEPT !.bytes = @ + Bytes[r]]
    OBVIOUS
  <2> HIDE DEF a
  <2>3. act' = [a EXCEPT !.bytes = y]
    BY <2>1, <2>2 DEF a
  <2>4. y \in Nat
    BY <1>12
  <2> HIDE DEF y
  <2>5. act' \in ActType /\ act'.pc = "expire" /\ act'.bytes = y
    BY <2>1, <2>3, <2>4 DEF ActType, a
  <2> QED BY <2>5 DEF y
<1>15. TypeOK'
  BY <1>5, <1>9, <1>14 DEF IInv, TypeOK
<1>16. QueueBounds'
  <2>1. Range(queue') \cup Range(deferred') = W \cup {r}
    BY <1>5 DEF W
  <2>2. Len(queue') + Len(deferred') <= MaxQueueRequests
    BY <1>5, <1>12 DEF Fits
  <2>3. act.bytes + Bytes[r] <= MaxQueueBytes
    BY <1>12 DEF Fits
  <2> QED BY <1>12, <1>13, <1>14, <2>1, <2>2, <2>3 DEF QueueBounds
<1>17. ProgressInv'
  <2>1. \A p \in Range(queue') : p = r \/ (p \in Range(queue) /\ p \in Requests \ {r})
    BY <1>5, Lists DEF IInv
  <2>2. \A p \in Range(deferred') : p \in Range(deferred) /\ p \in Requests \ {r}
    BY <1>4, Lists DEF IInv
  <2>3. \A p \in Range(active') : p \in Range(active) /\ p \in Requests \ {r}
    BY <1>4, Lists DEF IInv
  <2> QED BY <1>8, <1>9, <2>1, <2>2, <2>3 DEF IInv, ProgressInv
<1>18. HeldInv'
  BY <1>2, <1>8, <1>9, <1>10 DEF IInv, HeldInv
<1>19. SentInv'
  BY <1>2, <1>8, <1>9, <1>10 DEF IInv, SentInv
<1>20. DistinctInv' /\ TurnInv'
  BY <1>5, <1>14 DEF IInv, DistinctInv, TurnInv
<1> QED BY <1>2, <1>8, <1>9, <1>10, <1>15, <1>16, <1>17, <1>18, <1>19, <1>20 DEF IInv

LEMMA AdmitStep == ASSUME IInv, NEW r \in Requests, Admit(r) PROVE IInv'
<1>1. CASE ContextDone(r) \/ ~Fits(r)
  BY <1>1, RefuseStep DEF Admit
<1>2. CASE ~(ContextDone(r) \/ ~Fits(r))
  BY <1>2, QueueStep DEF Admit
<1> QED BY <1>1, <1>2

LEMMA StartBatchStep ==
    ASSUME IInv, StartBatch
    PROVE  IInv' /\ (Moved \/ (\E r \in Requests : Ended({r})) \/ UNCHANGED <<Held, req>>)
<1>1. PICK cost \in Costs, interval \in Intervals :
         LET c == Choose(cost, interval)
         IN  DropOrDefer(c) \/ WaitForMore(c) \/ StartMembers(c, cost)
  BY DEF StartBatch
<1> DEFINE c == Choose(cost, interval)
<1>2. /\ c.reason \in Reasons /\ c.wait \in Int /\ c.profile \in 0..Profiles
      /\ c.reason \in {"drop", "defer"} => c.id \in Range(queue)
  BY ChooseType DEF IInv
<1>3. act.pc = "batch"
  BY DEF StartBatch
<1> HIDE DEF c
<1>4. CASE DropOrDefer(c) /\ c.reason = "defer"
  BY <1>2, <1>3, <1>4, DeferStep
<1>5. CASE DropOrDefer(c) /\ c.reason # "defer"
  <2>1. c.id \in Range(queue)
    BY <1>2, <1>5 DEF DropOrDefer
  <2>2. c.id \in Requests
    BY <2>1, Lists DEF IInv
  <2> QED BY <1>3, <1>5, <2>1, <2>2, DropStep
<1>6. CASE WaitForMore(c)
  <2>1. UNCHANGED <<Held, req>>
    BY <1>6 DEF WaitForMore, Held
  <2> QED BY <1>2, <1>3, <1>6, <2>1, WaitStep
<1>7. CASE StartMembers(c, cost)
  BY <1>2, <1>3, <1>7, StartStep
<1> QED BY <1>1, <1>4, <1>5, <1>6, <1>7 DEF c

LEMMA InitInv == Init => IInv
<1> SUFFICES ASSUME Init PROVE IInv
  OBVIOUS
<1>1. MaxTime \in Nat /\ MaxQueueBytes \in Nat /\ MaxQueueRequests \in Nat
  BY ActorAssumption
<1>2. Range(queue) = {} /\ Range(deferred) = {} /\ Range(active) = {} /\ Held = {}
  BY DEF Init, Range, Held
<1>3. 0 \in 0..MaxTime /\ 0 \in 0..2 /\ -1 \in Int
  BY <1>1
<1>4. req \in [Requests -> ReqType]
  BY <1>3 DEF Init, ReqType, Phases
<1>5. act \in ActType /\ act.pc = "expire" /\ act.bytes = 0
  BY <1>3 DEF Init, ActType, None
<1>6. TypeOK
  BY <1>3, <1>4, <1>5 DEF Init, TypeOK, RunnerType, Reasons
<1>7. BytesOf({}) = 0
  <2>1. UNION {{r} \X (1..Bytes[r]) : r \in {}} = {}
    OBVIOUS
  <2> QED BY <2>1, FS_EmptySet DEF BytesOf
<1>8. QueueBounds
  <2>1. Len(queue) = 0 /\ Len(deferred) = 0
    BY DEF Init
  <2>2. Range(queue) \cup Range(deferred) = {}
    BY <1>2
  <2>3. act.bytes = BytesOf(Range(queue) \cup Range(deferred)) /\ act.bytes <= MaxQueueBytes
    BY <1>1, <1>5, <1>7, <2>2
  <2>4. Len(queue) + Len(deferred) <= MaxQueueRequests
    BY <1>1, <2>1
  <2> QED BY <2>3, <2>4 DEF QueueBounds
<1>9. ProgressInv /\ HeldInv
  BY <1>2 DEF ProgressInv, HeldInv
<1>10. SentInv
  BY <1>2 DEF Init, SentInv
<1>11. DistinctInv /\ TurnInv
  BY <1>5 DEF Init, DistinctInv, IsInjective, TurnInv
<1> QED BY <1>6, <1>8, <1>9, <1>10, <1>11 DEF IInv

\* Every step preserves the invariant.
LEMMA NextInv == IInv /\ [Next]_vars => IInv'
<1> SUFFICES ASSUME IInv, [Next]_vars PROVE IInv'
  OBVIOUS
<1>1. CASE UNCHANGED vars
  BY <1>1 DEF vars, IInv, TypeOK, QueueBounds, ProgressInv, HeldInv, SentInv, DistinctInv,
              TurnInv, Held
<1>2. ASSUME NEW r \in Requests,
             Serve(r) \/ Cancel(r) \/ Withdraw(r) \/ Return(r) \/ Abandon(r) \/ Admit(r)
      PROVE  IInv'
  BY <1>2, ServeStep, CancelStep, WithdrawStep, ReturnStep, AbandonStep, AdmitStep
<1>3. ASSUME NEW cap \in Caps, Update(cap) PROVE IInv'
  BY <1>3, UpdateStep
<1>4. CASE ExpireQueued \/ StartBatch \/ Wake \/ FinishBatch \/ Fail
  BY <1>4, ExpireStep, StartBatchStep, WakeStep, FinishStep, FailStep
<1>5. CASE Infer \/ RunnerExit \/ Terminate \/ Tick
  BY <1>5, InferStep, RunnerExitStep, TerminateStep, TickStep
<1> QED BY <1>1, <1>2, <1>3, <1>4, <1>5 DEF Next

\* The inductive invariant holds.
THEOREM Invariant == Spec => []IInv
BY InitInv, NextInv, PTL DEF Spec

-----------------------------------------------------------------------------
(* What a client has been told                                             *)

\* Lists without repetitions and without common elements form one.
LEMMA ConcatInjective ==
    ASSUME NEW p \in Seq(Requests), NEW q \in Seq(Requests),
           IsInjective(p), IsInjective(q), Range(p) \cap Range(q) = {}
    PROVE  /\ p \o q \in Seq(Requests) /\ IsInjective(p \o q)
           /\ Range(p \o q) = Range(p) \cup Range(q)
<1> DEFINE s == p \o q
<1>1. /\ s \in Seq(Requests) /\ DOMAIN s = 1..Len(p) + Len(q)
      /\ \A i \in 1..Len(p) : s[i] = p[i]
      /\ \A i \in Len(p) + 1..Len(p) + Len(q) : s[i] = q[i - Len(p)]
  OBVIOUS
<1>2. Len(p) \in Nat /\ Len(q) \in Nat /\ DOMAIN p = 1..Len(p) /\ DOMAIN q = 1..Len(q)
  OBVIOUS
<1> HIDE DEF s
<1>3. ASSUME NEW i \in DOMAIN s
      PROVE  \/ i \in DOMAIN p /\ s[i] = p[i]
             \/ i \notin DOMAIN p /\ i - Len(p) \in DOMAIN q /\ s[i] = q[i - Len(p)]
  BY <1>1, <1>2
<1>4. \A i \in DOMAIN p : i \in DOMAIN s /\ s[i] = p[i]
  BY <1>1, <1>2
<1>5. \A i \in DOMAIN q : i + Len(p) \in DOMAIN s /\ s[i + Len(p)] = q[i]
  <2> TAKE i \in DOMAIN q
  <2>1. i + Len(p) \in Len(p) + 1..Len(p) + Len(q) /\ i + Len(p) - Len(p) = i
    BY <1>2
  <2> QED BY <1>1, <1>2, <2>1
<1>6. Range(s) = Range(p) \cup Range(q)
  BY <1>3, <1>4, <1>5 DEF Range
<1>7. ASSUME NEW i \in DOMAIN s, NEW j \in DOMAIN s, s[i] = s[j] PROVE i = j
  <2>1. \A m, n \in DOMAIN p : p[m] = p[n] => m = n
    BY DEF IsInjective
  <2>2. \A m, n \in DOMAIN q : q[m] = q[n] => m = n
    BY DEF IsInjective
  <2>3. \A m \in DOMAIN p, n \in DOMAIN q : p[m] # q[n]
    BY DEF Range
  <2>4. i \in Int /\ j \in Int
    BY <1>1, <1>2
  <2>5. CASE i \in DOMAIN p /\ j \in DOMAIN p
    BY <1>4, <1>7, <2>1, <2>5
  <2>6. CASE i \in DOMAIN p /\ j \notin DOMAIN p
    BY <1>3, <1>4, <1>7, <2>3, <2>6
  <2>7. CASE i \notin DOMAIN p /\ j \in DOMAIN p
    BY <1>3, <1>4, <1>7, <2>3, <2>7
  <2>8. CASE i \notin DOMAIN p /\ j \notin DOMAIN p
    <3>1. i - Len(p) = j - Len(p)
      BY <1>3, <1>7, <2>2, <2>8
    <3> QED BY <1>2, <2>4, <3>1
  <2> QED BY <2>5, <2>6, <2>7, <2>8
<1>8. IsInjective(s)
  BY <1>7 DEF IsInjective
<1> QED BY <1>1, <1>6, <1>8 DEF s

LEMMA OneResult == IInv => ResultOnce
<1> SUFFICES ASSUME IInv PROVE ResultOnce
  OBVIOUS
<1>1. queue \in Seq(Requests) /\ deferred \in Seq(Requests) /\ active \in Seq(Requests)
  BY DEF IInv, TypeOK
<1>2. IsInjective(queue) /\ IsInjective(deferred) /\ IsInjective(active)
  BY DEF IInv, DistinctInv
<1>3. /\ Range(queue) \cap Range(deferred) = {} /\ Range(queue) \cap Range(active) = {}
      /\ Range(deferred) \cap Range(active) = {}
  BY Disjoint DEF IInv
<1> DEFINE s == queue \o deferred
<1>4. s \in Seq(Requests) /\ IsInjective(s) /\ Range(s) = Range(queue) \cup Range(deferred)
  BY <1>1, <1>2, <1>3, ConcatInjective
<1> HIDE DEF s
<1>5. IsInjective(s \o active)
  BY <1>1, <1>2, <1>3, <1>4, ConcatInjective
<1>6. \A r \in Requests :
         /\ req[r].sent <= 1
         /\ r \in Held => req[r].sent = 0
         /\ req[r].at = "wait" /\ r \notin Held => req[r].sent = 1
  BY DEF IInv, HeldInv, SentInv
<1> QED BY <1>5, <1>6 DEF ResultOnce, s

LEMMA NothingToldExecutes == IInv => ToldNotExecuting
<1> SUFFICES ASSUME IInv PROVE ToldNotExecuting
  OBVIOUS
<1>1. ASSUME NEW r \in Told, r \in Executing PROVE FALSE
  <2>1. r \in Range(active) /\ r \in Held /\ r \in Requests
    BY <1>1 DEF Executing, Held, Told
  <2>2. req[r].progress = "running"
    BY <2>1 DEF IInv, ProgressInv
  <2>3. req[r].answer # "complete"
    BY <2>1 DEF IInv, HeldInv, SentInv
  <2> QED BY <2>2, <2>3 DEF Told
<1> QED BY <1>1 DEF ToldNotExecuting

\* schedulerActor's lists stay typed, the bytes it counts are those of what waits,
\* and neither the request limit nor the byte limit is passed.
THEOREM ListsKept == Spec => []QueueKept
<1>1. IInv => QueueKept
  BY DEF IInv, QueueKept
<1> QED BY <1>1, Invariant, PTL

\* The one-place result channel of a request is sent to at most once, a handler
\* that waits is held by the actor or has its result, no list repeats a request,
\* and what was told complete is not in the batch the runner executes.
THEOREM AnswersAreTrue == Spec => []AnswersHold
<1>1. IInv => AnswersHold
  BY OneResult, NothingToldExecutes DEF AnswersHold
<1> QED BY <1>1, Invariant, PTL

-----------------------------------------------------------------------------
(* The refinement                                                          *)

\* A step that ends the requests of R is the abstract end of R.
LEMMA EndedMaps ==
    ASSUME IInv, NEW R, Ended(R)
    PROVE  /\ Held' \in SUBSET Held
           /\ [Executor!Next]_<<Held, Over, Told>>
<1>1. R \in SUBSET Requests /\ Held \in SUBSET Requests /\ R \in SUBSET Held /\ Held' = Held \ R
  BY Lists DEF IInv, Ended
<1>2. R \cap Over = {}
  BY <1>1 DEF Over
<1>3. Over' = Over \cup R
  <2>1. \A r \in R : req'[r].sent > 0 /\ r \notin Held'
    BY <1>1 DEF Ended
  <2>2. \A r \in Requests \ R : req'[r] = req[r] /\ (r \in Held' <=> r \in Held)
    BY <1>1 DEF Ended
  <2> QED BY <1>1, <2>1, <2>2 DEF Over
<1>4. Told' = Told \cup R
  <2>1. \A r \in R : req'[r].progress = "finished"
    BY DEF Ended
  <2>2. \A r \in Requests \ R : req'[r] = req[r]
    BY DEF Ended
  <2> QED BY <1>1, <2>1, <2>2 DEF Told
<1>5. CASE R = {}
  BY <1>1, <1>3, <1>4, <1>5
<1>6. CASE R # {}
  <2>1. R \in SUBSET R
    OBVIOUS
  <2>2. \E T \in SUBSET R : Told' = Told \cup T
    BY <1>4, <2>1
  <2>3. Executor!End(R)
    BY <1>1, <1>2, <1>3, <1>6, <2>2 DEF Executor!End
  <2> QED BY <1>1, <2>3 DEF Executor!Next
<1> QED BY <1>1, <1>5, <1>6

\* A request of which no list knows is refused, or its handler left: its end,
\* told when the handler says so.
LEMMA RefusedMaps ==
    ASSUME IInv, NEW r \in Requests, req[r].at \in {"new", "offer"}, Held' = Held,
           \A p \in Requests \ {r} : req'[p] = req[p],
           \/ /\ req'[r].at = "gone" /\ req'[r].answer = "complete"
              /\ req'[r].sent = req[r].sent /\ req'[r].progress = req[r].progress
           \/ /\ req'[r].at = "wait" /\ req'[r].answer = req[r].answer
              /\ req'[r].sent = 1 /\ req'[r].progress = req[r].progress
    PROVE  [Executor!Next]_<<Held, Over, Told>>
<1>1. r \notin Held /\ req[r].sent = 0 /\ req[r].progress = "none" /\ req[r].answer = "none"
  BY DEF IInv, HeldInv, SentInv
<1>2. r \notin Over
  BY <1>1 DEF Over
<1>3. Over' = Over \cup {r}
  BY <1>1 DEF Over
<1>4. (Told' = Told) \/ (Told' = Told \cup {r})
  BY <1>1 DEF Told
<1>5. \E T \in SUBSET {r} : Told' = Told \cup T
  <2>1. {} \in SUBSET {r} /\ {r} \in SUBSET {r} /\ Told \cup {} = Told
    OBVIOUS
  <2>2. CASE Told' = Told
    BY <2>1, <2>2
  <2>3. CASE Told' = Told \cup {r}
    BY <2>1, <2>3
  <2> QED BY <1>4, <2>2, <2>3
<1>6. Executor!End({r})
  BY <1>1, <1>2, <1>3, <1>5 DEF Executor!End
<1> QED BY <1>6 DEF Executor!Next

\* Steps that end nothing and admit nothing.
LEMMA MovedMaps ==
    ASSUME Moved
    PROVE  UNCHANGED <<Held, Over, Told>>
BY DEF Moved, Over, Told

LEMMA QuietMaps ==
    ASSUME UNCHANGED <<Held, req>>
    PROVE  UNCHANGED <<Held, Over, Told>>
BY DEF Over, Told

\* What a handler does is a stutter, the end of a request the actor never
\* received, or the report of one that is over.
LEMMA ServeMaps ==
    ASSUME IInv, NEW r \in Requests, Serve(r)
    PROVE  [Executor!Next]_<<Held, Over, Told>>
<1>1. /\ req \in [Requests -> ReqType] /\ req[r] \in ReqType /\ req[r].at = "new"
      /\ req[r].answer = "none"
  BY DEF Serve, IInv, TypeOK, SentInv
<1>2. Held' = Held
  BY DEF Serve, Held
<1>3. CASE req' = [req EXCEPT ![r].at = "offer", ![r].received = now]
  <2>1. /\ req'[r].sent = req[r].sent /\ req'[r].at = "offer"
        /\ req'[r].answer = req[r].answer /\ req'[r].progress = req[r].progress
    BY <1>1, <1>3 DEF ReqType
  <2>2. \A p \in Requests \ {r} : req'[p] = req[p]
    BY <1>1, <1>3
  <2>3. Over' = Over /\ Told' = Told
    BY <1>1, <1>2, <2>1, <2>2 DEF Over, Told
  <2> QED BY <1>2, <2>3
<1>4. CASE req' = [req EXCEPT ![r].at = "gone", ![r].answer = "complete"]
  <2>1. /\ req'[r].sent = req[r].sent /\ req'[r].at = "gone"
        /\ req'[r].answer = "complete" /\ req'[r].progress = req[r].progress
    BY <1>1, <1>4 DEF ReqType
  <2>2. \A p \in Requests \ {r} : req'[p] = req[p]
    BY <1>1, <1>4
  <2> QED BY <1>1, <1>2, <2>1, <2>2, RefusedMaps
<1> QED BY <1>3, <1>4 DEF Serve

LEMMA CancelMaps ==
    ASSUME IInv, NEW r \in Requests, Cancel(r)
    PROVE  UNCHANGED <<Held, Over, Told>>
<1>1. req \in [Requests -> ReqType] /\ req[r] \in ReqType
  BY DEF IInv, TypeOK
<1>2. Held' = Held
  BY DEF Cancel, Held
<1>3. /\ req'[r].sent = req[r].sent /\ req'[r].at = req[r].at
      /\ req'[r].answer = req[r].answer /\ req'[r].progress = req[r].progress
  BY <1>1 DEF Cancel, ReqType
<1>4. \A p \in Requests \ {r} : req'[p] = req[p]
  BY <1>1 DEF Cancel
<1> QED BY <1>2, <1>3, <1>4 DEF Over, Told

LEMMA WithdrawMaps ==
    ASSUME IInv, NEW r \in Requests, Withdraw(r)
    PROVE  [Executor!Next]_<<Held, Over, Told>>
<1>1. req \in [Requests -> ReqType] /\ req[r] \in ReqType /\ req[r].at = "offer"
  BY DEF Withdraw, IInv, TypeOK
<1>2. Held' = Held
  BY DEF Withdraw, Held
<1>3. /\ req'[r].sent = req[r].sent /\ req'[r].at = "gone"
      /\ req'[r].answer = "complete" /\ req'[r].progress = req[r].progress
  BY <1>1 DEF Withdraw, ReqType
<1>4. \A p \in Requests \ {r} : req'[p] = req[p]
  BY <1>1 DEF Withdraw
<1> QED BY <1>1, <1>2, <1>3, <1>4, RefusedMaps

LEMMA ReturnMaps ==
    ASSUME IInv, NEW r \in Requests, Return(r)
    PROVE  [Executor!Next]_<<Held, Over, Told>>
<1>1. /\ req \in [Requests -> ReqType] /\ req[r] \in ReqType
      /\ req[r].at = "wait" /\ req[r].sent > 0
  BY DEF Return, IInv, TypeOK
<1>2. Held' = Held
  BY DEF Return, Held
<1>3. r \notin Held
  BY <1>1 DEF IInv, HeldInv
<1>4. /\ req'[r].sent = req[r].sent /\ req'[r].at = "gone"
      /\ req'[r].answer = "complete" /\ req'[r].progress = req[r].progress
  BY <1>1 DEF Return, ReqType
<1>5. \A p \in Requests \ {r} : req'[p] = req[p]
  BY <1>1 DEF Return
<1>6. r \in Over /\ Over' = Over /\ Told' = Told \cup {r}
  BY <1>1, <1>2, <1>3, <1>4, <1>5 DEF Over, Told
<1>7. Executor!Report(r)
  BY <1>2, <1>6 DEF Executor!Report
<1> QED BY <1>7 DEF Executor!Next

LEMMA AbandonMaps ==
    ASSUME IInv, NEW r \in Requests, Abandon(r)
    PROVE  UNCHANGED <<Held, Over, Told>>
<1>1. /\ req \in [Requests -> ReqType] /\ req[r] \in ReqType
      /\ req[r].at = "wait" /\ req[r].answer = "none"
  BY DEF Abandon, IInv, TypeOK, SentInv
<1>2. Held' = Held
  BY DEF Abandon, Held
<1>3. /\ req'[r].sent = req[r].sent /\ req'[r].at = "gone"
      /\ req'[r].answer = "incomplete" /\ req'[r].progress = req[r].progress
  BY <1>1 DEF Abandon, ReqType
<1>4. \A p \in Requests \ {r} : req'[p] = req[p]
  BY <1>1 DEF Abandon
<1> QED BY <1>1, <1>2, <1>3, <1>4 DEF Over, Told

\* An admission is the abstract one; a refusal ends what was never held.
LEMMA AdmitMaps ==
    ASSUME IInv, NEW r \in Requests, Admit(r)
    PROVE  [Executor!Next]_<<Held, Over, Told>>
<1>1. /\ req \in [Requests -> ReqType] /\ req[r] \in ReqType /\ req[r].at = "offer"
      /\ req[r].sent = 0 /\ req[r].progress = "none" /\ req[r].answer = "none"
      /\ act.pc = "select"
  BY DEF Admit, IInv, TypeOK, SentInv
<1>2. CASE ContextDone(r) \/ ~Fits(r)
  <2>1. Held' = Held
    BY <1>2 DEF Admit, Held
  <2>2. /\ req'[r].sent = 1 /\ req'[r].at = "wait"
        /\ req'[r].answer = req[r].answer /\ req'[r].progress = req[r].progress
    BY <1>1, <1>2 DEF Admit, ReqType
  <2>3. \A p \in Requests \ {r} : req'[p] = req[p]
    BY <1>1, <1>2 DEF Admit
  <2> QED BY <1>1, <2>1, <2>2, <2>3, RefusedMaps
<1>3. CASE ~(ContextDone(r) \/ ~Fits(r))
  <2>1. /\ Held' = Held \cup {r} /\ r \notin Held
        /\ req'[r].sent = 0 /\ req'[r].at = "wait" /\ req'[r].progress = "queued"
        /\ req'[r].answer = "none" /\ \A p \in Requests \ {r} : req'[p] = req[p]
    BY <1>1, <1>3, QueueStep DEF Admit
  <2>2. r \notin Over /\ Over' = Over /\ Told' = Told
    BY <1>1, <2>1 DEF Over, Told
  <2>3. Executor!Admit(r)
    BY <2>1, <2>2 DEF Executor!Admit
  <2> QED BY <2>3 DEF Executor!Next
<1> QED BY <1>2, <1>3

\* What the turn of the loop does.
LEMMA StartBatchMaps ==
    ASSUME IInv, StartBatch
    PROVE  [Executor!Next]_<<Held, Over, Told>> /\ Held' \in SUBSET Held
<1>1. CASE Moved
  BY <1>1, MovedMaps DEF Moved
<1>2. CASE \E r \in Requests : Ended({r})
  BY <1>2, EndedMaps
<1>3. CASE UNCHANGED <<Held, req>>
  BY <1>3, QuietMaps
<1> QED BY <1>1, <1>2, <1>3, StartBatchStep

\* Every step of the actor is a step of the executor or a stutter.
LEMMA NextMaps ==
    ASSUME IInv, [Next]_vars
    PROVE  [Executor!Next]_<<Held, Over, Told>>
<1>1. ASSUME NEW r \in Requests, Serve(r) PROVE [Executor!Next]_<<Held, Over, Told>>
  BY <1>1, ServeMaps
<1>2. ASSUME NEW r \in Requests, Cancel(r) PROVE [Executor!Next]_<<Held, Over, Told>>
  BY <1>2, CancelMaps
<1>3. ASSUME NEW r \in Requests, Withdraw(r) PROVE [Executor!Next]_<<Held, Over, Told>>
  BY <1>3, WithdrawMaps
<1>4. ASSUME NEW r \in Requests, Return(r) PROVE [Executor!Next]_<<Held, Over, Told>>
  BY <1>4, ReturnMaps
<1>5. ASSUME NEW r \in Requests, Abandon(r) PROVE [Executor!Next]_<<Held, Over, Told>>
  BY <1>5, AbandonMaps
<1>6. ASSUME NEW r \in Requests, Admit(r) PROVE [Executor!Next]_<<Held, Over, Told>>
  BY <1>6, AdmitMaps
<1>7. CASE ExpireQueued
  BY <1>7, ExpireStep, EndedMaps
<1>8. CASE StartBatch
  BY <1>8, StartBatchMaps
<1>9. CASE FinishBatch
  BY <1>9, FinishStep, EndedMaps
<1>10. CASE Fail
  BY <1>10, FailStep, EndedMaps
<1>11. CASE \/ Wake \/ (\E cap \in Caps : Update(cap)) \/ Infer \/ RunnerExit
            \/ Terminate \/ Tick \/ UNCHANGED vars
  <2>1. UNCHANGED <<Held, req>>
    BY <1>11 DEF Wake, Update, Infer, RunnerExit, Terminate, Tick, vars, Held
  <2> QED BY <2>1, QuietMaps
<1> QED
  BY <1>1, <1>2, <1>3, <1>4, <1>5, <1>6, <1>7, <1>8, <1>9, <1>10, <1>11 DEF Next

\* schedulerActor is the executor the ingress owner relies on: a request is
\* admitted at most once, and a complete answer or a finished progress line is
\* only given for what the actor does not hold and never will.
THEOREM Refinement == Spec => ImplementsExecutor
<1>1. Init => Executor!Init
  BY DEF Init, Executor!Init, Held, Over, Told, Range
<1>2. IInv /\ [Next]_vars => [Executor!Next]_<<Held, Over, Told>>
  BY NextMaps
<1> QED BY <1>1, <1>2, Invariant, PTL DEF Spec, ImplementsExecutor, Executor!Spec

-----------------------------------------------------------------------------
(* Admission                                                               *)

\* Only admit enlarges what the actor holds, and by a request whose context is
\* not done.
LEMMA OnlyAdmitHolds ==
    ASSUME IInv, [Next]_vars, NEW r \in Requests, r \notin Held, r \in Held'
    PROVE  ~ContextDone(r)
<1>1. ASSUME Held' \in SUBSET Held PROVE FALSE
  BY <1>1
<1>2. ASSUME NEW p \in Requests, Admit(p) PROVE ~ContextDone(r)
  <2>1. CASE ContextDone(p) \/ ~Fits(p)
    <3>1. Held' = Held
      BY <1>2, <2>1 DEF Admit, Held
    <3> QED BY <3>1
  <2>2. CASE ~(ContextDone(p) \/ ~Fits(p))
    <3>1. Held' = Held \cup {p}
      BY <1>2, <2>2, QueueStep DEF Admit
    <3> QED BY <2>2, <3>1
  <2> QED BY <2>1, <2>2
<1>3. ASSUME NEW p \in Requests, Serve(p) \/ Cancel(p) \/ Withdraw(p) \/ Return(p) \/ Abandon(p)
      PROVE  Held' = Held
  BY <1>3 DEF Serve, Cancel, Withdraw, Return, Abandon, Held
<1>4. CASE ExpireQueued
  BY <1>1, <1>4, ExpireStep, EndedMaps
<1>5. CASE StartBatch
  BY <1>1, <1>5, StartBatchMaps
<1>6. CASE FinishBatch
  BY <1>1, <1>6, FinishStep, EndedMaps
<1>7. CASE Fail
  BY <1>1, <1>7, FailStep, EndedMaps
<1>8. CASE \/ Wake \/ (\E cap \in Caps : Update(cap)) \/ Infer \/ RunnerExit
           \/ Terminate \/ Tick \/ UNCHANGED vars
  <2>1. Held' = Held
    BY <1>8 DEF Wake, Update, Infer, RunnerExit, Terminate, Tick, vars, Held
  <2> QED BY <2>1
<1> QED BY <1>1, <1>2, <1>3, <1>4, <1>5, <1>6, <1>7, <1>8 DEF Next

\* The ingress owner reads the end of an exchange and then an actor state without
\* the request as "never executed": admit never takes a request whose context is
\* done.
THEOREM AdmissionInTime == Spec => NoLateAdmission
<1>1. IInv /\ [Next]_vars => [NoLateAdmissionStep]_vars
  BY OnlyAdmitHolds DEF NoLateAdmissionStep
<1> QED BY <1>1, Invariant, PTL DEF Spec, NoLateAdmission

-----------------------------------------------------------------------------
(* The order of the queue                                                  *)

\* A list in the order of d.
Sorted(s, d) == \A m, n \in DOMAIN s : m < n => d[s[m]] <= d[s[n]]

\* What is deleted from an ordered list leaves it ordered.
LEMMA WithoutSorted ==
    ASSUME NEW s \in Seq(Requests), NEW d \in [Requests -> Int], Sorted(s, d), NEW R
    PROVE  Sorted(Without(s, R), d)
<1> DEFINE q == Without(s, R)
<1> SUFFICES ASSUME NEW i \in DOMAIN q, NEW j \in DOMAIN q, i < j
             PROVE  d[q[i]] <= d[q[j]]
  BY DEF Sorted
<1>1. PICK m \in DOMAIN s, n \in DOMAIN s : m < n /\ q[i] = s[m] /\ q[j] = s[n]
  BY WithoutOrder
<1> QED BY <1>1 DEF Sorted

\* Positions that hold with each one all before it are the first ones.
LEMMA InitialSegment ==
    ASSUME NEW L \in Nat, NEW D \in SUBSET (1..L),
           \A n \in D : \A m \in 1..L : m < n => m \in D
    PROVE  D = 1..Cardinality(D) /\ Cardinality(D) \in 0..L
<1>1. IsFiniteSet(1..L) /\ Cardinality(1..L) = L
  <2>1. IsFiniteSet(1..L) /\ Cardinality(1..L) = IF 1 > L THEN 0 ELSE L - 1 + 1
    BY FS_Interval
  <2> QED BY <2>1
<1>2. IsFiniteSet(D) /\ Cardinality(D) \in Nat /\ Cardinality(D) <= L /\ D \in SUBSET Int
  <2>1. IsFiniteSet(D) /\ Cardinality(D) <= L
    BY <1>1, FS_Subset
  <2>2. Cardinality(D) \in Nat
    BY <2>1, FS_CardinalityType
  <2> QED BY <2>1, <2>2
<1>3. ASSUME NEW n \in D PROVE Rank(D, n) = n
  <2>1. n \in 1..L /\ \A m \in 1..L : m < n => m \in D
    OBVIOUS
  <2>2. n \in Nat /\ n >= 1
    BY <2>1
  <2>3. ASSUME NEW k \in 1..n PROVE k \in D /\ k <= n
    <3>1. k \in 1..L /\ (k < n \/ k = n)
      BY <2>1, <2>3
    <3> QED BY <2>1, <3>1
  <2>4. \A k \in D : k <= n => k \in 1..n
    BY <1>2
  <2>5. {k \in D : k <= n} = 1..n
    BY <2>3, <2>4
  <2>6. Cardinality(1..n) = IF 1 > n THEN 0 ELSE n - 1 + 1
    BY <2>2, FS_Interval
  <2>7. Cardinality(1..n) = n
    BY <2>2, <2>6
  <2> QED BY <2>5, <2>7 DEF Rank
<1>4. \A n \in D : n \in 1..Cardinality(D)
  BY <1>2, <1>3, RankType
<1>5. ASSUME NEW m \in 1..Cardinality(D) PROVE m \in D
  <2>1. PICK n \in D : Rank(D, n) = m
    BY <1>2, RankOnto
  <2> QED BY <1>3, <2>1
<1>6. D = 1..Cardinality(D)
  BY <1>4, <1>5
<1>7. Cardinality(D) \in 0..L
  BY <1>2
<1> QED BY <1>6, <1>7

\* What is inserted behind everything that is due no later leaves the list ordered.
LEMMA InsertSorted ==
    ASSUME NEW s \in Seq(Requests), NEW d \in [Requests -> Int], Sorted(s, d),
           NEW r \in Requests
    PROVE  Sorted(InsertAt(s, 1 + Cardinality({n \in DOMAIN s : d[s[n]] <= d[r]}), r), d)
<1> DEFINE D == {n \in DOMAIN s : d[s[n]] <= d[r]}
           i == 1 + Cardinality(D)
           q == InsertAt(s, i, r)
<1>1. Len(s) \in Nat /\ DOMAIN s = 1..Len(s) /\ \A n \in 1..Len(s) : s[n] \in Requests
  OBVIOUS
<1>2. ASSUME NEW n \in D, NEW m \in 1..Len(s), m < n PROVE m \in D
  <2>1. n \in DOMAIN s /\ m \in DOMAIN s /\ d[s[n]] <= d[r]
    BY <1>1
  <2>2. d[s[m]] <= d[s[n]]
    BY Zenon, <1>2, <2>1 DEF Sorted
  <2>3. d[s[m]] \in Int /\ d[s[n]] \in Int /\ d[r] \in Int
    BY <1>1, <2>1
  <2>4. d[s[m]] <= d[r]
    BY <2>1, <2>2, <2>3
  <2> QED BY <2>1, <2>4
<1>3. D = 1..Cardinality(D) /\ Cardinality(D) \in 0..Len(s)
  <2>1. D \in SUBSET (1..Len(s))
    BY <1>1
  <2> HIDE DEF D
  <2> QED BY <1>1, <1>2, <2>1, InitialSegment
<1>4. /\ i \in 1..Len(s) + 1
      /\ \A n \in 1..Len(s) : n < i => d[s[n]] <= d[r]
      /\ \A n \in 1..Len(s) : n >= i => d[r] <= d[s[n]]
  <2>1. \A n \in 1..Len(s) : n \in D <=> d[s[n]] <= d[r]
    BY <1>1
  <2>2. d[r] \in Int /\ \A n \in 1..Len(s) : d[s[n]] \in Int
    BY <1>1
  <2> HIDE DEF D
  <2> QED BY <1>1, <1>3, <2>1, <2>2
<1> HIDE DEF D, i
<1>5. /\ DOMAIN q = 1..Len(s) + 1
      /\ \A k \in 1..Len(s) + 1 :
            q[k] = IF k < i THEN s[k] ELSE IF k = i THEN r ELSE s[k - 1]
  BY <1>4, InsertAtElements
<1> HIDE DEF q
<1>6. ASSUME NEW m \in 1..Len(s) + 1, NEW n \in 1..Len(s) + 1, m < n
      PROVE  d[q[m]] <= d[q[n]]
  <2>1. CASE n < i
    <3>1. m \in DOMAIN s /\ n \in DOMAIN s /\ q[m] = s[m] /\ q[n] = s[n]
      BY <1>1, <1>4, <1>5, <1>6, <2>1
    <3> QED BY Zenon, <1>6, <3>1 DEF Sorted
  <2>2. CASE n = i
    BY <1>1, <1>4, <1>5, <1>6, <2>2
  <2>3. CASE n > i /\ m < i
    <3>1. m \in 1..Len(s) /\ n - 1 \in 1..Len(s) /\ q[m] = s[m] /\ q[n] = s[n - 1]
      BY <1>1, <1>4, <1>5, <2>3
    <3>2. d[s[m]] <= d[r] /\ d[r] <= d[s[n - 1]]
      BY <1>1, <1>4, <2>3, <3>1
    <3>3. d[r] \in Int /\ d[s[m]] \in Int /\ d[s[n - 1]] \in Int
      BY <1>1, <3>1
    <3> QED BY <3>1, <3>2, <3>3
  <2>4. CASE n > i /\ m = i
    <3>1. n - 1 \in 1..Len(s) /\ q[m] = r /\ q[n] = s[n - 1]
      BY <1>1, <1>4, <1>5, <2>4
    <3> QED BY <1>1, <1>4, <2>4, <3>1
  <2>5. CASE m > i
    <3>1. /\ m - 1 \in 1..Len(s) /\ n - 1 \in 1..Len(s) /\ m - 1 < n - 1
          /\ q[m] = s[m - 1] /\ q[n] = s[n - 1]
      BY <1>1, <1>4, <1>5, <1>6, <2>5
    <3> QED BY <1>1, <3>1 DEF Sorted
  <2> QED BY <1>1, <1>4, <1>6, <2>1, <2>2, <2>3, <2>4, <2>5
<1> QED BY <1>5, <1>6 DEF Sorted, q, i, D

-----------------------------------------------------------------------------
(* The batches                                                             *)

\* When the SLO of a request ends.
Dues == [r \in Requests |-> req[r].received + Slo[r]]

LEMMA DuesType ==
    ASSUME TypeOK
    PROVE  Dues \in [Requests -> Int] /\ \A r \in Requests : Remaining(r) = Dues[r] - now
<1>1. ASSUME NEW r \in Requests
      PROVE  Dues[r] \in Int /\ Remaining(r) = Dues[r] - now
  <2>1. Slo[r] \in Int /\ req[r].received \in Int /\ now \in Int
    <3>1. Slo[r] \in Int /\ req[r] \in ReqType /\ MaxTime \in Nat
      BY ActorAssumption DEF TypeOK
    <3> QED BY <3>1 DEF ReqType, TypeOK
  <2>2. Dues[r] = req[r].received + Slo[r] /\ Remaining(r) = req[r].received + Slo[r] - now
    BY DEF Dues, Remaining
  <2> QED BY <2>1, <2>2
<1>2. Dues \in [Requests -> Int]
  BY <1>1 DEF Dues
<1> QED BY <1>1, <1>2

\* What holds of the batches beside IInv.
BatchInv ==
    /\ Mode = "serving" => Sorted(queue, Dues)
    /\ BatchMeetsSLO /\ FixedBatchExact /\ TrialAlone

\* A request that the actor holds arrived once.
Arrived == \A r \in Requests : req[r].at # "new" => req'[r].received = req[r].received

\* A request that is held arrived.
LEMMA HeldArrived ==
    ASSUME IInv, Arrived
    PROVE  \A r \in Held : r \in Requests /\ Dues'[r] = Dues[r] /\ req'[r].received = req[r].received
<1>1. Held \in SUBSET Requests /\ \A r \in Held : req[r].at # "new"
  BY Lists DEF IInv, HeldInv
<1> QED BY <1>1 DEF Arrived, Dues

\* A step that starts no batch keeps what is said of the active one.
LEMMA ActiveKept ==
    ASSUME IInv, BatchInv, Arrived, active' = active \/ active' = <<>>, batch' = batch
    PROVE  BatchMeetsSLO' /\ FixedBatchExact' /\ TrialAlone'
<1>1. CASE active' = <<>>
  BY <1>1 DEF BatchMeetsSLO, FixedBatchExact, TrialAlone
<1>2. CASE active' = active
  <2>1. \A r \in Range(active) : req'[r].received = req[r].received
    BY HeldArrived DEF Held
  <2> QED BY <1>2, <2>1 DEF BatchInv, BatchMeetsSLO, FixedBatchExact, TrialAlone
<1> QED BY <1>1, <1>2

\* A step that only takes requests from the queue leaves it in order.
LEMMA QueueKeepsOrder ==
    ASSUME IInv, BatchInv, Arrived, Mode = "serving", IInv',
           NEW R, queue' = queue \/ queue' = Without(queue, R)
    PROVE  Sorted(queue', Dues')
<1>1. queue \in Seq(Requests) /\ Dues \in [Requests -> Int]
  BY DuesType DEF IInv, TypeOK
<1>2. Sorted(queue', Dues)
  BY <1>1, WithoutSorted DEF BatchInv
<1>3. \A n \in DOMAIN queue' : queue'[n] \in Range(queue)
  <2>1. Range(Without(queue, R)) = Range(queue) \ R
    BY <1>1, WithoutElements
  <2> QED BY <2>1 DEF Range
<1>4. \A n \in DOMAIN queue' : Dues'[queue'[n]] = Dues[queue'[n]]
  BY <1>3, HeldArrived DEF Held
<1> QED BY <1>2, <1>4 DEF Sorted

\* A step that starts no batch and queues nothing.
LEMMA BatchQuiet ==
    ASSUME IInv, BatchInv, Arrived, IInv', active' = active \/ active' = <<>>, batch' = batch,
           NEW R, queue' = queue \/ queue' = Without(queue, R) \/ queue' = <<>>
    PROVE  BatchInv'
<1>1. BatchMeetsSLO' /\ FixedBatchExact' /\ TrialAlone'
  BY ActiveKept
<1>2. ASSUME Mode = "serving" PROVE Sorted(queue', Dues')
  <2>1. CASE queue' = <<>>
    BY <2>1 DEF Sorted
  <2>2. CASE queue' # <<>>
    BY <1>2, <2>2, QueueKeepsOrder
  <2> QED BY <2>1, <2>2
<1> QED BY <1>1, <1>2 DEF BatchInv

\* Results are no arrivals,
LEMMA FinishedArrived ==
    ASSUME IInv, NEW R, req' = Finished(R)
    PROVE  Arrived
<1> SUFFICES ASSUME NEW r \in Requests PROVE req'[r].received = req[r].received
  BY DEF Arrived
<1>1. req[r] \in ReqType
  BY DEF IInv, TypeOK
<1>2. req'[r] = req[r] \/ req'[r] = [req[r] EXCEPT !.sent = @ + 1, !.progress = "finished"]
  BY DEF Finished
<1> QED BY <1>1, <1>2 DEF ReqType

\* and neither is any step but the first of the handler.
LEMMA OthersArrive ==
    ASSUME IInv, NEW r \in Requests,
           Serve(r) \/ Cancel(r) \/ Withdraw(r) \/ Return(r) \/ Abandon(r) \/ Admit(r)
    PROVE  Arrived
<1>1. req \in [Requests -> ReqType] /\ req[r] \in ReqType
  BY DEF IInv, TypeOK
<1>2. CASE Serve(r)
  <2> SUFFICES ASSUME NEW p \in Requests, req[p].at # "new"
               PROVE  req'[p].received = req[p].received
    BY DEF Arrived
  <2>1. p # r /\ \E q : req' = [req EXCEPT ![r] = q]
    BY <1>2 DEF Serve
  <2> QED BY <1>1, <2>1
<1>3. CASE ~Serve(r)
  <2>1. \/ req' = [req EXCEPT ![r].canceled = TRUE]
        \/ \E a : req' = [req EXCEPT ![r].at = "gone", ![r].answer = a]
        \/ req' = [req EXCEPT ![r].at = "wait", ![r].sent = @ + 1]
        \/ req' = [req EXCEPT ![r].at = "wait", ![r].progress = "queued"]
    BY <1>3 DEF Cancel, Withdraw, Return, Abandon, Admit
  <2>2. PICK q : req' = [req EXCEPT ![r] = q] /\ q.received = req[r].received
    BY <1>1, <2>1 DEF ReqType
  <2> QED BY <1>1, <2>2 DEF Arrived
<1> QED BY <1>2, <1>3

LEMMA DropArrives ==
    ASSUME IInv, NEW c, DropOrDefer(c)
    PROVE  Arrived
<1>1. CASE c.reason = "defer"
  <2>1. req' = [req EXCEPT ![c.id].progress = "deferred"] /\ req \in [Requests -> ReqType]
    BY <1>1 DEF DropOrDefer, IInv, TypeOK
  <2> SUFFICES ASSUME NEW r \in Requests PROVE req'[r].received = req[r].received
    BY DEF Arrived
  <2>2. req[r] \in ReqType
    BY <2>1
  <2>3. req'[r] = req[r] \/ req'[r] = [req[r] EXCEPT !.progress = "deferred"]
    BY <2>1
  <2> QED BY <2>2, <2>3 DEF ReqType
<1>2. CASE c.reason # "defer"
  BY <1>2, FinishedArrived DEF DropOrDefer
<1> QED BY <1>1, <1>2

LEMMA StartArrives ==
    ASSUME IInv, NEW c, NEW cost, StartMembers(c, cost)
    PROVE  Arrived
<1> SUFFICES ASSUME NEW r \in Requests PROVE req'[r].received = req[r].received
  BY DEF Arrived
<1>1. req[r] \in ReqType
  BY DEF IInv, TypeOK
<1>2. req'[r] = req[r] \/ req'[r] = [req[r] EXCEPT !.progress = "running"]
  BY DEF StartMembers
<1> QED BY <1>1, <1>2 DEF ReqType

\* The batch that startBatch takes: the first c.size requests of the chosen key.
LEMMA TakenIs ==
    ASSUME NEW s \in Seq(Requests), NEW c
    PROVE  LET C == {n \in DOMAIN s : Key[s[n]] = c.key}
           IN  /\ C \in SUBSET DOMAIN s /\ IsFiniteSet(C) /\ Cardinality(C) \in Nat
               /\ Members(s, c) \in Seq(Requests)
               /\ c.size \in Nat => Len(Members(s, c)) =
                      IF c.size <= Cardinality(C) THEN c.size ELSE Cardinality(C)
               /\ Range(Members(s, c)) = {s[n] : n \in FirstOf(C, c.size)}
               /\ \A r \in Range(Members(s, c)) : Key[r] = c.key
<1> DEFINE C == {n \in DOMAIN s : Key[s[n]] = c.key}
           F == FirstOf(C, c.size)
<1>1. C \in SUBSET DOMAIN s /\ C \in SUBSET Int
  BY SeqDomain
<1>2. IsFiniteSet(C)
  BY <1>1, SeqDomain, FS_Subset
<1>3. Cardinality(C) \in Nat
  BY <1>2, FS_CardinalityType
<1>4. /\ F \in SUBSET C
      /\ c.size \in Nat => Cardinality(F) = IF c.size <= Cardinality(C) THEN c.size ELSE Cardinality(C)
  <2> HIDE DEF C
  <2>1. F \in SUBSET C
    BY DEF FirstOf
  <2> QED BY <1>1, <1>2, <2>1, FirstOfCardinality
<1>5. Members(s, c) = At(s, F) /\ F \in SUBSET DOMAIN s
  BY <1>1, <1>4 DEF Members
<1>6. \A n \in F : Key[s[n]] = c.key
  BY <1>4
<1> HIDE DEF C, F
<1>7. Members(s, c) \in Seq(Requests) /\ Len(Members(s, c)) = Cardinality(F)
  BY <1>5, AtElements
<1>8. Range(Members(s, c)) = {s[n] : n \in F}
  BY <1>5, AtRange
<1> QED BY <1>1, <1>2, <1>3, <1>4, <1>6, <1>7, <1>8 DEF C, F

\* In a queue that is in order the first n requests of a key are those that
\* batchFeasible examined: the chain is in the order of the SLO.
LEMMA FirstIsExamined ==
    ASSUME NEW rs, NEW head, rs[head].phase # "deferred",
           NEW C \in SUBSET Int, IsFiniteSet(C), Compatible(rs, head) = C,
           \A i, j \in C : EarlierEDF(rs, i, j) => i < j,
           NEW n \in Nat
    PROVE  FirstOf(C, n) \in SUBSET FirstCompatible(rs, head, n)
<1> SUFFICES ASSUME NEW k \in C, Rank(C, k) <= n
             PROVE  k \in FirstCompatible(rs, head, n)
  BY DEF FirstOf
<1> DEFINE A == {j \in C : EarlierEDF(rs, j, k)}
           B == {j \in C : j <= k}
<1>1. k \in B /\ k \notin A /\ B \in SUBSET C
  OBVIOUS
<1>2. ASSUME NEW j \in C, EarlierEDF(rs, j, k) PROVE j \in B
  <2>1. j < k
    BY <1>2
  <2> QED BY <2>1
<1>3. A \in SUBSET B
  <2> HIDE DEF B
  <2> QED BY <1>2
<1>4. IsFiniteSet(B)
  BY <1>1, FS_Subset
<1>5. IsFiniteSet(A) /\ Cardinality(A) <= Cardinality(B) /\ (Cardinality(B) = Cardinality(A) => B = A)
  BY <1>3, <1>4, FS_Subset
<1>6. Cardinality(A) \in Nat /\ Cardinality(B) \in Nat /\ Cardinality(A) # Cardinality(B)
  BY <1>1, <1>4, <1>5, FS_CardinalityType
<1>7. Cardinality(B) <= n
  BY DEF Rank
<1>8. Cardinality(A) < n
  <2> HIDE DEF A, B
  <2> QED BY <1>5, <1>6, <1>7
<1> QED BY <1>8 DEF FirstCompatible

\* What the policy sees of a request.
LEMMA StateFields ==
    ASSUME NEW r, NEW phase
    PROVE  /\ State(r, phase).key = Key[r] /\ State(r, phase).phase = phase
           /\ State(r, phase).slo = Remaining(r) /\ State(r, phase).margin = Margin[r]
BY DEF State

\* The queued requests of the snapshot are the queue's, at their positions.
LEMMA QueueStates ==
    ASSUME TypeOK
    PROVE  /\ NormalHead(RequestStates) = DOMAIN queue
           /\ \A n \in DOMAIN queue :
                 RequestStates[n] = State(queue[n], "queued")
           /\ \A k : NormalOf(RequestStates, k) = {n \in DOMAIN queue : Key[queue[n]] = k}
<1> DEFINE Q == [n \in DOMAIN queue |-> State(queue[n], "queued")]
           D == [n \in DOMAIN deferred |-> State(deferred[n], "deferred")]
           A == [n \in DOMAIN active |-> State(active[n], "running")]
           U == {State(queue[n], "queued") : n \in DOMAIN queue}
                \cup {State(deferred[n], "deferred") : n \in DOMAIN deferred}
                \cup {State(active[n], "running") : n \in DOMAIN active}
<1>1. queue \in Seq(Requests) /\ deferred \in Seq(Requests) /\ active \in Seq(Requests)
  BY DEF TypeOK
<1>2. ASSUME NEW s \in Seq(Requests), NEW f, \A n \in DOMAIN s : f[n] \in U,
             f = [n \in DOMAIN s |-> f[n]]
      PROVE  f \in Seq(U) /\ Len(f) = Len(s)
  <2> HIDE DEF U
  <2>1. DOMAIN s = 1..Len(s) /\ Len(s) \in Nat
    OBVIOUS
  <2>2. f \in [1..Len(s) -> U]
    BY <1>2, <2>1
  <2> QED BY <2>1, <2>2
<1>3. /\ Q \in Seq(U) /\ Len(Q) = Len(queue)
      /\ D \in Seq(U) /\ Len(D) = Len(deferred)
      /\ A \in Seq(U) /\ Len(A) = Len(active)
  <2>1. Q \in Seq(U) /\ Len(Q) = Len(queue)
    <3>1. \A n \in DOMAIN queue : Q[n] \in U
      OBVIOUS
    <3>2. Q = [n \in DOMAIN queue |-> Q[n]]
      OBVIOUS
    <3> HIDE DEF Q, D, A, U
    <3> QED BY Zenon, <1>1, <1>2, <3>1, <3>2
  <2>2. D \in Seq(U) /\ Len(D) = Len(deferred)
    <3>1. \A n \in DOMAIN deferred : D[n] \in U
      OBVIOUS
    <3>2. D = [n \in DOMAIN deferred |-> D[n]]
      OBVIOUS
    <3> HIDE DEF Q, D, A, U
    <3> QED BY Zenon, <1>1, <1>2, <3>1, <3>2
  <2>3. A \in Seq(U) /\ Len(A) = Len(active)
    <3>1. \A n \in DOMAIN active : A[n] \in U
      OBVIOUS
    <3>2. A = [n \in DOMAIN active |-> A[n]]
      OBVIOUS
    <3> HIDE DEF Q, D, A, U
    <3> QED BY Zenon, <1>1, <1>2, <3>1, <3>2
  <2> QED BY <2>1, <2>2, <2>3
<1>4. \A n \in DOMAIN queue : Q[n] = State(queue[n], "queued")
  OBVIOUS
<1>5. RequestStates = Q \o D \o A
  BY DEF RequestStates
<1> HIDE DEF Q, D, A, U
<1>6. \A n \in 1..Len(queue) : n \in DOMAIN (Q \o D \o A) /\ (Q \o D \o A)[n] = Q[n]
  <2> DEFINE w == Q \o D \o A
  <2>1. w \in Seq(U) /\ IsJoinOfThree(w, Q, D, A)
    BY Zenon, <1>3, Joined
  <2> HIDE DEF w
  <2>2. /\ Len(Q) \in Nat /\ Len(D) \in Nat /\ Len(A) \in Nat /\ DOMAIN w = 1..Len(w)
        /\ Len(Q) = Len(queue)
    BY <1>3, <2>1
  <2>3. \A n \in 1..Len(queue) : n \in DOMAIN w /\ w[n] = Q[n]
    BY <2>1, <2>2 DEF IsJoinOfThree
  <2> QED BY <2>3 DEF w
<1>7. /\ DOMAIN queue \in SUBSET DOMAIN RequestStates
      /\ \A n \in DOMAIN queue : RequestStates[n] = State(queue[n], "queued")
  <2>1. DOMAIN queue = 1..Len(queue)
    BY <1>1
  <2> QED BY <1>4, <1>5, <1>6, <2>1, Zenon
<1>8. ASSUME NEW n \in DOMAIN queue
      PROVE  RequestStates[n].phase = "queued" /\ RequestStates[n].key = Key[queue[n]]
  <2>1. RequestStates[n] = State(queue[n], "queued")
    BY <1>7
  <2> QED BY <2>1, StateFields
<1>9. NormalHead(RequestStates) = DOMAIN queue
  <2>1. \A i \in NormalHead(RequestStates) : i \in DOMAIN queue
    BY StatesType
  <2>2. \A i \in DOMAIN queue : i \in NormalHead(RequestStates)
    BY <1>7, <1>8 DEF NormalHead, Normal
  <2> QED BY <2>1, <2>2
<1>10. \A k : NormalOf(RequestStates, k) = {n \in DOMAIN queue : Key[queue[n]] = k}
  <2>1. \A k : NormalOf(RequestStates, k)
                 = {i \in NormalHead(RequestStates) : RequestStates[i].key = k}
    BY DEF NormalOf, NormalHead
  <2> QED BY <1>8, <1>9, <2>1
<1> QED BY <1>7, <1>9, <1>10

\* In serving the chain of compatible queued requests is in list order.
LEMMA ListOrder ==
    ASSUME TypeOK, Sorted(queue, Dues), NEW i \in DOMAIN queue, NEW j \in DOMAIN queue,
           EarlierEDF(RequestStates, i, j)
    PROVE  i < j
<1>1. queue \in Seq(Requests) /\ Dues \in [Requests -> Int]
      /\ \A r \in Requests : Remaining(r) = Dues[r] - now
  BY DuesType DEF TypeOK
<1>2. now \in Int
  BY ActorAssumption DEF TypeOK
<1>3. i \in Nat /\ j \in Nat /\ queue[i] \in Requests /\ queue[j] \in Requests
  BY <1>1
<1>4. /\ RequestStates[i].slo = Remaining(queue[i])
      /\ RequestStates[j].slo = Remaining(queue[j])
  <2>1. /\ RequestStates[i] = State(queue[i], "queued")
        /\ RequestStates[j] = State(queue[j], "queued")
    BY QueueStates
  <2> QED BY <2>1, StateFields
<1>5. /\ Dues[queue[i]] \in Int /\ Dues[queue[j]] \in Int
      /\ RequestStates[i].slo = Dues[queue[i]] - now
      /\ RequestStates[j].slo = Dues[queue[j]] - now
  BY <1>1, <1>3, <1>4
<1>6. j < i => Dues[queue[j]] <= Dues[queue[i]]
  BY DEF Sorted
<1> HIDE DEF Dues
<1>7. \/ RequestStates[i].slo < RequestStates[j].slo
      \/ (RequestStates[i].slo = RequestStates[j].slo /\ i < j)
  BY Zenon DEF EarlierEDF
<1> DEFINE a == Dues[queue[i]]
           b == Dues[queue[j]]
           x == RequestStates[i].slo
           y == RequestStates[j].slo
<1>8. /\ a \in Int /\ b \in Int /\ x = a - now /\ y = b - now
      /\ (j < i => b <= a) /\ (x < y \/ (x = y /\ i < j))
  BY Zenon, <1>5, <1>6, <1>7
<1>9. i = j => a = b
  OBVIOUS
<1> HIDE DEF a, b, x, y
<1> QED BY <1>2, <1>3, <1>8, <1>9

\* What a batch chosen by the policy promises of the queue it is taken from.
Promised(c, cost) ==
    LET C == {n \in DOMAIN queue : Key[queue[n]] = c.key}
    IN  /\ c.reason = "energy" =>
             /\ queue # <<>> /\ c.profile \in 1..Profiles
             /\ Mode = "serving" => \A n \in FirstOf(C, c.size) :
                   Remaining(queue[n]) - Margin[queue[n]] - cost.now[c.profile] >= 0
        /\ c.reason = "fixed" =>
             queue # <<>> /\ c.size = FixedBatchSize /\ FixedBatchSize <= Cardinality(C)
        /\ Mode = "profiling" => c.size \in {0, 1} /\ c.reason \in {"empty", "throughput"}

\* batchFeasible examines the requests that startBatch takes.
LEMMA FeasibleIsPromised ==
    ASSUME TypeOK, Sorted(queue, Dues), NEW head \in DOMAIN queue,
           NEW n \in 1..Profiles, NEW cost \in Costs, BatchFeasible(RequestStates, head, n, cost)
    PROVE  \A k \in FirstOf({i \in DOMAIN queue : Key[queue[i]] = RequestStates[head].key}, Size[n]) :
              Remaining(queue[k]) - Margin[queue[k]] - cost.now[n] >= 0
<1> DEFINE C == {i \in DOMAIN queue : Key[queue[i]] = RequestStates[head].key}
<1>1. C \in SUBSET DOMAIN queue /\ C \in SUBSET Int /\ IsFiniteSet(C)
  <2>1. queue \in Seq(Requests) /\ C \in SUBSET DOMAIN queue
    BY DEF TypeOK
  <2> QED BY <2>1, SeqDomain, FS_Subset
<1>2. RequestStates[head].phase = "queued"
  BY QueueStates, StateFields
<1>3. Compatible(RequestStates, head) = C
  BY <1>2, QueueStates DEF Compatible
<1>4. \A i, j \in C : EarlierEDF(RequestStates, i, j) => i < j
  BY ListOrder
<1>5. Size[n] \in Nat
  BY PolicyAssumption
<1>6. FirstOf(C, Size[n]) \in SUBSET FirstCompatible(RequestStates, head, Size[n])
  <2> HIDE DEF C
  <2> QED BY <1>1, <1>2, <1>3, <1>4, <1>5, FirstIsExamined
<1>7. ASSUME NEW k \in FirstOf(C, Size[n])
      PROVE  Remaining(queue[k]) - Margin[queue[k]] - cost.now[n] >= 0
  <2>1. k \in DOMAIN queue
    BY <1>1 DEF FirstOf
  <2>2. Slack(RequestStates[k], cost.now[n]) >= 0
    BY <1>6 DEF BatchFeasible
  <2>3. RequestStates[k] = State(queue[k], "queued")
    BY <2>1, QueueStates
  <2>4. /\ RequestStates[k].slo = Remaining(queue[k])
        /\ RequestStates[k].margin = Margin[queue[k]]
    BY <2>3, StateFields
  <2> QED BY <2>2, <2>4 DEF Slack
<1> QED BY <1>7

\* Every choice keeps what it promises.
LEMMA ChoicePromises ==
    ASSUME TypeOK, BatchInv, NEW cost \in Costs, NEW interval \in Intervals
    PROVE  Promised(Choose(cost, interval), cost)
<1> DEFINE c == Choose(cost, interval)
<1>1. interval \in Nat /\ Profiles \in Nat /\ Mode \in {"serving", "profiling"}
  BY ActorAssumption, PolicyAssumption
<1>2. CASE queue = <<>> /\ deferred = <<>>
  BY <1>2 DEF Choose, Choice, Promised
<1>3. CASE ~(queue = <<>> /\ deferred = <<>>) /\ Mode = "profiling"
  BY <1>3 DEF Choose, Choice, Promised
<1>4. CASE ~(queue = <<>> /\ deferred = <<>>) /\ Mode # "profiling"
  <2>1. c = ChooseBatch(RequestStates, act.cap, cost, interval)
    BY <1>4 DEF Choose
  <2>2. RequestStates \in Snapshots(Requests, {Key[r] : r \in Requests})
        /\ NormalHead(RequestStates) = DOMAIN queue
    BY StatesType, QueueStates
  <2> DEFINE C == {n \in DOMAIN queue : Key[queue[n]] = c.key}
  <2> HIDE DEF c
  <2>3. /\ c.reason = "energy" =>
             /\ c.profile \in 1..Profiles /\ c.size = Size[c.profile]
             /\ NormalHead(RequestStates) # {}
             /\ c.key = RequestStates[Head0(RequestStates)].key
             /\ BatchFeasible(RequestStates, Head0(RequestStates), c.profile, cost)
        /\ c.reason = "fixed" =>
             /\ c.size = FixedBatchSize
             /\ \E i \in NormalHead(RequestStates) :
                   /\ c.key = RequestStates[i].key
                   /\ CompatibleCount(RequestStates, i) >= FixedBatchSize
    BY <1>1, <2>1, <2>2, ChooseBatchType
  <2>4. ASSUME c.reason = "energy"
        PROVE  /\ queue # <<>> /\ c.profile \in 1..Profiles
               /\ \A n \in FirstOf(C, c.size) :
                     Remaining(queue[n]) - Margin[queue[n]] - cost.now[c.profile] >= 0
    <3>1. Head0(RequestStates) \in DOMAIN queue /\ queue # <<>>
      BY <2>2, <2>3, <2>4, HeadType
    <3>2. Sorted(queue, Dues)
      BY <1>1, <1>4 DEF BatchInv
    <3> QED BY <2>3, <2>4, <3>1, <3>2, FeasibleIsPromised
  <2>5. ASSUME c.reason = "fixed"
        PROVE  queue # <<>> /\ c.size = FixedBatchSize /\ FixedBatchSize <= Cardinality(C)
    <3>1. PICK i \in DOMAIN queue : /\ c.key = RequestStates[i].key
                                    /\ CompatibleCount(RequestStates, i) >= FixedBatchSize
      BY <2>2, <2>3, <2>5
    <3>2. RequestStates[i].phase = "queued"
      BY QueueStates, StateFields
    <3>3. Compatible(RequestStates, i) = C
      BY <3>1, <3>2, QueueStates DEF Compatible
    <3>4. Cardinality(C) >= FixedBatchSize
      BY <3>1, <3>3 DEF CompatibleCount
    <3>5. Cardinality(C) \in Nat /\ FixedBatchSize \in Nat
      <4>1. queue \in Seq(Requests) /\ C \in SUBSET DOMAIN queue
        BY DEF TypeOK
      <4> QED BY <4>1, SeqDomain, FS_Subset, FS_CardinalityType, PolicyAssumption
    <3> HIDE DEF C
    <3> QED BY <2>3, <2>5, <3>1, <3>4, <3>5
  <2> QED BY <1>4, <2>4, <2>5 DEF Promised, c
<1> QED BY <1>2, <1>3, <1>4

\* startBatch starts a batch that it may start.
LEMMA StartBatchRight ==
    ASSUME IInv, BatchInv, NEW cost \in Costs, NEW c, StartMembers(c, cost), Promised(c, cost),
           IInv', Arrived, c.reason \in Reasons
    PROVE  BatchInv'
<1> DEFINE pending == IF queue = <<>> THEN deferred ELSE queue
           taken == Members(pending, c)
           C == {n \in DOMAIN queue : Key[queue[n]] = c.key}
           start == req'
<1>1. /\ queue' = Without(queue, Range(taken)) /\ active' = taken /\ batch'.started = now
      /\ batch'.reason = c.reason
      /\ batch'.cost = (IF c.profile = 0 THEN 0 ELSE cost.now[c.profile])
  BY DEF StartMembers
<1>2. pending \in Seq(Requests) /\ queue \in Seq(Requests) /\ Mode \in {"serving", "profiling"}
  BY ActorAssumption DEF IInv, TypeOK
<1>3. \A r \in Range(taken) : Key[r] = c.key
  <2> HIDE DEF pending
  <2> QED BY <1>2, TakenIs
<1>4. queue # <<>> => /\ Range(taken) = {queue[n] : n \in FirstOf(C, c.size)}
                      /\ FirstOf(C, c.size) \in SUBSET DOMAIN queue
  <2>1. queue # <<>> => Range(Members(queue, c)) = {queue[n] : n \in FirstOf(C, c.size)}
    BY <1>2, TakenIs
  <2>2. FirstOf(C, c.size) \in SUBSET DOMAIN queue
    BY DEF FirstOf
  <2> QED BY <2>1, <2>2
<1>5. FixedBatchSize \in Nat
  BY PolicyAssumption
<1>6. Mode = "serving" => Sorted(queue', Dues')
  BY <1>1, QueueKeepsOrder
<1>7. BatchMeetsSLO'
  <2>1. \A r \in Range(active') : Key[r] = c.key
    BY <1>1, <1>3
  <2>2. active' # <<>> => active'[1] \in Range(active')
    <3>1. active' \in Seq(Requests)
      BY DEF IInv, TypeOK
    <3> QED BY <3>1 DEF Range
  <2>3. ASSUME c.reason = "energy", NEW r \in Range(active')
        PROVE  req'[r].received + Slo[r] - batch'.started - Margin[r] - batch'.cost >= 0
    <3>1. queue # <<>> /\ c.profile \in 1..Profiles /\ Mode = "serving"
      BY <1>2, <2>3 DEF Promised
    <3>2. PICK n \in FirstOf(C, c.size) : r = queue[n] /\ n \in DOMAIN queue
      BY <1>1, <1>4, <2>3, <3>1
    <3>3. Remaining(queue[n]) - Margin[queue[n]] - cost.now[c.profile] >= 0
      BY <2>3, <3>1, <3>2 DEF Promised
    <3>4. r \in Range(queue) /\ r \in Held /\ r \in Requests
      BY <1>2, <3>2 DEF Range, Held
    <3>5. req'[r].received = req[r].received
      BY <3>4, HeldArrived
    <3>6. Profiles \in Nat /\ c.profile # 0
      BY <3>1, PolicyAssumption
    <3>7. batch'.cost = cost.now[c.profile]
      BY <1>1, <3>6
    <3>8. Remaining(r) = req[r].received + Slo[r] - now
      BY DEF Remaining
    <3>9. /\ req[r].received \in Int /\ Slo[r] \in Int /\ Margin[r] \in Int /\ now \in Int
          /\ cost.now[c.profile] \in Int
      <4>1. Slo[r] \in Int /\ Margin[r] \in Nat /\ req[r] \in ReqType /\ MaxTime \in Nat
            /\ now \in 0..MaxTime /\ cost.now \in [1..Profiles -> Nat]
        BY <3>4, ActorAssumption DEF IInv, TypeOK
      <4>2. req[r].received \in 0..MaxTime
        BY <4>1 DEF ReqType
      <4>3. cost.now[c.profile] \in Nat
        BY <3>1, <4>1
      <4> QED BY <4>1, <4>2, <4>3
    <3> DEFINE a == req[r].received
               b == Slo[r]
               d == Margin[r]
               e == cost.now[c.profile]
    <3>10. a + b - now - d - e >= 0
      <4>1. Remaining(r) - d - e >= 0
        BY <3>2, <3>3
      <4>2. a \in Int /\ b \in Int /\ d \in Int /\ e \in Int /\ now \in Int
        BY <3>9
      <4>3. Remaining(r) = a + b - now
        BY <3>8
      <4> HIDE DEF a, b, d, e
      <4> QED BY <4>1, <4>2, <4>3
    <3>11. req'[r].received = a /\ batch'.started = now /\ batch'.cost = e
      BY <1>1, <3>5, <3>7
    <3>12. req'[r].received + b - batch'.started - d - batch'.cost = a + b - now - d - e
      BY <3>11
    <3> QED BY <3>10, <3>12
  <2> QED BY <1>1, <2>1, <2>2, <2>3 DEF BatchMeetsSLO
<1>8. FixedBatchExact'
  <2> SUFFICES ASSUME c.reason = "fixed" PROVE Len(active') = FixedBatchSize
    BY <1>1 DEF FixedBatchExact
  <2>1. queue # <<>> /\ c.size = FixedBatchSize /\ FixedBatchSize <= Cardinality(C)
    BY DEF Promised
  <2>2. active' = Members(queue, c)
    BY <1>1, <2>1
  <2>3. Len(Members(queue, c)) = c.size
    BY <1>2, <1>5, <2>1, TakenIs
  <2> QED BY <2>1, <2>2, <2>3
<1>9. TrialAlone'
  <2> SUFFICES ASSUME Mode = "profiling" PROVE Len(active') <= 1
    BY DEF TrialAlone
  <2>1. c.size = 1
    BY DEF StartMembers, Promised
  <2> DEFINE P == {n \in DOMAIN pending : Key[pending[n]] = c.key}
  <2>2. Cardinality(P) \in Nat
        /\ Len(taken) = IF c.size <= Cardinality(P) THEN c.size ELSE Cardinality(P)
    <3> HIDE DEF pending
    <3>1. Cardinality(P) \in Nat
      BY <1>2, TakenIs
    <3>2. c.size \in Nat
      BY <2>1
    <3> QED BY <1>2, <3>1, <3>2, TakenIs
  <2> HIDE DEF P, taken
  <2> QED BY <1>1, <2>1, <2>2
<1> QED BY <1>6, <1>7, <1>8, <1>9 DEF BatchInv

\* A turn that chooses.
LEMMA StartBatchBatch == ASSUME IInv, BatchInv, StartBatch PROVE BatchInv'
<1>1. PICK cost \in Costs, interval \in Intervals :
         LET c == Choose(cost, interval)
         IN  DropOrDefer(c) \/ WaitForMore(c) \/ StartMembers(c, cost)
  BY DEF StartBatch
<1> DEFINE c == Choose(cost, interval)
<1>2. Promised(c, cost) /\ c.reason \in Reasons
  BY ChooseType, ChoicePromises DEF IInv
<1>3. IInv'
  BY StartBatchStep
<1> HIDE DEF c
<1>4. CASE DropOrDefer(c)
  <2>1. queue' = Without(queue, {c.id}) /\ UNCHANGED <<active, batch>>
    BY <1>4 DEF DropOrDefer
  <2> QED BY <1>3, <1>4, <2>1, DropArrives, BatchQuiet
<1>5. CASE WaitForMore(c)
  <2>1. Arrived /\ UNCHANGED <<queue, active, batch>>
    BY <1>5 DEF WaitForMore, Arrived
  <2> QED BY <1>3, <2>1, BatchQuiet
<1>6. CASE StartMembers(c, cost)
  BY <1>2, <1>3, <1>6, StartArrives, StartBatchRight
<1> QED BY <1>1, <1>4, <1>5, <1>6 DEF c

\* A request that is admitted is queued in order.
LEMMA AdmitBatch == ASSUME IInv, BatchInv, NEW r \in Requests, Admit(r) PROVE BatchInv'
<1>1. IInv' /\ Arrived
  BY AdmitStep, OthersArrive
<1>2. UNCHANGED <<active, batch>>
  BY DEF Admit
<1>3. CASE queue' = queue
  BY <1>1, <1>2, <1>3, BatchQuiet
<1>4. CASE queue' # queue
  <2>1. BatchMeetsSLO' /\ FixedBatchExact' /\ TrialAlone'
    BY <1>1, <1>2, ActiveKept
  <2>2. ASSUME Mode = "serving" PROVE Sorted(queue', Dues')
    <3>1. /\ queue \in Seq(Requests) /\ Dues \in [Requests -> Int]
          /\ \A p \in Requests : Remaining(p) = Dues[p] - now
      BY DuesType DEF IInv, TypeOK
    <3>2. now \in Int
      BY ActorAssumption DEF IInv, TypeOK
    <3>3. queue' = InsertAt(queue, InsertIndex(r), r)
      BY <1>4, <2>2 DEF Admit
    <3>4. InsertIndex(r) = 1 + Cardinality({n \in DOMAIN queue : Dues[queue[n]] <= Dues[r]})
      <4>1. ASSUME NEW n \in DOMAIN queue
            PROVE  Remaining(queue[n]) <= Remaining(r) <=> Dues[queue[n]] <= Dues[r]
        <5>1. queue[n] \in Requests /\ Dues[queue[n]] \in Int /\ Dues[r] \in Int
          BY <3>1
        <5>2. Remaining(queue[n]) = Dues[queue[n]] - now /\ Remaining(r) = Dues[r] - now
          BY <3>1, <5>1
        <5> QED BY <3>2, <5>1, <5>2
      <4>2. {n \in DOMAIN queue : Remaining(queue[n]) <= Remaining(r)}
              = {n \in DOMAIN queue : Dues[queue[n]] <= Dues[r]}
        BY <4>1
      <4> QED BY <4>2 DEF InsertIndex
    <3>5. Sorted(queue', Dues)
      BY <2>2, <3>1, <3>3, <3>4, InsertSorted DEF BatchInv
    <3>6. \A n \in DOMAIN queue' : queue'[n] \in Range(queue) \cup {r}
      <4>1. Range(queue') = Range(queue) \cup {r}
        BY <3>1, <3>3, InsertIndexType, InsertAtElements DEF IInv
      <4> QED BY <4>1 DEF Range
    <3>7. \A p \in Range(queue) \cup {r} : Dues'[p] = Dues[p]
      <4>1. \A p \in Range(queue) : Dues'[p] = Dues[p]
        BY <1>1, HeldArrived DEF Held
      <4>2. req[r].at # "new"
        BY DEF Admit
      <4>3. Dues'[r] = Dues[r]
        BY <1>1, <4>2 DEF Arrived, Dues
      <4> QED BY <4>1, <4>3
    <3> QED BY <3>5, <3>6, <3>7 DEF Sorted
  <2> QED BY <2>1, <2>2 DEF BatchInv
<1> QED BY <1>3, <1>4

LEMMA InitBatch == Init => BatchInv
<1> SUFFICES ASSUME Init PROVE BatchInv
  OBVIOUS
<1>1. queue = <<>> /\ active = <<>>
  BY DEF Init
<1>2. Sorted(queue, Dues)
  BY <1>1 DEF Sorted
<1> QED BY <1>1, <1>2 DEF BatchInv, BatchMeetsSLO, FixedBatchExact, TrialAlone

LEMMA NextBatch == IInv /\ BatchInv /\ [Next]_vars => BatchInv'
<1> SUFFICES ASSUME IInv, BatchInv, [Next]_vars PROVE BatchInv'
  OBVIOUS
<1>1. IInv'
  BY NextInv
<1>2. ASSUME NEW r \in Requests,
             Serve(r) \/ Cancel(r) \/ Withdraw(r) \/ Return(r) \/ Abandon(r)
      PROVE  BatchInv'
  <2>1. UNCHANGED <<queue, active, batch>>
    BY <1>2 DEF Serve, Cancel, Withdraw, Return, Abandon
  <2> QED BY <1>1, <1>2, <2>1, OthersArrive, BatchQuiet
<1>3. ASSUME NEW r \in Requests, Admit(r) PROVE BatchInv'
  BY <1>3, AdmitBatch
<1>4. CASE ExpireQueued
  <2>1. req' = Finished(Expired) /\ queue' = Without(queue, Expired) /\ UNCHANGED <<active, batch>>
    BY <1>4 DEF ExpireQueued
  <2> QED BY <1>1, <2>1, FinishedArrived, BatchQuiet
<1>5. CASE StartBatch
  BY <1>5, StartBatchBatch
<1>6. CASE FinishBatch
  <2>1. req' = Finished(Range(active)) /\ active' = <<>> /\ UNCHANGED <<queue, batch>>
    BY <1>6 DEF FinishBatch
  <2> QED BY <1>1, <2>1, FinishedArrived, BatchQuiet
<1>7. CASE Fail
  <2>1. req' = Finished(Held) /\ active' = <<>> /\ queue' = <<>> /\ batch' = batch
    BY <1>7 DEF Fail
  <2> QED BY <1>1, <2>1, FinishedArrived, BatchQuiet
<1>8. CASE \/ Wake \/ (\E cap \in Caps : Update(cap)) \/ Infer \/ RunnerExit
           \/ Terminate \/ Tick \/ UNCHANGED vars
  <2>1. UNCHANGED <<req, queue, active, batch>>
    BY <1>8 DEF Wake, Update, Infer, RunnerExit, Terminate, Tick, vars
  <2>2. Arrived
    BY <2>1 DEF Arrived
  <2> QED BY <1>1, <2>1, <2>2, BatchQuiet
<1> QED BY <1>2, <1>3, <1>4, <1>5, <1>6, <1>7, <1>8 DEF Next

\* The policy's promises hold of the batch that runs: startBatch takes it from
\* the front of a queue in the order of the SLO, so that the requests it takes are
\* those whose feasibility chooseBatch examined; a fixed batch is full, and a
\* profiling trial runs by itself.
THEOREM BatchesAreRight == Spec => []BatchSound
<1>1. IInv /\ BatchInv => BatchSound
  <2> SUFFICES ASSUME IInv, BatchInv, Mode = "serving" PROVE QueueInOrder
    BY DEF BatchInv, BatchSound, QueueInOrder
  <2> SUFFICES ASSUME NEW m \in DOMAIN queue, NEW n \in DOMAIN queue, m < n
               PROVE  Remaining(queue[m]) <= Remaining(queue[n])
    BY DEF QueueInOrder
  <2>1. /\ queue \in Seq(Requests) /\ Dues \in [Requests -> Int] /\ now \in Int
        /\ \A p \in Requests : Remaining(p) = Dues[p] - now
    BY SMTT(30), DuesType, ActorAssumption DEF IInv, TypeOK
  <2>2. queue[m] \in Requests /\ queue[n] \in Requests
    BY <2>1
  <2>3. Dues[queue[m]] <= Dues[queue[n]]
    BY DEF BatchInv, Sorted
  <2>4. Dues[queue[m]] \in Int /\ Dues[queue[n]] \in Int
        /\ Remaining(queue[m]) = Dues[queue[m]] - now
        /\ Remaining(queue[n]) = Dues[queue[n]] - now
    BY <2>1, <2>2
  <2> QED BY <2>1, <2>3, <2>4
<1> QED BY <1>1, InitBatch, NextBatch, Invariant, PTL DEF Spec
=============================================================================
