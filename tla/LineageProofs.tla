---------------------------- MODULE LineageProofs ----------------------------
(***************************************************************************)
(* Proofs about Lineage: that the running summary is that of the unspent   *)
(* positions after any blocks and reorgs, whatever the positions.          *)
(***************************************************************************)
EXTENDS Lineage, Sums

\* The provers a leaf that names none is given to, in turn.  tlapm gives up
\* preparing an obligation for a prover after a few seconds, which a large
\* context can take; the later entries are there for such a leaf.
USE SMTT(30), Zenon, Z3T(30), SMTT(40)

Table == [Position -> [height : 0..MaxHeight, spent : BOOLEAN]]

\* The rows and holders that table ps should have.
Agrees(rs, hs, ps) ==
  \A o \in Origin :
    /\ rs[o] = Summary(ps, o)
    /\ \A x \in Key : hs[o][x] = Cardinality(HeldBy(Unspent(ps, o), x))

\* No lineage's value is past what the running total can hold.
Fits(ps) == Bounded(LiveSet(ps))

-----------------------------------------------------------------------------
(***************************************************************************)
(* Sets of positions.                                                      *)
(***************************************************************************)
LEMMA WorthIsNat == \A k \in Position : Worth[k] \in Nat
  BY LineageAssumption DEF Worth

LEMMA SumOfSets ==
  ASSUME NEW S \in SUBSET Position
  PROVE  /\ IsFiniteSet(S) /\ SumOf(S) \in Nat
         /\ \A R \in SUBSET S : SumOf(R) <= SumOf(S)
         /\ \A k \in Position \ S : SumOf(S \cup {k}) = SumOf(S) + Worth[k]
         /\ \A k \in S : SumOf(S) = SumOf(S \ {k}) + Worth[k]
<1>1. IsFiniteSet(S) /\ \A k \in S : Worth[k] \in Nat
  BY LineageAssumption, FS_Subset, WorthIsNat
<1>2. SumOf(S) \in Nat
  BY <1>1, SumNat DEF SumOf
<1>3. ASSUME NEW R \in SUBSET S PROVE SumOf(R) <= SumOf(S)
  <2>1. \A x \in S : Worth[x] \in Int /\ Worth[x] \in Nat
    BY <1>1
  <2>2. \A x \in R : Worth[x] <= Worth[x]
    BY <2>1
  <2> QED
    BY <1>1, <2>1, <2>2, SumMonotone DEF SumOf
<1>4. ASSUME NEW k \in Position \ S PROVE SumOf(S \cup {k}) = SumOf(S) + Worth[k]
  <2>1. Worth[k] \in Nat /\ \A x \in S \cup {k} : Worth[x] \in Int
    BY WorthIsNat
  <2>2. SumFunctionOnSet(Worth, S \cup {k}) = Worth[k] + SumFunctionOnSet(Worth, S)
    BY <1>1, <2>1, SumAdd
  <2> QED
    BY <1>2, <2>1, <2>2 DEF SumOf
<1>5. ASSUME NEW k \in S PROVE SumOf(S) = SumOf(S \ {k}) + Worth[k]
  <2>1. Worth[k] \in Nat /\ \A x \in S : Worth[x] \in Int
    BY WorthIsNat
  <2>2. /\ SumFunctionOnSet(Worth, S \ {k}) \in Int
        /\ SumFunctionOnSet(Worth, S) = Worth[k] + SumFunctionOnSet(Worth, S \ {k})
    BY <1>1, <2>1, SumRemove
  <2> QED
    BY <2>1, <2>2 DEF SumOf
<1> QED
  BY <1>1, <1>2, <1>3, <1>4, <1>5

LEMMA HoldersFinite ==
  ASSUME NEW S \in SUBSET Position
  PROVE  IsFiniteSet(Holders(S))
<1> DEFINE T == {R \in SUBSET Position : IsFiniteSet(Holders(R))}
<1>1. {} \in T
  <2>1. Holders({}) = {}
    BY DEF Holders
  <2> QED
    BY <2>1, FS_EmptySet
<1>2. \A R \in SUBSET Position, k \in Position : R \in T /\ k \notin R => R \cup {k} \in T
  <2> SUFFICES ASSUME NEW R \in SUBSET Position, NEW k \in Position, R \in T
               PROVE  R \cup {k} \in T
    OBVIOUS
  <2>1. Holders(R \cup {k}) = Holders(R) \cup {KeyOf[k]}
    BY DEF Holders
  <2>2. IsFiniteSet(Holders(R) \cup {KeyOf[k]})
    BY FS_AddElement
  <2> QED
    BY <2>1, <2>2
<1>3. SUBSET Position \subseteq T
  <2> HIDE DEF T
  <2> QED
    BY <1>1, <1>2, LineageAssumption, SubsetsBySteps
<1> QED
  BY <1>3

\* The counts of a set of positions.
LEMMA CountsAreNat ==
  ASSUME NEW S \in SUBSET Position
  PROVE  /\ Cardinality(S) \in Nat /\ Cardinality(Holders(S)) \in Nat
         /\ Cardinality(S) = 0 <=> S = {}
         /\ \A x : /\ Cardinality(HeldBy(S, x)) \in Nat
                   /\ Cardinality(HeldBy(S, x)) = 0 <=> x \notin Holders(S)
<1>1. IsFiniteSet(S) /\ IsFiniteSet(Holders(S))
  BY SumOfSets, HoldersFinite
<1>2. /\ Cardinality(S) \in Nat /\ Cardinality(Holders(S)) \in Nat
      /\ Cardinality(S) = 0 <=> S = {}
  BY <1>1, FS_CardinalityType, FS_EmptySet
<1>3. ASSUME NEW x
      PROVE  /\ Cardinality(HeldBy(S, x)) \in Nat
             /\ Cardinality(HeldBy(S, x)) = 0 <=> x \notin Holders(S)
  <2>1. HeldBy(S, x) \in SUBSET S
    BY DEF HeldBy
  <2>2. IsFiniteSet(HeldBy(S, x))
    BY <1>1, <2>1, FS_Subset
  <2>3. HeldBy(S, x) = {} <=> x \notin Holders(S)
    BY DEF HeldBy, Holders
  <2> QED
    BY <2>2, <2>3, FS_CardinalityType, FS_EmptySet
<1> QED
  BY <1>2, <1>3

\* One more position: one more of its holder's, who may be new.
LEMMA CountsAfterAdd ==
  ASSUME NEW S \in SUBSET Position, NEW k \in Position \ S
  PROVE  /\ Cardinality(S \cup {k}) = Cardinality(S) + 1
         /\ Cardinality(Holders(S \cup {k})) =
              IF Cardinality(HeldBy(S, KeyOf[k])) = 0 THEN Cardinality(Holders(S)) + 1
              ELSE Cardinality(Holders(S))
         /\ \A x : Cardinality(HeldBy(S \cup {k}, x)) =
                     IF x = KeyOf[k] THEN Cardinality(HeldBy(S, x)) + 1
                     ELSE Cardinality(HeldBy(S, x))
<1>1. IsFiniteSet(S) /\ IsFiniteSet(Holders(S))
  BY SumOfSets, HoldersFinite
<1>2. Cardinality(S \cup {k}) = Cardinality(S) + 1
  BY <1>1, FS_AddElement
<1>3. Holders(S \cup {k}) = Holders(S) \cup {KeyOf[k]}
  BY DEF Holders
<1>4. Cardinality(Holders(S \cup {k})) =
        IF KeyOf[k] \in Holders(S) THEN Cardinality(Holders(S)) ELSE Cardinality(Holders(S)) + 1
  BY <1>1, <1>3, FS_AddElement, Zenon
<1>5. Cardinality(HeldBy(S, KeyOf[k])) = 0 <=> KeyOf[k] \notin Holders(S)
  BY CountsAreNat
<1>6. ASSUME NEW x
      PROVE  Cardinality(HeldBy(S \cup {k}, x)) =
               IF x = KeyOf[k] THEN Cardinality(HeldBy(S, x)) + 1
               ELSE Cardinality(HeldBy(S, x))
  <2>1. CASE x = KeyOf[k]
    <3>1. HeldBy(S \cup {k}, x) = HeldBy(S, x) \cup {k} /\ k \notin HeldBy(S, x)
      BY <2>1 DEF HeldBy
    <3>2. IsFiniteSet(HeldBy(S, x))
      <4>1. HeldBy(S, x) \in SUBSET S
        BY DEF HeldBy
      <4> QED
        BY <1>1, <4>1, FS_Subset
    <3> QED
      BY <2>1, <3>1, <3>2, FS_AddElement, ZenonT(60)
  <2>2. CASE x # KeyOf[k]
    <3>1. HeldBy(S \cup {k}, x) = HeldBy(S, x)
      BY <2>2 DEF HeldBy
    <3> QED
      BY <2>2, <3>1
  <2> QED
    BY <2>1, <2>2
<1> QED
  BY <1>2, <1>4, <1>5, <1>6

-----------------------------------------------------------------------------
(***************************************************************************)
(* Summaries.                                                              *)
(***************************************************************************)
MintHeight(ps, M) == IF M = {} THEN 0 ELSE ps[CHOOSE k \in M : TRUE].height

\* The summary's fields, of an empty lineage too.
SummaryOf(ps, o, S) ==
  [present       |-> S # {},
   multiplier    |-> IF S = {} THEN 0 ELSE MultOf[o],
   unspentValue  |-> SumOf(S),
   holderCount   |-> Cardinality(Holders(S)),
   positionCount |-> Cardinality(S),
   mintHeight    |-> MintHeight(ps, S \cap IsMint),
   hasMint       |-> S \cap IsMint # {}]

LEMMA SummaryFields ==
  ASSUME NEW ps, NEW o
  PROVE  Summary(ps, o) = SummaryOf(ps, o, Unspent(ps, o))
<1> DEFINE S == Unspent(ps, o)
<1>1. CASE S = {}
  <2>1. SumOf({}) = 0 /\ Cardinality({}) = 0
    BY SumEmpty, FS_EmptySet DEF SumOf
  <2>2. Holders({}) = {} /\ {} \cap IsMint = {}
    BY DEF Holders
  <2>3. MintHeight(ps, {}) = 0
    BY DEF MintHeight
  <2>4. SummaryOf(ps, o, {}) = NoRow
    BY <2>1, <2>2, <2>3, Zenon DEF SummaryOf, NoRow
  <2>5. Summary(ps, o) = NoRow
    BY <1>1 DEF Summary
  <2> QED
    BY <1>1, <2>4, <2>5
<1>2. CASE S # {}
  BY <1>2, Zenon DEF Summary, SummaryOf, MintHeight
<1> QED
  BY <1>1, <1>2

LEMMA UnspentIn ==
  ASSUME NEW ps, NEW o
  PROVE  Unspent(ps, o) \in SUBSET Position /\ Unspent(ps, o) \in SUBSET LiveSet(ps)
         /\ LiveSet(ps) \in SUBSET Position
  BY DEF Unspent, LiveSet

\* A lineage has one mint.
LEMMA OneMint ==
  ASSUME NEW ps, NEW o \in Origin, NEW k \in Unspent(ps, o) \cap IsMint
  PROVE  Unspent(ps, o) \cap IsMint = {k} /\ MintHeight(ps, Unspent(ps, o) \cap IsMint) = ps[k].height
<1>1. Unspent(ps, o) \cap IsMint = {k}
  BY OriginAssumption DEF Unspent
<1>2. (CHOOSE j \in {k} : TRUE) = k
  OBVIOUS
<1> QED
  BY <1>1, <1>2 DEF MintHeight

\* Rows are of their type.
LEMMA SummaryType ==
  ASSUME NEW ps \in Table, NEW o \in Origin, Fits(ps)
  PROVE  Summary(ps, o) \in Row
<1> DEFINE S == Unspent(ps, o)
<1>1. S \in SUBSET Position /\ S \in SUBSET LiveSet(ps) /\ LiveSet(ps) \in SUBSET Position
  BY UnspentIn
<1>2. SumOf(S) \in 0..MaxInt64
  <2>1. SumOf(S) \in Nat
    BY <1>1, SumOfSets
  <2>2. SumOf(S) <= MaxInt64
    BY DEF Fits, Bounded, Unspent
  <2> QED
    BY <2>1, <2>2, LineageAssumption
<1>3. Cardinality(S) \in Nat /\ Cardinality(Holders(S)) \in Nat
  BY <1>1, CountsAreNat
<1>4. (IF S = {} THEN 0 ELSE MultOf[o]) \in Int
  BY LineageAssumption
<1>5. MintHeight(ps, S \cap IsMint) \in 0..MaxHeight
  <2>1. CASE S \cap IsMint = {}
    BY <2>1, LineageAssumption DEF MintHeight
  <2>2. CASE S \cap IsMint # {}
    <3>1. PICK k \in S \cap IsMint : TRUE
      BY <2>2
    <3>2. MintHeight(ps, S \cap IsMint) = ps[k].height
      BY <3>1, OneMint
    <3>3. k \in Position
      BY <1>1, <3>1
    <3> QED
      BY <3>2, <3>3 DEF Table
  <2> QED
    BY <2>1, <2>2
<1> HIDE DEF S
<1>6. SummaryOf(ps, o, S) \in Row
  BY <1>2, <1>3, <1>4, <1>5 DEF SummaryOf, Row
<1> QED
  BY <1>6, SummaryFields DEF S

\* A lineage none of whose unspent positions a change touches keeps its summary.
LEMMA SummaryKept ==
  ASSUME NEW ps, NEW qs, NEW o \in Origin, Unspent(qs, o) = Unspent(ps, o),
         \A k \in Unspent(ps, o) : qs[k] = ps[k]
  PROVE  Summary(qs, o) = Summary(ps, o)
<1> DEFINE M == Unspent(ps, o) \cap IsMint
<1>1. MintHeight(qs, M) = MintHeight(ps, M)
  <2>1. CASE M = {}
    BY <2>1 DEF MintHeight
  <2>2. CASE M # {}
    <3>1. PICK k \in M : TRUE
      BY <2>2
    <3>2. MintHeight(ps, M) = ps[k].height
      BY <3>1, OneMint
    <3>3. MintHeight(qs, Unspent(qs, o) \cap IsMint) = qs[k].height
      BY <3>1, OneMint
    <3> QED
      BY <3>1, <3>2, <3>3
  <2> QED
    BY <2>1, <2>2
<1>2. SummaryOf(qs, o, Unspent(ps, o)) = SummaryOf(ps, o, Unspent(ps, o))
  BY <1>1 DEF SummaryOf
<1> QED
  BY <1>2, SummaryFields

\* qs is ps with k become unspent.
Revives(ps, qs, k) ==
  ~Live(ps, k) /\ Live(qs, k) /\ \A j \in Position \ {k} : qs[j] = ps[j]

LEMMA UnspentAfterRevival ==
  ASSUME NEW ps, NEW qs, NEW k \in Position, Revives(ps, qs, k), NEW o
  PROVE  /\ LiveSet(qs) = LiveSet(ps) \cup {k} /\ k \notin LiveSet(ps)
         /\ k \notin Unspent(ps, o)
         /\ Unspent(qs, o) = IF OriginOf[k] = o THEN Unspent(ps, o) \cup {k} ELSE Unspent(ps, o)
<1>1. LiveSet(qs) = LiveSet(ps) \cup {k} /\ k \notin LiveSet(ps)
  BY DEF Revives, Live, LiveSet
<1> QED
  BY <1>1 DEF Unspent

\* The summary of the lineage of k, when k becomes unspent.
LEMMA SummaryAfterRevival ==
  ASSUME NEW ps, NEW qs, NEW k \in Position, Revives(ps, qs, k), OriginOf[k] \in Origin
  PROVE  LET o == OriginOf[k]
             S == Unspent(ps, o)
             n == Cardinality(HeldBy(S, KeyOf[k]))
         IN  Summary(qs, o) =
               [present       |-> TRUE,
                multiplier    |-> MultOf[o],
                unspentValue  |-> SumOf(S) + Worth[k],
                holderCount   |-> IF n = 0 THEN Cardinality(Holders(S)) + 1
                                  ELSE Cardinality(Holders(S)),
                positionCount |-> Cardinality(S) + 1,
                mintHeight    |-> IF k \in IsMint THEN qs[k].height
                                  ELSE MintHeight(ps, S \cap IsMint),
                hasMint       |-> k \in IsMint \/ S \cap IsMint # {}]
<1> DEFINE o == OriginOf[k]
           S == Unspent(ps, o)
           n == Cardinality(HeldBy(S, KeyOf[k]))
<1>1. S \in SUBSET Position /\ k \notin S /\ Unspent(qs, o) = S \cup {k}
  BY UnspentIn, UnspentAfterRevival
<1>2. SumOf(S \cup {k}) = SumOf(S) + Worth[k]
  BY <1>1, SumOfSets
<1>3. /\ Cardinality(S \cup {k}) = Cardinality(S) + 1
      /\ Cardinality(Holders(S \cup {k})) =
           IF n = 0 THEN Cardinality(Holders(S)) + 1 ELSE Cardinality(Holders(S))
  BY <1>1, CountsAfterAdd
<1>4. MintHeight(qs, (S \cup {k}) \cap IsMint) =
        IF k \in IsMint THEN qs[k].height ELSE MintHeight(ps, S \cap IsMint)
  <2>1. CASE k \in IsMint
    BY <1>1, <2>1, OneMint
  <2>2. CASE k \notin IsMint /\ S \cap IsMint = {}
    <3>1. (S \cup {k}) \cap IsMint = {}
      BY <2>2
    <3> QED
      BY <2>2, <3>1 DEF MintHeight
  <2>3. CASE k \notin IsMint /\ S \cap IsMint # {}
    <3>1. PICK j \in S \cap IsMint : TRUE
      BY <2>3
    <3>2. MintHeight(ps, S \cap IsMint) = ps[j].height
      BY <3>1, OneMint
    <3>3. MintHeight(qs, (S \cup {k}) \cap IsMint) = qs[j].height
      BY <1>1, <3>1, OneMint
    <3>4. qs[j] = ps[j]
      BY <1>1, <3>1 DEF Revives
    <3> QED
      BY <2>3, <3>2, <3>3, <3>4
  <2> QED
    BY <2>1, <2>2, <2>3
<1>5. ((S \cup {k}) \cap IsMint # {}) = (k \in IsMint \/ S \cap IsMint # {})
  OBVIOUS
<1>6. Summary(qs, o) = SummaryOf(qs, o, S \cup {k})
  BY <1>1, SummaryFields
<1> HIDE DEF S, n, o
<1> QED
  BY <1>2, <1>3, <1>4, <1>5, <1>6, Zenon DEF SummaryOf, S, n, o

\* Another lineage keeps its summary and its holders.
LEMMA OthersKept ==
  ASSUME NEW ps, NEW qs, NEW k \in Position, Revives(ps, qs, k),
         NEW o \in Origin, o # OriginOf[k]
  PROVE  Unspent(qs, o) = Unspent(ps, o) /\ Summary(qs, o) = Summary(ps, o)
<1>1. Unspent(qs, o) = Unspent(ps, o) /\ k \notin Unspent(ps, o)
  BY UnspentAfterRevival
<1>2. \A j \in Unspent(ps, o) : qs[j] = ps[j]
  BY <1>1, UnspentIn DEF Revives
<1> QED
  BY <1>1, <1>2, SummaryKept

-----------------------------------------------------------------------------
(***************************************************************************)
(* Database states, and the two operations on a lineage.                   *)
(***************************************************************************)
Log == [created : Seq(Position), spent : Seq(Position)]
DB == [positions : Table, rows : [Origin -> Row], holders : [Origin -> [Key -> Nat]], log : Log]

\* A position that becomes unspent does not pin its lineage's value.
LEMMA NoSaturation ==
  ASSUME NEW a \in Nat, NEW v \in Int, NEW w \in Nat, w = (IF v > 0 THEN v ELSE 0),
         a + w <= MaxInt64
  PROVE  (IF v > 0 THEN satAdd(a, v) ELSE a) = a + w
  BY LineageAssumption DEF satAdd

LEMMA RevivedValueFits ==
  ASSUME NEW ps, NEW qs, NEW k \in Position, Revives(ps, qs, k), Fits(qs),
         NEW o \in Origin, OriginOf[k] = o
  PROVE  /\ SumOf(Unspent(ps, o)) \in Nat /\ Worth[k] \in Nat
         /\ SumOf(Unspent(ps, o)) + Worth[k] <= MaxInt64
<1>1. /\ Unspent(ps, o) \in SUBSET Position /\ k \notin Unspent(ps, o)
      /\ Unspent(qs, o) = Unspent(ps, o) \cup {k}
  BY UnspentIn, UnspentAfterRevival
<1>2. /\ SumOf(Unspent(ps, o)) \in Nat /\ Worth[k] \in Nat
      /\ SumOf(Unspent(qs, o)) = SumOf(Unspent(ps, o)) + Worth[k]
  BY <1>1, SumOfSets, WorthIsNat
<1>3. SumOf(Unspent(qs, o)) <= MaxInt64
  BY DEF Fits, Bounded, Unspent
<1> QED
  BY <1>2, <1>3

\* addToLineage, of a position that has just become unspent.
LEMMA AddKeeps ==
  ASSUME NEW db \in DB, NEW ps \in Table, NEW k \in Position, Revives(ps, db.positions, k),
         Fits(db.positions), Agrees(db.rows, db.holders, ps)
  PROVE  LET d == addToLineage(db, k)
         IN  /\ d \in DB /\ d.positions = db.positions /\ d.log = db.log
             /\ Agrees(d.rows, d.holders, db.positions)
<1> DEFINE o  == OriginOf[k]
           x  == KeyOf[k]
           d  == addToLineage(db, k)
           qs == db.positions
           S  == Unspent(ps, o)
<1>0. /\ qs \in Table /\ db.rows \in [Origin -> Row] /\ db.holders \in [Origin -> [Key -> Nat]]
      /\ x \in Key /\ o \in Origin \cup {NoOrigin} /\ NoOrigin \notin Origin
  BY LineageAssumption DEF DB
<1>1. CASE o = NoOrigin
  <2>1. d = db
    BY <1>1 DEF addToLineage
  <2>2. \A c \in Origin : Unspent(qs, c) = Unspent(ps, c) /\ Summary(qs, c) = Summary(ps, c)
    BY <1>0, <1>1, OthersKept
  <2> QED
    BY <2>1, <2>2 DEF Agrees
<1>2. CASE o \in Origin
  <2> DEFINE agg == db.rows[o]
             n   == db.holders[o][x]
             r   == [present       |-> TRUE,
                     multiplier    |-> MultOf[o],
                     unspentValue  |-> IF ValueOf[k] > 0 THEN satAdd(agg.unspentValue, ValueOf[k])
                                       ELSE agg.unspentValue,
                     holderCount   |-> IF n = 0 THEN agg.holderCount + 1 ELSE agg.holderCount,
                     positionCount |-> agg.positionCount + 1,
                     mintHeight    |-> IF k \in IsMint THEN qs[k].height ELSE agg.mintHeight,
                     hasMint       |-> k \in IsMint \/ agg.hasMint]
  <2>1. agg = SummaryOf(ps, o, S) /\ n = Cardinality(HeldBy(S, x))
    BY <1>0, <1>2, SummaryFields DEF Agrees
  <2>2. /\ agg.unspentValue = SumOf(S) /\ agg.holderCount = Cardinality(Holders(S))
        /\ agg.positionCount = Cardinality(S) /\ agg.mintHeight = MintHeight(ps, S \cap IsMint)
        /\ agg.hasMint = (S \cap IsMint # {})
    BY <2>1 DEF SummaryOf
  <2>3. (IF ValueOf[k] > 0 THEN satAdd(SumOf(S), ValueOf[k]) ELSE SumOf(S)) = SumOf(S) + Worth[k]
    <3>1. SumOf(S) \in Nat /\ Worth[k] \in Nat /\ SumOf(S) + Worth[k] <= MaxInt64
      BY <1>2, RevivedValueFits
    <3>2. ValueOf[k] \in Int /\ Worth[k] = (IF ValueOf[k] > 0 THEN ValueOf[k] ELSE 0)
      BY LineageAssumption DEF Worth
    <3> QED
      BY <3>1, <3>2, NoSaturation, Zenon
  <2>4. r = Summary(qs, o)
    <3> HIDE DEF S, agg, n
    <3>1. r = [present       |-> TRUE,
               multiplier    |-> MultOf[o],
               unspentValue  |-> SumOf(S) + Worth[k],
               holderCount   |-> IF n = 0 THEN Cardinality(Holders(S)) + 1
                                 ELSE Cardinality(Holders(S)),
               positionCount |-> Cardinality(S) + 1,
               mintHeight    |-> IF k \in IsMint THEN qs[k].height
                                 ELSE MintHeight(ps, S \cap IsMint),
               hasMint       |-> k \in IsMint \/ S \cap IsMint # {}]
      BY <2>2, <2>3, Zenon
    <3> QED
      BY <1>2, <2>1, <3>1, SummaryAfterRevival, ZenonT(60) DEF S
  <2>5. r \in Row
    BY <1>0, <1>2, <2>4, SummaryType
  <2>6. n \in Nat
    BY <1>0, <1>2
  <2>7. o # NoOrigin
    BY <1>0, <1>2
  <2>8. d = [db EXCEPT !.holders[o][x] = n + 1, !.rows[o] = r]
    BY <2>7 DEF addToLineage
  <2> HIDE DEF r, n, agg, d
  <2>9. /\ d.positions = qs /\ d.log = db.log
        /\ d.rows = [db.rows EXCEPT ![o] = r]
        /\ d.holders = [db.holders EXCEPT ![o][x] = n + 1]
        /\ d \in [positions : {d.positions}, rows : {d.rows}, holders : {d.holders}, log : {d.log}]
    BY <2>8, Zenon DEF DB
  <2>10. d \in DB
    <3>1. d.rows \in [Origin -> Row]
      BY <1>0, <2>5, <2>9, ZenonT(60)
    <3>2. d.holders \in [Origin -> [Key -> Nat]]
      <4>1. [db.holders[o] EXCEPT ![x] = n + 1] \in [Key -> Nat]
        BY <1>0, <1>2, <2>6
      <4>2. d.holders = [db.holders EXCEPT ![o] = [db.holders[o] EXCEPT ![x] = n + 1]]
        BY <2>9
      <4> QED
        BY <1>0, <4>1, <4>2, Zenon
    <3> QED
      BY <2>9, <3>1, <3>2, Zenon DEF DB
  <2>11. ASSUME NEW c \in Origin
         PROVE  /\ d.rows[c] = Summary(qs, c)
                /\ \A y \in Key : d.holders[c][y] = Cardinality(HeldBy(Unspent(qs, c), y))
    <3>1. CASE c = o
      <4>1. d.rows[c] = Summary(qs, c)
        BY <1>0, <2>4, <2>9, <3>1
      <4>2. \A y \in Key : Cardinality(HeldBy(Unspent(qs, o), y)) =
              IF y = x THEN Cardinality(HeldBy(S, y)) + 1 ELSE Cardinality(HeldBy(S, y))
        <5>1. S \in SUBSET Position /\ k \in Position \ S /\ Unspent(qs, o) = S \cup {k}
          BY UnspentIn, UnspentAfterRevival
        <5> QED
          BY <5>1, CountsAfterAdd
      <4>3. \A y \in Key : db.holders[o][y] = Cardinality(HeldBy(S, y))
        BY <1>2 DEF Agrees
      <4> HIDE DEF S
      <4>4. \A y \in Key : d.holders[o][y] = IF y = x THEN n + 1 ELSE db.holders[o][y]
        BY <1>0, <1>2, <2>9
      <4> QED
        BY <1>0, <2>1, <3>1, <4>1, <4>2, <4>3, <4>4
    <3>2. CASE c # o
      <4>1. Unspent(qs, c) = Unspent(ps, c) /\ Summary(qs, c) = Summary(ps, c)
        BY <3>2, OthersKept
      <4>2. d.rows[c] = db.rows[c] /\ d.holders[c] = db.holders[c]
        BY <1>0, <2>9, <3>2
      <4> QED
        BY <4>1, <4>2 DEF Agrees
    <3> QED
      BY <3>1, <3>2
  <2> QED
    BY <2>9, <2>10, <2>11 DEF Agrees, d
<1> QED
  BY <1>0, <1>1, <1>2

LEMMA MaxWithZero ==
  ASSUME NEW a \in Nat
  PROVE  Max({0, a}) = a
  BY DEF Max

\* removeFromLineage's row, of the lineage of a position no longer unspent:
\* ps is the table before.
LEMMA WithdrawnIsSummary ==
  ASSUME NEW ps, NEW qs, NEW k \in Position, Revives(qs, ps, k), OriginOf[k] \in Origin
  PROVE  LET o == OriginOf[k]
             S == Unspent(qs, o)
             n == Cardinality(HeldBy(Unspent(ps, o), KeyOf[k]))
             w == Withdrawn(Summary(ps, o), k, n)
         IN  /\ Summary(ps, o).present
             /\ w.positionCount = Cardinality(S)
             /\ S # {} => w = Summary(qs, o)
<1> DEFINE o == OriginOf[k]
           S == Unspent(qs, o)
           m == Cardinality(HeldBy(S, KeyOf[k]))
           n == Cardinality(HeldBy(Unspent(ps, o), KeyOf[k]))
           agg == Summary(ps, o)
           w == Withdrawn(agg, k, n)
<1>1. S \in SUBSET Position /\ k \in Position \ S /\ Unspent(ps, o) = S \cup {k}
  BY UnspentIn, UnspentAfterRevival
<1>2. n = m + 1 /\ m \in Nat
  <2>1. \A x : Cardinality(HeldBy(S \cup {k}, x)) =
                 IF x = KeyOf[k] THEN Cardinality(HeldBy(S, x)) + 1
                 ELSE Cardinality(HeldBy(S, x))
    BY <1>1, CountsAfterAdd
  <2>2. m \in Nat
    BY <1>1, CountsAreNat
  <2> HIDE DEF S
  <2> QED
    BY <1>1, <2>1, <2>2, Zenon
<1>3. SumOf(S) \in Nat /\ Cardinality(S) \in Nat /\ Cardinality(Holders(S)) \in Nat
  BY <1>1, SumOfSets, CountsAreNat
<1>4. k \in IsMint => S \cap IsMint = {}
  <2> SUFFICES ASSUME k \in IsMint PROVE S \cap IsMint = {}
    OBVIOUS
  <2>1. Unspent(ps, o) \cap IsMint = {k}
    BY <1>1, OneMint, Zenon
  <2> QED
    BY <1>1, <2>1
<1>5. agg = [present       |-> TRUE,
             multiplier    |-> MultOf[o],
             unspentValue  |-> SumOf(S) + Worth[k],
             holderCount   |-> IF m = 0 THEN Cardinality(Holders(S)) + 1
                               ELSE Cardinality(Holders(S)),
             positionCount |-> Cardinality(S) + 1,
             mintHeight    |-> IF k \in IsMint THEN ps[k].height
                               ELSE MintHeight(qs, S \cap IsMint),
             hasMint       |-> k \in IsMint \/ S \cap IsMint # {}]
  BY SummaryAfterRevival, Zenon
<1>6. SumOf(S) + Worth[k] = IF ValueOf[k] > 0 THEN SumOf(S) + ValueOf[k] ELSE SumOf(S)
  BY <1>3, LineageAssumption DEF Worth
<1>7. (IF n = 1 THEN (IF m = 0 THEN Cardinality(Holders(S)) + 1 ELSE Cardinality(Holders(S))) - 1
       ELSE (IF m = 0 THEN Cardinality(Holders(S)) + 1 ELSE Cardinality(Holders(S))))
        = Cardinality(Holders(S))
  BY <1>2, <1>3
<1>8. (Cardinality(S) + 1) - 1 = Cardinality(S)
  BY <1>3
<1>9. (IF k \in IsMint THEN 0
       ELSE (IF k \in IsMint THEN ps[k].height ELSE MintHeight(qs, S \cap IsMint)))
        = MintHeight(qs, S \cap IsMint)
  BY <1>4 DEF MintHeight
<1>10. ((k \in IsMint \/ S \cap IsMint # {}) /\ k \notin IsMint) = (S \cap IsMint # {})
  BY <1>4
<1> HIDE DEF S, m, n, o, agg
<1>11. w = [present       |-> TRUE,
            multiplier    |-> MultOf[o],
            unspentValue  |-> SumOf(S),
            holderCount   |-> Cardinality(Holders(S)),
            positionCount |-> Cardinality(S),
            mintHeight    |-> MintHeight(qs, S \cap IsMint),
            hasMint       |-> S \cap IsMint # {}]
  <2>1. w = [present       |-> agg.present,
             multiplier    |-> agg.multiplier,
             unspentValue  |-> IF ValueOf[k] > 0 THEN Max({0, agg.unspentValue - ValueOf[k]})
                               ELSE agg.unspentValue,
             holderCount   |-> IF n = 1 THEN agg.holderCount - 1 ELSE agg.holderCount,
             positionCount |-> agg.positionCount - 1,
             mintHeight    |-> IF k \in IsMint THEN 0 ELSE agg.mintHeight,
             hasMint       |-> agg.hasMint /\ k \notin IsMint]
    BY Zenon DEF Withdrawn
  <2>2. /\ agg.present = TRUE /\ agg.multiplier = MultOf[o]
        /\ agg.unspentValue = SumOf(S) + Worth[k]
        /\ agg.holderCount = (IF m = 0 THEN Cardinality(Holders(S)) + 1
                               ELSE Cardinality(Holders(S)))
        /\ agg.positionCount = Cardinality(S) + 1
        /\ agg.mintHeight = (IF k \in IsMint THEN ps[k].height ELSE MintHeight(qs, S \cap IsMint))
        /\ agg.hasMint = (k \in IsMint \/ S \cap IsMint # {})
    BY <1>5
  <2>3. (IF ValueOf[k] > 0 THEN Max({0, agg.unspentValue - ValueOf[k]})
         ELSE agg.unspentValue) = SumOf(S)
    <3>1. CASE ValueOf[k] > 0
      <4>1. agg.unspentValue - ValueOf[k] = SumOf(S)
        BY <1>3, <1>6, <2>2, <3>1, LineageAssumption
      <4> QED
        BY <1>3, <3>1, <4>1, MaxWithZero
    <3>2. CASE ~(ValueOf[k] > 0)
      BY <1>6, <2>2, <3>2
    <3> QED
      BY <3>1, <3>2
  <2>4. (IF n = 1 THEN agg.holderCount - 1 ELSE agg.holderCount) = Cardinality(Holders(S))
    BY <1>7, <2>2
  <2>5. agg.positionCount - 1 = Cardinality(S)
    BY <1>8, <2>2
  <2>6. (IF k \in IsMint THEN 0 ELSE agg.mintHeight) = MintHeight(qs, S \cap IsMint)
    BY <1>9, <2>2
  <2>7. (agg.hasMint /\ k \notin IsMint) = (S \cap IsMint # {})
    BY <1>10, <2>2, Zenon
  <2> QED
    BY <2>1, <2>2, <2>3, <2>4, <2>5, <2>6, <2>7, Zenon
<1> HIDE DEF w
<1>12. S # {} => w = SummaryOf(qs, o, S)
  BY <1>11, Zenon DEF SummaryOf
<1>13. SummaryOf(qs, o, S) = Summary(qs, o)
  BY SummaryFields DEF S
<1>14. agg.present /\ w.positionCount = Cardinality(S)
  BY <1>5, <1>11
<1> QED
  BY <1>12, <1>13, <1>14 DEF S, n, o, agg, w

\* removeFromLineage, of a position that is no longer unspent, or soon not.
LEMMA RemoveKeeps ==
  ASSUME NEW db \in DB, NEW ps \in Table, NEW qs \in Table, NEW k \in Position,
         Revives(qs, ps, k), Fits(qs), Agrees(db.rows, db.holders, ps)
  PROVE  LET d == removeFromLineage(db, k)
         IN  /\ d \in DB /\ d.positions = db.positions /\ d.log = db.log
             /\ Agrees(d.rows, d.holders, qs)
<1> DEFINE o  == OriginOf[k]
           x  == KeyOf[k]
           d  == removeFromLineage(db, k)
           S  == Unspent(qs, o)
<1>0. /\ db.rows \in [Origin -> Row] /\ db.holders \in [Origin -> [Key -> Nat]]
      /\ x \in Key /\ o \in Origin \cup {NoOrigin} /\ NoOrigin \notin Origin
  BY LineageAssumption DEF DB
<1>1. CASE o = NoOrigin
  <2>1. d = db
    BY <1>1 DEF removeFromLineage
  <2>2. \A c \in Origin : Unspent(ps, c) = Unspent(qs, c) /\ Summary(ps, c) = Summary(qs, c)
    BY <1>0, <1>1, OthersKept
  <2> QED
    BY <2>1, <2>2 DEF Agrees
<1>2. CASE o \in Origin
  <2> DEFINE n   == db.holders[o][x]
             agg == Withdrawn(db.rows[o], k, n)
             r   == IF agg.positionCount <= 0 THEN NoRow ELSE agg
             h   == IF agg.positionCount <= 0 THEN [y \in Key |-> 0]
                    ELSE [db.holders[o] EXCEPT ![x] = IF n <= 1 THEN 0 ELSE n - 1]
  <2>1. S \in SUBSET Position /\ k \in Position \ S /\ Unspent(ps, o) = S \cup {k}
    BY UnspentIn, UnspentAfterRevival
  <2>2. db.rows[o] = Summary(ps, o)
        /\ \A y \in Key : db.holders[o][y] = Cardinality(HeldBy(S \cup {k}, y))
    BY <1>2, <2>1, ZenonT(60) DEF Agrees
  <2>3. \A y \in Key : Cardinality(HeldBy(S \cup {k}, y)) =
          IF y = x THEN Cardinality(HeldBy(S, y)) + 1 ELSE Cardinality(HeldBy(S, y))
    BY <2>1, CountsAfterAdd
  <2>4. /\ \A y \in Key : Cardinality(HeldBy(S, y)) \in Nat
        /\ Cardinality(S) \in Nat /\ (Cardinality(S) = 0 <=> S = {})
    BY <2>1, CountsAreNat
  <2>5. db.rows[o].present /\ agg.positionCount = Cardinality(S) /\ (S # {} => agg = Summary(qs, o))
    <3>1. n = Cardinality(HeldBy(Unspent(ps, o), x))
      BY <1>0, <2>1, <2>2, Zenon
    <3>2. agg = Withdrawn(Summary(ps, o), k, Cardinality(HeldBy(Unspent(ps, o), x)))
      BY <2>2, <3>1, Zenon
    <3> HIDE DEF agg
    <3> QED
      BY <1>2, <2>2, <3>2, WithdrawnIsSummary, ZenonT(60)
  <2> HIDE DEF S, agg
  <2>6. r = Summary(qs, o)
    <3>1. CASE S = {}
      <4>1. agg.positionCount <= 0
        BY <2>4, <2>5, <3>1
      <4>2. Summary(qs, o) = NoRow
        BY <3>1, Zenon DEF Summary, S
      <4> QED
        BY <4>1, <4>2, ZenonT(60)
    <3>2. CASE S # {}
      BY <2>4, <2>5, <3>2
    <3> QED
      BY <3>1, <3>2
  <2>7. h \in [Key -> Nat] /\ \A y \in Key : h[y] = Cardinality(HeldBy(S, y))
    <3>1. CASE S = {}
      <4>1. h = [y \in Key |-> 0]
        BY <2>4, <2>5, <3>1
      <4>2. \A y \in Key : HeldBy(S, y) = {}
        BY <3>1 DEF HeldBy
      <4>3. Cardinality({}) = 0
        BY FS_EmptySet
      <4>4. \A y \in Key : Cardinality(HeldBy(S, y)) = 0
        BY <4>2, <4>3
      <4> HIDE DEF h
      <4>5. h \in [Key -> Nat] /\ \A y \in Key : h[y] = 0
        BY <4>1
      <4> QED
        BY <4>4, <4>5
    <3>2. CASE S # {}
      <4>1. h = [db.holders[o] EXCEPT ![x] = IF n <= 1 THEN 0 ELSE n - 1]
        BY <2>4, <2>5, <3>2
      <4>2. n = Cardinality(HeldBy(S, x)) + 1 /\ Cardinality(HeldBy(S, x)) \in Nat
        BY <1>0, <2>2, <2>3, <2>4, ZenonT(60)
      <4>3. (IF n <= 1 THEN 0 ELSE n - 1) = Cardinality(HeldBy(S, x))
        BY <4>2
      <4>4. db.holders[o] \in [Key -> Nat]
        BY <1>0, <1>2
      <4>5. h = [db.holders[o] EXCEPT ![x] = Cardinality(HeldBy(S, x))]
        BY <4>1, <4>3
      <4>6. \A y \in Key : y # x => db.holders[o][y] = Cardinality(HeldBy(S, y))
        BY <2>2, <2>3
      <4> HIDE DEF h, n, x
      <4>7. PICK c \in Nat : c = Cardinality(HeldBy(S, x))
        BY <4>2
      <4>8. PICK f \in [Key -> Nat] : f = db.holders[o]
        BY <4>4
      <4>9. h = [f EXCEPT ![x] = c] /\ x \in Key
        BY <1>0, <4>5, <4>7, <4>8
      <4>10. h \in [Key -> Nat] /\ \A y \in Key : h[y] = IF y = x THEN c ELSE f[y]
        BY <4>9
      <4> QED
        BY <4>6, <4>7, <4>8, <4>10
    <3> QED
      BY <3>1, <3>2, Zenon
  <2>8. r \in Row
    BY <1>2, <2>6, SummaryType
  <2>9. o # NoOrigin
    BY <1>0, <1>2
  <2>10. d = IF agg.positionCount <= 0
             THEN [db EXCEPT !.rows[o] = NoRow, !.holders[o] = [y \in Key |-> 0]]
             ELSE [db EXCEPT !.rows[o] = agg, !.holders[o][x] = IF n <= 1 THEN 0 ELSE n - 1]
    BY <2>5, <2>9 DEF removeFromLineage, agg
  <2> HIDE DEF d
  <2>11. /\ d.positions = db.positions /\ d.log = db.log
         /\ d.rows = [db.rows EXCEPT ![o] = r]
         /\ d.holders = [db.holders EXCEPT ![o] = h]
         /\ d \in [positions : {d.positions}, rows : {d.rows}, holders : {d.holders}, log : {d.log}]
    <3>1. CASE agg.positionCount <= 0
      BY <2>10, <3>1, Zenon DEF DB
    <3>2. CASE ~(agg.positionCount <= 0)
      BY <2>10, <3>2, Zenon DEF DB
    <3> QED
      BY <3>1, <3>2
  <2> HIDE DEF r, h
  <2>12. d \in DB
    <3>1. d.rows \in [Origin -> Row]
      BY <1>0, <2>8, <2>11, Zenon
    <3>2. d.holders \in [Origin -> [Key -> Nat]]
      BY <1>0, <2>7, <2>11, ZenonT(60)
    <3> QED
      BY <2>11, <3>1, <3>2, Zenon DEF DB
  <2>13. ASSUME NEW c \in Origin
         PROVE  /\ d.rows[c] = Summary(qs, c)
                /\ \A y \in Key : d.holders[c][y] = Cardinality(HeldBy(Unspent(qs, c), y))
    <3>1. CASE c = o
      BY <1>0, <2>6, <2>7, <2>11, <3>1 DEF S
    <3>2. CASE c # o
      <4>1. Unspent(ps, c) = Unspent(qs, c) /\ Summary(ps, c) = Summary(qs, c)
        BY <3>2, OthersKept
      <4>2. d.rows[c] = db.rows[c] /\ d.holders[c] = db.holders[c]
        BY <1>0, <2>11, <3>2
      <4> QED
        BY <4>1, <4>2 DEF Agrees
    <3> QED
      BY <3>1, <3>2
  <2> QED
    BY <2>11, <2>12, <2>13 DEF Agrees, d
<1> QED
  BY <1>0, <1>1, <1>2

-----------------------------------------------------------------------------
(***************************************************************************)
(* One input or output, and its undoing, keep a database state's tables in *)
(* agreement.                                                              *)
(***************************************************************************)
Entry == [height : 0..MaxHeight, spent : BOOLEAN]

Ledger(db) ==
  db \in DB /\ Agrees(db.rows, db.holders, db.positions) /\ Fits(db.positions)

\* qs is ps with e at k.
Puts(ps, qs, k, e) == qs[k] = e /\ \A j \in Position \ {k} : qs[j] = ps[j]

LEMMA PutInTable ==
  ASSUME NEW ps \in Table, NEW k \in Position, NEW e \in Entry, NEW qs, qs = [ps EXCEPT ![k] = e]
  PROVE  qs \in Table /\ Puts(ps, qs, k, e)
  BY DEF Table, Entry, Puts

LEMMA MarkedEntry ==
  ASSUME NEW e \in Entry, NEW v \in BOOLEAN, NEW f, f = [e EXCEPT !.spent = v]
  PROVE  f = [height |-> e.height, spent |-> v]
<1>1. f \in Entry /\ f.height = e.height /\ f.spent = v
  BY DEF Entry
<1> QED
  BY <1>1 DEF Entry

LEMMA LongerLog ==
  ASSUME NEW log \in Log, NEW k \in Position, NEW l
  PROVE  /\ l = [log EXCEPT !.spent = Append(log.spent, k)] =>
              l \in Log /\ l.created = log.created /\ l.spent = Append(log.spent, k)
         /\ l = [log EXCEPT !.created = Append(log.created, k)] =>
              l \in Log /\ l.spent = log.spent /\ l.created = Append(log.created, k)
<1>1. /\ log.spent \in Seq(Position) /\ log.created \in Seq(Position)
      /\ Append(log.spent, k) \in Seq(Position) /\ Append(log.created, k) \in Seq(Position)
  BY DEF Log
<1>2. PICK s \in Seq(Position), c \in Seq(Position) :
        s = Append(log.spent, k) /\ c = Append(log.created, k)
  BY <1>1, Zenon
<1>3. l = [log EXCEPT !.spent = s] => l \in Log /\ l.created = log.created /\ l.spent = s
  BY <1>1, <1>2, Zenon DEF Log
<1>4. l = [log EXCEPT !.created = c] => l \in Log /\ l.spent = log.spent /\ l.created = c
  BY <1>1, <1>2, Zenon DEF Log
<1> QED
  BY <1>2, <1>3, <1>4

\* Fewer positions fit.
LEMMA FewerBounded ==
  ASSUME NEW S \in SUBSET Position, NEW R \in SUBSET S, Bounded(S)
  PROVE  Bounded(R)
<1> SUFFICES ASSUME NEW o \in Origin
             PROVE  SumOf({k \in R : OriginOf[k] = o}) <= MaxInt64
  BY DEF Bounded
<1>1. PICK A, B : A = {k \in S : OriginOf[k] = o} /\ B = {k \in R : OriginOf[k] = o}
  BY Zenon
<1>2. A \in SUBSET Position /\ B \in SUBSET Position /\ B \in SUBSET A
  BY <1>1
<1>3. SumOf(A) \in Nat /\ SumOf(B) \in Nat /\ SumOf(B) <= SumOf(A)
  BY <1>2, SumOfSets
<1>4. SumOf(A) <= MaxInt64
  BY <1>1 DEF Bounded
<1>5. SumOf(B) <= MaxInt64
  BY <1>3, <1>4, LineageAssumption
<1> QED
  BY <1>1, <1>5

\* A position that is put as not unspent leaves a smaller table.
LEMMA RetiresFits ==
  ASSUME NEW ps, NEW qs, NEW k \in Position, NEW e, Puts(ps, qs, k, e), ~Live(qs, k), Fits(ps)
  PROVE  Fits(qs) /\ (Live(ps, k) => Revives(qs, ps, k))
<1>1. LiveSet(qs) \subseteq LiveSet(ps) /\ LiveSet(ps) \in SUBSET Position
  BY DEF Puts, Live, LiveSet
<1>2. Fits(qs)
  BY <1>1, FewerBounded DEF Fits
<1> QED
  BY <1>2 DEF Puts, Revives

LEMMA SpendKeeps ==
  ASSUME NEW db, Ledger(db), NEW k \in Position, Live(db.positions, k)
  PROVE  LET d == SpendInput(db, k)
         IN  /\ Ledger(d)
             /\ Puts(db.positions, d.positions, k, [height |-> db.positions[k].height, spent |-> TRUE])
             /\ d.log.created = db.log.created /\ d.log.spent = Append(db.log.spent, k)
<1> DEFINE d == SpendInput(db, k)
           ps == db.positions
           e == [height |-> ps[k].height, spent |-> TRUE]
           marked == [db EXCEPT !.positions[k].spent = TRUE, !.log.spent = Append(@, k)]
<1>1. db \in DB /\ ps \in Table /\ ps[k] \in Entry /\ e \in Entry /\ db.log \in Log
      /\ db.log.spent \in Seq(Position) /\ db.log.created \in Seq(Position)
  BY Zenon DEF Ledger, DB, Table, Entry, Log
<1>2. /\ marked.positions = [ps EXCEPT ![k] = [ps[k] EXCEPT !.spent = TRUE]]
      /\ marked.rows = db.rows /\ marked.holders = db.holders
      /\ marked.log = [db.log EXCEPT !.spent = Append(db.log.spent, k)]
      /\ marked \in [positions : {marked.positions}, rows : {marked.rows},
                     holders : {marked.holders}, log : {marked.log}]
  BY <1>1, Zenon DEF DB
<1>3. [ps[k] EXCEPT !.spent = TRUE] = e
  BY <1>1, MarkedEntry, Zenon
<1>4. marked.log \in Log /\ marked.log.created = db.log.created
      /\ marked.log.spent = Append(db.log.spent, k)
  BY <1>1, <1>2, LongerLog
<1>5. d = removeFromLineage(marked, k)
  BY DEF SpendInput
<1> HIDE DEF marked, d
<1>6. marked.positions \in Table /\ Puts(ps, marked.positions, k, e)
  <2>1. marked.positions = [ps EXCEPT ![k] = e]
    BY <1>2, <1>3, Zenon
  <2> HIDE DEF e
  <2> QED
    BY <1>1, <2>1, PutInTable
<1>7. marked \in DB
  BY <1>1, <1>2, <1>4, <1>6, ZenonT(60) DEF DB
<1>8. Fits(marked.positions) /\ Revives(marked.positions, ps, k)
  <2>1. ~Live(marked.positions, k)
    BY <1>6 DEF Puts, Live
  <2> QED
    BY <1>6, <2>1, RetiresFits DEF Ledger
<1>9. Agrees(marked.rows, marked.holders, ps)
  BY <1>2 DEF Ledger
<1>10. /\ d \in DB /\ d.positions = marked.positions /\ d.log = marked.log
       /\ Agrees(d.rows, d.holders, marked.positions)
  BY <1>1, <1>5, <1>6, <1>7, <1>8, <1>9, RemoveKeeps
<1> QED
  BY <1>4, <1>6, <1>8, <1>10 DEF Ledger, d

\* A position put as unspent where there was none.
LEMMA MakesRevive ==
  ASSUME NEW ps, NEW qs, NEW k \in Position, NEW e, Puts(ps, qs, k, e), ~Live(ps, k), Live(qs, k),
         Bounded(LiveSet(ps) \cup {k})
  PROVE  Revives(ps, qs, k) /\ Fits(qs)
<1>1. Revives(ps, qs, k)
  BY DEF Puts, Revives
<1>2. LiveSet(qs) = LiveSet(ps) \cup {k}
  BY <1>1, UnspentAfterRevival
<1> QED
  BY <1>1, <1>2 DEF Fits

LEMMA MakeKeeps ==
  ASSUME NEW db, Ledger(db), NEW k \in Position, ~Live(db.positions, k), NEW height \in 1..MaxHeight,
         Bounded(LiveSet(db.positions) \cup {k})
  PROVE  LET d == MakeOutput(db, k, height)
         IN  /\ Ledger(d)
             /\ Puts(db.positions, d.positions, k, [height |-> height, spent |-> FALSE])
             /\ d.log.created = Append(db.log.created, k) /\ d.log.spent = db.log.spent
<1> DEFINE d == MakeOutput(db, k, height)
           ps == db.positions
           e == [height |-> height, spent |-> FALSE]
           made == [db EXCEPT !.positions[k] = e, !.log.created = Append(@, k)]
<1>1. db \in DB /\ ps \in Table /\ e \in Entry /\ db.log \in Log
      /\ db.log.spent \in Seq(Position) /\ db.log.created \in Seq(Position)
  BY LineageAssumption DEF Ledger, DB, Table, Entry, Log
<1>2. d = addToLineage(made, k)
  BY DEF MakeOutput
<1>3. e.height > 0 /\ ~e.spent
  BY LineageAssumption
<1> HIDE DEF e
<1>4. /\ made.positions = [ps EXCEPT ![k] = e]
      /\ made.rows = db.rows /\ made.holders = db.holders
      /\ made.log = [db.log EXCEPT !.created = Append(db.log.created, k)]
      /\ made \in [positions : {made.positions}, rows : {made.rows},
                   holders : {made.holders}, log : {made.log}]
  BY <1>1, Zenon DEF DB
<1> HIDE DEF made, d
<1>5. made.log \in Log /\ made.log.created = Append(db.log.created, k)
      /\ made.log.spent = db.log.spent
  BY <1>1, <1>4, LongerLog
<1>6. made.positions \in Table /\ Puts(ps, made.positions, k, e)
  BY <1>1, <1>4, PutInTable
<1>7. made \in DB
  BY <1>1, <1>4, <1>5, <1>6, ZenonT(60) DEF DB
<1>8. Revives(ps, made.positions, k) /\ Fits(made.positions)
  <2>1. Live(made.positions, k)
    BY <1>3, <1>6 DEF Puts, Live
  <2> QED
    BY <1>6, <2>1, MakesRevive
<1>9. Agrees(made.rows, made.holders, ps)
  BY <1>4 DEF Ledger
<1>10. /\ d \in DB /\ d.positions = made.positions /\ d.log = made.log
       /\ Agrees(d.rows, d.holders, made.positions)
  BY <1>1, <1>2, <1>7, <1>8, <1>9, AddKeeps
<1> QED
  BY <1>5, <1>6, <1>8, <1>10, ZenonT(60) DEF Ledger, d, e

\* A change to a position that is unspent neither before nor after.
LEMMA AgreesStill ==
  ASSUME NEW ps, NEW qs, NEW k \in Position, NEW e, Puts(ps, qs, k, e), ~Live(ps, k), ~Live(qs, k),
         NEW rs, NEW hs, Agrees(rs, hs, ps)
  PROVE  Agrees(rs, hs, qs)
<1>1. LiveSet(qs) = LiveSet(ps) /\ \A j \in LiveSet(ps) : qs[j] = ps[j]
  BY DEF Puts, Live, LiveSet
<1>2. \A o \in Origin : Unspent(qs, o) = Unspent(ps, o) /\ \A j \in Unspent(ps, o) : qs[j] = ps[j]
  BY <1>1 DEF Unspent
<1>3. \A o \in Origin : Summary(qs, o) = Summary(ps, o)
  BY <1>2, SummaryKept
<1> QED
  BY <1>2, <1>3 DEF Agrees

LEMMA UndoCreatedKeeps ==
  ASSUME NEW db, Ledger(db), NEW k \in Position
  PROVE  LET d == UndoCreated(db, k)
         IN  Ledger(d) /\ Puts(db.positions, d.positions, k, NoPos)
<1> DEFINE d == UndoCreated(db, k)
           ps == db.positions
           qs == [ps EXCEPT ![k] = NoPos]
           gone == IF Live(ps, k) THEN removeFromLineage(db, k) ELSE db
<1>1. db \in DB /\ ps \in Table /\ Agrees(db.rows, db.holders, ps) /\ Fits(ps)
  BY DEF Ledger, DB
<1>2. NoPos \in Entry
  BY LineageAssumption DEF NoPos, Entry
<1>3. PICK ts : ts = qs
  BY Zenon
<1>4. ts \in Table /\ Puts(ps, ts, k, NoPos)
  BY <1>1, <1>2, <1>3, PutInTable
<1>5. ~Live(ts, k)
  BY <1>4 DEF Puts, Live, NoPos
<1>6. Fits(ts) /\ (Live(ps, k) => Revives(ts, ps, k))
  BY <1>1, <1>4, <1>5, RetiresFits, Zenon
<1>7. gone \in DB /\ gone.positions = ps /\ Agrees(gone.rows, gone.holders, ts)
  <2>1. CASE Live(ps, k)
    <3>1. gone = removeFromLineage(db, k)
      BY <2>1
    <3> HIDE DEF gone
    <3> QED
      BY <1>1, <1>4, <1>6, <2>1, <3>1, RemoveKeeps
  <2>2. CASE ~Live(ps, k)
    <3>1. gone = db
      BY <2>2
    <3> HIDE DEF gone
    <3> QED
      BY <1>1, <1>4, <1>5, <2>2, <3>1, AgreesStill
  <2> QED
    BY <2>1, <2>2
<1>8. d = [gone EXCEPT !.positions[k] = NoPos]
  BY DEF UndoCreated
<1> HIDE DEF d, gone
<1>9. /\ d.positions = ts /\ d.rows = gone.rows /\ d.holders = gone.holders /\ d.log = gone.log
      /\ d \in [positions : {d.positions}, rows : {d.rows}, holders : {d.holders}, log : {d.log}]
  BY <1>3, <1>7, <1>8 DEF DB
<1>10. d \in DB
  BY <1>4, <1>7, <1>9 DEF DB
<1> QED
  BY <1>4, <1>6, <1>7, <1>9, <1>10 DEF Ledger, d

LEMMA UndoSpentKeeps ==
  ASSUME NEW db, Ledger(db), NEW k \in Position, db.positions[k].height # 0, ~Live(db.positions, k),
         Bounded(LiveSet(db.positions) \cup {k})
  PROVE  LET d == UndoSpent(db, k)
         IN  /\ Ledger(d)
             /\ Puts(db.positions, d.positions, k, [height |-> db.positions[k].height, spent |-> FALSE])
<1> DEFINE d == UndoSpent(db, k)
           ps == db.positions
           e == [height |-> ps[k].height, spent |-> FALSE]
           back == [db EXCEPT !.positions[k].spent = FALSE]
<1>1. db \in DB /\ ps \in Table /\ ps[k] \in Entry /\ e \in Entry
  BY DEF Ledger, DB, Table, Entry
<1>2. d = addToLineage(back, k)
  BY DEF UndoSpent
<1>3. /\ back.positions = [ps EXCEPT ![k] = [ps[k] EXCEPT !.spent = FALSE]]
      /\ back.rows = db.rows /\ back.holders = db.holders /\ back.log = db.log
      /\ back \in [positions : {back.positions}, rows : {back.rows},
                   holders : {back.holders}, log : {back.log}]
  BY <1>1, Zenon DEF DB
<1>4. [ps[k] EXCEPT !.spent = FALSE] = e
  BY <1>1, MarkedEntry, ZenonT(60)
<1>5. e.height > 0 /\ ~e.spent
  BY <1>1, LineageAssumption DEF Entry
<1> HIDE DEF back, d
<1>6. back.positions = [ps EXCEPT ![k] = e]
  BY <1>3, <1>4, Zenon
<1> HIDE DEF e
<1>7. back.positions \in Table /\ Puts(ps, back.positions, k, e)
  BY <1>1, <1>6, PutInTable
<1>8. back \in DB
  BY <1>1, <1>3, <1>7, ZenonT(60) DEF DB
<1>9. Revives(ps, back.positions, k) /\ Fits(back.positions)
  <2>1. Live(back.positions, k)
    BY <1>5, <1>7 DEF Puts, Live
  <2> QED
    BY <1>7, <2>1, MakesRevive
<1>10. Agrees(back.rows, back.holders, ps)
  BY <1>3 DEF Ledger
<1>11. /\ d \in DB /\ d.positions = back.positions
       /\ Agrees(d.rows, d.holders, back.positions)
  BY <1>1, <1>2, <1>8, <1>9, <1>10, AddKeeps
<1> QED
  BY <1>7, <1>9, <1>11 DEF Ledger, d, e

-----------------------------------------------------------------------------
(***************************************************************************)
(* Loops: the database state after n of a block's inputs and outputs, or   *)
(* of an undo log's entries.                                               *)
(***************************************************************************)
TouchStep(start, b, height, f, n) == IF n = 0 THEN start ELSE Touch(f[n - 1], b[n], height)

LEMMA TouchedSteps ==
  ASSUME NEW start, NEW b, NEW height, Len(b) \in Nat
  PROVE  \E db : /\ db[0] = start /\ db[Len(b)] = Touched(start, b, height)
                 /\ \A n \in 1..Len(b) : db[n] = Touch(db[n - 1], b[n], height)
<1> DEFINE Solved == {n \in Nat : \E f : f = [i \in 0..n |-> TouchStep(start, b, height, f, i)]}
<1>1. 0 \in Solved
  <2> DEFINE f == [i \in 0..0 |-> start]
  <2>1. f = [i \in 0..0 |-> TouchStep(start, b, height, f, i)]
    BY DEF TouchStep
  <2> QED
    BY <2>1
<1>2. ASSUME NEW n \in Nat, n \in Solved PROVE n + 1 \in Solved
  <2>1. PICK f : f = [i \in 0..n |-> TouchStep(start, b, height, f, i)]
    BY <1>2
  <2> DEFINE g == [i \in 0..(n + 1) |-> TouchStep(start, b, height, f, i)]
  <2>2. ASSUME NEW i \in 0..(n + 1)
        PROVE  TouchStep(start, b, height, f, i) = TouchStep(start, b, height, g, i)
    <3>1. CASE i = 0
      BY <3>1 DEF TouchStep
    <3>2. CASE i # 0
      <4>1. i - 1 \in 0..n /\ i - 1 \in 0..(n + 1)
        BY <3>2
      <4>2. f[i - 1] = TouchStep(start, b, height, f, i - 1) /\ g[i - 1] = TouchStep(start, b, height, f, i - 1)
        BY <2>1, <4>1
      <4> HIDE DEF g
      <4> QED
        BY <3>2, <4>2 DEF TouchStep
    <3> QED
      BY <3>1, <3>2
  <2>3. g = [i \in 0..(n + 1) |-> TouchStep(start, b, height, g, i)]
    BY <2>2
  <2> HIDE DEF g
  <2>4. \E h : h = [i \in 0..(n + 1) |-> TouchStep(start, b, height, h, i)]
    BY <2>3
  <2> QED
    BY <2>4, n + 1 \in Nat
<1>3. Len(b) \in Solved
  <2> HIDE DEF Solved
  <2> QED
    BY <1>1, <1>2, NatsBySteps
<1> DEFINE db == CHOOSE f : f = [i \in 0..Len(b) |-> TouchStep(start, b, height, f, i)]
<1>4. db = [i \in 0..Len(b) |-> TouchStep(start, b, height, db, i)]
  BY <1>3, Zenon
<1>5. Touched(start, b, height) = db[Len(b)]
  BY DEF Touched, TouchStep
<1> HIDE DEF db
<1>6. \A i \in 0..Len(b) : db[i] = TouchStep(start, b, height, db, i)
  BY <1>4
<1>7. db[0] = start /\ \A n \in 1..Len(b) : db[n] = Touch(db[n - 1], b[n], height)
  BY <1>6 DEF TouchStep
<1> QED
  BY <1>5, <1>7

UncreateStep(start, ks, f, n) == IF n = 0 THEN start ELSE UndoCreated(f[n - 1], ks[n])

LEMMA UndoneCreatedSteps ==
  ASSUME NEW start, NEW ks, Len(ks) \in Nat
  PROVE  \E db : /\ db[0] = start /\ db[Len(ks)] = UndoneCreated(start, ks)
                 /\ \A n \in 1..Len(ks) : db[n] = UndoCreated(db[n - 1], ks[n])
<1> DEFINE Solved == {n \in Nat : \E f : f = [i \in 0..n |-> UncreateStep(start, ks, f, i)]}
<1>1. 0 \in Solved
  <2> DEFINE f == [i \in 0..0 |-> start]
  <2>1. f = [i \in 0..0 |-> UncreateStep(start, ks, f, i)]
    BY DEF UncreateStep
  <2> QED
    BY <2>1
<1>2. ASSUME NEW n \in Nat, n \in Solved PROVE n + 1 \in Solved
  <2>1. PICK f : f = [i \in 0..n |-> UncreateStep(start, ks, f, i)]
    BY <1>2
  <2> DEFINE g == [i \in 0..(n + 1) |-> UncreateStep(start, ks, f, i)]
  <2>2. ASSUME NEW i \in 0..(n + 1)
        PROVE  UncreateStep(start, ks, f, i) = UncreateStep(start, ks, g, i)
    <3>1. CASE i = 0
      BY <3>1 DEF UncreateStep
    <3>2. CASE i # 0
      <4>1. i - 1 \in 0..n /\ i - 1 \in 0..(n + 1)
        BY <3>2
      <4>2. f[i - 1] = UncreateStep(start, ks, f, i - 1) /\ g[i - 1] = UncreateStep(start, ks, f, i - 1)
        BY <2>1, <4>1
      <4> HIDE DEF g
      <4> QED
        BY <3>2, <4>2 DEF UncreateStep
    <3> QED
      BY <3>1, <3>2
  <2>3. g = [i \in 0..(n + 1) |-> UncreateStep(start, ks, g, i)]
    BY <2>2
  <2> HIDE DEF g
  <2>4. \E h : h = [i \in 0..(n + 1) |-> UncreateStep(start, ks, h, i)]
    BY <2>3
  <2> QED
    BY <2>4, n + 1 \in Nat
<1>3. Len(ks) \in Solved
  <2> HIDE DEF Solved
  <2> QED
    BY <1>1, <1>2, NatsBySteps
<1> DEFINE db == CHOOSE f : f = [i \in 0..Len(ks) |-> UncreateStep(start, ks, f, i)]
<1>4. db = [i \in 0..Len(ks) |-> UncreateStep(start, ks, db, i)]
  BY <1>3, Zenon
<1>5. UndoneCreated(start, ks) = db[Len(ks)]
  BY DEF UndoneCreated, UncreateStep
<1> HIDE DEF db
<1>6. \A i \in 0..Len(ks) : db[i] = UncreateStep(start, ks, db, i)
  BY <1>4
<1>7. db[0] = start /\ \A n \in 1..Len(ks) : db[n] = UndoCreated(db[n - 1], ks[n])
  BY <1>6 DEF UncreateStep
<1> QED
  BY <1>5, <1>7

UnspendStep(start, ks, f, n) == IF n = 0 THEN start ELSE UndoSpent(f[n - 1], ks[n])

\* db lists the tables as the loop of UndoneSpent passes through them.
UnspendRun(start, ks, db) ==
  /\ db[0] = start /\ db[Len(ks)] = UndoneSpent(start, ks)
  /\ \A n \in 1..Len(ks) : db[n] = UndoSpent(db[n - 1], ks[n])

LEMMA UndoneSpentSteps ==
  ASSUME NEW start, NEW ks, Len(ks) \in Nat
  PROVE  \E db : UnspendRun(start, ks, db)
<1> DEFINE Solved == {n \in Nat : \E f : f = [i \in 0..n |-> UnspendStep(start, ks, f, i)]}
<1>1. 0 \in Solved
  <2> DEFINE f == [i \in 0..0 |-> start]
  <2>1. f = [i \in 0..0 |-> UnspendStep(start, ks, f, i)]
    BY DEF UnspendStep
  <2> QED
    BY <2>1
<1>2. ASSUME NEW n \in Nat, n \in Solved PROVE n + 1 \in Solved
  <2>1. PICK f : f = [i \in 0..n |-> UnspendStep(start, ks, f, i)]
    BY <1>2
  <2> DEFINE g == [i \in 0..(n + 1) |-> UnspendStep(start, ks, f, i)]
  <2>2. ASSUME NEW i \in 0..(n + 1)
        PROVE  UnspendStep(start, ks, f, i) = UnspendStep(start, ks, g, i)
    <3>1. CASE i = 0
      BY <3>1 DEF UnspendStep
    <3>2. CASE i # 0
      <4>1. i - 1 \in 0..n /\ i - 1 \in 0..(n + 1)
        BY <3>2
      <4>2. f[i - 1] = UnspendStep(start, ks, f, i - 1) /\ g[i - 1] = UnspendStep(start, ks, f, i - 1)
        BY <2>1, <4>1
      <4> HIDE DEF g
      <4> QED
        BY <3>2, <4>2 DEF UnspendStep
    <3> QED
      BY <3>1, <3>2
  <2>3. g = [i \in 0..(n + 1) |-> UnspendStep(start, ks, g, i)]
    BY <2>2
  <2> HIDE DEF g
  <2>4. \E h : h = [i \in 0..(n + 1) |-> UnspendStep(start, ks, h, i)]
    BY <2>3
  <2> QED
    BY <2>4, n + 1 \in Nat
<1>3. Len(ks) \in Solved
  <2> HIDE DEF Solved
  <2> QED
    BY <1>1, <1>2, NatsBySteps
<1> DEFINE db == CHOOSE f : f = [i \in 0..Len(ks) |-> UnspendStep(start, ks, f, i)]
<1>4. db = [i \in 0..Len(ks) |-> UnspendStep(start, ks, db, i)]
  BY <1>3, Zenon
<1>5. UndoneSpent(start, ks) = db[Len(ks)]
  BY DEF UndoneSpent, UnspendStep
<1> HIDE DEF db
<1>6. \A i \in 0..Len(ks) : db[i] = UnspendStep(start, ks, db, i)
  BY <1>4
<1>7. db[0] = start /\ \A n \in 1..Len(ks) : db[n] = UndoSpent(db[n - 1], ks[n])
  BY <1>6 DEF UnspendStep
<1> QED
  BY <1>5, <1>7, ZenonT(60) DEF UnspendRun

-----------------------------------------------------------------------------
(***************************************************************************)
(* What an undo log remembers: how to get from table q back to table p.    *)
(***************************************************************************)
\* No position occurs twice in ks.
Distinct(ks) == \A i, j \in 1..Len(ks) : ks[i] = ks[j] => i = j

\* Where there is no row there is nothing left of one.
Clean(ps) == \A k \in Position : ps[k].height = 0 => ps[k] = NoPos

\* log tells q from p: what it created was not in p, what it spent was unspent
\* there, and all else is the same.
Inverts(p, q, log) ==
  /\ log \in Log /\ Distinct(log.spent)
  /\ \A k \in Position :
       /\ k \in Range(log.created) => p[k] = NoPos
       /\ k \notin Range(log.created) /\ k \in Range(log.spent) =>
            Live(p, k) /\ q[k] = [height |-> p[k].height, spent |-> TRUE]
       /\ k \notin Range(log.created) /\ k \notin Range(log.spent) => q[k] = p[k]

LEMMA RangeOfAppend ==
  ASSUME NEW ks \in Seq(Position), NEW k \in Position
  PROVE  /\ Range(Append(ks, k)) = Range(ks) \cup {k}
         /\ Distinct(ks) /\ k \notin Range(ks) => Distinct(Append(ks, k))
<1>1. /\ Len(ks) \in Nat /\ DOMAIN ks = 1..Len(ks)
      /\ Append(ks, k) \in Seq(Position) /\ Len(Append(ks, k)) = Len(ks) + 1
      /\ DOMAIN Append(ks, k) = 1..(Len(ks) + 1)
      /\ Append(ks, k)[Len(ks) + 1] = k
      /\ \A i \in 1..Len(ks) : Append(ks, k)[i] = ks[i]
  OBVIOUS
<1>2. Range(Append(ks, k)) = Range(ks) \cup {k}
  <2>1. \A i \in 1..(Len(ks) + 1) : i = Len(ks) + 1 \/ i \in 1..Len(ks)
    BY <1>1
  <2>2. Len(ks) + 1 \in 1..(Len(ks) + 1) /\ \A i \in 1..Len(ks) : i \in 1..(Len(ks) + 1)
    BY <1>1
  <2> QED
    BY <1>1, <2>1, <2>2 DEF Range
<1>3. ASSUME Distinct(ks), k \notin Range(ks) PROVE Distinct(Append(ks, k))
  <2>1. \A i \in 1..Len(ks) : ks[i] # k
    BY <1>1, <1>3 DEF Range
  <2>2. \A i \in 1..(Len(ks) + 1) : i = Len(ks) + 1 \/ i \in 1..Len(ks)
    BY <1>1
  <2> QED
    BY <1>1, <1>3, <2>1, <2>2 DEF Distinct
<1> QED
  BY <1>2, <1>3

\* A block that makes k: its log goes on leading back to p.
LEMMA InvertsAfterMake ==
  ASSUME NEW p, NEW q, NEW log, Inverts(p, q, log), NEW k \in Position,
         k \notin Range(log.created), p[k] = NoPos,
         NEW r, NEW e, Puts(q, r, k, e),
         NEW l \in Log, l.created = Append(log.created, k), l.spent = log.spent
  PROVE  Inverts(p, r, l) /\ k \notin Range(log.spent) /\ q[k] = NoPos
<1>1. log.created \in Seq(Position) /\ log.spent \in Seq(Position)
  BY ZenonT(60) DEF Inverts, Log
<1>2. Range(l.created) = Range(log.created) \cup {k}
  BY <1>1, RangeOfAppend
<1>3. ~Live(p, k)
  BY DEF Live, NoPos
<1>4. k \notin Range(log.spent) /\ q[k] = NoPos
  BY <1>3, Zenon DEF Inverts
<1> QED
  BY <1>2, <1>4 DEF Inverts, Puts

\* A block that spends k.
LEMMA InvertsAfterSpend ==
  ASSUME NEW p, NEW q, NEW log, Inverts(p, q, log), NEW k \in Position,
         k \notin Range(log.spent), k \in LiveSet(p) \/ k \in Range(log.created),
         NEW r, Puts(q, r, k, [height |-> q[k].height, spent |-> TRUE]),
         NEW l \in Log, l.spent = Append(log.spent, k), l.created = log.created
  PROVE  Inverts(p, r, l)
<1>1. log.created \in Seq(Position) /\ log.spent \in Seq(Position)
  BY ZenonT(60) DEF Inverts, Log
<1>2. Range(l.spent) = Range(log.spent) \cup {k} /\ Distinct(l.spent)
  BY <1>1, RangeOfAppend DEF Inverts
<1>3. k \notin Range(log.created) => Live(p, k) /\ q[k] = p[k]
  BY Zenon DEF Inverts, LiveSet
<1> QED
  BY <1>2, <1>3, Zenon DEF Inverts, Puts

-----------------------------------------------------------------------------
(***************************************************************************)
(* A block.                                                                *)
(***************************************************************************)
\* Input or output i of block b is one consensus allows on table p.
ValidAt(p, b, i) ==
  /\ b[i].makes => p[b[i].pos].height = 0 /\ b[i].pos \notin Outpoints(b, i - 1, TRUE)
  /\ ~b[i].makes => b[i].pos \in (LiveSet(p) \cup Outpoints(b, i - 1, TRUE))
                                   \ Outpoints(b, i - 1, FALSE)
  /\ Bounded((LiveSet(p) \cup Outpoints(b, i, TRUE)) \ Outpoints(b, i, FALSE))

LEMMA ValidEverywhere ==
  ASSUME NEW b, Valid(b)
  PROVE  \A i \in 1..Len(b) : ValidAt(positions, b, i)
  BY Zenon DEF Valid, ValidAt

LEMMA OutpointsStep ==
  ASSUME NEW b, NEW i \in Nat \ {0}, b[i].makes \in BOOLEAN
  PROVE  /\ b[i].makes => /\ Outpoints(b, i, TRUE) = Outpoints(b, i - 1, TRUE) \cup {b[i].pos}
                          /\ Outpoints(b, i, FALSE) = Outpoints(b, i - 1, FALSE)
         /\ ~b[i].makes => /\ Outpoints(b, i, TRUE) = Outpoints(b, i - 1, TRUE)
                           /\ Outpoints(b, i, FALSE) = Outpoints(b, i - 1, FALSE) \cup {b[i].pos}
<1>1. \A j : j \in 1..i <=> j = i \/ j \in 1..(i - 1)
  OBVIOUS
<1> QED
  BY <1>1 DEF Outpoints

\* The database state db after the first i inputs and outputs of b.
BlockInv(p, b, height, i, db) ==
  /\ Ledger(db) /\ Clean(db.positions) /\ Inverts(p, db.positions, db.log)
  /\ Range(db.log.created) = Outpoints(b, i, TRUE)
  /\ Range(db.log.spent) = Outpoints(b, i, FALSE)
  /\ \A k \in Range(db.log.created) :
       /\ db.positions[k].height = height
       /\ db.positions[k].spent <=> k \in Range(db.log.spent)

LiveAfter(p, b, i) == (LiveSet(p) \cup Outpoints(b, i, TRUE)) \ Outpoints(b, i, FALSE)

LEMMA LiveInBlock ==
  ASSUME NEW p, NEW b, NEW height \in Nat \ {0}, NEW i, NEW db, BlockInv(p, b, height, i, db)
  PROVE  LiveSet(db.positions) = LiveAfter(p, b, i)
<1>1. Range(db.log.created) \subseteq Position
  <2>1. db.log.created \in Seq(Position)
    BY DEF BlockInv, Inverts, Log
  <2> QED
    BY <2>1 DEF Range
<1>2. ASSUME NEW k \in Position
      PROVE  Live(db.positions, k) <=> /\ Live(p, k) \/ k \in Range(db.log.created)
                                       /\ k \notin Range(db.log.spent)
  <2>1. CASE k \in Range(db.log.created)
    <3>1. db.positions[k].height = height /\ (db.positions[k].spent <=> k \in Range(db.log.spent))
      BY <2>1, Zenon DEF BlockInv
    <3>2. db.positions[k].height > 0
      BY <3>1
    <3> QED
      BY <2>1, <3>1, <3>2 DEF Live
  <2>2. CASE k \notin Range(db.log.created) /\ k \in Range(db.log.spent)
    <3>1. db.positions[k] = [height |-> p[k].height, spent |-> TRUE]
      BY <2>2, ZenonT(60) DEF BlockInv, Inverts
    <3>2. ~Live(db.positions, k)
      BY <3>1 DEF Live
    <3> QED
      BY <2>2, <3>2
  <2>3. CASE k \notin Range(db.log.created) /\ k \notin Range(db.log.spent)
    <3>1. db.positions[k] = p[k]
      BY <2>3, Zenon DEF BlockInv, Inverts
    <3>2. Live(db.positions, k) <=> Live(p, k)
      BY <3>1 DEF Live
    <3> QED
      BY <2>3, <3>2
  <2> QED
    BY <2>1, <2>2, <2>3
<1> QED
  BY <1>1, <1>2, Zenon DEF LiveSet, LiveAfter, BlockInv

LEMMA CleanAfter ==
  ASSUME NEW ps, Clean(ps), NEW qs, NEW k, NEW e, e.height = 0 => e = NoPos, Puts(ps, qs, k, e)
  PROVE  Clean(qs)
  BY DEF Clean, Puts

LEMMA MakeInBlock ==
  ASSUME NEW p, Clean(p), NEW b, NEW i \in Nat \ {0}, NEW height \in 1..MaxHeight,
         NEW db, BlockInv(p, b, height, i - 1, db), ValidAt(p, b, i),
         b[i].makes = TRUE, b[i].pos \in Position
  PROVE  BlockInv(p, b, height, i, MakeOutput(db, b[i].pos, height))
<1> DEFINE k == b[i].pos
           d == MakeOutput(db, k, height)
           e == [height |-> height, spent |-> FALSE]
           C == Range(db.log.created)
           S == Range(db.log.spent)
<1>0. height \in Nat \ {0}
  BY LineageAssumption
<1>1. /\ Ledger(db) /\ Clean(db.positions) /\ Inverts(p, db.positions, db.log)
      /\ C = Outpoints(b, i - 1, TRUE) /\ S = Outpoints(b, i - 1, FALSE)
      /\ db.log.created \in Seq(Position)
  BY Zenon DEF BlockInv, Inverts, Log
<1>2. p[k] = NoPos /\ k \notin C
  BY <1>1, Zenon DEF ValidAt, Clean
<1>3. db.positions[k] = NoPos /\ k \notin S
  <2>1. ~Live(p, k)
    BY <1>2 DEF Live, NoPos
  <2> QED
    BY <1>1, <1>2, <2>1, ZenonT(60) DEF Inverts
<1>4. ~Live(db.positions, k)
  BY <1>3 DEF Live, NoPos
<1>5. Outpoints(b, i, TRUE) = C \cup {k} /\ Outpoints(b, i, FALSE) = S
  BY <1>1, OutpointsStep, ZenonT(60)
<1>6. Bounded(LiveSet(db.positions) \cup {k})
  <2>1. LiveSet(db.positions) = (LiveSet(p) \cup C) \ S
    <3>1. LiveSet(db.positions) = LiveAfter(p, b, i - 1)
      BY <1>0, LiveInBlock
    <3> QED
      BY <1>1, <3>1 DEF LiveAfter
  <2>2. LiveSet(db.positions) \cup {k} = (LiveSet(p) \cup (C \cup {k})) \ S
    BY <1>3, <2>1
  <2> QED
    BY <1>5, <2>2, Zenon DEF ValidAt
<1>7. /\ Ledger(d) /\ Puts(db.positions, d.positions, k, e)
      /\ d.log.created = Append(db.log.created, k) /\ d.log.spent = db.log.spent
  BY <1>1, <1>4, <1>6, MakeKeeps, ZenonT(60)
<1> HIDE DEF d
<1>8. d.log \in Log
  BY <1>7 DEF Ledger, DB
<1>9. Inverts(p, d.positions, d.log)
  <2>1. k \in Position
    OBVIOUS
  <2> HIDE DEF e, k, C, S
  <2>2. k \notin Range(db.log.created)
    BY <1>2 DEF C
  <2> QED
    BY <1>1, <1>2, <1>7, <1>8, <2>1, <2>2, InvertsAfterMake, ZenonT(60)
<1>10. Range(d.log.created) = C \cup {k} /\ Range(d.log.spent) = S
  BY <1>1, <1>7, RangeOfAppend, ZenonT(60)
<1>11. Clean(d.positions)
  <2>1. e.height # 0
    BY <1>0
  <2> QED
    BY <1>1, <1>7, <2>1, CleanAfter
<1>12. ASSUME NEW j \in C \cup {k}
       PROVE  d.positions[j].height = height /\ (d.positions[j].spent <=> j \in S)
  <2>1. CASE j = k
    BY <1>3, <1>7, <2>1 DEF Puts
  <2>2. CASE j # k
    <3>1. j \in C /\ j \in Position
      BY <1>1, <2>2 DEF Range
    <3>2. d.positions[j] = db.positions[j]
      BY <1>7, <2>2, <3>1 DEF Puts
    <3> QED
      BY <3>1, <3>2, ZenonT(60) DEF BlockInv
  <2> QED
    BY <2>1, <2>2
<1> QED
  BY <1>5, <1>7, <1>9, <1>10, <1>11, <1>12, ZenonT(60) DEF BlockInv, d

LEMMA SpendInBlock ==
  ASSUME NEW p, NEW b, NEW i \in Nat \ {0}, NEW height \in 1..MaxHeight,
         NEW db, BlockInv(p, b, height, i - 1, db), ValidAt(p, b, i),
         b[i].makes = FALSE, b[i].pos \in Position
  PROVE  BlockInv(p, b, height, i, SpendInput(db, b[i].pos))
<1> DEFINE k == b[i].pos
           d == SpendInput(db, k)
           e == [height |-> db.positions[k].height, spent |-> TRUE]
           C == Range(db.log.created)
           S == Range(db.log.spent)
<1>0. height \in Nat \ {0}
  BY LineageAssumption
<1>1. /\ Ledger(db) /\ Clean(db.positions) /\ Inverts(p, db.positions, db.log)
      /\ C = Outpoints(b, i - 1, TRUE) /\ S = Outpoints(b, i - 1, FALSE)
      /\ db.log.created \in Seq(Position) /\ db.log.spent \in Seq(Position)
  BY Zenon DEF BlockInv, Inverts, Log
<1>2. k \in LiveSet(p) \cup C /\ k \notin S
  BY <1>1, ZenonT(60) DEF ValidAt
<1>3. Live(db.positions, k)
  <2>1. LiveSet(db.positions) = (LiveSet(p) \cup C) \ S
    <3>1. LiveSet(db.positions) = LiveAfter(p, b, i - 1)
      BY <1>0, LiveInBlock
    <3> QED
      BY <1>1, <3>1 DEF LiveAfter
  <2> QED
    BY <1>2, <2>1 DEF LiveSet
<1>4. Outpoints(b, i, TRUE) = C /\ Outpoints(b, i, FALSE) = S \cup {k}
  BY <1>1, OutpointsStep, ZenonT(60)
<1>5. /\ Ledger(d) /\ Puts(db.positions, d.positions, k, e)
      /\ d.log.created = db.log.created /\ d.log.spent = Append(db.log.spent, k)
  BY <1>1, <1>3, SpendKeeps, Zenon
<1> HIDE DEF d
<1>6. d.log \in Log
  BY <1>5, Zenon DEF Ledger, DB
<1>7. Inverts(p, d.positions, d.log)
  BY <1>1, <1>2, <1>5, <1>6, InvertsAfterSpend, Zenon
<1>8. Range(d.log.spent) = S \cup {k} /\ Range(d.log.created) = C
  BY <1>1, <1>5, RangeOfAppend, Zenon
<1>9. Clean(d.positions)
  <2>1. e.height # 0
    <3>1. db.positions[k] \in Entry
      BY <1>1 DEF Ledger, DB, Table, Entry
    <3> QED
      BY <1>3, <3>1, LineageAssumption DEF Live, Entry
  <2> QED
    BY <1>1, <1>5, <2>1, CleanAfter, ZenonT(60)
<1>10. ASSUME NEW j \in C
       PROVE  d.positions[j].height = height /\ (d.positions[j].spent <=> j \in S \cup {k})
  <2>1. j \in Position
    BY <1>1 DEF Range
  <2>2. db.positions[j].height = height /\ (db.positions[j].spent <=> j \in S)
    BY Zenon DEF BlockInv
  <2>3. CASE j = k
    <3>1. d.positions[j] = e
      BY <1>5, <2>3, ZenonT(60) DEF Puts
    <3>2. e.height = db.positions[k].height /\ e.spent = TRUE
      OBVIOUS
    <3> QED
      BY <2>2, <2>3, <3>1, <3>2, Zenon
  <2>4. CASE j # k
    BY <1>5, <2>1, <2>2, <2>4 DEF Puts
  <2> QED
    BY <2>3, <2>4
<1> QED
  BY <1>4, <1>5, <1>7, <1>8, <1>9, <1>10, ZenonT(60) DEF BlockInv, d

Part == [makes : BOOLEAN, pos : Position]

LEMMA BlockShape ==
  ASSUME NEW b \in Block
  PROVE  /\ Len(b) \in Nat
         /\ \A i \in 1..Len(b) : b[i].makes \in BOOLEAN /\ b[i].pos \in Position
<1>1. b \in Seq(Part)
  BY LineageAssumption, Zenon DEF Part
<1>2. Len(b) \in Nat /\ \A i \in 1..Len(b) : b[i] \in Part
  BY <1>1
<1> QED
  BY <1>2 DEF Part

\* applyBlock keeps the tables in agreement, and logs the way back.
LEMMA BlockApplied ==
  ASSUME NEW start, Ledger(start), start.log = EmptyLog, Clean(start.positions),
         NEW b \in Block, NEW height \in 1..MaxHeight,
         \A i \in 1..Len(b) : ValidAt(start.positions, b, i)
  PROVE  LET d == Touched(start, b, height)
         IN  Ledger(d) /\ Clean(d.positions) /\ Inverts(start.positions, d.positions, d.log)
<1> DEFINE p == start.positions
           d == Touched(start, b, height)
<1>1. Len(b) \in Nat
  BY BlockShape
<1>2. PICK f : /\ f[0] = start /\ f[Len(b)] = d
               /\ \A n \in 1..Len(b) : f[n] = Touch(f[n - 1], b[n], height)
  BY <1>1, TouchedSteps
<1> HIDE DEF d
<1> DEFINE Kept == {n \in Nat : n <= Len(b) => BlockInv(p, b, height, n, f[n])}
<1>3. 0 \in Kept
  <2>1. start.log.created = <<>> /\ start.log.spent = <<>> /\ start.log \in Log
    BY DEF EmptyLog, Log
  <2>2. Range(start.log.created) = {} /\ Range(start.log.spent) = {} /\ Distinct(start.log.spent)
    BY <2>1 DEF Range, Distinct
  <2>3. Inverts(p, p, start.log)
    BY <2>1, <2>2 DEF Inverts
  <2>4. Outpoints(b, 0, TRUE) = {} /\ Outpoints(b, 0, FALSE) = {}
    BY DEF Outpoints
  <2>5. BlockInv(p, b, height, 0, start)
    BY <2>2, <2>3, <2>4, Zenon DEF BlockInv
  <2> QED
    BY <1>2, <2>5
<1>4. ASSUME NEW n \in Nat, n \in Kept PROVE n + 1 \in Kept
  <2> SUFFICES ASSUME n + 1 <= Len(b) PROVE BlockInv(p, b, height, n + 1, f[n + 1])
    OBVIOUS
  <2>1. PICK i \in Nat \ {0} : i = n + 1
    OBVIOUS
  <2>2. i \in 1..Len(b) /\ i - 1 = n
    BY <1>1, <2>1
  <2>4. b[i].makes \in BOOLEAN /\ b[i].pos \in Position
    BY <2>2, BlockShape
  <2>5. f[i] = Touch(f[i - 1], b[i], height) /\ ValidAt(p, b, i)
    BY <1>2, <2>2
  <2>6. BlockInv(p, b, height, i - 1, f[i - 1])
    BY <1>1, <1>4, <2>1, <2>2
  <2>7. CASE b[i].makes
    <3>1. f[i] = MakeOutput(f[i - 1], b[i].pos, height)
      BY <2>5, <2>7 DEF Touch
    <3>2. BlockInv(p, b, height, i, MakeOutput(f[i - 1], b[i].pos, height))
      BY <2>4, <2>5, <2>6, <2>7, MakeInBlock, ZenonT(60)
    <3> QED
      BY <2>1, <3>1, <3>2
  <2>8. CASE ~b[i].makes
    <3>1. f[i] = SpendInput(f[i - 1], b[i].pos)
      BY <2>5, <2>8 DEF Touch
    <3>2. BlockInv(p, b, height, i, SpendInput(f[i - 1], b[i].pos))
      BY <2>4, <2>5, <2>6, <2>8, SpendInBlock, ZenonT(60)
    <3> QED
      BY <2>1, <3>1, <3>2
  <2> QED
    BY <2>7, <2>8
<1>5. Nat \subseteq Kept
  <2> HIDE DEF Kept
  <2> QED
    BY <1>3, <1>4, NatsBySteps
<1>6. BlockInv(p, b, height, Len(b), d)
  BY <1>1, <1>2, <1>5
<1> QED
  BY <1>6, Zenon DEF BlockInv, d

-----------------------------------------------------------------------------
(***************************************************************************)
(* Undoing a block.                                                        *)
(***************************************************************************)
FirstOf(ks, n) == {ks[j] : j \in 1..n}

LEMMA FirstOfStep ==
  ASSUME NEW ks, NEW n \in Nat
  PROVE  FirstOf(ks, 0) = {} /\ FirstOf(ks, n + 1) = FirstOf(ks, n) \cup {ks[n + 1]}
<1>1. \A j : j \in 1..(n + 1) <=> j = n + 1 \/ j \in 1..n
  OBVIOUS
<1> QED
  BY <1>1 DEF FirstOf

LEMMA FirstOfAll ==
  ASSUME NEW ks \in Seq(Position)
  PROVE  Range(ks) = FirstOf(ks, Len(ks)) /\ Range(ks) \subseteq Position
  BY DEF Range, FirstOf

\* The first n created positions are gone.
CreatedGone(q, ks, n, db) ==
  /\ Ledger(db)
  /\ \A k \in Position : /\ k \in FirstOf(ks, n) => db.positions[k] = NoPos
                         /\ k \notin FirstOf(ks, n) => db.positions[k] = q[k]

LEMMA CreatedUndone ==
  ASSUME NEW start, Ledger(start), NEW ks \in Seq(Position)
  PROVE  CreatedGone(start.positions, ks, Len(ks), UndoneCreated(start, ks))
<1> DEFINE q == start.positions
<1>1. Len(ks) \in Nat
  OBVIOUS
<1>2. PICK f : /\ f[0] = start /\ f[Len(ks)] = UndoneCreated(start, ks)
               /\ \A n \in 1..Len(ks) : f[n] = UndoCreated(f[n - 1], ks[n])
  BY <1>1, UndoneCreatedSteps
<1> DEFINE Kept == {n \in Nat : n <= Len(ks) => CreatedGone(q, ks, n, f[n])}
<1>3. 0 \in Kept
  <2>1. FirstOf(ks, 0) = {}
    BY FirstOfStep
  <2> QED
    BY <1>2, <2>1 DEF CreatedGone
<1>4. ASSUME NEW n \in Nat, n \in Kept PROVE n + 1 \in Kept
  <2> SUFFICES ASSUME n + 1 <= Len(ks) PROVE CreatedGone(q, ks, n + 1, f[n + 1])
    OBVIOUS
  <2>1. CreatedGone(q, ks, n, f[n]) /\ n + 1 \in 1..Len(ks) /\ (n + 1) - 1 = n
    BY <1>1, <1>4
  <2>2. PICK k \in Position : k = ks[n + 1]
    BY <2>1
  <2>3. f[n + 1] = UndoCreated(f[n], k)
    BY <1>2, <2>1, <2>2
  <2>4. Ledger(f[n + 1]) /\ Puts(f[n].positions, f[n + 1].positions, k, NoPos)
    BY <2>1, <2>3, UndoCreatedKeeps DEF CreatedGone
  <2>5. FirstOf(ks, n + 1) = FirstOf(ks, n) \cup {k}
    BY <2>2, FirstOfStep
  <2> QED
    BY <2>1, <2>4, <2>5 DEF CreatedGone, Puts
<1>5. Nat \subseteq Kept
  <2> HIDE DEF Kept
  <2> QED
    BY <1>3, <1>4, NatsBySteps
<1> QED
  BY <1>1, <1>2, <1>5

\* Then the first n spent positions are back as table p had them.
SpentBack(p, q, log, n, db) ==
  /\ Ledger(db)
  /\ \A k \in Position :
       /\ k \in Range(log.created) => db.positions[k] = NoPos
       /\ k \notin Range(log.created) /\ k \in FirstOf(log.spent, n) => db.positions[k] = p[k]
       /\ k \notin Range(log.created) /\ k \notin FirstOf(log.spent, n) => db.positions[k] = q[k]

\* What is unspent while the spends are undone is unspent in p.
LEMMA LiveWhileUndoing ==
  ASSUME NEW p, NEW q, NEW log, Inverts(p, q, log), NEW n, NEW db, SpentBack(p, q, log, n, db)
  PROVE  LiveSet(db.positions) \subseteq LiveSet(p)
<1> SUFFICES ASSUME NEW k \in Position, Live(db.positions, k)
             PROVE  Live(p, k)
  BY DEF LiveSet
<1>1. k \notin Range(log.created)
  BY DEF SpentBack, Live, NoPos
<1>2. CASE k \in Range(log.spent)
  BY <1>1, <1>2, Zenon DEF Inverts
<1>3. CASE k \notin Range(log.spent)
  <2>1. q[k] = p[k]
    BY <1>1, <1>3, ZenonT(60) DEF Inverts
  <2>2. db.positions[k] = p[k]
    BY <1>1, <2>1 DEF SpentBack
  <2> QED
    BY <2>2 DEF Live
<1> QED
  BY <1>2, <1>3

LEMMA OneSpentBack ==
  ASSUME NEW p \in Table, Fits(p), NEW q, NEW log, Inverts(p, q, log),
         NEW n \in Nat, n + 1 <= Len(log.spent), NEW db, SpentBack(p, q, log, n, db)
  PROVE  SpentBack(p, q, log, n + 1, UndoSpent(db, log.spent[n + 1]))
<1>0. log \in Log
  BY Zenon DEF Inverts
<1>1. log.spent \in Seq(Position) /\ Len(log.spent) \in Nat /\ n + 1 \in 1..Len(log.spent)
  BY <1>0 DEF Log
<1>2. PICK k \in Position : k = log.spent[n + 1]
  BY <1>1
<1>3. FirstOf(log.spent, n + 1) = FirstOf(log.spent, n) \cup {k}
  BY <1>2, FirstOfStep, ZenonT(60)
<1>4. k \in Range(log.spent) /\ k \notin FirstOf(log.spent, n)
  <2>1. \A j \in 1..n : j \in 1..Len(log.spent) /\ j # n + 1
    BY <1>1
  <2>2. \A j \in 1..n : log.spent[j] # k
    BY <1>1, <1>2, <2>1 DEF Inverts, Distinct
  <2>3. k \in Range(log.spent)
    BY <1>1, <1>2 DEF Range
  <2> QED
    BY <2>2, <2>3 DEF FirstOf
<1> DEFINE d == UndoSpent(db, k)
<1>5. CASE k \in Range(log.created)
  <2>1. db.positions[k].height = 0
    <3>1. db.positions[k] = NoPos
      BY <1>5, Zenon DEF SpentBack
    <3> QED
      BY <3>1 DEF NoPos
  <2>2. d = db
    BY <2>1 DEF UndoSpent
  <2> QED
    BY <1>2, <1>3, <1>5, <2>2, ZenonT(60) DEF SpentBack
<1>6. CASE k \notin Range(log.created)
  <2>1. Live(p, k) /\ db.positions[k] = [height |-> p[k].height, spent |-> TRUE]
    BY <1>4, <1>6, Zenon DEF SpentBack, Inverts
  <2>2. p[k] \in Entry
    BY DEF Table, Entry
  <2>3. /\ db.positions[k].height = p[k].height /\ db.positions[k].spent = TRUE
        /\ p[k].height \in Nat \ {0} /\ p[k].spent = FALSE
    <3>1. p[k].height \in Nat /\ p[k].spent \in BOOLEAN
      BY <2>2, LineageAssumption DEF Entry
    <3>2. p[k].height > 0 /\ ~p[k].spent
      BY <2>1, ZenonT(60) DEF Live
    <3>3. db.positions[k].height = p[k].height /\ db.positions[k].spent = TRUE
      BY <2>1
    <3> QED
      BY <3>1, <3>2, <3>3
  <2>4. ~Live(db.positions, k) /\ db.positions[k].height # 0
    BY <2>3, Zenon DEF Live
  <2>5. Bounded(LiveSet(db.positions) \cup {k})
    <3>1. LiveSet(db.positions) \cup {k} \in SUBSET LiveSet(p) /\ LiveSet(p) \in SUBSET Position
      BY <2>1, LiveWhileUndoing DEF LiveSet
    <3> QED
      BY <3>1, FewerBounded DEF Fits
  <2>6. /\ Ledger(d)
        /\ Puts(db.positions, d.positions, k, [height |-> db.positions[k].height, spent |-> FALSE])
    BY <2>4, <2>5, UndoSpentKeeps, Zenon DEF SpentBack
  <2>7. p[k] = [height |-> db.positions[k].height, spent |-> FALSE]
    BY <2>2, <2>3, ZenonT(60) DEF Entry
  <2> HIDE DEF d
  <2>8. Puts(db.positions, d.positions, k, p[k])
    BY <2>6, <2>7
  <2>9. SpentBack(p, q, log, n + 1, d)
    BY <1>3, <1>6, <2>6, <2>8, ZenonT(60) DEF SpentBack, Puts
  <2> QED
    BY <1>2, <2>9 DEF d
<1> QED
  BY <1>5, <1>6, Zenon

\* undoBlock brings back the tables of before the block.
LEMMA BlockUndone ==
  ASSUME NEW p \in Table, Fits(p), NEW start, Ledger(start), NEW log,
         Inverts(p, start.positions, log)
  PROVE  LET d == UndoneSpent(UndoneCreated(start, log.created), log.spent)
         IN  Ledger(d) /\ d.positions = p
<1> DEFINE q == start.positions
           u == UndoneCreated(start, log.created)
           d == UndoneSpent(u, log.spent)
<1>1. /\ log.created \in Seq(Position) /\ log.spent \in Seq(Position)
      /\ Len(log.created) \in Nat /\ Len(log.spent) \in Nat
  BY DEF Inverts, Log
<1>2. CreatedGone(q, log.created, Len(log.created), u)
  BY <1>1, CreatedUndone
<1> HIDE DEF u
<1>3. PICK f : /\ f[0] = u /\ f[Len(log.spent)] = d
               /\ \A n \in 1..Len(log.spent) : f[n] = UndoSpent(f[n - 1], log.spent[n])
  <2>1. PICK ks \in Seq(Position) : ks = log.spent
    BY <1>1
  <2>2. Len(ks) \in Nat
    OBVIOUS
  <2>3. \E f : UnspendRun(u, ks, f)
    BY <2>2, UndoneSpentSteps, ZenonT(60)
  <2> QED
    BY <2>1, <2>3, Zenon DEF UnspendRun
<1> HIDE DEF d
<1> DEFINE Kept == {n \in Nat : n <= Len(log.spent) => SpentBack(p, q, log, n, f[n])}
<1>4. 0 \in Kept
  <2>1. FirstOf(log.spent, 0) = {}
    BY FirstOfStep
  <2>2. Range(log.created) = FirstOf(log.created, Len(log.created))
    BY <1>1, FirstOfAll
  <2>3. SpentBack(p, q, log, 0, u)
    BY <1>2, <2>1, <2>2 DEF CreatedGone, SpentBack
  <2> QED
    BY <1>3, <2>3
<1>5. ASSUME NEW n \in Nat, n \in Kept PROVE n + 1 \in Kept
  <2> SUFFICES ASSUME n + 1 <= Len(log.spent) PROVE SpentBack(p, q, log, n + 1, f[n + 1])
    OBVIOUS
  <2>1. SpentBack(p, q, log, n, f[n]) /\ n + 1 \in 1..Len(log.spent) /\ (n + 1) - 1 = n
    BY <1>1, <1>5
  <2>2. f[n + 1] = UndoSpent(f[n], log.spent[n + 1])
    BY <1>3, <2>1, Zenon
  <2>3. SpentBack(p, q, log, n + 1, UndoSpent(f[n], log.spent[n + 1]))
    BY <2>1, OneSpentBack, Zenon
  <2> QED
    BY <2>2, <2>3
<1>6. Nat \subseteq Kept
  <2> HIDE DEF Kept
  <2> QED
    BY <1>4, <1>5, NatsBySteps
<1>7. SpentBack(p, q, log, Len(log.spent), d)
  BY <1>1, <1>3, <1>6
<1>8. Range(log.spent) = FirstOf(log.spent, Len(log.spent))
  BY <1>1, FirstOfAll
<1>9. \A k \in Position : d.positions[k] = p[k]
  BY <1>7, <1>8, ZenonT(60) DEF SpentBack, Inverts
<1>10. d.positions \in Table /\ Ledger(d)
  BY <1>7 DEF SpentBack, Ledger, DB
<1>11. d.positions = p
  BY <1>9, <1>10 DEF Table
<1> QED
  BY <1>10, <1>11 DEF d, u

-----------------------------------------------------------------------------
(***************************************************************************)
(* The inductive invariant: the tables agree, and the undo logs lead back  *)
(* through tables that fit, one for each applied block.                    *)
(***************************************************************************)
\* T is the position table after each applied block.
History(T, ps, ls) ==
  /\ T \in [0..Len(ls) -> Table] /\ T[Len(ls)] = ps
  /\ \A i \in 0..Len(ls) : Fits(T[i]) /\ Clean(T[i])
  /\ \A i \in 1..Len(ls) : Inverts(T[i - 1], T[i], ls[i])

HasHistory(ps, ls) == \E T : History(T, ps, ls)

Tables ==
  /\ positions \in Table /\ rows \in [Origin -> Row] /\ holders \in [Origin -> [Key -> Nat]]
  /\ Agrees(rows, holders, positions)

IInv ==
  /\ chain \in Seq(Block) /\ logs \in Seq(Log) /\ Len(logs) = Len(chain)
  /\ Tables /\ HasHistory(positions, logs)

LEMMA HistoryGrows ==
  ASSUME NEW ps, NEW ls \in Seq(Log), HasHistory(ps, ls),
         NEW qs \in Table, Fits(qs), Clean(qs), NEW l \in Log, Inverts(ps, qs, l)
  PROVE  HasHistory(qs, Append(ls, l))
<1>1. PICK T : History(T, ps, ls)
  BY DEF HasHistory
<1>2. PICK n \in Nat : n = Len(ls)
  OBVIOUS
<1>3. PICK ms \in Seq(Log) : ms = Append(ls, l)
  <2>1. Append(ls, l) \in Seq(Log)
    OBVIOUS
  <2> QED
    BY <2>1, Zenon
<1>4. Len(ms) = n + 1 /\ ms[n + 1] = l /\ \A i \in 1..n : ms[i] = ls[i]
  BY <1>2, <1>3
<1>5. /\ T \in [0..n -> Table] /\ T[n] = ps
      /\ \A i \in 0..n : Fits(T[i]) /\ Clean(T[i])
      /\ \A i \in 1..n : Inverts(T[i - 1], T[i], ls[i])
  BY <1>1, <1>2 DEF History
<1> DEFINE U == [i \in 0..(n + 1) |-> IF i <= n THEN T[i] ELSE qs]
<1>6. U \in [0..(n + 1) -> Table] /\ U[n + 1] = qs /\ \A i \in 0..n : U[i] = T[i]
  BY <1>5
<1> HIDE DEF U
<1>7. ASSUME NEW i \in 0..(n + 1) PROVE Fits(U[i]) /\ Clean(U[i])
  <2>1. i = n + 1 \/ i \in 0..n
    OBVIOUS
  <2> QED
    BY <1>5, <1>6, <2>1
<1>8. ASSUME NEW i \in 1..(n + 1) PROVE Inverts(U[i - 1], U[i], ms[i])
  <2>1. CASE i = n + 1
    <3>1. i - 1 = n /\ n \in 0..n
      BY <2>1
    <3> QED
      BY <1>4, <1>5, <1>6, <2>1, <3>1
  <2>2. CASE i \in 1..n
    <3>1. i - 1 \in 0..n /\ i \in 0..n
      BY <2>2
    <3> QED
      BY <1>4, <1>5, <1>6, <2>2, <3>1
  <2> QED
    BY <2>1, <2>2
<1>9. History(U, qs, ms)
  BY <1>4, <1>6, <1>7, <1>8, ZenonT(60) DEF History
<1> QED
  BY <1>3, <1>9 DEF HasHistory

LEMMA HistoryShrinks ==
  ASSUME NEW ps, NEW ls \in Seq(Log), HasHistory(ps, ls), ls # <<>>
  PROVE  \E p \in Table : /\ Fits(p) /\ Inverts(p, ps, ls[Len(ls)])
                          /\ HasHistory(p, Front(ls))
<1>1. PICK T : History(T, ps, ls)
  BY DEF HasHistory
<1>2. PICK n \in Nat : n + 1 = Len(ls)
  <2>1. Len(ls) \in Nat \ {0}
    OBVIOUS
  <2>2. Len(ls) - 1 \in Nat /\ (Len(ls) - 1) + 1 = Len(ls)
    BY <2>1
  <2> QED
    BY <2>2, Zenon
<1>3. PICK ms \in Seq(Log) : ms = Front(ls) /\ Len(ms) = n /\ \A i \in 1..n : ms[i] = ls[i]
  <2>1. Front(ls) = SubSeq(ls, 1, n)
    BY <1>2 DEF Front
  <2>2. SubSeq(ls, 1, n) \in Seq(Log) /\ Len(SubSeq(ls, 1, n)) = n
        /\ \A i \in 1..n : SubSeq(ls, 1, n)[i] = ls[i]
    BY <1>2
  <2> QED
    BY <2>1, <2>2
<1>4. /\ T \in [0..(n + 1) -> Table] /\ T[n + 1] = ps
      /\ \A i \in 0..(n + 1) : Fits(T[i]) /\ Clean(T[i])
      /\ \A i \in 1..(n + 1) : Inverts(T[i - 1], T[i], ls[i])
  BY <1>1, <1>2, Zenon DEF History
<1>5. (n + 1) - 1 = n /\ n \in 0..(n + 1) /\ n + 1 \in 1..(n + 1)
  OBVIOUS
<1>6. T[n] \in Table /\ Fits(T[n]) /\ Inverts(T[n], ps, ls[n + 1])
  BY <1>4, <1>5
<1> DEFINE U == [i \in 0..n |-> T[i]]
<1>7. U \in [0..n -> Table] /\ \A i \in 0..n : U[i] = T[i]
  BY <1>4
<1> HIDE DEF U
<1>8. \A i \in 0..n : Fits(U[i]) /\ Clean(U[i])
  BY <1>4, <1>7
<1>9. ASSUME NEW i \in 1..n PROVE Inverts(U[i - 1], U[i], ms[i])
  <2>1. i - 1 \in 0..n /\ i \in 0..n /\ i \in 1..(n + 1)
    OBVIOUS
  <2> QED
    BY <1>3, <1>4, <1>7, <2>1, ZenonT(60)
<1>10. History(U, T[n], ms)
  BY <1>3, <1>7, <1>8, <1>9 DEF History
<1> QED
  BY <1>2, <1>3, <1>6, <1>10 DEF HasHistory

LEMMA HistoryHere ==
  ASSUME NEW ps, NEW ls \in Seq(Log), HasHistory(ps, ls)
  PROVE  Fits(ps) /\ Clean(ps)
<1>1. PICK T : History(T, ps, ls)
  BY DEF HasHistory
<1>2. Len(ls) \in 0..Len(ls)
  OBVIOUS
<1> QED
  BY <1>1, <1>2 DEF History

LEMMA DatabaseIsLedger ==
  ASSUME Tables, Fits(positions), NEW log \in Log
  PROVE  Ledger(Database(log)) /\ Database(log).positions = positions /\ Database(log).log = log
  BY DEF Tables, Ledger, Database, DB

\* A transaction that ends in agreement leaves the tables in agreement.
LEMMA InstallLedger ==
  ASSUME NEW db, Ledger(db), Install(db)
  PROVE  Tables'
  BY DEF Ledger, DB, Install, Tables

LEMMA InitHolds ==
  ASSUME Init
  PROVE  IInv
<1>1. NoPos \in Entry /\ NoRow \in Row
  BY LineageAssumption DEF NoPos, Entry, NoRow, Row
<1>2. positions \in Table /\ \A k \in Position : positions[k] = NoPos
  BY <1>1 DEF Init, Table, Entry
<1>3. LiveSet(positions) = {}
  BY <1>2 DEF LiveSet, Live, NoPos
<1>4. Fits(positions) /\ Clean(positions)
  <2>1. SumOf({}) = 0
    BY SumEmpty DEF SumOf
  <2>2. \A o : {k \in {} : OriginOf[k] = o} = {}
    OBVIOUS
  <2>3. Bounded({})
    BY <2>1, <2>2, LineageAssumption DEF Bounded
  <2> QED
    BY <1>2, <1>3, <2>3 DEF Fits, Clean
<1>5. rows \in [Origin -> Row] /\ holders \in [Origin -> [Key -> Nat]]
  BY <1>1 DEF Init
<1>6. Agrees(rows, holders, positions)
  <2>1. ASSUME NEW o \in Origin PROVE Unspent(positions, o) = {}
    BY <1>3 DEF Unspent
  <2>2. ASSUME NEW o \in Origin PROVE rows[o] = Summary(positions, o)
    BY <2>1 DEF Init, Summary
  <2>3. ASSUME NEW o \in Origin, NEW x \in Key
        PROVE  holders[o][x] = Cardinality(HeldBy(Unspent(positions, o), x))
    <3>1. HeldBy({}, x) = {}
      BY DEF HeldBy
    <3> QED
      BY <2>1, <3>1, FS_EmptySet, Zenon DEF Init
  <2> QED
    BY <2>2, <2>3 DEF Agrees
<1>7. logs \in Seq(Log) /\ Len(logs) = 0 /\ chain \in Seq(Block) /\ Len(chain) = 0
  BY DEF Init
<1>8. HasHistory(positions, logs)
  <2> DEFINE T == [i \in 0..0 |-> positions]
  <2>1. History(T, positions, logs)
    BY <1>2, <1>4, <1>7 DEF History
  <2> QED
    BY <2>1 DEF HasHistory
<1> QED
  BY <1>2, <1>5, <1>6, <1>7, <1>8 DEF IInv, Tables

LEMMA ApplyKeepsIInv ==
  ASSUME IInv, NEW b \in Block, ApplyBlock(b)
  PROVE  IInv' /\ Inverts(positions, positions', logs'[Len(logs')]) /\ Len(logs') # 0
<1> DEFINE start == Database(EmptyLog)
           height == Len(chain) + 1
           d == Touched(start, b, height)
<1>1. EmptyLog \in Log
  BY DEF EmptyLog, Log
<1>2. Fits(positions) /\ Clean(positions)
  BY HistoryHere DEF IInv
<1>3. Ledger(start) /\ start.positions = positions /\ start.log = EmptyLog
  BY <1>1, <1>2, DatabaseIsLedger DEF IInv
<1>4. height \in 1..MaxHeight
  BY LineageAssumption DEF IInv, ApplyBlock
<1>5. Valid(b) /\ Install(d) /\ logs' = Append(logs, d.log) /\ chain' = Append(chain, b)
  BY DEF ApplyBlock
<1>6. \A i \in 1..Len(b) : ValidAt(start.positions, b, i)
  BY <1>3, <1>5, ValidEverywhere
<1> HIDE DEF start, height
<1>7. Ledger(d) /\ Clean(d.positions) /\ Inverts(positions, d.positions, d.log)
  BY <1>2, <1>3, <1>4, <1>6, BlockApplied
<1> HIDE DEF d
<1>8. Tables'
  BY <1>5, <1>7, InstallLedger
<1>9. d.positions \in Table /\ Fits(d.positions) /\ d.log \in Log
  BY <1>7 DEF Ledger, DB
<1>10. HasHistory(d.positions, Append(logs, d.log))
  BY <1>7, <1>9, HistoryGrows DEF IInv
<1>11. HasHistory(positions, logs)'
  BY <1>5, <1>10 DEF Install
<1>12. (chain \in Seq(Block) /\ logs \in Seq(Log) /\ Len(logs) = Len(chain))'
  BY <1>5, <1>9 DEF IInv
<1>13. positions' = d.positions /\ logs'[Len(logs')] = d.log /\ Len(logs') # 0
  BY <1>5, <1>9 DEF IInv, Install
<1> QED
  BY <1>7, <1>8, <1>11, <1>12, <1>13 DEF IInv

\* Tables that agree with the same positions are the same.
LEMMA SameRows ==
  ASSUME NEW ps, NEW rs \in [Origin -> Row], NEW hs \in [Origin -> [Key -> Nat]], Agrees(rs, hs, ps),
         NEW qs \in [Origin -> Row], NEW gs \in [Origin -> [Key -> Nat]], Agrees(qs, gs, ps)
  PROVE  rs = qs /\ hs = gs
<1>1. \A o \in Origin : rs[o] = qs[o]
  BY Zenon DEF Agrees
<1>2. ASSUME NEW o \in Origin PROVE hs[o] = gs[o]
  <2>1. \A x \in Key : hs[o][x] = gs[o][x]
    BY ZenonT(60) DEF Agrees
  <2> QED
    BY <2>1
<1> QED
  BY <1>1, <1>2

LEMMA UndoKeepsIInv ==
  ASSUME IInv, UndoBlock
  PROVE  IInv'
<1> DEFINE log == logs[Len(logs)]
           start == Database(log)
           d == UndoneSpent(UndoneCreated(start, log.created), log.spent)
<1>1. chain # <<>> /\ Install(d) /\ chain' = Front(chain) /\ logs' = Front(logs)
  BY DEF UndoBlock, Undone
<1>2. PICK n \in Nat : n + 1 = Len(chain) /\ n + 1 = Len(logs)
  <2>1. Len(chain) \in Nat \ {0}
    BY <1>1 DEF IInv
  <2>2. Len(chain) - 1 \in Nat /\ (Len(chain) - 1) + 1 = Len(chain)
    BY <2>1
  <2> QED
    BY <2>2 DEF IInv
<1>3. log \in Log
  BY <1>2 DEF IInv
<1>4. logs # <<>> /\ logs \in Seq(Log) /\ HasHistory(positions, logs)
  BY <1>2 DEF IInv
<1>5. PICK p \in Table : Fits(p) /\ Inverts(p, positions, log) /\ HasHistory(p, Front(logs))
  BY <1>4, HistoryShrinks
<1>6. Fits(positions)
  BY <1>4, HistoryHere
<1>7. Ledger(start) /\ start.positions = positions
  BY <1>3, <1>6, DatabaseIsLedger DEF IInv
<1> HIDE DEF start, log
<1>8. Ledger(d) /\ d.positions = p
  BY <1>5, <1>7, BlockUndone
<1> HIDE DEF d
<1>9. Tables'
  BY <1>1, <1>8, InstallLedger
<1>10. HasHistory(positions, logs)'
  BY <1>1, <1>5, <1>8 DEF Install
<1>11. (chain \in Seq(Block) /\ logs \in Seq(Log) /\ Len(logs) = Len(chain))'
  <2>1. Front(chain) = SubSeq(chain, 1, n) /\ Front(logs) = SubSeq(logs, 1, n)
    BY <1>2 DEF Front
  <2>2. /\ SubSeq(chain, 1, n) \in Seq(Block) /\ Len(SubSeq(chain, 1, n)) = n
        /\ SubSeq(logs, 1, n) \in Seq(Log) /\ Len(SubSeq(logs, 1, n)) = n
    BY <1>2 DEF IInv
  <2> QED
    BY <1>1, <2>1, <2>2
<1> QED
  BY <1>9, <1>10, <1>11 DEF IInv

\* The summary of every lineage is kept in step with the position table
\* through every block and every reorg, along undo logs that lead back to
\* each earlier table (applyBlock, undoBlock, addToLineage,
\* removeFromLineage).
THEOREM LineageInvariant == Spec => []IInv
<1>1. Init => IInv
  BY InitHolds
<1>2. IInv /\ [Next]_vars => IInv'
  <2> SUFFICES ASSUME IInv, [Next]_vars PROVE IInv'
    OBVIOUS
  <2>1. CASE UndoBlock
    BY <2>1, UndoKeepsIInv
  <2>2. CASE \E b \in Block : ApplyBlock(b)
    BY <2>2, ApplyKeepsIInv
  <2>3. CASE UNCHANGED vars
    BY <2>3 DEF vars, IInv, Tables
  <2> QED
    BY <2>1, <2>2, <2>3 DEF Next
<1> QED
  BY <1>1, <1>2, PTL DEF Spec

-----------------------------------------------------------------------------
(***************************************************************************)
(* The supply.                                                             *)
(***************************************************************************)
Scaled(m) == [k \in Position |-> Worth[k] * m]

LEMMA SumScale ==
  ASSUME NEW m \in Int, NEW S \in SUBSET Position
  PROVE  SumFunctionOnSet(Scaled(m), S) = SumOf(S) * m
<1> DEFINE g == Scaled(m)
           T == {R \in SUBSET Position : SumFunctionOnSet(g, R) = SumOf(R) * m}
<1>1. \A k \in Position : g[k] = Worth[k] * m /\ g[k] \in Int /\ Worth[k] \in Nat
  BY WorthIsNat DEF Scaled
<1> HIDE DEF g
<1>2. {} \in T
  <2>1. SumFunctionOnSet(g, {}) = 0 /\ SumOf({}) = 0
    BY SumEmpty DEF SumOf
  <2> QED
    BY <2>1
<1>3. \A R \in SUBSET Position, k \in Position : R \in T /\ k \notin R => R \cup {k} \in T
  <2> SUFFICES ASSUME NEW R \in SUBSET Position, NEW k \in Position, R \in T, k \notin R
               PROVE  R \cup {k} \in T
    OBVIOUS
  <2>1. IsFiniteSet(R) /\ SumOf(R) \in Nat /\ SumOf(R \cup {k}) = SumOf(R) + Worth[k]
    BY SumOfSets
  <2>2. SumFunctionOnSet(g, R \cup {k}) = g[k] + SumFunctionOnSet(g, R)
    <3>1. \A x \in R \cup {k} : g[x] \in Int
      BY <1>1
    <3> QED
      BY <2>1, <3>1, SumAdd
  <2>3. PICK a \in Nat, w \in Nat : a = SumOf(R) /\ w = Worth[k]
    BY <1>1, <2>1
  <2>4. SumFunctionOnSet(g, R) = a * m
    BY <2>3
  <2>5. SumFunctionOnSet(g, R \cup {k}) = w * m + a * m
    BY <1>1, <2>2, <2>3, <2>4
  <2>6. w * m + a * m = (a + w) * m
    BY <2>3
  <2>7. SumOf(R \cup {k}) * m = (a + w) * m
    BY <2>1, <2>3
  <2> QED
    BY <2>5, <2>6, <2>7
<1>4. SUBSET Position \subseteq T
  <2> HIDE DEF T
  <2> QED
    BY <1>2, <1>3, LineageAssumption, SubsetsBySteps
<1> QED
  BY <1>4 DEF g

LEMMA MaxMinOfTwo ==
  ASSUME NEW a \in Int, NEW b \in Nat
  PROVE  Max({0, Min({a, b})}) = IF a <= 0 THEN 0 ELSE IF a > b THEN b ELSE a
<1>1. Min({a, b}) = IF a > b THEN b ELSE a
  BY DEF Min
<1>2. PICK c \in Int : c = Min({a, b})
  BY <1>1
<1>3. Max({0, c}) = IF c <= 0 THEN 0 ELSE c
  BY DEF Max
<1> QED
  BY <1>1, <1>2, <1>3

\* The overflow test by division is exact.
LEMMA DivisionTest ==
  ASSUME NEW a \in Nat \ {0}, NEW m \in Nat \ {0}, NEW N \in Nat
  PROVE  a > N \div m <=> a * m > N
<1>1. PICK q \in Nat : q = N \div m /\ q * m <= N /\ N < q * m + m
  OBVIOUS
<1>2. a > q => a * m >= q * m + m
  <2> SUFFICES ASSUME a > q PROVE a * m >= q * m + m
    BY <1>1
  <2>1. PICK c \in Nat : a = q + 1 + c
    <3>1. a - q - 1 \in Nat /\ a = q + 1 + (a - q - 1)
      BY <1>1
    <3> QED
      BY <3>1
  <2>2. a * m = q * m + m + c * m /\ c * m >= 0
    BY <2>1
  <2> QED
    BY <2>2
<1>3. a <= q => a * m <= q * m
  <2> SUFFICES ASSUME a <= q PROVE a * m <= q * m
    BY <1>1
  <2>1. PICK c \in Nat : q = a + c
    <3>1. q - a \in Nat /\ q = a + (q - a)
      BY <1>1
    <3> QED
      BY <3>1
  <2>2. q * m = a * m + c * m /\ c * m >= 0
    BY <2>1
  <2> QED
    BY <2>2
<1> QED
  BY <1>1, <1>2, <1>3

LEMMA SatMulIsExact ==
  ASSUME NEW a \in Nat, NEW m \in Int
  PROVE  satMul(a, m) = Max({0, Min({a * m, MaxInt64})})
<1>0. MaxInt64 \in Nat
  BY LineageAssumption
<1>1. PICK x \in Int : x = a * m
  OBVIOUS
<1>2. Max({0, Min({x, MaxInt64})}) = IF x <= 0 THEN 0 ELSE IF x > MaxInt64 THEN MaxInt64 ELSE x
  BY <1>0, MaxMinOfTwo
<1>3. CASE a = 0 \/ m <= 0
  <2>1. x <= 0
    BY <1>1, <1>3
  <2>2. satMul(a, m) = 0
    BY <1>3 DEF satMul
  <2> QED
    BY <1>1, <1>2, <2>1, <2>2
<1>4. CASE a # 0 /\ ~(m <= 0)
  <2>1. a \in Nat \ {0} /\ m \in Nat \ {0}
    BY <1>4
  <2>2. x > 0
    BY <1>1, <2>1
  <2>3. a > MaxInt64 \div m <=> a * m > MaxInt64
    BY <1>0, <2>1, DivisionTest
  <2>4. satMul(a, m) = IF a > MaxInt64 \div m THEN MaxInt64 ELSE a * m
    BY <1>4, <2>1 DEF satMul
  <2> QED
    BY <1>1, <1>2, <2>2, <2>3, <2>4
<1> QED
  BY <1>3, <1>4

LEMMA SupplyExact ==
  ASSUME IInv
  PROVE  SupplyIsSaturatedSum
<1> SUFFICES ASSUME NEW o \in Origin
             PROVE  Supply(o) = Max({0, Min({SumFunctionOnSet(Scaled(MultOf[o]),
                                              Unspent(positions, o)), MaxInt64})})
  BY DEF SupplyIsSaturatedSum, Scaled
<1> DEFINE S == Unspent(positions, o)
           m == MultOf[o]
           n == rows[o].multiplier
<1>1. S \in SUBSET Position /\ m \in Int
  BY UnspentIn, LineageAssumption
<1>2. rows[o] = SummaryOf(positions, o, S)
  BY SummaryFields DEF IInv, Tables, Agrees
<1>3. SumOf(S) \in Nat
  BY <1>1, SumOfSets
<1> HIDE DEF S, m
<1>4. rows[o].unspentValue = SumOf(S) /\ (S = {} => n = 0) /\ (S # {} => n = m)
  <2>1. SummaryOf(positions, o, S).unspentValue = SumOf(S)
    BY DEF SummaryOf
  <2>2. SummaryOf(positions, o, S).multiplier = IF S = {} THEN 0 ELSE m
    BY DEF SummaryOf, m
  <2> QED
    BY <1>2, <2>1, <2>2, Zenon
<1>5. SumFunctionOnSet(Scaled(m), S) = SumOf(S) * m
  BY <1>1, SumScale
<1> HIDE DEF n
<1>6. n \in Int /\ SumOf(S) * n = SumOf(S) * m
  <2>1. CASE S = {}
    <3>1. SumOf(S) = 0
      BY <2>1, SumEmpty DEF SumOf
    <3>2. n = 0
      BY <1>4, <2>1, Zenon
    <3>3. 0 * 0 = 0 * m /\ 0 \in Int
      BY <1>1
    <3> QED
      BY <3>1, <3>2, <3>3, Zenon
  <2>2. CASE S # {}
    <3>1. n = m
      BY <1>4, <2>2, Zenon
    <3> QED
      BY <1>1, <3>1, Zenon
  <2> QED
    BY <2>1, <2>2, Zenon
<1>7. satMul(SumOf(S), n) = Max({0, Min({SumOf(S) * n, MaxInt64})})
  BY <1>3, <1>6, SatMulIsExact
<1>8. Supply(o) = satMul(SumOf(S), n)
  BY <1>4 DEF Supply, n
<1>9. Supply(o) = Max({0, Min({SumFunctionOnSet(Scaled(m), S), MaxInt64})})
  BY <1>5, <1>6, <1>7, <1>8, ZenonT(60)
<1> QED
  BY <1>9 DEF S, m

-----------------------------------------------------------------------------
\* Every table holds rows of its type: no holder count, position count or
\* total of addToLineage and removeFromLineage ever goes negative, and no
\* value passes MaxInt64.
THEOREM LineageTypes == Spec => []TypeOK
<1>1. IInv => TypeOK
  BY DEF IInv, Tables, TypeOK, Table
<1> QED
  BY <1>1, LineageInvariant, PTL

\* Whatever the positions, the lineages and the blocks, after any applied
\* and undone blocks each lineage row and each holder row is what its
\* unspent positions make it.
THEOREM SummariesMatchPositions == Spec => []LineageMatchesPositions
<1>1. IInv => LineageMatchesPositions
  BY DEF IInv, Tables, Agrees, LineageMatchesPositions
<1> QED
  BY <1>1, LineageInvariant, PTL

\* What applyBlock writes to the undo log is enough for undoBlock to bring
\* back every table exactly, for every block consensus allows and whatever
\* came before it: a reorg of any depth ends where the index was.
THEOREM UndoIsExact == Spec => UndoRestores
<1>1. ASSUME IInv, [Next]_vars, Len(chain') > Len(chain)
      PROVE  LET log == logs[Len(logs)]
                 db  == Undone(Database(log)', log')
             IN  db.positions = positions /\ db.rows = rows /\ db.holders = holders
  <2>1. Len(chain) \in Nat /\ chain \in Seq(Block)
    BY <1>1 DEF IInv
  <2>2. PICK b \in Block : ApplyBlock(b)
    <3>1. ~UNCHANGED vars
      BY <1>1, <2>1 DEF vars
    <3>2. ~UndoBlock
      <4>1. ASSUME UndoBlock PROVE Len(chain') = Len(chain) - 1
        <5>1. Len(chain) \in Nat \ {0} /\ chain' = SubSeq(chain, 1, Len(chain) - 1)
          BY <2>1, <4>1 DEF UndoBlock, Front
        <5>2. PICK n \in Nat : n + 1 = Len(chain) /\ n = Len(chain) - 1
          BY <5>1
        <5>3. chain' = SubSeq(chain, 1, n)
          BY <5>1, <5>2, Zenon
        <5>4. Len(SubSeq(chain, 1, n)) = n
          BY <2>1, <5>2
        <5> QED
          BY <5>2, <5>3, <5>4, Zenon
      <4> QED
        BY <1>1, <2>1, <4>1
    <3> QED
      BY <1>1, <3>1, <3>2 DEF Next
  <2>3. IInv' /\ Inverts(positions, positions', logs'[Len(logs')]) /\ Len(logs') # 0
    BY <1>1, <2>2, ApplyKeepsIInv
  <2>4. PICK log, start : log = logs'[Len(logs')] /\ start = Database(logs[Len(logs)])'
    OBVIOUS
  <2>5. log \in Log
    BY <2>3, <2>4, ZenonT(60) DEF Inverts
  <2>6. Ledger(start) /\ start.positions = positions'
    <3>1. Fits(positions')
      BY <2>3, HistoryHere DEF IInv
    <3>2. /\ positions' \in Table /\ rows' \in [Origin -> Row]
          /\ holders' \in [Origin -> [Key -> Nat]] /\ Agrees(rows', holders', positions')
      BY <2>3 DEF IInv, Tables
    <3>3. start = [positions |-> positions', rows |-> rows', holders |-> holders', log |-> log]
      BY <2>4 DEF Database
    <3> QED
      BY <2>5, <3>1, <3>2, <3>3 DEF Ledger, DB
  <2>7. positions \in Table /\ Fits(positions)
    BY <1>1, HistoryHere DEF IInv, Tables
  <2> DEFINE db == Undone(start, log)
  <2>8. Ledger(db) /\ db.positions = positions
    BY <2>3, <2>4, <2>6, <2>7, BlockUndone DEF Undone
  <2>9. db = LET l == logs[Len(logs)] IN Undone(Database(l)', l')
    BY <2>4, Zenon
  <2> HIDE DEF db
  <2>10. db.rows = rows /\ db.holders = holders
    <3>1. /\ db.rows \in [Origin -> Row] /\ db.holders \in [Origin -> [Key -> Nat]]
          /\ Agrees(db.rows, db.holders, positions)
      BY <2>8 DEF Ledger, DB
    <3> QED
      BY <1>1, <3>1, SameRows, ZenonT(60) DEF IInv, Tables
  <2> QED
    BY <2>8, <2>9, <2>10
<1> QED
  BY <1>1, LineageInvariant, PTL DEF UndoRestores, Spec

\* The supply scanToken computes from the running row is the exact product
\* over the unspent positions, pinned at MaxInt64: satMul's test by division
\* neither misses an overflow nor sees one that is not there.
THEOREM SupplyIsExact == Spec => []SupplyIsSaturatedSum
<1>1. IInv => SupplyIsSaturatedSum
  BY SupplyExact
<1> QED
  BY <1>1, LineageInvariant, PTL
=============================================================================
