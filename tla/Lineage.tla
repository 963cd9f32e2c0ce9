------------------------------- MODULE Lineage -------------------------------
(***************************************************************************)
(* The running summary of each token lineage: supply, holders, positions   *)
(* and mint (contrib/uap-indexer: addToLineage and removeFromLineage of    *)
(* store.go, as applyBlock and undoBlock of index.go call them).           *)
(*                                                                         *)
(* The summary is never recomputed: every block adds to it and subtracts   *)
(* from it, and every reorg must subtract and add the same amounts back.   *)
(***************************************************************************)
EXTENDS Integers, FiniteSets, Sequences, FiniteSetsExt

CONSTANTS
  Position,   \* outpoints of positions
  Origin,     \* lineages
  NoOrigin,   \* the empty origin of an orphan
  Key,        \* holders' public keys
  OriginOf,   \* [Position -> Origin \cup {NoOrigin}]
  KeyOf,      \* [Position -> Key]
  ValueOf,    \* [Position -> Int]
  IsMint,     \* the positions that are mints
  MultOf,     \* [Origin -> Int]: consensus gives a lineage one multiplier
  Block,      \* blocks: the outpoints spent and made, as applyBlock meets them
  MaxInt64,   \* the largest 64-bit integer
  MaxHeight   \* bound on the chain's height

ASSUME LineageAssumption ==
  /\ IsFiniteSet(Position) /\ NoOrigin \notin Origin
  /\ OriginOf \in [Position -> Origin \cup {NoOrigin}] /\ KeyOf \in [Position -> Key]
  /\ ValueOf \in [Position -> Int] /\ MultOf \in [Origin -> Int]
  /\ IsMint \subseteq Position
  /\ \A b \in Block : b \in Seq([makes : BOOLEAN, pos : Position])
  /\ MaxInt64 \in Nat /\ MaxHeight \in Nat

\* What a position adds to its lineage's value, and a set of them.
Worth == [k \in Position |-> IF ValueOf[k] > 0 THEN ValueOf[k] ELSE 0]
SumOf(S) == SumFunctionOnSet(Worth, S)

\* No lineage's positions in S are worth more than fits in 64 bits.
Bounded(S) == \A o \in Origin : SumOf({k \in S : OriginOf[k] = o}) <= MaxInt64

\* An origin is the hash of its mint's outpoint: it names one mint.
ASSUME OriginAssumption == \A j, k \in IsMint : OriginOf[j] = OriginOf[k] => j = k

VARIABLES
  chain,      \* the applied blocks
  positions,  \* the position table: height (0: no row) and spent
  rows,       \* the lineages table
  holders,    \* the lineage_holders table: positions per key (0: no row)
  logs        \* the undo log of each applied block

vars == <<chain, positions, rows, holders, logs>>

NoPos == [height |-> 0, spent |-> FALSE]
NoRow == [present |-> FALSE, multiplier |-> 0, unspentValue |-> 0, holderCount |-> 0,
          positionCount |-> 0, mintHeight |-> 0, hasMint |-> FALSE]
Row == [present : BOOLEAN, multiplier : Int, unspentValue : 0..MaxInt64, holderCount : Nat,
        positionCount : Nat, mintHeight : 0..MaxHeight, hasMint : BOOLEAN]

\* Each table holds rows of its type: no count and no total goes negative.
TypeOK ==
  /\ chain \in Seq(Block) /\ Len(logs) = Len(chain)
  /\ positions \in [Position -> [height : 0..MaxHeight, spent : BOOLEAN]]
  /\ rows \in [Origin -> Row]
  /\ holders \in [Origin -> [Key -> Nat]]

Init ==
  /\ chain = <<>> /\ logs = <<>>
  /\ positions = [k \in Position |-> NoPos]
  /\ rows = [o \in Origin |-> NoRow]
  /\ holders = [o \in Origin |-> [x \in Key |-> 0]]

-----------------------------------------------------------------------------
\* The unspent positions of a position table.
Live(ps, k) == ps[k].height > 0 /\ ~ps[k].spent
LiveSet(ps) == {k \in Position : Live(ps, k)}

satMul_NoOverflowTest(a, b) == IF a <= 0 \/ b <= 0 THEN 0 ELSE a * b

satMul(a, b) ==
  IF a <= 0 \/ b <= 0 THEN 0
  ELSE IF a > MaxInt64 \div b THEN MaxInt64 ELSE a * b

satAdd(a, b) == IF b > 0 /\ a > MaxInt64 - b THEN MaxInt64 ELSE a + b

\* A database state during a block's transaction: the tables and the log.
\* addToLineage: fold a now-unspent position into its lineage.
addToLineage(db, k) ==
  LET o   == OriginOf[k]
      x   == KeyOf[k]
      agg == db.rows[o]
      n   == db.holders[o][x]
  IN  IF o = NoOrigin THEN db
      ELSE [db EXCEPT
             !.holders[o][x] = n + 1,
             !.rows[o] = [present       |-> TRUE,
                          multiplier    |-> MultOf[o],
                          unspentValue  |-> IF ValueOf[k] > 0 THEN satAdd(agg.unspentValue, ValueOf[k])
                                            ELSE agg.unspentValue,
                          holderCount   |-> IF n = 0 THEN agg.holderCount + 1 ELSE agg.holderCount,
                          positionCount |-> agg.positionCount + 1,
                          mintHeight    |-> IF k \in IsMint THEN db.positions[k].height ELSE agg.mintHeight,
                          hasMint       |-> k \in IsMint \/ agg.hasMint]]

\* agg after the withdrawal of k, by a holder who had n positions.
Withdrawn(agg, k, n) ==
  [present       |-> agg.present,
   multiplier    |-> agg.multiplier,
   unspentValue  |-> IF ValueOf[k] > 0 THEN Max({0, agg.unspentValue - ValueOf[k]})
                     ELSE agg.unspentValue,
   holderCount   |-> IF n = 1 THEN agg.holderCount - 1 ELSE agg.holderCount,
   positionCount |-> agg.positionCount - 1,
   mintHeight    |-> IF k \in IsMint THEN 0 ELSE agg.mintHeight,
   hasMint       |-> agg.hasMint /\ k \notin IsMint]

\* removeFromLineage: withdraw a position spent or rolled back; a lineage
\* left without positions goes, with any holder row.
removeFromLineage(db, k) ==
  LET o   == OriginOf[k]
      x   == KeyOf[k]
      n   == db.holders[o][x]
      agg == Withdrawn(db.rows[o], k, n)
  IN  IF o = NoOrigin \/ ~db.rows[o].present THEN db
      ELSE IF agg.positionCount <= 0
           THEN [db EXCEPT !.rows[o] = NoRow, !.holders[o] = [y \in Key |-> 0]]
           ELSE [db EXCEPT !.rows[o] = agg, !.holders[o][x] = IF n <= 1 THEN 0 ELSE n - 1]

-----------------------------------------------------------------------------
Database(log) == [positions |-> positions, rows |-> rows, holders |-> holders, log |-> log]

EmptyLog == [created |-> <<>>, spent |-> <<>>]

Install(db) == positions' = db.positions /\ rows' = db.rows /\ holders' = db.holders

\* applyBlock, one input.
SpendInput_MarksOnly(db, k) ==
  IF Live(db.positions, k)
  THEN [db EXCEPT !.positions[k].spent = TRUE, !.log.spent = Append(@, k)]
  ELSE db

SpendInput(db, k) ==
  IF Live(db.positions, k)
  THEN LET marked == [db EXCEPT !.positions[k].spent = TRUE, !.log.spent = Append(@, k)]
       IN  removeFromLineage(marked, k)
  ELSE db

\* applyBlock, one output.
MakeOutput(db, k, height) ==
  LET made == [db EXCEPT !.positions[k] = [height |-> height, spent |-> FALSE],
                         !.log.created = Append(@, k)]
  IN  addToLineage(made, k)

Touch(db, t, height) ==
  IF t.makes THEN MakeOutput(db, t.pos, height) ELSE SpendInput(db, t.pos)

Touched(start, b, height) ==
  LET db[n \in 0..Len(b)] == IF n = 0 THEN start ELSE Touch(db[n - 1], b[n], height)
  IN  db[Len(b)]

\* What the first i inputs and outputs of a block make, or spend.
Outpoints(b, i, makes) == {b[j].pos : j \in {j \in 1..i : b[j].makes = makes}}

\* Consensus: a block spends what exists unspent and makes what is new, and
\* leaves a lineage worth no more than its mint (BackingBounded of Uap),
\* which is at most MAX_MONEY: less than MaxInt64.
Valid(b) ==
  LET live == LiveSet(positions)
      made(i) == Outpoints(b, i, TRUE)
      spent(i) == Outpoints(b, i, FALSE)
  IN  \A i \in 1..Len(b) :
        /\ b[i].makes => positions[b[i].pos].height = 0 /\ b[i].pos \notin made(i - 1)
        /\ ~b[i].makes => b[i].pos \in (live \cup made(i - 1)) \ spent(i - 1)
        /\ Bounded((live \cup made(i)) \ spent(i))

ApplyBlock(b) ==
  /\ Len(chain) < MaxHeight /\ Valid(b)
  /\ LET db == Touched(Database(EmptyLog), b, Len(chain) + 1)
     IN  Install(db) /\ logs' = Append(logs, db.log)
  /\ chain' = Append(chain, b)

\* All of s but its last element.
Front(s) == SubSeq(s, 1, Len(s) - 1)

\* undoBlock, one created position: what this block also spent has already
\* left its lineage.
UndoCreated_MarksSpent(db, k) ==
  LET gone == IF Live(db.positions, k)
              THEN removeFromLineage(db, k) ELSE db
  IN  [gone EXCEPT !.positions[k].spent = TRUE]

UndoCreated(db, k) ==
  LET gone == IF Live(db.positions, k)
              THEN removeFromLineage(db, k) ELSE db
  IN  [gone EXCEPT !.positions[k] = NoPos]

\* undoBlock, one spent position.
UndoSpent(db, k) ==
  IF db.positions[k].height = 0 THEN db
  ELSE addToLineage([db EXCEPT !.positions[k].spent = FALSE], k)

UndoneCreated(start, ks) ==
  LET db[n \in 0..Len(ks)] == IF n = 0 THEN start ELSE UndoCreated(db[n - 1], ks[n])
  IN  db[Len(ks)]

UndoneSpent(start, ks) ==
  LET db[n \in 0..Len(ks)] == IF n = 0 THEN start ELSE UndoSpent(db[n - 1], ks[n])
  IN  db[Len(ks)]

\* undoBlock with a block's log.
Undone(start, log) == UndoneSpent(UndoneCreated(start, log.created), log.spent)

UndoBlock_KeepsLog ==
  /\ chain # <<>>
  /\ LET log == logs[Len(logs)] IN Install(Undone(Database(log), log))
  /\ chain' = Front(chain) /\ UNCHANGED logs

UndoBlock ==
  /\ chain # <<>>
  /\ LET log == logs[Len(logs)] IN Install(Undone(Database(log), log))
  /\ chain' = Front(chain) /\ logs' = Front(logs)

Next == UndoBlock \/ \E b \in Block : ApplyBlock(b)

Spec == Init /\ [][Next]_vars

-----------------------------------------------------------------------------
Unspent(ps, o) == {k \in LiveSet(ps) : OriginOf[k] = o}
Holders(S) == {KeyOf[k] : k \in S}
HeldBy(S, x) == {k \in S : KeyOf[k] = x}

\* What the summary of lineage o is defined to be.
Summary(ps, o) ==
  LET S == Unspent(ps, o)
      M == S \cap IsMint
  IN  IF S = {} THEN NoRow
      ELSE [present       |-> TRUE,
            multiplier    |-> MultOf[o],
            unspentValue  |-> SumOf(S),
            holderCount   |-> Cardinality(Holders(S)),
            positionCount |-> Cardinality(S),
            mintHeight    |-> IF M = {} THEN 0 ELSE ps[CHOOSE k \in M : TRUE].height,
            hasMint       |-> M # {}]

\* After any sequence of blocks and reorgs the running summary and the
\* holder rows are those of the unspent positions: nothing is counted twice,
\* forgotten, or left behind.
LineageMatchesPositions ==
  \A o \in Origin :
    /\ rows[o] = Summary(positions, o)
    /\ \A x \in Key : holders[o][x] = Cardinality(HeldBy(Unspent(positions, o), x))

\* A block leaves a log with which undoBlock brings back every table as it
\* was: the positions, a coin made and spent within the block included, the
\* summaries and the holder rows.  Undoing several blocks therefore ends where
\* the index was before them.
UndoRestores ==
  [][Len(chain') > Len(chain) =>
       LET log == logs[Len(logs)]
           db  == Undone(Database(log)', log')
       IN  db.positions = positions /\ db.rows = rows /\ db.holders = holders]_vars

\* scanToken's Supply.
Supply(o) == satMul(rows[o].unspentValue, rows[o].multiplier)

\* The supply GET /tokens serves is the sum of value times multiplier over
\* the unspent positions, pinned at MaxInt64; a multiplier of zero or less
\* gives zero.
SupplyIsSaturatedSum ==
  \A o \in Origin :
    LET worth == [k \in Position |-> Worth[k] * MultOf[o]]
        exact == SumFunctionOnSet(worth, Unspent(positions, o))
    IN  Supply(o) = Max({0, Min({exact, MaxInt64})})
=============================================================================
