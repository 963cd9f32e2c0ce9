---------------------------- MODULE IndexProofs ----------------------------
(***************************************************************************)
(* Proofs about Index, Market and Sync.                                    *)
(***************************************************************************)
EXTENDS Sync, TLAPS

\* The provers a leaf that names none is given to, in turn.  tlapm gives up
\* preparing an obligation for a prover after a few seconds, which a large
\* context can take; the later entries are there for such a leaf.
USE SMTT(30), Zenon, Z3T(30), SMTT(40)

-----------------------------------------------------------------------------
(***************************************************************************)
(* Proofs about Index, for every block tree consensus allows, every reorg  *)
(* window and every set of orders.                                         *)
(*                                                                         *)
(* IndexMatchesChain is not inductive: undoing a block is right only if    *)
(* its undo log says what that block did to the chain below it.  IndexInv  *)
(* adds that, for every height that still has a log.                       *)
(***************************************************************************)
\* What the undo log of block a has to say, computed from a's chain alone.
SpentBy(a) == {k \in UAP \cap InsOf(a) : CreatedIn(Anc[a], k)}
UTXOsSpentBy(a) ==
  [k \in Outpoint |->
     IF k \in P2PKH \cap InsOf(a) /\ CreatedIn(Anc[a], k)
       THEN HeightOf[Creator(Anc[a], k)] ELSE -1]
LogIsOf(c, a) ==
  /\ c.created = UAP \cap OutsOf(a)
  /\ c.spentKeys = SpentBy(a)
  /\ c.utxosCreated = P2PKH \cap OutsOf(a)
  /\ c.utxosSpent = UTXOsSpentBy(a)

\* The index holds the chain that ends in b, with a true log for each
\* height that has one.
Holds(b) ==
  /\ HeightOf[b] = tip
  /\ positions = PositionsOf(Anc[b])
  /\ utxos = UTXOsOf(Anc[b])
  /\ \A h \in Height : heights[h] # NoEntry =>
       /\ heights[h].hash \in Anc[b]
       /\ HeightOf[heights[h].hash] = h
       /\ LogIsOf(heights[h].undo, heights[h].hash)

HoldsNothing ==
  /\ positions = PositionsOf({})
  /\ utxos = UTXOsOf({})
  /\ heights = [h \in Height |-> NoEntry]

IndexInv ==
  /\ TypeOK
  /\ UndoWindowIsTheTop
  /\ prunedBelow <= tip + 1
  /\ tipHash = HashAtHeight(tip)
  /\ IF tip < StartHeight THEN HoldsNothing ELSE \E b \in Block : Holds(b)

-----------------------------------------------------------------------------
\* The chain below a block: all its ancestors but itself, which is the chain
\* of its parent.
LEMMA Below ==
  ASSUME NEW b \in Block
  PROVE  /\ b \in Anc[b]
         /\ Prev[b] = NoBlock => Anc[b] \ {b} = {} /\ HeightOf[b] = StartHeight
         /\ Prev[b] # NoBlock => /\ Prev[b] \in Block
                                 /\ Anc[b] \ {b} = Anc[Prev[b]]
                                 /\ HeightOf[b] = HeightOf[Prev[b]] + 1
  BY TypeAssumption, TreeAssumption

\* In one chain, the block that creates an outpoint is the only one.
LEMMA CreatorIs ==
  ASSUME NEW b \in Block, NEW C \in SUBSET Anc[b], NEW a \in C, NEW k \in OutsOf(a)
  PROVE  CreatedIn(C, k) /\ Creator(C, k) = a
<1>1. CreatedIn(C, k)  BY DEF CreatedIn
<1>2. \A c \in C : k \in OutsOf(c) => c = a
  BY ConsensusAssumption, TreeAssumption
<1>3. Creator(C, k) \in C /\ k \in OutsOf(Creator(C, k))
  BY <1>1 DEF Creator, CreatedIn
<1> QED BY <1>1, <1>2, <1>3

\* In one chain, the block that spends an outpoint is the only one.
LEMMA EnderIs ==
  ASSUME NEW b \in Block, NEW C \in SUBSET Anc[b], NEW a \in C, NEW k \in InsOf(a)
  PROVE  SpentIn(C, k) /\ Ender(C, k) = a
<1>1. SpentIn(C, k)  BY DEF SpentIn
<1>2. \A c \in C : k \in InsOf(c) => c = a
  BY ConsensusAssumption, TreeAssumption
<1>3. Ender(C, k) \in C /\ k \in InsOf(Ender(C, k))
  BY <1>1 DEF Ender, SpentIn
<1> QED BY <1>1, <1>2, <1>3

\* The transaction that spends an outpoint is a transaction of the block.
LEMMA SpenderIsTx ==
  ASSUME NEW b \in Block, NEW k \in InsOf(b)
  PROVE  Spender(b, k) \in Tx /\ Spender(b, k) # NoTx
<1>1. \E t \in TxsOf[b] : k \in Ins[t]  BY DEF InsOf
<1>2. Spender(b, k) \in TxsOf[b]  BY <1>1 DEF Spender
<1> QED BY <1>2, TypeAssumption

\* What a block creates was neither created nor spent below it; what it
\* spends was not spent below it.
LEMMA NothingBelow ==
  ASSUME NEW b \in Block
  PROVE  /\ \A k \in OutsOf(b) : ~CreatedIn(Anc[b] \ {b}, k) /\ ~SpentIn(Anc[b] \ {b}, k)
         /\ \A k \in InsOf(b) : ~SpentIn(Anc[b] \ {b}, k)
<1>1. b \in Anc[b]  BY Below
<1>2. \A a \in Anc[b] \ {b} : OutsOf(a) \cap OutsOf(b) = {} /\ InsOf(a) \cap InsOf(b) = {}
  BY <1>1, ConsensusAssumption, TreeAssumption
<1>3. \A a \in Anc[b] \ {b} : InsOf(a) \cap OutsOf(b) = {}
  <2> SUFFICES ASSUME NEW a \in Anc[b] \ {b}, InsOf(a) \cap OutsOf(b) # {} PROVE FALSE
    OBVIOUS
  <2>1. a \in Block /\ a # b  BY TreeAssumption
  <2>2. b \in Anc[a]  BY <1>1, <2>1, ConsensusAssumption
  <2>3. HeightOf[a] < HeightOf[b] /\ HeightOf[b] < HeightOf[a]
    BY <2>1, <2>2, TreeAssumption
  <2>4. HeightOf[a] \in Int /\ HeightOf[b] \in Int  BY <2>1, TypeAssumption
  <2> QED BY <2>3, <2>4
<1> QED BY <1>2, <1>3 DEF CreatedIn, SpentIn

\* Adding the block on top leaves the creators below it what they were.
LEMMA CreatedBelow ==
  ASSUME NEW b \in Block, NEW k \in Outpoint, k \notin OutsOf(b)
  PROVE  /\ CreatedIn(Anc[b], k) <=> CreatedIn(Anc[b] \ {b}, k)
         /\ CreatedIn(Anc[b], k) => Creator(Anc[b], k) = Creator(Anc[b] \ {b}, k)
<1>1. CreatedIn(Anc[b], k) <=> CreatedIn(Anc[b] \ {b}, k)  BY DEF CreatedIn
<1>2. ASSUME CreatedIn(Anc[b], k)
      PROVE  Creator(Anc[b], k) = Creator(Anc[b] \ {b}, k)
  <2> DEFINE C == Anc[b] \ {b}
  <2>1. PICK a \in C : k \in OutsOf(a)  BY <1>1, <1>2 DEF CreatedIn
  <2>2. C \in SUBSET Anc[b] /\ Anc[b] \in SUBSET Anc[b] /\ a \in Anc[b]  BY <2>1
  <2> HIDE DEF C
  <2>3. Creator(C, k) = a  BY <2>1, <2>2, CreatorIs
  <2>4. Creator(Anc[b], k) = a  BY <2>1, <2>2, CreatorIs
  <2> QED BY <2>3, <2>4 DEF C
<1> QED BY <1>1, <1>2

\* Adding the block on top leaves the enders below it what they were.
LEMMA SpentBelow ==
  ASSUME NEW b \in Block, NEW k \in Outpoint, k \notin InsOf(b)
  PROVE  /\ SpentIn(Anc[b], k) <=> SpentIn(Anc[b] \ {b}, k)
         /\ SpentIn(Anc[b], k) => Ender(Anc[b], k) = Ender(Anc[b] \ {b}, k)
<1>1. SpentIn(Anc[b], k) <=> SpentIn(Anc[b] \ {b}, k)  BY DEF SpentIn
<1>2. ASSUME SpentIn(Anc[b], k)
      PROVE  Ender(Anc[b], k) = Ender(Anc[b] \ {b}, k)
  <2> DEFINE C == Anc[b] \ {b}
  <2>1. PICK a \in C : k \in InsOf(a)  BY <1>1, <1>2 DEF SpentIn
  <2>2. C \in SUBSET Anc[b] /\ Anc[b] \in SUBSET Anc[b] /\ a \in Anc[b]  BY <2>1
  <2> HIDE DEF C
  <2>3. Ender(C, k) = a  BY <2>1, <2>2, EnderIs
  <2>4. Ender(Anc[b], k) = a  BY <2>1, <2>2, EnderIs
  <2> QED BY <2>3, <2>4 DEF C
<1> QED BY <1>1, <1>2

\* Creators and enders of a chain are blocks, so their heights are heights.
LEMMA HeightsOfRows ==
  ASSUME NEW b \in Block, NEW C \in SUBSET Anc[b], NEW k \in Outpoint
  PROVE  /\ CreatedIn(C, k) => /\ Creator(C, k) \in Block
                               /\ HeightOf[Creator(C, k)] \in 0..MaxHeight
                               /\ HeightOf[Creator(C, k)] # -1
         /\ SpentIn(C, k) => /\ Ender(C, k) \in Block
                             /\ k \in InsOf(Ender(C, k))
                             /\ HeightOf[Ender(C, k)] \in 0..MaxHeight
                             /\ Spender(Ender(C, k), k) \in Tx
                             /\ Spender(Ender(C, k), k) # NoTx
<1>1. Anc[b] \subseteq Block  BY TreeAssumption
<1>2. \A a \in Block : HeightOf[a] \in 0..MaxHeight /\ HeightOf[a] # -1
  BY TypeAssumption
<1>3. CreatedIn(C, k) => Creator(C, k) \in C  BY DEF CreatedIn, Creator
<1>4. SpentIn(C, k) => Ender(C, k) \in C /\ k \in InsOf(Ender(C, k))
  BY DEF SpentIn, Ender
<1> QED BY <1>1, <1>2, <1>3, <1>4, SpenderIsTx

\* An index of no block is empty.
LEMMA EmptyReference ==
  /\ PositionsOf({}) = [k \in Outpoint |-> Absent]
  /\ UTXOsOf({}) = [k \in Outpoint |-> -1]
BY DEF PositionsOf, UTXOsOf, CreatedIn

\* The value that stands for a missing row is a row.
LEMMA AbsentIsRow == Absent \in Row
BY TypeAssumption DEF Absent, Row, Height

\* The reference definitions are well typed.
LEMMA ReferenceTypes ==
  ASSUME NEW b \in Block, NEW C \in SUBSET Anc[b]
  PROVE  /\ PositionsOf(C) \in [Outpoint -> Row]
         /\ UTXOsOf(C) \in [Outpoint -> -1..MaxHeight]
         /\ UTXOsSpentBy(b) \in [Outpoint -> -1..MaxHeight]
<1>0. MaxHeight \in Nat  BY TypeAssumption
<1>1. ASSUME NEW k \in Outpoint PROVE PositionsOf(C)[k] \in Row
  <2>1. 0 \in Height /\ NoTx \in Tx \cup {NoTx}  BY <1>0 DEF Height
  <2>2. CASE k \in UAP /\ CreatedIn(C, k)
    <3>1. HeightOf[Creator(C, k)] \in -1..MaxHeight  BY <2>2, <1>0, HeightsOfRows
    <3>2. SpentIn(C, k) => /\ Spender(Ender(C, k), k) \in Tx
                           /\ HeightOf[Ender(C, k)] \in Height
      BY HeightsOfRows DEF Height
    <3> QED BY <2>1, <2>2, <3>1, <3>2 DEF PositionsOf, Row
  <2>3. CASE ~(k \in UAP /\ CreatedIn(C, k))
    BY <2>3, AbsentIsRow DEF PositionsOf
  <2> QED BY <2>2, <2>3
<1>2. ASSUME NEW k \in Outpoint PROVE UTXOsOf(C)[k] \in -1..MaxHeight
  BY <1>0, HeightsOfRows DEF UTXOsOf
<1>3. ASSUME NEW k \in Outpoint PROVE UTXOsSpentBy(b)[k] \in -1..MaxHeight
  BY <1>0, HeightsOfRows DEF UTXOsSpentBy
<1>4. PositionsOf(C) \in [Outpoint -> Row]  BY <1>1 DEF PositionsOf
<1>5. UTXOsOf(C) \in [Outpoint -> -1..MaxHeight]  BY <1>2 DEF UTXOsOf
<1>6. UTXOsSpentBy(b) \in [Outpoint -> -1..MaxHeight]  BY <1>3 DEF UTXOsSpentBy
<1> QED BY <1>4, <1>5, <1>6

-----------------------------------------------------------------------------
\* Applying b to an index of the chain below it gives an index of b's chain,
\* and the undo log written is b's.
LEMMA ApplyIsRight ==
  ASSUME NEW b \in Block,
         positions = PositionsOf(Anc[b] \ {b}),
         utxos = UTXOsOf(Anc[b] \ {b})
  PROVE  /\ PositionsApplied(b) = PositionsOf(Anc[b])
         /\ UTXOsApplied(b) = UTXOsOf(Anc[b])
         /\ LogIsOf(UndoLog(b), b)
<1> DEFINE C == Anc[b] \ {b}
<1>0. b \in Anc[b] /\ C \in SUBSET Anc[b] /\ HeightOf[b] # -1 /\ HeightOf[b] \in 0..MaxHeight
  BY Below, TypeAssumption
<1> HIDE DEF C
<1>1. ASSUME NEW k \in Outpoint
      PROVE  /\ k \in OutsOf(b) => /\ ~CreatedIn(C, k) /\ ~SpentIn(C, k)
                                   /\ CreatedIn(Anc[b], k) /\ Creator(Anc[b], k) = b
             /\ k \in InsOf(b) => /\ ~SpentIn(C, k)
                                  /\ SpentIn(Anc[b], k) /\ Ender(Anc[b], k) = b
                                  /\ Spender(b, k) # NoTx
             /\ k \notin OutsOf(b) =>
                  /\ CreatedIn(Anc[b], k) <=> CreatedIn(C, k)
                  /\ CreatedIn(Anc[b], k) => /\ Creator(Anc[b], k) = Creator(C, k)
                                             /\ HeightOf[Creator(C, k)] # -1
             /\ k \notin InsOf(b) =>
                  /\ SpentIn(Anc[b], k) <=> SpentIn(C, k)
                  /\ SpentIn(Anc[b], k) => Ender(Anc[b], k) = Ender(C, k)
  <2>1. k \in OutsOf(b) => ~CreatedIn(C, k) /\ ~SpentIn(C, k)
    BY NothingBelow DEF C
  <2>2. k \in OutsOf(b) => CreatedIn(Anc[b], k) /\ Creator(Anc[b], k) = b
    BY <1>0, CreatorIs
  <2>3. k \in InsOf(b) => ~SpentIn(C, k)
    BY NothingBelow DEF C
  <2>4. k \in InsOf(b) => SpentIn(Anc[b], k) /\ Ender(Anc[b], k) = b
    BY <1>0, EnderIs
  <2>5. k \in InsOf(b) => Spender(b, k) # NoTx
    BY SpenderIsTx
  <2>6. k \notin OutsOf(b) =>
                  /\ CreatedIn(Anc[b], k) <=> CreatedIn(C, k)
                  /\ CreatedIn(Anc[b], k) => Creator(Anc[b], k) = Creator(C, k)
    BY CreatedBelow DEF C
  <2>7. k \notin InsOf(b) =>
                  /\ SpentIn(Anc[b], k) <=> SpentIn(C, k)
                  /\ SpentIn(Anc[b], k) => Ender(Anc[b], k) = Ender(C, k)
    BY SpentBelow DEF C
  <2>8. CreatedIn(C, k) => HeightOf[Creator(C, k)] # -1
    BY <1>0, HeightsOfRows
  <2> QED BY <2>1, <2>2, <2>3, <2>4, <2>5, <2>6, <2>7, <2>8
<1>2. /\ positions = PositionsOf(C) /\ utxos = UTXOsOf(C)  BY DEF C
<1>3. InsOf(b) \subseteq Outpoint /\ OutsOf(b) \subseteq Outpoint
  BY TypeAssumption DEF InsOf, OutsOf
<1>4. ASSUME NEW k \in Outpoint
      PROVE  PositionsCreated(b)[k] =
               IF k \in UAP /\ CreatedIn(Anc[b], k)
                 THEN [height |-> HeightOf[Creator(Anc[b], k)],
                       spentTx |-> IF SpentIn(C, k) THEN Spender(Ender(C, k), k) ELSE NoTx,
                       spentHeight |-> IF SpentIn(C, k) THEN HeightOf[Ender(C, k)] ELSE 0]
                 ELSE Absent
  BY <1>1, <1>2 DEF PositionsCreated, PositionsOf, Known, Absent
<1>5. SpentKeys(b) = SpentBy(b)
  <2> SUFFICES ASSUME NEW k \in Outpoint, k \in InsOf(b)
               PROVE  Unspent(PositionsCreated(b)[k]) <=> k \in UAP /\ CreatedIn(Anc[b], k)
    BY <1>3 DEF SpentKeys, SpentBy
  <2>1. ~SpentIn(C, k)  BY <1>1
  <2>2. CreatedIn(Anc[b], k) => HeightOf[Creator(Anc[b], k)] # -1  BY <1>0, <1>1
  <2>3. CASE k \in UAP /\ CreatedIn(Anc[b], k)
    <3>1. PositionsCreated(b)[k] = [height |-> HeightOf[Creator(Anc[b], k)],
                                    spentTx |-> NoTx, spentHeight |-> 0]
      BY <1>4, <2>1, <2>3
    <3> QED BY <2>2, <2>3, <3>1 DEF Unspent
  <2>4. CASE ~(k \in UAP /\ CreatedIn(Anc[b], k))
    <3>1. PositionsCreated(b)[k] = Absent  BY <1>4, <2>4, Zenon
    <3> QED BY <2>4, <3>1 DEF Unspent, Absent
  <2> QED BY <2>3, <2>4
<1>6. ASSUME NEW k \in Outpoint
      PROVE  PositionsApplied(b)[k] = PositionsOf(Anc[b])[k]
  <2>1. CASE k \in SpentKeys(b)
    <3>1. k \in InsOf(b) /\ k \in UAP /\ CreatedIn(Anc[b], k)
      BY <2>1, <1>5 DEF SpentBy
    <3>2. PositionsCreated(b)[k] = [height |-> HeightOf[Creator(Anc[b], k)],
                                    spentTx |-> NoTx, spentHeight |-> 0]
      BY <3>1, <1>1, <1>4
    <3>3. PositionsApplied(b)[k] = [height |-> HeightOf[Creator(Anc[b], k)],
                                    spentTx |-> Spender(b, k), spentHeight |-> HeightOf[b]]
      BY <2>1, <3>2 DEF PositionsApplied, Marked
    <3> QED BY <3>1, <3>3, <1>1 DEF PositionsOf
  <2>2. CASE k \notin SpentKeys(b)
    <3>1. k \in UAP /\ CreatedIn(Anc[b], k) => k \notin InsOf(b)
      BY <2>2, <1>5 DEF SpentBy
    <3> QED BY <2>2, <3>1, <1>1, <1>4, Zenon DEF PositionsApplied, PositionsOf
  <2> QED BY <2>1, <2>2
<1>7. PositionsApplied(b) = PositionsOf(Anc[b])
  BY <1>6 DEF PositionsApplied, PositionsOf
<1>8. ASSUME NEW k \in Outpoint
      PROVE  /\ UTXOsApplied(b)[k] = UTXOsOf(Anc[b])[k]
             /\ UndoLog(b).utxosSpent[k] = UTXOsSpentBy(b)[k]
  <2>1. UTXOsCreated(b)[k] = IF k \in P2PKH /\ CreatedIn(Anc[b], k) /\ ~SpentIn(C, k)
                               THEN HeightOf[Creator(Anc[b], k)] ELSE -1
    BY <1>1, <1>2 DEF UTXOsCreated, UTXOsOf
  <2>2. UTXOsApplied(b)[k] = UTXOsOf(Anc[b])[k]
    BY <2>1, <1>1 DEF UTXOsApplied, UTXOsOf
  <2>3. UndoLog(b).utxosSpent[k] = UTXOsSpentBy(b)[k]
    BY <2>1, <1>1 DEF UndoLog, UTXOsSpentBy
  <2> QED BY <2>2, <2>3
<1>9. UTXOsApplied(b) = UTXOsOf(Anc[b])
  BY <1>8 DEF UTXOsApplied, UTXOsOf
<1>10. UndoLog(b).utxosSpent = UTXOsSpentBy(b)
  BY <1>8 DEF UndoLog, UTXOsSpentBy
<1>11. LogIsOf(UndoLog(b), b)
  BY <1>5, <1>10, Zenon DEF LogIsOf, UndoLog
<1> QED BY <1>7, <1>9, <1>11

\* Undoing b from an index of its chain, by b's own log, gives an index of
\* the chain below b.
LEMMA UndoIsRight ==
  ASSUME NEW b \in Block, NEW c, LogIsOf(c, b),
         positions = PositionsOf(Anc[b]),
         utxos = UTXOsOf(Anc[b])
  PROVE  /\ PositionsUndone(c) = PositionsOf(Anc[b] \ {b})
         /\ UTXOsUndone(c) = UTXOsOf(Anc[b] \ {b})
<1> DEFINE C == Anc[b] \ {b}
<1>0. b \in Anc[b] /\ C \in SUBSET Anc[b]  BY Below
<1> HIDE DEF C
<1>1. ASSUME NEW k \in Outpoint
      PROVE  /\ k \in OutsOf(b) => ~CreatedIn(C, k)
             /\ k \in InsOf(b) => ~SpentIn(C, k) /\ SpentIn(Anc[b], k)
             /\ k \notin OutsOf(b) =>
                  /\ CreatedIn(Anc[b], k) <=> CreatedIn(C, k)
                  /\ CreatedIn(Anc[b], k) => Creator(Anc[b], k) = Creator(C, k)
             /\ k \notin InsOf(b) =>
                  /\ SpentIn(Anc[b], k) <=> SpentIn(C, k)
                  /\ SpentIn(Anc[b], k) => Ender(Anc[b], k) = Ender(C, k)
             /\ CreatedIn(Anc[b], k) => HeightOf[Creator(Anc[b], k)] # -1
  <2>1. k \in OutsOf(b) => ~CreatedIn(C, k)  BY NothingBelow DEF C
  <2>2. k \in InsOf(b) => ~SpentIn(C, k)  BY NothingBelow DEF C
  <2>3. k \in InsOf(b) => SpentIn(Anc[b], k)  BY <1>0 DEF SpentIn
  <2>4. k \notin OutsOf(b) =>
                  /\ CreatedIn(Anc[b], k) <=> CreatedIn(C, k)
                  /\ CreatedIn(Anc[b], k) => Creator(Anc[b], k) = Creator(C, k)
    BY CreatedBelow DEF C
  <2>5. k \notin InsOf(b) =>
                  /\ SpentIn(Anc[b], k) <=> SpentIn(C, k)
                  /\ SpentIn(Anc[b], k) => Ender(Anc[b], k) = Ender(C, k)
    BY SpentBelow DEF C
  <2>6. CreatedIn(Anc[b], k) => HeightOf[Creator(Anc[b], k)] # -1  BY HeightsOfRows
  <2> QED BY <2>1, <2>2, <2>3, <2>4, <2>5, <2>6
<1>2. ASSUME NEW k \in Outpoint
      PROVE  PositionsUndone(c)[k] = PositionsOf(C)[k]
  <2>1. CASE k \in UAP \cap OutsOf(b)
    BY <2>1, <1>1, Zenon DEF PositionsUndone, PositionsOf, LogIsOf
  <2>2. CASE k \notin UAP \cap OutsOf(b) /\ k \in SpentBy(b)
    <3>1. k \in UAP /\ k \notin OutsOf(b) /\ k \in InsOf(b) /\ CreatedIn(Anc[b], k)
      BY <2>2 DEF SpentBy
    <3>2. positions[k] = [height |-> HeightOf[Creator(Anc[b], k)],
                          spentTx |-> Spender(Ender(Anc[b], k), k),
                          spentHeight |-> HeightOf[Ender(Anc[b], k)]]
      BY <3>1, <1>1 DEF PositionsOf
    <3>3. Known(positions[k])  BY <3>1, <3>2, <1>1 DEF Known
    <3>4. PositionsUndone(c)[k] = Marked(positions[k], NoTx, 0)
      BY <2>2, <3>3 DEF PositionsUndone, LogIsOf
    <3>5. PositionsUndone(c)[k] = [height |-> HeightOf[Creator(Anc[b], k)],
                                   spentTx |-> NoTx, spentHeight |-> 0]
      BY <3>2, <3>4 DEF Marked
    <3> QED BY <3>1, <3>5, <1>1, Zenon DEF PositionsOf
  <2>3. CASE k \notin UAP \cap OutsOf(b) /\ k \notin SpentBy(b)
    BY <2>3, <1>1, Zenon DEF PositionsUndone, PositionsOf, LogIsOf, SpentBy
  <2> QED BY <2>1, <2>2, <2>3
<1>3. ASSUME NEW k \in Outpoint
      PROVE  UTXOsUndone(c)[k] = UTXOsOf(C)[k]
  <2>1. CASE k \in P2PKH \cap OutsOf(b)
    BY <2>1, <1>1 DEF UTXOsUndone, UTXOsOf, LogIsOf
  <2>2. CASE k \notin P2PKH \cap OutsOf(b)
    BY <2>2, <1>1 DEF UTXOsUndone, UTXOsOf, LogIsOf, UTXOsSpentBy
  <2> QED BY <2>1, <2>2
<1>4. PositionsUndone(c) = PositionsOf(C)
  BY <1>2, Zenon DEF PositionsUndone, PositionsOf
<1>5. UTXOsUndone(c) = UTXOsOf(C)
  BY <1>3 DEF UTXOsUndone, UTXOsOf
<1> QED BY <1>4, <1>5 DEF C

-----------------------------------------------------------------------------
\* The block the index holds is the one its undo log names at the tip.
LEMMA TipBlock ==
  ASSUME TypeOK, NEW b \in Block, Holds(b), CanUndo(tip)
  PROVE  heights[tip].hash = b /\ HashAtHeight(tip) = b /\ tip \in Height
<1>1. tip \in Height /\ heights[tip] # NoEntry  BY DEF CanUndo
<1>2. heights[tip].hash \in Anc[b] /\ HeightOf[heights[tip].hash] = tip
  BY <1>1 DEF Holds
<1>3. HeightOf[b] = tip /\ HeightOf[b] \in Int  BY TypeAssumption DEF Holds
<1>4. heights[tip].hash = b  BY <1>2, <1>3, TreeAssumption
<1> QED BY <1>1, <1>4 DEF HashAtHeight

\* A step that leaves the chain's tables alone keeps IndexInv.
LEMMA ChainUnchanged ==
  ASSUME IndexInv, UNCHANGED chainVars,
         orders' \in Book, tombs' \in Book, storeErr' \in BOOLEAN
  PROVE  IndexInv'
BY DEF IndexInv, chainVars, TypeOK, UndoWindowIsTheTop, CanUndo, IsPruned,
       HashAtHeight,
       HoldsNothing, Holds

\* The state an empty database is in, but for its tombstones.
Empty ==
  /\ tip = -1 /\ tipHash = NoBlock /\ prunedBelow = 0
  /\ heights = [h \in Height |-> NoEntry]
  /\ positions = [k \in Outpoint |-> Absent]
  /\ utxos = [k \in Outpoint |-> -1]
  /\ orders \in Book /\ tombs \in Book /\ storeErr \in BOOLEAN

\* An index with empty tables satisfies the invariant.
LEMMA EmptyIndex == Empty => IndexInv
<1> SUFFICES ASSUME Empty PROVE IndexInv  OBVIOUS
<1> USE DEF Empty
<1>1. TypeOK  BY TypeAssumption, AbsentIsRow DEF TypeOK
<1>2. UndoWindowIsTheTop
  BY TypeAssumption DEF UndoWindowIsTheTop, CanUndo, Height
<1>3. tipHash = HashAtHeight(tip)  BY TypeAssumption DEF HashAtHeight, Height
<1>4. tip < StartHeight  BY TypeAssumption
<1>5. HoldsNothing  BY EmptyReference DEF HoldsNothing
<1> QED BY <1>1, <1>2, <1>3, <1>4, <1>5 DEF IndexInv

\* The state Extends accepts b in: the index holds the chain below b.
LEMMA ReadyFor ==
  ASSUME IndexInv, NEW b \in Block, Extends(b)
  PROVE  /\ positions = PositionsOf(Anc[b] \ {b})
         /\ utxos = UTXOsOf(Anc[b] \ {b})
         /\ \A h \in Height : heights[h] # NoEntry =>
              /\ heights[h].hash \in Anc[b]
              /\ HeightOf[heights[h].hash] = h
              /\ LogIsOf(heights[h].undo, heights[h].hash)
         /\ tip < HeightOf[b] /\ (tip < StartHeight => HeightOf[b] = StartHeight)
         /\ tip >= StartHeight => HeightOf[b] = tip + 1
<1>0. tip \in -1..MaxHeight /\ StartHeight \in Nat /\ MaxHeight \in Nat
  BY TypeAssumption DEF IndexInv, TypeOK
<1>1. CASE tip < StartHeight
  <2>1. Prev[b] = NoBlock  BY <1>1 DEF Extends
  <2>2. Anc[b] \ {b} = {} /\ HeightOf[b] = StartHeight  BY <2>1, Below
  <2>3. HoldsNothing  BY <1>1 DEF IndexInv
  <2>4. /\ positions = PositionsOf(Anc[b] \ {b})
        /\ utxos = UTXOsOf(Anc[b] \ {b})
        /\ \A h \in Height : heights[h] = NoEntry
    BY <2>2, <2>3 DEF HoldsNothing
  <2> QED BY <1>0, <1>1, <2>2, <2>4
<1>2. CASE tip >= StartHeight
  <2>1. ~(tip < StartHeight)  BY <1>0, <1>2
  <2>2. PICK a \in Block : Holds(a)  BY <2>1 DEF IndexInv
  <2>3. tipHash # NoBlock /\ Prev[b] = tipHash  BY <2>1 DEF Extends
  <2>4. tipHash = HashAtHeight(tip)  BY DEF IndexInv
  <2>5. CanUndo(tip)  BY <2>3, <2>4 DEF HashAtHeight, CanUndo
  <2>6. Prev[b] = a  BY <2>2, <2>3, <2>4, <2>5, TipBlock DEF IndexInv
  <2>7. /\ Anc[b] \ {b} = Anc[a] /\ HeightOf[b] = HeightOf[a] + 1
    BY <2>6, Below, TypeAssumption
  <2>8. Anc[a] \subseteq Anc[b] /\ HeightOf[a] = tip  BY <2>2, <2>7 DEF Holds
  <2>9. /\ positions = PositionsOf(Anc[b] \ {b})
        /\ utxos = UTXOsOf(Anc[b] \ {b})
    BY <2>2, <2>7 DEF Holds
  <2>10. \A h \in Height : heights[h] # NoEntry =>
              /\ heights[h].hash \in Anc[b]
              /\ HeightOf[heights[h].hash] = h
              /\ LogIsOf(heights[h].undo, heights[h].hash)
    BY <2>2, <2>8 DEF Holds
  <2>11. /\ tip < HeightOf[b] /\ (tip < StartHeight => HeightOf[b] = StartHeight)
         /\ tip >= StartHeight => HeightOf[b] = tip + 1
    BY <1>0, <2>1, <2>7, <2>8
  <2> QED BY <2>9, <2>10, <2>11
<1> QED BY <1>0, <1>1, <1>2

\* Applying the next block keeps IndexInv.
LEMMA ApplyStep ==
  ASSUME IndexInv, NEW b \in Block, Extends(b), Apply(b)
  PROVE  IndexInv'
<1> DEFINE H == HeightOf[b]
<1> DEFINE cut == PruneCutoff(b)
<1>0. /\ H \in StartHeight..MaxHeight /\ StartHeight \in Nat /\ MaxHeight \in Nat
      /\ ReorgWindow \in Nat /\ tip \in -1..MaxHeight /\ prunedBelow \in 0..MaxHeight + 1
  BY TypeAssumption, IndexAssumption DEF IndexInv, TypeOK
<1>1. /\ positions = PositionsOf(Anc[b] \ {b})
      /\ utxos = UTXOsOf(Anc[b] \ {b})
      /\ \A h \in Height : heights[h] # NoEntry =>
           /\ heights[h].hash \in Anc[b]
           /\ HeightOf[heights[h].hash] = h
           /\ LogIsOf(heights[h].undo, heights[h].hash)
  BY ReadyFor
<1>2. /\ tip < H /\ (tip < StartHeight => H = StartHeight)
      /\ tip >= StartHeight => H = tip + 1
  BY ReadyFor, Zenon
<1>3. /\ positions' = PositionsOf(Anc[b]) /\ utxos' = UTXOsOf(Anc[b])
      /\ LogIsOf(UndoLog(b), b)
  BY <1>1, ApplyIsRight, Zenon DEF Apply
<1>4. /\ cut \in 0..H /\ cut >= prunedBelow
      /\ ReorgWindow > 0 => H - cut < ReorgWindow
  BY <1>0, <1>2 DEF PruneCutoff, IndexInv
<1>5. UndoLog(b) \in Change
  <2>1. orders \in Book  BY DEF IndexInv, TypeOK
  <2>2. UndoLog(b).ordersPruned \in Book  BY <2>1 DEF UndoLog, Book
  <2>3. UTXOsSpentBy(b) \in [Outpoint -> -1..MaxHeight]  BY ReferenceTypes
  <2>4. SpentBy(b) \subseteq Outpoint  BY TypeAssumption DEF SpentBy
  <2>5. UAP \cap OutsOf(b) \subseteq Outpoint /\ P2PKH \cap OutsOf(b) \subseteq Outpoint
    BY TypeAssumption
  <2>6. UndoLog(b) = [created |-> UAP \cap OutsOf(b), spentKeys |-> SpentBy(b),
                      utxosCreated |-> P2PKH \cap OutsOf(b),
                      utxosSpent |-> UTXOsSpentBy(b),
                      ordersPruned |-> UndoLog(b).ordersPruned]
    BY <1>3, Zenon DEF LogIsOf, UndoLog
  <2> QED BY <2>2, <2>3, <2>4, <2>5, <2>6 DEF Change
<1> DEFINE e == [hash |-> b, undo |-> UndoLog(b)]
<1>6. e \in Entry /\ e # NoEntry /\ e.hash = b /\ LogIsOf(e.undo, b)
  BY <1>3, <1>5, EntryAssumption DEF Entry
<1>7. /\ heights' = [h \in Height |-> IF cut # prunedBelow /\ h < cut THEN NoEntry
                                      ELSE IF h = H THEN e ELSE heights[h]]
      /\ tip' = H /\ tipHash' = b /\ prunedBelow' = cut
      /\ UNCHANGED <<tombs, storeErr>>
  BY DEF Apply
<1> HIDE DEF e, cut
<1>8. TypeOK'
  <2>1. heights' \in [Height -> Entry \cup {NoEntry}]
    BY <1>6, <1>7 DEF IndexInv, TypeOK
  <2>2. positions' \in [Outpoint -> Row] /\ utxos' \in [Outpoint -> -1..MaxHeight]
    BY <1>3, ReferenceTypes
  <2>3. orders' \in Book
    BY DEF Apply, OrdersApplied, Book, IndexInv, TypeOK
  <2>4. tip' \in -1..MaxHeight /\ prunedBelow' \in 0..MaxHeight + 1
    BY <1>0, <1>4, <1>7
  <2> QED BY <1>7, <2>1, <2>2, <2>3, <2>4 DEF TypeOK, IndexInv
<1>9. ASSUME NEW h \in Height
      PROVE  heights'[h] # NoEntry <=> h \in StartHeight..H /\ ~(h < cut)
  <2>1. heights[h] # NoEntry <=> h \in StartHeight..tip /\ ~(h < prunedBelow)
    BY DEF IndexInv, UndoWindowIsTheTop, CanUndo, IsPruned
  <2>2. h \in Nat  BY DEF Height
  <2> QED BY <1>0, <1>2, <1>4, <1>6, <1>7, <2>1, <2>2
<1>10. UndoWindowIsTheTop'
  BY <1>4, <1>7, <1>9 DEF UndoWindowIsTheTop, CanUndo, IsPruned
<1>11. H \in Height /\ heights'[H] = e
  BY <1>0, <1>4, <1>7 DEF Height
<1>12. (tipHash = HashAtHeight(tip))'
  BY <1>6, <1>7, <1>11 DEF HashAtHeight
<1>13. Holds(b)'
  <2>1. b \in Anc[b]  BY Below
  <2>2. ASSUME NEW h \in Height, heights'[h] # NoEntry
        PROVE  /\ heights'[h].hash \in Anc[b]
               /\ HeightOf[heights'[h].hash] = h
               /\ LogIsOf(heights'[h].undo, heights'[h].hash)
    <3>1. CASE h = H  BY <3>1, <1>6, <1>11, <2>1
    <3>2. CASE h # H
      <4>1. heights'[h] = heights[h]  BY <1>7, <2>2, <3>2
      <4> QED BY <1>1, <2>2, <4>1
    <3> QED BY <3>1, <3>2
  <2> QED BY <1>3, <1>7, <2>2, Zenon DEF Holds, LogIsOf
<1>14. ~(tip' < StartHeight) /\ prunedBelow' <= tip' + 1
  BY <1>0, <1>4, <1>7
<1> QED BY <1>8, <1>10, <1>12, <1>13, <1>14 DEF IndexInv

\* Undoing the tip keeps IndexInv.
LEMMA UndoStep ==
  ASSUME IndexInv, tip >= StartHeight, CanUndo(tip), Undo(tip)
  PROVE  IndexInv'
<1>0. /\ tip \in StartHeight..MaxHeight /\ StartHeight \in Nat /\ MaxHeight \in Nat
      /\ prunedBelow \in 0..MaxHeight + 1
  BY TypeAssumption DEF IndexInv, TypeOK
<1>1. PICK a \in Block : Holds(a)
  BY <1>0 DEF IndexInv
<1>2. heights[tip].hash = a /\ tip \in Height /\ HeightOf[a] = tip
  BY <1>1, TipBlock DEF IndexInv, Holds
<1>3. heights[tip] # NoEntry /\ LogIsOf(heights[tip].undo, a)
  BY <1>1, <1>2, ZenonT(60) DEF Holds, CanUndo
<1>4. /\ positions' = PositionsOf(Anc[a] \ {a}) /\ utxos' = UTXOsOf(Anc[a] \ {a})
  BY <1>1, <1>3, UndoIsRight DEF Holds, Undo
<1>5. /\ heights' = [heights EXCEPT ![tip] = NoEntry]
      /\ tip' = tip - 1 /\ tipHash' = HashAtHeight(tip - 1)
      /\ UNCHANGED <<prunedBelow, tombs, storeErr>>
  BY DEF Undo
<1>6. heights \in [Height -> Entry \cup {NoEntry}]  BY DEF IndexInv, TypeOK
<1>7. prunedBelow <= tip
  BY <1>0, <1>2, <1>3 DEF IndexInv, UndoWindowIsTheTop, CanUndo, IsPruned
<1>8. HashAtHeight(tip - 1) \in Block \cup {NoBlock}
  BY <1>6 DEF HashAtHeight, Entry
<1>9. TypeOK'
  <2>1. heights' \in [Height -> Entry \cup {NoEntry}]  BY <1>5, <1>6, ZenonT(60)
  <2>2. positions' \in [Outpoint -> Row] /\ utxos' \in [Outpoint -> -1..MaxHeight]
    BY <1>4, ReferenceTypes
  <2>3. orders' \in Book
    <3>1. heights[tip].undo.ordersPruned \in Book
      BY <1>2, <1>3, <1>6 DEF Entry, Change
    <3>2. orders \in Book  BY DEF IndexInv, TypeOK
    <3> QED BY <3>1, <3>2, Zenon DEF Undo, OrdersUndone, Book
  <2>4. tip' \in -1..MaxHeight  BY <1>0, <1>5
  <2> QED BY <1>5, <1>8, <2>1, <2>2, <2>3, <2>4 DEF TypeOK, IndexInv
<1>10. UndoWindowIsTheTop'
  <2>1. ASSUME NEW h \in Height
        PROVE  heights'[h] # NoEntry <=> h \in StartHeight..tip' /\ ~(h < prunedBelow)
    <3>1. heights[h] # NoEntry <=> h \in StartHeight..tip /\ ~(h < prunedBelow)
      BY DEF IndexInv, UndoWindowIsTheTop, CanUndo, IsPruned
    <3>2. h \in Nat  BY DEF Height
    <3> QED BY <1>0, <1>2, <1>5, <1>6, <3>1, <3>2
  <2>2. ReorgWindow > 0 /\ tip' >= StartHeight => tip' - prunedBelow' < ReorgWindow
    BY <1>0, <1>5, IndexAssumption DEF IndexInv, UndoWindowIsTheTop
  <2> QED BY <1>5, <2>1, <2>2 DEF UndoWindowIsTheTop, CanUndo, IsPruned
<1>11. (tipHash = HashAtHeight(tip))'
  BY <1>0, <1>5, <1>6 DEF HashAtHeight
<1>12. prunedBelow' <= tip' + 1
  BY <1>0, <1>5, <1>7
<1>13. CASE Prev[a] = NoBlock
  <2>1. Anc[a] \ {a} = {} /\ tip = StartHeight  BY <1>2, <1>13, Below
  <2>2. tip' < StartHeight  BY <1>0, <1>5, <2>1
  <2>3. \A h \in Height : heights'[h] = NoEntry
    BY <1>0, <2>2, <1>5, <1>10 DEF UndoWindowIsTheTop, CanUndo, Height
  <2>4. heights' = [h \in Height |-> NoEntry]  BY <1>5, <1>6, <2>3, Zenon
  <2>5. HoldsNothing'  BY <1>4, <2>1, <2>4 DEF HoldsNothing
  <2> QED BY <1>9, <1>10, <1>11, <1>12, <2>2, <2>5 DEF IndexInv
<1>14. CASE Prev[a] # NoBlock
  <2> DEFINE p == Prev[a]
  <2>1. p \in Block /\ Anc[a] \ {a} = Anc[p] /\ tip = HeightOf[p] + 1
    BY <1>2, <1>14, Below, Zenon
  <2>2. HeightOf[p] \in StartHeight..MaxHeight  BY <2>1, TypeAssumption
  <2> HIDE DEF p
  <2>3. tip' = HeightOf[p] /\ ~(tip' < StartHeight)  BY <1>0, <1>5, <2>1, <2>2
  <2>4. ASSUME NEW h \in Height, heights'[h] # NoEntry
        PROVE  /\ heights'[h].hash \in Anc[p]
               /\ HeightOf[heights'[h].hash] = h
               /\ LogIsOf(heights'[h].undo, heights'[h].hash)
    <3>1. h # tip /\ heights'[h] = heights[h]  BY <1>5, <1>6, <2>4
    <3>2. /\ heights[h].hash \in Anc[a] /\ HeightOf[heights[h].hash] = h
          /\ LogIsOf(heights[h].undo, heights[h].hash)
      BY <1>1, <2>4, <3>1 DEF Holds
    <3>3. heights[h].hash # a  BY <1>2, <3>1, <3>2
    <3> QED BY <2>1, <3>1, <3>2, <3>3
  <2>5. Holds(p)'  BY <1>4, <2>1, <2>3, <2>4 DEF Holds, LogIsOf
  <2> QED BY <1>9, <1>10, <1>11, <1>12, <2>1, <2>3, <2>5, Zenon DEF IndexInv
<1> QED BY <1>13, <1>14

-----------------------------------------------------------------------------
\* The index of a new database satisfies the invariant.
LEMMA InitIndexInv == Init => IndexInv
<1> SUFFICES ASSUME Init PROVE IndexInv  OBVIOUS
<1>1. orders \in Book /\ tombs \in Book /\ storeErr \in BOOLEAN  BY Zenon
                                                                    DEF Init, Book
<1> QED BY <1>1, EmptyIndex DEF Init, Empty

\* Every call of the index keeps the invariant.
LEMMA NextIndexInv == IndexInv /\ [Next]_vars => IndexInv'
<1> SUFFICES ASSUME IndexInv, [Next]_vars PROVE IndexInv'  OBVIOUS
<1>0. orders \in Book /\ tombs \in Book /\ storeErr \in BOOLEAN
  BY DEF IndexInv, TypeOK
<1>1. CASE UNCHANGED vars
  BY <1>0, <1>1, ChainUnchanged DEF vars
<1>2. CASE WriteFails
  BY <1>0, <1>2, ChainUnchanged DEF WriteFails
<1>3. CASE \E b \in Block : Extends(b) /\ ApplyBlock(b)
  BY <1>1, <1>2, <1>3, ApplyStep DEF ApplyBlock
<1>4. CASE tip >= StartHeight /\ CanUndo(tip) /\ UndoBlock(tip)
  BY <1>1, <1>2, <1>4, UndoStep DEF UndoBlock
<1>5. CASE Reset
  <2>1. CASE /\ tip' = -1 /\ tipHash' = NoBlock /\ prunedBelow' = 0
             /\ heights' = [h \in Height |-> NoEntry]
             /\ positions' = [k \in Outpoint |-> Absent]
             /\ utxos' = [k \in Outpoint |-> -1]
             /\ orders' = [k \in Outpoint |-> NoOrder]
             /\ tombs' = TombsReset
             /\ UNCHANGED storeErr
    <3>1. orders' \in Book /\ tombs' \in Book /\ storeErr' \in BOOLEAN
      BY <1>0, <2>1 DEF Book, TombsReset
    <3>2. Empty'  BY <2>1, <3>1 DEF Empty
    <3> QED BY <3>2, EmptyIndex, PTL
  <2> QED BY <1>1, <1>2, <1>5, <2>1 DEF Reset
<1>6. CASE OrderStep
  <2>1. ASSUME NEW k \in UAP, NEW f \in Fragment, PublishOrder(k, f) PROVE IndexInv'
    BY <1>0, <2>1, ChainUnchanged, TypeAssumption DEF PublishOrder, Book
  <2>2. ASSUME NEW k \in UAP, NEW f \in Fragment, AdoptMirroredOrder(k, f) PROVE IndexInv'
    BY <1>0, <2>2, ChainUnchanged, TypeAssumption DEF AdoptMirroredOrder, Book
  <2>3. ASSUME NEW k \in UAP, CancelOrder(k) PROVE IndexInv'
    BY <1>0, <2>3, ChainUnchanged, TypeAssumption DEF CancelOrder, Book
  <2>4. \A o \in Offers : o[1] \in UAP /\ o[2] \in Fragment  BY IndexAssumption
  <2>5. CASE \E o \in Offers : PublishOrder(o[1], o[2])  BY <2>1, <2>4, <2>5
  <2>6. CASE \E o \in Offers : AdoptMirroredOrder(o[1], o[2])  BY <2>2, <2>4, <2>6
  <2> QED BY <1>6, <2>3, <2>5, <2>6 DEF OrderStep
<1>7. CASE Restart
  BY <1>0, <1>7, ChainUnchanged, Zenon DEF Restart
<1> QED BY <1>1, <1>3, <1>4, <1>5, <1>6, <1>7 DEF Next

\* Every state the index reaches satisfies the strengthened invariant.
THEOREM IndexInvariant == Spec => []IndexInv
BY InitIndexInv, NextIndexInv, PTL DEF Spec

\* Type correctness.
THEOREM TypeCorrect == Spec => []TypeOK
<1>1. IndexInv => TypeOK  BY DEF IndexInv
<1> QED BY <1>1, IndexInvariant, PTL

\* The undo log always covers exactly the top of the chain, never more than
\* the reorg window of it.
THEOREM WindowCorrect == Spec => []UndoWindowIsTheTop
<1>1. IndexInv => UndoWindowIsTheTop  BY DEF IndexInv
<1> QED BY <1>1, IndexInvariant, PTL

\* Whatever sequence of ApplyBlock, UndoBlock and Reset calls the index has
\* been through, its tables are those of one chain, the one its tip names.
THEOREM IndexCorrect == Spec => []IndexMatchesChain
<1>1. IndexInv => IndexMatchesChain
  <2> SUFFICES ASSUME IndexInv PROVE IndexMatchesChain  OBVIOUS
  <2>1. CASE tip < StartHeight
    BY <2>1 DEF IndexInv, HoldsNothing, IndexMatchesChain
  <2>2. CASE ~(tip < StartHeight)
    <3>1. PICK b \in Block : Holds(b)  BY <2>2 DEF IndexInv
    <3>2. tipHash \in {b, NoBlock}
      <4>1. CASE CanUndo(tip)  BY <3>1, <4>1, TipBlock DEF IndexInv
      <4>2. CASE ~CanUndo(tip)  BY <4>2 DEF IndexInv, HashAtHeight, CanUndo
      <4> QED BY <4>1, <4>2
    <3> QED BY <2>2, <3>1, <3>2 DEF Holds, IndexMatchesChain
  <2> QED BY <2>1, <2>2
<1> QED BY <1>1, IndexInvariant, PTL

-----------------------------------------------------------------------------
(***************************************************************************)
(* The order book.  An undo log may give back an order, so what it holds   *)
(* has to be constrained too: only orders of positions its block spent,    *)
(* none of which has been withdrawn since.                                 *)
(***************************************************************************)
LogKeepsOrders(c) ==
  \A k \in Outpoint : c.ordersPruned[k] # NoOrder =>
    k \in c.spentKeys /\ tombs[k] # c.ordersPruned[k]

BookInv ==
  /\ NoOrderForSpentPosition
  /\ LastWithdrawalSticks
  /\ \A h \in Height : heights[h] # NoEntry => LogKeepsOrders(heights[h].undo)

\* A position some undo log has as spent is spent.
LEMMA LoggedIsSpent ==
  ASSUME IndexInv, NEW h \in Height, heights[h] # NoEntry,
         NEW k \in heights[h].undo.spentKeys
  PROVE  k \in UAP /\ positions[k].spentTx # NoTx /\ Known(positions[k])
<1>1. h \in StartHeight..tip
  BY DEF IndexInv, UndoWindowIsTheTop, CanUndo
<1>2. ~(tip < StartHeight)
  BY <1>1, TypeAssumption DEF IndexInv, TypeOK
<1>3. PICK b \in Block : Holds(b)  BY <1>2 DEF IndexInv
<1> DEFINE a == heights[h].hash
<1>4. a \in Anc[b] /\ heights[h].undo.spentKeys = SpentBy(a)
  BY <1>3 DEF Holds, LogIsOf
<1> HIDE DEF a
<1>5. a \in Block /\ Anc[a] \subseteq Anc[b]  BY <1>4, TreeAssumption
<1>6. k \in UAP /\ k \in InsOf(a) /\ CreatedIn(Anc[a], k)  BY <1>4 DEF SpentBy
<1>7. CreatedIn(Anc[b], k) /\ SpentIn(Anc[b], k)
  BY <1>4, <1>5, <1>6 DEF CreatedIn, SpentIn
<1>8. k \in Outpoint  BY <1>6, TypeAssumption
<1>9. /\ Spender(Ender(Anc[b], k), k) # NoTx
      /\ HeightOf[Creator(Anc[b], k)] # -1
  BY <1>7, <1>8, HeightsOfRows, Zenon
<1>10. positions[k] = [height |-> HeightOf[Creator(Anc[b], k)],
                       spentTx |-> Spender(Ender(Anc[b], k), k),
                       spentHeight |-> HeightOf[Ender(Anc[b], k)]]
  BY <1>3, <1>6, <1>7, <1>8, Zenon DEF Holds, PositionsOf
<1> QED BY <1>6, <1>9, <1>10 DEF Known

\* Applying a block keeps the order book free of spent positions.
LEMMA ApplyKeepsBook ==
  ASSUME IndexInv, BookInv, NEW b \in Block, Extends(b), Apply(b)
  PROVE  BookInv'
<1>0. /\ positions' = PositionsApplied(b) /\ orders' = OrdersApplied(b) /\ tombs' = tombs
  BY Zenon DEF Apply
<1>1. SpentKeys(b) \subseteq UAP
  <2>1. LogIsOf(UndoLog(b), b)  BY ReadyFor, ApplyIsRight, ZenonT(60)
  <2>2. UndoLog(b).spentKeys = SpentKeys(b)  BY DEF UndoLog
  <2>3. UndoLog(b).spentKeys \subseteq UAP  BY <2>1 DEF LogIsOf, SpentBy
  <2> QED BY <2>2, <2>3
<1>2. UAP \subseteq Outpoint  BY TypeAssumption
<1>3. NoOrderForSpentPosition'
  <2> SUFFICES ASSUME NEW k \in UAP, orders'[k] # NoOrder PROVE positions'[k].spentTx = NoTx
    BY DEF NoOrderForSpentPosition
  <2>1. k \in Outpoint  BY <1>2
  <2>2. k \notin SpentKeys(b) /\ orders[k] # NoOrder
    BY <1>0, <2>1 DEF OrdersApplied
  <2>3. positions[k].spentTx = NoTx  BY <2>2 DEF BookInv, NoOrderForSpentPosition
  <2>4. PositionsCreated(b)[k].spentTx = NoTx
    BY <2>1, <2>3 DEF PositionsCreated, Absent
  <2> QED BY <1>0, <2>1, <2>2, <2>4 DEF PositionsApplied
<1>4. LastWithdrawalSticks'
  <2> SUFFICES ASSUME NEW k \in UAP, tombs'[k] # NoOrder PROVE orders'[k] # tombs'[k]
    BY DEF LastWithdrawalSticks
  <2>1. orders[k] # tombs[k] /\ tombs'[k] = tombs[k]  BY <1>0
                                                         DEF BookInv, LastWithdrawalSticks
  <2>2. orders'[k] \in {NoOrder, orders[k]}  BY <1>0, <1>2 DEF OrdersApplied
  <2> QED BY <2>1, <2>2
<1>5. LogKeepsOrders(UndoLog(b))
  <2>1. UndoLog(b).spentKeys = SpentKeys(b)  BY DEF UndoLog
  <2>2. UndoLog(b).ordersPruned =
          [k \in Outpoint |-> IF k \in SpentKeys(b) THEN orders[k] ELSE NoOrder]
    BY DEF UndoLog
  <2>3. \A k \in UAP : orders[k] # NoOrder => tombs[k] # orders[k]
    BY DEF BookInv, LastWithdrawalSticks
  <2> QED BY <1>1, <2>1, <2>2, <2>3 DEF LogKeepsOrders
<1>6. ASSUME NEW h \in Height, heights'[h] # NoEntry
      PROVE  LogKeepsOrders(heights[h].undo)'
  <2>1. \/ heights'[h] = heights[h] /\ heights[h] # NoEntry
        \/ heights'[h] = [hash |-> b, undo |-> UndoLog(b)]
    BY <1>6, Zenon DEF Apply
  <2>2. CASE heights'[h] = heights[h] /\ heights[h] # NoEntry
    BY <1>0, <2>2, Zenon DEF BookInv, LogKeepsOrders
  <2>3. CASE heights'[h] = [hash |-> b, undo |-> UndoLog(b)]
    <3>1. heights'[h].undo = UndoLog(b)  BY <2>3
    <3> QED BY <1>0, <1>5, <3>1, ZenonT(60) DEF LogKeepsOrders
  <2> QED BY <2>1, <2>2, <2>3
<1> QED BY <1>3, <1>4, <1>6 DEF BookInv

\* Undoing a block puts back orders of unspent positions only.
LEMMA UndoKeepsBook ==
  ASSUME IndexInv, BookInv, CanUndo(tip), Undo(tip)
  PROVE  BookInv'
<1> DEFINE c == heights[tip].undo
<1>0. /\ positions' = PositionsUndone(c) /\ orders' = OrdersUndone(c) /\ tombs' = tombs
      /\ heights' = [heights EXCEPT ![tip] = NoEntry]
      /\ heights \in [Height -> Entry \cup {NoEntry}]
      /\ UAP \subseteq Outpoint /\ tip \in Height /\ heights[tip] # NoEntry
  BY TypeAssumption DEF Undo, CanUndo, IndexInv, TypeOK
<1>1. LogKeepsOrders(c)  BY <1>0 DEF BookInv
<1> HIDE DEF c
<1>2. ASSUME NEW k \in Outpoint
      PROVE  \/ orders'[k] = orders[k] /\ positions'[k].spentTx \in {NoTx, positions[k].spentTx}
             \/ /\ orders'[k] = c.ordersPruned[k] /\ c.ordersPruned[k] # NoOrder
                /\ k \in c.spentKeys /\ k \notin c.created
  <2>1. positions'[k].spentTx \in {NoTx, positions[k].spentTx}
    BY <1>0 DEF PositionsUndone, Absent, Marked
  <2> QED BY <1>0, <1>1, <2>1 DEF OrdersUndone, LogKeepsOrders
<1>3. ASSUME NEW k \in Outpoint, k \in c.spentKeys, k \notin c.created
      PROVE  positions'[k].spentTx = NoTx
  <2>1. Known(positions[k])  BY <1>0, <1>3, LoggedIsSpent DEF c
  <2> QED BY <1>0, <1>3, <2>1 DEF PositionsUndone, Marked
<1>4. NoOrderForSpentPosition'
  BY <1>0, <1>2, <1>3, Zenon DEF BookInv, NoOrderForSpentPosition
<1>5. LastWithdrawalSticks'
  BY <1>0, <1>1, <1>2, Zenon DEF BookInv, LastWithdrawalSticks, LogKeepsOrders
<1>6. ASSUME NEW h \in Height, heights'[h] # NoEntry
      PROVE  LogKeepsOrders(heights[h].undo)'
  <2>1. heights'[h] = heights[h]  BY <1>0, <1>6
  <2>2. LogKeepsOrders(heights[h].undo)  BY <1>6, <2>1 DEF BookInv
  <2> QED BY <1>0, <2>1, <2>2 DEF LogKeepsOrders
<1> QED BY <1>4, <1>5, <1>6, ZenonT(60) DEF BookInv

\* A step of the order book that leaves the chain's tables alone.
LEMMA OrdersKeepBook ==
  ASSUME IndexInv, BookInv, OrderStep
  PROVE  BookInv'
<1>0. /\ UAP \subseteq Outpoint /\ orders \in Book /\ tombs \in Book
      /\ \A o \in Offers : o[1] \in UAP /\ o[2] \in Fragment
      /\ NoOrder \notin Fragment
  BY TypeAssumption, IndexAssumption DEF IndexInv, TypeOK
<1>1. ASSUME NEW k \in UAP, NEW f \in Fragment,
             PublishOrder(k, f) \/ AdoptMirroredOrder(k, f)
      PROVE  BookInv'
  <2>1. /\ positions' = positions /\ heights' = heights
        /\ Unspent(positions[k])
        /\ orders' = [orders EXCEPT ![k] = f]
        /\ \/ tombs' = [tombs EXCEPT ![k] = NoOrder]
           \/ tombs' = tombs /\ tombs[k] # f
    BY <1>1 DEF PublishOrder, AdoptMirroredOrder, chainVars
  <2>2. NoOrderForSpentPosition'
    BY <1>0, <2>1 DEF BookInv, NoOrderForSpentPosition, Unspent, Book
  <2>3. LastWithdrawalSticks'
    BY <1>0, <2>1 DEF BookInv, LastWithdrawalSticks, Book
  <2>4. ASSUME NEW h \in Height, heights[h] # NoEntry
        PROVE  LogKeepsOrders(heights[h].undo)'
    <3>1. LogKeepsOrders(heights[h].undo)  BY <2>4 DEF BookInv
    <3> QED BY <1>0, <2>1, <3>1 DEF LogKeepsOrders, Book
  <2> QED BY <2>1, <2>2, <2>3, <2>4 DEF BookInv
<1>2. ASSUME NEW k \in UAP, CancelOrder(k)
      PROVE  BookInv'
  <2>1. /\ positions' = positions /\ heights' = heights /\ orders[k] # NoOrder
        /\ orders' = [orders EXCEPT ![k] = NoOrder]
        /\ tombs' = [tombs EXCEPT ![k] = orders[k]]
    BY <1>2 DEF CancelOrder, chainVars
  <2>2. NoOrderForSpentPosition'
    BY <1>0, <2>1 DEF BookInv, NoOrderForSpentPosition, Book
  <2>3. LastWithdrawalSticks'
    BY <1>0, <2>1 DEF BookInv, LastWithdrawalSticks, Book
  <2>4. ASSUME NEW h \in Height, heights[h] # NoEntry
        PROVE  LogKeepsOrders(heights[h].undo)'
    <3>1. LogKeepsOrders(heights[h].undo)  BY <2>4 DEF BookInv
    <3>2. k \notin heights[h].undo.spentKeys
      BY <2>1, <2>4, LoggedIsSpent DEF BookInv, NoOrderForSpentPosition
    <3> QED BY <1>0, <2>1, <3>1, <3>2 DEF LogKeepsOrders, Book
  <2> QED BY <2>1, <2>2, <2>3, <2>4 DEF BookInv
<1>3. CASE \E o \in Offers : PublishOrder(o[1], o[2])  BY <1>0, <1>1, <1>3
<1>4. CASE \E o \in Offers : AdoptMirroredOrder(o[1], o[2])  BY <1>0, <1>1, <1>4
<1> QED BY <1>2, <1>3, <1>4 DEF OrderStep

\* Every call of the index keeps the order book's invariant.
LEMMA NextBookInv == IndexInv /\ BookInv /\ [Next]_vars => BookInv'
<1> SUFFICES ASSUME IndexInv, BookInv, [Next]_vars PROVE BookInv'  OBVIOUS
<1>0. ASSUME UNCHANGED <<chainVars, orders, tombs>>
      PROVE  BookInv'
  BY <1>0
     DEF BookInv, chainVars, NoOrderForSpentPosition, LastWithdrawalSticks, LogKeepsOrders
<1>1. CASE UNCHANGED vars  BY <1>0, <1>1 DEF vars
<1>2. CASE WriteFails  BY <1>0, <1>2 DEF WriteFails
<1>3. CASE \E b \in Block : Extends(b) /\ ApplyBlock(b)
  BY <1>1, <1>2, <1>3, ApplyKeepsBook DEF ApplyBlock
<1>4. CASE tip >= StartHeight /\ CanUndo(tip) /\ UndoBlock(tip)
  BY <1>1, <1>2, <1>4, UndoKeepsBook DEF UndoBlock
<1>5. CASE Reset
  <2>1. CASE /\ heights' = [h \in Height |-> NoEntry]
             /\ orders' = [k \in Outpoint |-> NoOrder]
    BY <2>1, TypeAssumption DEF BookInv, NoOrderForSpentPosition, LastWithdrawalSticks
  <2> QED BY <1>1, <1>2, <1>5, <2>1 DEF Reset
<1>6. CASE OrderStep  BY <1>6, OrdersKeepBook
<1>7. CASE Restart  BY <1>0, <1>7 DEF Restart
<1> QED BY <1>1, <1>3, <1>4, <1>5, <1>6, <1>7 DEF Next

\* The invariants of the tables and of the order book hold throughout
\* (publishOrder, CancelOrder, applyBlock and undoBlock on the orders table).
THEOREM BookInvariant == Spec => [](IndexInv /\ BookInv)
<1>1. Init => BookInv
  BY TypeAssumption DEF Init, BookInv, NoOrderForSpentPosition, LastWithdrawalSticks
<1> QED BY <1>1, InitIndexInv, NextIndexInv, NextBookInv, PTL DEF Spec

\* No order is ever served for a position the index knows to be spent.
THEOREM NoSpentOrders == Spec => []NoOrderForSpentPosition
<1>1. BookInv => NoOrderForSpentPosition  BY DEF BookInv
<1> QED BY <1>1, BookInvariant, PTL

\* The fragment last withdrawn on an outpoint stays off the book until its
\* maker publishes there again.
THEOREM WithdrawalSticks == Spec => []LastWithdrawalSticks
<1>1. BookInv => LastWithdrawalSticks  BY DEF BookInv
<1> QED BY <1>1, BookInvariant, PTL

-----------------------------------------------------------------------------
(***************************************************************************)
(* The index implements the marketplace's view of it, for every block tree *)
(* consensus allows, every reorg window and every set of orders: its       *)
(* initial state is one of Market's and each of its steps is a step of     *)
(* Market or leaves the view as it is.  The invariants that say which      *)
(* chain the tables hold are those above.                                  *)
(***************************************************************************)
ViewChain == Block \cup {NoBlock}

\* The open positions and the funds can be read off the reference tables.
LEMMA ReferenceView ==
  ASSUME NEW b \in ViewChain
  PROVE  /\ {k \in UAP : Unspent(PositionsOf(ChainTo(b))[k])} = OpenIn(ChainTo(b))
         /\ {k \in Outpoint : UTXOsOf(ChainTo(b))[k] # -1} = FundsIn(ChainTo(b))
<1>. DEFINE C == ChainTo(b)
<1>1. ASSUME NEW k \in Outpoint
      PROVE  /\ CreatedIn(C, k) => HeightOf[Creator(C, k)] # -1
             /\ SpentIn(C, k) => Spender(Ender(C, k), k) # NoTx
  <2>1. CASE b = NoBlock
    BY <2>1 DEF ChainTo, CreatedIn, SpentIn
  <2>2. CASE b \in Block
    <3>1. C = Anc[b]
      BY <2>2, TypeAssumption, Zenon DEF ChainTo
    <3>. QED
      BY <2>2, <3>1, HeightsOfRows, Zenon
  <2>. QED
    BY <2>1, <2>2 DEF ViewChain
<1>. HIDE DEF C
<1>2. ASSUME NEW k \in UAP
      PROVE  Unspent(PositionsOf(C)[k]) <=> CreatedIn(C, k) /\ ~SpentIn(C, k)
  <2>1. k \in Outpoint
    BY TypeAssumption
  <2>. QED
    BY <1>1, <2>1, Zenon DEF PositionsOf, Unspent, Absent
<1>3. ASSUME NEW k \in Outpoint
      PROVE  UTXOsOf(C)[k] # -1 <=> k \in P2PKH /\ CreatedIn(C, k) /\ ~SpentIn(C, k)
  BY <1>1 DEF UTXOsOf
<1>4. {k \in UAP : Unspent(PositionsOf(C)[k])} = OpenIn(C)
  BY <1>2 DEF OpenIn
<1>5. {k \in Outpoint : UTXOsOf(C)[k] # -1} = FundsIn(C)
  BY <1>3, TypeAssumption DEF FundsIn
<1>. QED
  BY <1>4, <1>5 DEF C

\* Tables that are those of the chain to b show b, in this state and the next.
LEMMA TablesShow ==
  ASSUME NEW b \in ViewChain
  PROVE  /\ positions = PositionsOf(ChainTo(b)) /\ utxos = UTXOsOf(ChainTo(b)) => M!Shows(b)
         /\ positions' = PositionsOf(ChainTo(b)) /\ utxos' = UTXOsOf(ChainTo(b)) => M!Shows(b)'
BY ReferenceView DEF M!Shows, Open, Funds, ViewChain

\* The chain below a block is the chain to its parent.
LEMMA ChainBelow ==
  ASSUME NEW b \in Block
  PROVE  /\ ChainTo(b) = Anc[b] /\ ChainTo(Prev[b]) = Anc[b] \ {b}
         /\ Prev[b] \in ViewChain /\ b \in ViewChain
BY Below, TypeAssumption DEF ChainTo, ViewChain

\* If no order changes for a position that stays open, the listing carries over.
LEMMA CarriedOver ==
  ASSUME \A k \in Open \cap Open' : orders'[k] = orders[k]
  PROVE  M!Carried
<1>1. \A o \in Listing' : o[1] \in Open'
  BY DEF Listing
<1>2. ASSUME NEW o \in Listing \cup Listing', o[1] \in Open \cap Open'
      PROVE  o \in Listing \cap Listing'
  <2>1. orders'[o[1]] = orders[o[1]]
    BY <1>2
  <2>2. o = <<o[1], orders[o[1]]>> /\ orders[o[1]] # NoOrder
    BY <1>2, <2>1 DEF Listing
  <2>. QED
    BY <1>2, <2>1, <2>2 DEF Listing
<1>. QED
  BY <1>1, <1>2 DEF M!Carried

\* A step that changes neither the tables nor the orders is no step of the view.
LEMMA ViewUnchanged ==
  ASSUME UNCHANGED <<chainVars, orders>>
  PROVE  UNCHANGED M!vars
BY DEF chainVars, M!vars, Open, Funds, Listing, Unspent

-----------------------------------------------------------------------------
LEMMA ApplyConnects ==
  ASSUME IndexInv, NEW b \in Block, Extends(b), Apply(b)
  PROVE  M!Connect
<1>1. positions = PositionsOf(Anc[b] \ {b}) /\ utxos = UTXOsOf(Anc[b] \ {b})
  BY ReadyFor
<1>2. positions' = PositionsOf(Anc[b]) /\ utxos' = UTXOsOf(Anc[b])
  BY <1>1, ApplyIsRight, Zenon DEF Apply
<1>3. M!Shows(Prev[b]) /\ M!Shows(b)'
  BY <1>1, <1>2, ChainBelow, TablesShow, Zenon
<1>4. ASSUME NEW k \in Open \cap Open' PROVE orders'[k] = orders[k]
  <2>1. k \in Outpoint /\ Unspent(positions[k]) /\ Unspent(PositionsApplied(b)[k])
    BY TypeAssumption, Zenon DEF Open, Apply
  <2>2. k \notin SpentKeys(b)
    <3>. SUFFICES ASSUME k \in SpentKeys(b) PROVE FALSE
      OBVIOUS
    <3>1. PositionsApplied(b)[k].spentTx = Spender(b, k)
      BY <2>1, Zenon DEF PositionsApplied, Marked
    <3>2. Spender(b, k) # NoTx
      BY SpenderIsTx DEF SpentKeys
    <3>. QED
      BY <2>1, <3>1, <3>2, Zenon DEF Unspent
  <2>. QED
    BY <2>1, <2>2, Zenon DEF Apply, OrdersApplied
<1>5. M!Carried
  BY <1>4, CarriedOver
<1>. QED
  BY <1>3, <1>5 DEF M!Connect

LEMMA UndoDisconnects ==
  ASSUME IndexInv, BookInv, tip >= StartHeight, CanUndo(tip), Undo(tip)
  PROVE  M!Disconnect
<1>0. tip \in Int /\ StartHeight \in Int /\ tip \in Height /\ heights[tip] # NoEntry
  BY TypeAssumption DEF IndexInv, TypeOK, CanUndo
<1>1. PICK a \in Block : Holds(a)
  BY <1>0 DEF IndexInv
<1>2. heights[tip].hash = a
  BY <1>1, TipBlock DEF IndexInv
<1>3. LogIsOf(heights[tip].undo, a)
  BY <1>0, <1>1, <1>2 DEF Holds
<1>4. positions = PositionsOf(Anc[a]) /\ utxos = UTXOsOf(Anc[a])
  BY <1>1 DEF Holds
<1>5. positions' = PositionsOf(Anc[a] \ {a}) /\ utxos' = UTXOsOf(Anc[a] \ {a})
  BY <1>3, <1>4, UndoIsRight, Zenon DEF Undo
<1>6. M!Shows(a) /\ M!Shows(Prev[a])'
  BY <1>4, <1>5, ChainBelow, TablesShow, ZenonT(60)
<1>7. ASSUME NEW k \in Open \cap Open' PROVE orders'[k] = orders[k]
  <2>. DEFINE c == heights[tip].undo
  <2>1. k \in Outpoint /\ positions[k].spentTx = NoTx
    BY TypeAssumption DEF Open, Unspent
  <2>2. k \notin c.spentKeys
    BY <1>0, <2>1, LoggedIsSpent, Zenon
  <2>3. c.ordersPruned[k] = NoOrder
    BY <1>0, <2>1, <2>2 DEF BookInv, LogKeepsOrders
  <2>4. orders' = OrdersUndone(c)
    BY DEF Undo
  <2>. HIDE DEF c
  <2>. QED
    BY <2>1, <2>3, <2>4 DEF OrdersUndone
<1>8. M!Carried
  BY <1>7, CarriedOver
<1>. QED
  BY <1>6, <1>8 DEF M!Disconnect

\* Empty tables show the empty chain and nothing on offer.
LEMMA EmptyView ==
  /\ /\ positions = [k \in Outpoint |-> Absent] /\ utxos = [k \in Outpoint |-> -1]
     => M!Shows(NoBlock) /\ Listing = {}
  /\ /\ positions' = [k \in Outpoint |-> Absent] /\ utxos' = [k \in Outpoint |-> -1]
     => M!Shows(NoBlock)' /\ Listing' = {}
<1>1. NoBlock \in ViewChain /\ ChainTo(NoBlock) = {}
  BY DEF ViewChain, ChainTo
<1>2. \A k \in UAP : ~Unspent([j \in Outpoint |-> Absent][k])
  BY TypeAssumption DEF Unspent, Absent
<1>3. positions = [k \in Outpoint |-> Absent] => Open = {}
  BY <1>2 DEF Open
<1>4. positions' = [k \in Outpoint |-> Absent] => Open' = {}
  BY <1>2 DEF Open
<1>. QED
  BY <1>1, <1>3, <1>4, TablesShow, EmptyReference DEF Listing

\* Publishing, by a maker or a mirror, lists; a cancel withdraws what was listed.
LEMMA OrderStepsList ==
  ASSUME IndexInv, OrderStep
  PROVE  [M!Next]_(M!vars)
<1>1. orders \in Book
  BY DEF IndexInv, TypeOK
<1>2. ASSUME NEW o \in Offers, ~storeErr, Unspent(positions[o[1]]),
             orders' = [orders EXCEPT ![o[1]] = o[2]], UNCHANGED chainVars
      PROVE  M!Next
  <2>1. /\ o[1] \in UAP /\ o[2] \in Fragment /\ o[2] # NoOrder /\ o = <<o[1], o[2]>>
        /\ o[1] \in Outpoint
    BY IndexAssumption, TypeAssumption
  <2>2. o[1] \in Open /\ Open' = Open /\ Funds' = Funds
    BY <1>2, <2>1 DEF Open, Funds, chainVars, Unspent
  <2>3. \A k \in Open : k \in Outpoint /\ orders'[k] = IF k = o[1] THEN o[2] ELSE orders[k]
    BY <1>1, <1>2, TypeAssumption DEF Open, Book
  <2>4. Listing' = {p \in Listing : p[1] # o[1]} \cup {o}
    <3>1. ASSUME NEW p \in Listing' PROVE p \in {q \in Listing : q[1] # o[1]} \cup {o}
      BY <2>1, <2>2, <2>3, <3>1 DEF Listing
    <3>2. ASSUME NEW p \in Listing, p[1] # o[1] PROVE p \in Listing'
      BY <2>1, <2>2, <2>3, <3>2 DEF Listing
    <3>3. o \in Listing'
      BY <2>1, <2>2, <2>3 DEF Listing
    <3>. QED
      BY <3>1, <3>2, <3>3
  <2>5. M!List(o)
    BY <2>2, <2>4 DEF M!List
  <2>. QED
    BY <2>5 DEF M!Next
<1>3. ASSUME NEW k \in UAP, CancelOrder(k) PROVE [M!Next]_(M!vars)
  <2>1. k \in Outpoint /\ orders[k] # NoOrder
    BY <1>3, TypeAssumption DEF CancelOrder
  <2>2. Open' = Open /\ Funds' = Funds
    BY <1>3 DEF CancelOrder, Open, Funds, chainVars, Unspent
  <2>3. \A j \in Open : j \in Outpoint /\ orders'[j] = IF j = k THEN NoOrder ELSE orders[j]
    BY <1>1, <1>3, TypeAssumption DEF CancelOrder, Open, Book
  <2>4. Listing' = Listing \ {<<k, orders[k]>>}
    BY <2>1, <2>2, <2>3 DEF Listing
  <2>5. CASE k \in Open
    <3>1. <<k, orders[k]>> \in Listing
      BY <2>1, <2>5 DEF Listing
    <3>2. M!Withdraw(<<k, orders[k]>>)
      BY <2>2, <2>4 DEF M!Withdraw
    <3>. QED
      BY <3>1, <3>2 DEF M!Next
  <2>6. CASE k \notin Open
    <3>1. <<k, orders[k]>> \notin Listing
      BY <2>6 DEF Listing
    <3>. QED
      BY <2>2, <2>4, <3>1 DEF M!vars
  <2>. QED
    BY <2>5, <2>6
<1>. QED
  BY <1>2, <1>3, Zenon DEF OrderStep, PublishOrder, AdoptMirroredOrder

\* Every step of the index is a step of the view or leaves it as it is.
LEMMA StepRefines ==
  ASSUME IndexInv, BookInv, [Next]_vars
  PROVE  [M!Next]_(M!vars)
<1>1. CASE UNCHANGED vars
  BY <1>1, ViewUnchanged DEF vars
<1>2. CASE WriteFails
  BY <1>2, ViewUnchanged DEF WriteFails
<1>3. CASE \E b \in Block : Extends(b) /\ ApplyBlock(b)
  BY <1>1, <1>2, <1>3, ApplyConnects DEF ApplyBlock, M!Next
<1>4. CASE tip >= StartHeight /\ CanUndo(tip) /\ UndoBlock(tip)
  BY <1>1, <1>2, <1>4, UndoDisconnects DEF UndoBlock, M!Next
<1>5. CASE Reset
  <2>1. CASE positions' = [k \in Outpoint |-> Absent] /\ utxos' = [k \in Outpoint |-> -1]
    BY <2>1, EmptyView DEF M!Rebuild, M!Next
  <2>. QED
    BY <1>1, <1>2, <1>5, <2>1 DEF Reset
<1>6. CASE OrderStep
  BY <1>6, OrderStepsList
<1>7. CASE Restart
  BY <1>7, ViewUnchanged DEF Restart
<1>. QED
  BY <1>1, <1>3, <1>4, <1>5, <1>6, <1>7 DEF Next

\* The index implements the marketplace's view of it.
THEOREM IndexImplementsMarket == Spec => ImplementsMarket
<1>1. Init => M!Init
  BY EmptyView DEF Init, M!Init
<1>2. IndexInv /\ BookInv /\ [Next]_vars => [M!Next]_(M!vars)
  BY StepRefines
<1>. QED
  BY <1>1, <1>2, BookInvariant, PTL DEF Spec, ImplementsMarket, M!Spec

-----------------------------------------------------------------------------
(***************************************************************************)
(* The poll loop keeps to the calls Index assumes of its caller, for every *)
(* block tree, reorg window and sequence of failures and crashes, as long  *)
(* as the node only extends its chain while a poll is in progress and the  *)
(* store can be read.  What holds of Index then holds of the poll loop.    *)
(*                                                                         *)
(* SyncInv says what syncOnce knows at each of its program points: the     *)
(* hash it last read is a block of the node's chain, at the height it      *)
(* asked for; from the end of the walk on, the tip is a block of that      *)
(* chain too, and the next height is the one above it.                     *)
(***************************************************************************)
\* The node holds still during a poll, and store reads succeed.
Steady == NodeHoldsStill /\ ~StoreReadsFail

OnNodeChain == tip >= StartHeight => tipHash \in NodeChain

SyncInv ==
  /\ IndexInv
  /\ SyncTypeOK
  /\ tip >= StartHeight - 1 \/ tip = -1
  /\ pc \in {"compare", "fetch"} => hash \in NodeChain
  /\ pc = "compare" => tip >= StartHeight /\ HeightOf[hash] = tip
  /\ pc = "fetch" => HeightOf[hash] = next
  /\ pc \in {"next", "apply", "fetch"} /\ ~storeErr => OnNodeChain
  /\ pc \in {"apply", "fetch"} /\ ~storeErr => next = NextHeight
  /\ pc = "fetch" => next <= MaxHeight

-----------------------------------------------------------------------------
\* The node's chain: blocks only, one at each height it has.
LEMMA NodeHasBlock ==
  ASSUME SyncTypeOK
  PROVE  /\ NodeChain \subseteq Block
         /\ \A h \in Int : HasHeight(h) => BlockHash(h) \in NodeChain /\ HeightOf[BlockHash(h)] = h
         /\ \A a \in NodeChain, c \in NodeChain : HeightOf[a] = HeightOf[c] => a = c
         /\ BlockCount \in -1..MaxHeight
<1>1. CASE node = NoBlock
  <2>1. NodeChain = {}
    BY <1>1 DEF NodeChain
  <2>2. BlockCount = StartHeight - 1
    BY <1>1 DEF BlockCount
  <2>3. BlockCount \in -1..MaxHeight /\ \A h \in Int : ~HasHeight(h)
    BY <2>2, TypeAssumption, SyncAssumption DEF HasHeight
  <2>. QED
    BY <2>1, <2>3
<1>2. CASE node \in Block
  <2>1. NodeChain = Anc[node] /\ BlockCount = HeightOf[node]
    BY <1>2, TypeAssumption DEF NodeChain, BlockCount
  <2>2. Anc[node] \subseteq Block /\ HeightOf[node] \in StartHeight..MaxHeight
    BY <1>2, TypeAssumption, TreeAssumption
  <2>3. \A a \in Anc[node] : HeightOf[a] \in StartHeight..HeightOf[node]
    <3>1. \A a \in Anc[node] : a # node => HeightOf[a] < HeightOf[node]
      BY <1>2, TreeAssumption
    <3>2. \A a \in Anc[node] : HeightOf[a] \in StartHeight..MaxHeight
      BY <2>2, TypeAssumption
    <3>. QED
      BY <2>2, <3>1, <3>2, TypeAssumption
  <2>4. \A a \in Anc[node], c \in Anc[node] : HeightOf[a] = HeightOf[c] => a = c
    BY <1>2, <2>3, ChainAssumption
  <2>5. ASSUME NEW h \in Int, HasHeight(h)
        PROVE  BlockHash(h) \in NodeChain /\ HeightOf[BlockHash(h)] = h
    <3>1. \E a \in Anc[node] : HeightOf[a] = h
      BY <1>2, <2>1, <2>5, ChainAssumption DEF HasHeight
    <3>. QED
      BY <2>1, <3>1 DEF BlockHash
  <2>6. BlockCount \in -1..MaxHeight
    BY <2>1, <2>2, TypeAssumption
  <2>. QED
    BY <2>1, <2>2, <2>4, <2>5, <2>6
<1>. QED
  BY <1>1, <1>2 DEF SyncTypeOK

\* The index's hash of its tip, when it has one, is a block of that height.
LEMMA TipHashHeight ==
  ASSUME IndexInv, tipHash # NoBlock
  PROVE  tipHash \in Block /\ HeightOf[tipHash] = tip /\ tip >= StartHeight /\ CanUndo(tip)
<1>1. tipHash = HashAtHeight(tip)
  BY DEF IndexInv
<1>2. tip \in Height /\ heights[tip] # NoEntry
  BY <1>1 DEF HashAtHeight
<1>3. CanUndo(tip)
  BY <1>2 DEF CanUndo
<1>4. tip \in StartHeight..tip
  BY <1>2, <1>3 DEF IndexInv, UndoWindowIsTheTop
<1>5. tip >= StartHeight /\ ~(tip < StartHeight)
  BY <1>4, TypeAssumption DEF IndexInv, TypeOK
<1>6. PICK b \in Block : Holds(b)
  BY <1>5 DEF IndexInv
<1>7. tipHash = b
  BY <1>1, <1>3, <1>6, TipBlock DEF IndexInv
<1>. QED
  BY <1>3, <1>5, <1>6, <1>7 DEF Holds

\* When the tip is on the node's chain, the block that chain has at the next
\* height is a child of it.
LEMMA FetchedExtends ==
  ASSUME SyncInv, pc = "fetch", ~storeErr
  PROVE  Extends(hash) /\ hash \in Block
<1>0. /\ hash \in NodeChain /\ HeightOf[hash] = next /\ OnNodeChain /\ next = NextHeight
      /\ IndexInv /\ SyncTypeOK /\ tip \in -1..MaxHeight
      /\ tip >= StartHeight - 1 \/ tip = -1
  BY DEF SyncInv, SyncTypeOK, TypeOK
<1>1. hash \in Block /\ StartHeight \in Nat
  BY <1>0, NodeHasBlock, TypeAssumption
<1>2. CASE tip < StartHeight
  <2>1. HeightOf[hash] = StartHeight
    BY <1>0, <1>1, <1>2 DEF NextHeight
  <2>2. ASSUME Prev[hash] # NoBlock PROVE FALSE
    <3>1. Prev[hash] \in Block /\ HeightOf[hash] = HeightOf[Prev[hash]] + 1
      BY <1>1, <2>2, Below
    <3>2. HeightOf[Prev[hash]] \in StartHeight..MaxHeight
      BY <3>1, TypeAssumption
    <3>. QED
      BY <1>1, <2>1, <3>1, <3>2
  <2>. QED
    BY <1>1, <1>2, <2>2 DEF Extends
<1>3. CASE tip >= StartHeight
  <2>1. ~(tip < StartHeight) /\ tip >= 0
    BY <1>0, <1>1, <1>3
  <2>2. tipHash \in NodeChain /\ tipHash # NoBlock
    BY <1>0, <1>3, NodeHasBlock, TypeAssumption DEF OnNodeChain
  <2>3. HeightOf[tipHash] = tip
    BY <1>0, <2>2, TipHashHeight
  <2>4. HeightOf[hash] = tip + 1
    BY <1>0, <2>1 DEF NextHeight
  <2>5. Prev[hash] # NoBlock
    <3>1. Prev[hash] = NoBlock => HeightOf[hash] = StartHeight
      BY <1>1, Below, Zenon
    <3>. QED
      BY <1>0, <1>1, <1>3, <2>4, <3>1
  <2>6. /\ Prev[hash] \in Block /\ Prev[hash] \in Anc[hash]
        /\ HeightOf[hash] = HeightOf[Prev[hash]] + 1
    BY <1>1, <2>5, Below, ZenonT(60)
  <2>7. HeightOf[Prev[hash]] = tip
    <3>1. HeightOf[Prev[hash]] \in Int
      BY <2>6, TypeAssumption
    <3>2. tip \in Int
      BY <1>0
    <3>. QED
      BY <2>4, <2>6, <3>1, <3>2
  <2>8. Prev[hash] \in NodeChain
    <3>1. node \in Block /\ NodeChain = Anc[node]
      BY <1>0 DEF NodeChain, SyncTypeOK
    <3>. QED
      BY <1>0, <2>6, <3>1, TreeAssumption
  <2>9. Prev[hash] = tipHash
    BY <1>0, <2>2, <2>3, <2>7, <2>8, NodeHasBlock
  <2>. QED
    BY <1>1, <2>1, <2>2, <2>9 DEF Extends
<1>. QED
  BY <1>0, <1>1, <1>2, <1>3

\* What the walk compares, when the store can be read: at the tip the index
\* has a hash or has pruned it, and hash is the node's block of that height.
LEMMA WalkCompares ==
  ASSUME Steady, SyncInv, Compare
  PROVE  \/ tipHash = hash /\ tipHash \in NodeChain /\ pc' = "next" /\ UNCHANGED vars
         \/ /\ tipHash \notin NodeChain
            /\ tip >= StartHeight
            /\ \/ ~CanUndo(tip) /\ pc' = "next" /\ Reset
               \/ CanUndo(tip) /\ pc' = "walk" /\ UndoBlock(tip)
<1>0. /\ IndexInv /\ SyncTypeOK /\ hash \in NodeChain /\ tip >= StartHeight
      /\ HeightOf[hash] = tip /\ tip \in -1..MaxHeight /\ pc = "compare"
  BY DEF SyncInv, SyncTypeOK, TypeOK, Compare
<1>1. tipHash = HashAtHeight(tip) /\ NoBlock \notin NodeChain
  BY <1>0, NodeHasBlock, TypeAssumption DEF IndexInv
<1>2. \/ /\ tipHash = hash \/ (tipHash = NoBlock /\ ~IsPruned(tip))
         /\ pc' = "next" /\ UNCHANGED vars
      \/ /\ tipHash # hash
         /\ \/ ~CanUndo(tip) /\ pc' = "next" /\ Reset
            \/ CanUndo(tip) /\ pc' = "walk" /\ UndoBlock(tip)
  BY <1>1 DEF Compare, Read, Steady
<1>3. ~(tipHash = NoBlock /\ ~IsPruned(tip))
  <2>. SUFFICES ASSUME tipHash = NoBlock, ~IsPruned(tip) PROVE FALSE
    OBVIOUS
  <2>1. tip \in Height /\ tip \in StartHeight..tip
    BY <1>0, TypeAssumption DEF Height
  <2>2. CanUndo(tip)
    BY <1>0, <2>1 DEF IndexInv, UndoWindowIsTheTop
  <2>3. heights[tip] # NoEntry /\ heights[tip].hash = NoBlock
    BY <1>1, <2>1, <2>2 DEF CanUndo, HashAtHeight
  <2>4. heights[tip] \in Entry
    BY <1>0, <2>1, <2>3 DEF IndexInv, TypeOK
  <2>. QED
    BY <2>3, <2>4, TypeAssumption DEF Entry
<1>4. tipHash # hash => tipHash \notin NodeChain
  <2>. SUFFICES ASSUME tipHash \in NodeChain PROVE tipHash = hash
    OBVIOUS
  <2>1. HeightOf[tipHash] = tip
    BY <1>0, <1>1, TipHashHeight
  <2>. QED
    BY <1>0, <2>1, NodeHasBlock
<1>. QED
  BY <1>0, <1>2, <1>3, <1>4

-----------------------------------------------------------------------------
\* Every step of the poll loop, the node and the order API is a call that
\* Index allows, or none.
LEMMA SyncStepIsCall ==
  ASSUME Steady, SyncInv, [SyncNext]_svars
  PROVE  [Next]_vars
<1>1. CASE UNCHANGED svars
  BY <1>1 DEF svars
<1>2. CASE Poll \/ WalkTip \/ PlanApply \/ ApplyNext \/ RpcFails \/ NodeMoves \/ RpcChanges
  BY <1>2, Zenon
     DEF Poll, WalkTip, PlanApply, ApplyNext, RpcFails, NodeMoves, RpcChanges
<1>3. CASE Compare
  BY <1>3, WalkCompares DEF Next
<1>4. CASE FetchAndApply
  <2>1. pc = "fetch" /\ ApplyBlock(hash)
    BY <1>4 DEF FetchAndApply
  <2>2. CASE storeErr
    BY <2>1, <2>2 DEF ApplyBlock
  <2>3. CASE ~storeErr
    BY <2>1, <2>3, FetchedExtends DEF Next
  <2>. QED
    BY <2>2, <2>3
<1>5. CASE Crash
  BY <1>5 DEF Crash, Next
<1>6. CASE OrderCall
  BY <1>6 DEF OrderCall, Next
<1>. QED
  BY <1>1, <1>2, <1>3, <1>4, <1>5, <1>6 DEF SyncNext, SyncStep

\* A step that leaves the program point's reads alone keeps what they show,
\* when the node's chain only grows.
LEMMA ReadsKept ==
  ASSUME SyncInv, NodeChain \subseteq NodeChain', IndexInv', SyncTypeOK',
         UNCHANGED <<tip, tipHash, syncVars>>, storeErr' = storeErr
  PROVE  SyncInv'
BY DEF SyncInv, syncVars, OnNodeChain, NextHeight

\* The process starts in the invariant.
LEMMA InitSyncInv == SyncInit => SyncInv
<1>. SUFFICES ASSUME SyncInit PROVE SyncInv
  OBVIOUS
<1>1. IndexInv
  BY InitIndexInv DEF SyncInit
<1>2. SyncTypeOK
  BY <1>1, TypeAssumption, SyncAssumption DEF SyncInit, SyncTypeOK, IndexInv
<1>3. tip = -1 /\ pc = "idle"
  BY DEF SyncInit, Init
<1>. QED
  BY <1>1, <1>2, <1>3 DEF SyncInv

\* Every step of syncOnce, the node, the order API and the process keeps it.
LEMMA NextSyncInv ==
  ASSUME Steady, SyncInv, [SyncNext]_svars
  PROVE  SyncInv'
<1>0. /\ StartHeight \in Nat /\ MaxHeight \in Nat /\ StartHeight <= MaxHeight
      /\ tip \in -1..MaxHeight /\ IndexInv /\ SyncTypeOK /\ TypeOK
      /\ tip >= StartHeight - 1 \/ tip = -1
  BY TypeAssumption, SyncAssumption DEF SyncInv, SyncTypeOK, TypeOK
<1>1. IndexInv' /\ TypeOK'
  <2>1. [Next]_vars
    BY SyncStepIsCall
  <2>. QED
    BY <1>0, <2>1, NextIndexInv DEF IndexInv
<1>2. CASE UNCHANGED svars
  <2>1. SyncTypeOK'
    BY <1>0, <1>1, <1>2 DEF svars, syncVars, SyncTypeOK
  <2>. QED
    BY <1>1, <1>2, <2>1, ReadsKept DEF svars, vars, chainVars, NodeChain
<1>3. CASE Poll
  <2>1. BlockCount \in -1..MaxHeight
    BY <1>0, NodeHasBlock
  <2>2. SyncTypeOK'
    BY <1>0, <1>1, <1>3, <2>1 DEF Poll, SyncTypeOK
  <2>. QED
    BY <1>0, <1>1, <1>3, <2>2 DEF Poll, SyncInv, vars, chainVars
<1>4. CASE WalkTip
  <2>0. UNCHANGED <<vars, node, rpcOk, nodeHeight, next, crashes>> /\ pc = "walk"
    BY <1>4 DEF WalkTip
  <2>1. UNCHANGED <<tip, tipHash, storeErr, NodeChain>>
    BY <2>0 DEF vars, chainVars, NodeChain
  <2>2. CASE tip < StartHeight /\ pc' = "next" /\ UNCHANGED hash
    <3>1. SyncTypeOK'
      BY <1>0, <1>1, <2>0, <2>2 DEF SyncTypeOK
    <3>. QED
      BY <1>0, <1>1, <2>1, <2>2, <3>1 DEF SyncInv, OnNodeChain
  <2>3. CASE /\ tip >= StartHeight /\ HasHeight(tip)
             /\ hash' = BlockHash(tip) /\ pc' = "compare"
    <3>1. BlockHash(tip) \in NodeChain /\ HeightOf[BlockHash(tip)] = tip /\ NodeChain \subseteq Block
      BY <1>0, <2>3, NodeHasBlock
    <3>2. SyncTypeOK'
      BY <1>0, <1>1, <2>0, <2>3, <3>1 DEF SyncTypeOK
    <3>. QED
      BY <1>0, <1>1, <2>1, <2>3, <3>1, <3>2 DEF SyncInv
  <2>. QED
    BY <1>4, <2>2, <2>3 DEF WalkTip
<1>5. CASE Compare
  <2>0. UNCHANGED <<node, rpcOk, nodeHeight, next, hash, crashes, NodeChain>>
    BY <1>5, ZenonT(60) DEF Compare, NodeChain
  <2>1. CASE tipHash \in NodeChain /\ pc' = "next" /\ UNCHANGED vars
    <3>1. SyncTypeOK'
      BY <1>0, <1>1, <2>0, <2>1 DEF SyncTypeOK
    <3>. QED
      BY <1>0, <1>1, <2>0, <2>1, <3>1 DEF SyncInv, vars, chainVars, OnNodeChain
  <2>2. CASE tip >= StartHeight /\ pc' = "next" /\ Reset
    <3>1. SyncTypeOK'
      BY <1>0, <1>1, <2>0, <2>2 DEF SyncTypeOK
    <3>2. storeErr' \/ tip' = -1
      BY <2>2 DEF Reset, WriteFails, vars
    <3>3. tip' = tip \/ tip' = -1
      BY <2>2 DEF Reset, WriteFails, vars, chainVars
    <3>. QED
      BY <1>0, <1>1, <2>2, <3>1, <3>2, <3>3 DEF SyncInv, OnNodeChain
  <2>3. CASE tip >= StartHeight /\ pc' = "walk" /\ UndoBlock(tip)
    <3>1. SyncTypeOK'
      BY <1>0, <1>1, <2>0, <2>3 DEF SyncTypeOK
    <3>2. tip' = tip \/ tip' = tip - 1
      BY <2>3 DEF UndoBlock, Undo, WriteFails, vars, chainVars
    <3>. QED
      BY <1>0, <1>1, <2>3, <3>1, <3>2 DEF SyncInv
  <2>. QED
    BY <1>5, <2>1, <2>2, <2>3, WalkCompares
<1>6. CASE PlanApply
  <2>1. NextHeight \in 0..MaxHeight + 1
    BY <1>0 DEF NextHeight
  <2>2. SyncTypeOK'
    BY <1>0, <1>1, <1>6, <2>1 DEF PlanApply, SyncTypeOK
  <2>3. UNCHANGED <<tip, tipHash, storeErr, NodeChain, NextHeight>>
    BY <1>6, Zenon DEF PlanApply, vars, chainVars, NodeChain, NextHeight
  <2>. QED
    BY <1>0, <1>1, <1>6, <2>2, <2>3 DEF PlanApply, SyncInv, OnNodeChain
<1>7. CASE ApplyNext
  <2>0. UNCHANGED <<vars, node, rpcOk, crashes>> /\ pc = "apply"
    BY <1>7 DEF ApplyNext
  <2>1. UNCHANGED <<tip, tipHash, storeErr, NodeChain, NextHeight>>
    BY <2>0, Zenon DEF vars, chainVars, NodeChain, NextHeight
  <2>2. CASE Return
    <3>1. SyncTypeOK'
      BY <1>0, <1>1, <2>0, <2>2 DEF SyncTypeOK, Return
    <3>. QED
      BY <1>0, <1>1, <2>1, <2>2, <3>1 DEF SyncInv, Return
  <2>3. CASE /\ next <= nodeHeight /\ HasHeight(next) /\ hash' = BlockHash(next)
             /\ pc' = "fetch" /\ UNCHANGED <<nodeHeight, next>>
    <3>1. next \in 0..MaxHeight + 1 /\ nodeHeight \in -1..MaxHeight
      BY <1>0 DEF SyncTypeOK
    <3>2. BlockHash(next) \in NodeChain /\ HeightOf[BlockHash(next)] = next /\ NodeChain \subseteq Block
      BY <1>0, <2>3, <3>1, NodeHasBlock
    <3>3. SyncTypeOK'
      BY <1>0, <1>1, <2>0, <2>3, <3>2 DEF SyncTypeOK
    <3>4. next <= MaxHeight
      BY <1>0, <2>3, <3>1
    <3>. QED
      BY <1>0, <1>1, <2>0, <2>1, <2>3, <3>2, <3>3, <3>4 DEF SyncInv, OnNodeChain
  <2>. QED
    BY <1>7, <2>2, <2>3 DEF ApplyNext
<1>8. CASE FetchAndApply
  <2>0. UNCHANGED <<node, rpcOk, crashes, NodeChain>> /\ pc = "fetch" /\ ApplyBlock(hash)
    BY <1>8 DEF FetchAndApply, NodeChain
  <2>1. CASE storeErr' /\ Return
    <3>1. SyncTypeOK'
      BY <1>0, <1>1, <2>0, <2>1 DEF SyncTypeOK, Return
    <3>2. tip' = tip
      <4>1. storeErr \in BOOLEAN
        BY <1>0 DEF TypeOK
      <4>2. Apply(hash) => storeErr' = storeErr
        BY ZenonT(60) DEF Apply
      <4>. QED
        BY <2>0, <2>1, <4>1, <4>2, Zenon DEF ApplyBlock, WriteFails, vars, chainVars
    <3>. QED
      BY <1>0, <1>1, <2>1, <3>1, <3>2 DEF SyncInv, Return
  <2>2. CASE ~storeErr' /\ pc' = "apply" /\ next' = next + 1 /\ UNCHANGED <<nodeHeight, hash>>
    <3>1. ~storeErr /\ Apply(hash)
      BY <2>0, <2>2 DEF ApplyBlock, WriteFails, vars
    <3>2. /\ hash \in NodeChain /\ HeightOf[hash] = next /\ next \in 0..MaxHeight
          /\ hash \in Block
      BY <1>0, <2>0, <3>1, FetchedExtends DEF SyncInv, SyncTypeOK
    <3>3. tip' = next /\ tipHash' = hash
      BY <3>1, <3>2, Zenon DEF Apply
    <3>4. next >= StartHeight
      BY <1>0, <3>2, TypeAssumption
    <3>5. SyncTypeOK'
      BY <1>0, <1>1, <2>0, <2>2, <3>2 DEF SyncTypeOK
    <3>6. next' = NextHeight'
      BY <2>2, <3>2, <3>3 DEF NextHeight
    <3>. QED
      BY <1>0, <1>1, <2>0, <2>2, <3>2, <3>3, <3>4, <3>5, <3>6
         DEF SyncInv, OnNodeChain
  <2>. QED
    BY <1>8, <2>1, <2>2 DEF FetchAndApply
<1>9. CASE RpcFails
  <2>1. SyncTypeOK'
    BY <1>0, <1>1, <1>9 DEF SyncTypeOK, RpcFails, Return
  <2>. QED
    BY <1>0, <1>1, <1>9, <2>1 DEF SyncInv, RpcFails, Return, vars, chainVars
<1>10. CASE NodeMoves
  <2>0. UNCHANGED <<vars, rpcOk, syncVars, crashes>>
    BY <1>10 DEF NodeMoves
  <2>1. PICK b \in Block : node' = b /\ (pc # "idle" => NodeChain \subseteq Anc[b])
    BY <1>10 DEF NodeMoves, Steady
  <2>2. SyncTypeOK'
    BY <1>0, <1>1, <2>0, <2>1 DEF SyncTypeOK, syncVars
  <2>3. CASE pc = "idle"
    BY <1>0, <1>1, <2>0, <2>2, <2>3 DEF SyncInv, syncVars, vars, chainVars
  <2>4. CASE pc # "idle"
    <3>1. NodeChain \subseteq NodeChain'
      BY <2>1, <2>4, TypeAssumption DEF NodeChain
    <3>. QED
      BY <1>1, <2>0, <2>2, <3>1, ReadsKept DEF vars, chainVars
  <2>. QED
    BY <2>3, <2>4
<1>11. CASE RpcChanges
  <2>1. SyncTypeOK'
    BY <1>0, <1>1, <1>11 DEF SyncTypeOK, RpcChanges, syncVars
  <2>. QED
    BY <1>1, <1>11, <2>1, ReadsKept DEF RpcChanges, vars, chainVars, NodeChain
<1>12. CASE Crash
  <2>1. SyncTypeOK'
    BY <1>0, <1>1, <1>12, SyncAssumption DEF SyncTypeOK, Crash, Return
  <2>. QED
    BY <1>0, <1>1, <1>12, <2>1 DEF SyncInv, Crash, Restart, Return, chainVars
<1>13. CASE OrderCall
  <2>1. UNCHANGED <<chainVars, storeErr>>
    BY <1>13 DEF OrderCall, OrderStep, PublishOrder, AdoptMirroredOrder, CancelOrder
  <2>2. UNCHANGED <<node, rpcOk, syncVars, crashes>>
    BY <1>13 DEF OrderCall
  <2>3. SyncTypeOK'
    BY <1>0, <1>1, <2>2 DEF SyncTypeOK, syncVars
  <2>. QED
    BY <1>1, <2>1, <2>2, <2>3, ReadsKept, ZenonT(60) DEF chainVars, NodeChain
<1>. QED
  BY <1>2, <1>3, <1>4, <1>5, <1>6, <1>7, <1>8, <1>9, <1>10, <1>11, <1>12, <1>13
     DEF SyncNext, SyncStep

-----------------------------------------------------------------------------
\* What syncOnce knows at each program point is true when it acts on it.
THEOREM SyncInvariant == Steady => (SyncSpec => []SyncInv)
<1>. SUFFICES ASSUME Steady PROVE SyncSpec => []SyncInv
  OBVIOUS
<1>1. SyncInv /\ [SyncNext]_svars => SyncInv'
  BY NextSyncInv
<1>. QED
  BY <1>1, InitSyncInv, PTL DEF SyncSpec

\* Every variable of the poll loop keeps its type.
THEOREM SyncTypeCorrect == Steady => (SyncSpec => []SyncTypeOK)
<1>1. SyncInv => SyncTypeOK
  BY DEF SyncInv
<1>. QED
  BY <1>1, SyncInvariant, PTL

\* syncOnce calls the index only as Index assumes, whatever the tree.
THEOREM SyncIsDisciplined == Steady => (SyncSpec => CallsAreDisciplined)
<1>. SUFFICES ASSUME Steady PROVE SyncSpec => CallsAreDisciplined
  OBVIOUS
<1>1. SyncInv /\ [SyncNext]_svars => [Next]_vars
  BY SyncStepIsCall
<1>2. SyncInit => Init
  BY DEF SyncInit
<1>. QED
  BY <1>1, <1>2, SyncInvariant, PTL DEF SyncSpec, Spec, CallsAreDisciplined

\* What the poll loop leaves in the tables is always one whole chain, and
\* what the marketplace sees of it follows the abstract Market.
THEOREM SyncKeepsOneChain ==
  Steady => (SyncSpec => []IndexMatchesChain /\ ImplementsMarket)
BY SyncIsDisciplined, IndexCorrect, IndexImplementsMarket, PTL
   DEF CallsAreDisciplined

\* The reorg walk never goes below the fork: it undoes only blocks the node
\* does not have, and throws the index away only once it has undone the window.
THEOREM WalkStopsAtFork == Steady => (SyncSpec => StopsAtFork)
<1>. SUFFICES ASSUME Steady PROVE SyncSpec => StopsAtFork
  OBVIOUS
<1>1. ASSUME SyncInv, [SyncNext]_svars, tip' < tip
      PROVE  \/ tip' = tip - 1 /\ tipHash \in Block \ NodeChain
             \/ tip' = -1 /\ tipHash = NoBlock /\ IsPruned(tip)
  <2>0. tip \in Int /\ tip \in -1..MaxHeight /\ IndexInv /\ tip' # tip
    BY <1>1 DEF SyncInv, IndexInv, TypeOK
  <2>2. ~UNCHANGED vars
    BY <2>0 DEF vars, chainVars
  <2>3. CASE Compare
    <3>0. /\ tipHash \notin NodeChain /\ tip >= StartHeight
          /\ \/ ~CanUndo(tip) /\ Reset
             \/ CanUndo(tip) /\ UndoBlock(tip)
      BY <1>1, <2>2, <2>3, WalkCompares
    <3>1. /\ tip \in Height /\ tip \in StartHeight..tip
          /\ tipHash = HashAtHeight(tip)
      BY <2>0, <3>0, TypeAssumption DEF Height, IndexInv
    <3>2. CASE ~CanUndo(tip) /\ Reset
      <4>1. tip' = -1
        BY <2>0, <2>2, <3>2 DEF Reset, WriteFails, chainVars
      <4>2. IsPruned(tip)
        BY <2>0, <3>1, <3>2 DEF IndexInv, UndoWindowIsTheTop
      <4>3. tipHash = NoBlock
        BY <3>1, <3>2 DEF HashAtHeight, CanUndo
      <4>. QED
        BY <4>1, <4>2, <4>3
    <3>3. CASE CanUndo(tip) /\ UndoBlock(tip)
      <4>1. tip' = tip - 1
        BY <2>0, <2>2, <3>3 DEF UndoBlock, Undo, WriteFails, chainVars
      <4>2. heights[tip] \in Entry /\ tipHash = heights[tip].hash
        BY <2>0, <3>1, <3>3 DEF IndexInv, TypeOK, CanUndo, HashAtHeight
      <4>. QED
        BY <3>0, <4>1, <4>2 DEF Entry
    <3>. QED
      BY <3>0, <3>2, <3>3
  <2>4. CASE FetchAndApply
    <3>1. ~WriteFails
      BY <2>0 DEF WriteFails, chainVars
    <3>2. ~storeErr /\ Apply(hash)
      BY <2>2, <2>4, <3>1 DEF FetchAndApply, ApplyBlock
    <3>3. Extends(hash) /\ hash \in Block
      BY <1>1, <2>4, <3>2, FetchedExtends DEF FetchAndApply
    <3>4. tip < HeightOf[hash] /\ tip' = HeightOf[hash]
      BY <2>0, <3>2, <3>3, ReadyFor, Zenon DEF Apply
    <3>5. HeightOf[hash] \in Int
      BY <3>3, TypeAssumption
    <3>. QED
      BY <1>1, <2>0, <3>4, <3>5
  <2>5. ~(Crash \/ OrderCall)
    BY <2>0, Zenon DEF Crash, Restart, OrderCall, OrderStep, PublishOrder,
                      AdoptMirroredOrder, CancelOrder, chainVars
  <2>6. Poll \/ WalkTip \/ PlanApply \/ ApplyNext \/ RpcFails \/ NodeMoves \/ RpcChanges
          \/ UNCHANGED svars => UNCHANGED vars
    BY Zenon
       DEF Poll, WalkTip, PlanApply, ApplyNext, RpcFails, NodeMoves, RpcChanges,
           svars
  <2>. QED
    BY <1>1, <2>2, <2>3, <2>4, <2>5, <2>6 DEF SyncNext, SyncStep
<1>2. SyncInv /\ [SyncNext]_svars =>
        [tip' < tip =>
           \/ tip' = tip - 1 /\ tipHash \in Block \ NodeChain
           \/ tip' = -1 /\ tipHash = NoBlock /\ IsPruned(tip)]_svars
  BY <1>1
<1>. QED
  BY <1>2, SyncInvariant, PTL DEF SyncSpec, StopsAtFork

=============================================================================
