------------------------------- MODULE Chain -------------------------------
(***************************************************************************)
(* The block tree the node chooses its best chain from, as the indexer     *)
(* sees it through getblockhash / getblock: a block is its hash, and what  *)
(* the index keeps of its content is which outpoints its transactions      *)
(* create and spend.  Only blocks at or above the configured start height  *)
(* appear; a root of the tree has Prev = NoBlock.                          *)
(*                                                                         *)
(* The assumptions are what consensus guarantees of every single chain     *)
(* (not of the tree: a transaction may be mined in two competing blocks).  *)
(***************************************************************************)
EXTENDS Integers

CONSTANTS
  Block,       \* block hashes
  NoBlock,     \* the empty hash
  Prev,        \* [Block -> Block \cup {NoBlock}]: previousblockhash
  HeightOf,    \* [Block -> StartHeight..MaxHeight]
  Anc,         \* [Block -> SUBSET Block]: the chain that ends in a block
  Tx,          \* transactions
  NoTx,        \* the empty txid
  TxsOf,       \* [Block -> SUBSET Tx]
  Outpoint,    \* "txid:vout" keys
  Ins, Outs,   \* [Tx -> SUBSET Outpoint]: outpoints a transaction spends, creates
  UAP,         \* the outpoints whose script ParseUAPScript recognises
  P2PKH,       \* the outpoints whose script ParseP2PKHScript recognises
  StartHeight, \* -startheight
  MaxHeight    \* bound: the highest block of the tree

Height == 0..MaxHeight

\* What one block creates and spends, over all its transactions.
OutsOf(b) == UNION {Outs[t] : t \in TxsOf[b]}
InsOf(b)  == UNION {Ins[t] : t \in TxsOf[b]}
Spender(b, k) == CHOOSE t \in TxsOf[b] : k \in Ins[t]

ASSUME TypeAssumption ==
  /\ StartHeight \in Nat /\ MaxHeight \in Nat
  /\ NoBlock \notin Block /\ NoTx \notin Tx
  /\ Prev \in [Block -> Block \cup {NoBlock}]
  /\ HeightOf \in [Block -> StartHeight..MaxHeight]
  /\ TxsOf \in [Block -> SUBSET Tx]
  /\ Ins \in [Tx -> SUBSET Outpoint] /\ Outs \in [Tx -> SUBSET Outpoint]
  /\ UAP \subseteq Outpoint /\ P2PKH \subseteq Outpoint
  /\ UAP \cap P2PKH = {}

\* Heights count up from the start height, and Anc[b] is the chain from a root to b.
ASSUME TreeAssumption ==
  /\ Anc \in [Block -> SUBSET Block]
  /\ \A b \in Block :
       IF Prev[b] = NoBlock
         THEN HeightOf[b] = StartHeight /\ Anc[b] = {b}
         ELSE HeightOf[b] = HeightOf[Prev[b]] + 1 /\ Anc[b] = {b} \cup Anc[Prev[b]]
  /\ \A b \in Block : \A a \in Anc[b] :
       /\ Anc[a] \subseteq Anc[b]
       /\ a # b => HeightOf[a] < HeightOf[b]

\* A chain has one block at each height from the start height to its end.
ASSUME ChainAssumption ==
  \A b \in Block : \A h \in StartHeight..HeightOf[b] :
    \E a \in Anc[b] : HeightOf[a] = h /\ \A c \in Anc[b] : HeightOf[c] = h => c = a

\* Consensus, per chain: an outpoint is created once and spent once, by one
\* transaction of one block, and never before it is created.
ASSUME ConsensusAssumption ==
  /\ \A b \in Block : \A a \in Anc[b], c \in Anc[b] :
       /\ OutsOf(a) \cap OutsOf(c) # {} => a = c
       /\ InsOf(a) \cap InsOf(c) # {} => a = c
       /\ InsOf(a) \cap OutsOf(c) # {} => c \in Anc[a]
  /\ \A b \in Block : \A t \in TxsOf[b], u \in TxsOf[b] :
       Ins[t] \cap Ins[u] # {} => t = u

-----------------------------------------------------------------------------
(***************************************************************************)
(* The reference: what an index of exactly the blocks of C must hold,      *)
(* computed from the blocks and not from any sequence of operations.       *)
(***************************************************************************)
CreatedIn(C, k) == \E b \in C : k \in OutsOf(b)
SpentIn(C, k)   == \E b \in C : k \in InsOf(b)
Creator(C, k)   == CHOOSE b \in C : k \in OutsOf(b)
Ender(C, k)     == CHOOSE b \in C : k \in InsOf(b)

Absent == [height |-> -1, spentTx |-> NoTx, spentHeight |-> 0]

PositionsOf(C) ==
  [k \in Outpoint |->
     IF k \in UAP /\ CreatedIn(C, k)
       THEN [height      |-> HeightOf[Creator(C, k)],
             spentTx     |-> IF SpentIn(C, k) THEN Spender(Ender(C, k), k) ELSE NoTx,
             spentHeight |-> IF SpentIn(C, k) THEN HeightOf[Ender(C, k)] ELSE 0]
       ELSE Absent]

UTXOsOf(C) ==
  [k \in Outpoint |->
     IF k \in P2PKH /\ CreatedIn(C, k) /\ ~SpentIn(C, k)
       THEN HeightOf[Creator(C, k)] ELSE -1]

\* The same as sets: the positions that are open, the outputs that can be spent.
OpenIn(C)  == {k \in UAP : CreatedIn(C, k) /\ ~SpentIn(C, k)}
FundsIn(C) == {k \in P2PKH : CreatedIn(C, k) /\ ~SpentIn(C, k)}

\* The chain that ends in b; no block at all for NoBlock.
ChainTo(b) == IF b = NoBlock THEN {} ELSE Anc[b]
=============================================================================
