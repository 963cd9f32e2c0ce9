------------------------------- MODULE Index -------------------------------
(***************************************************************************)
(* The uap-indexer's index (contrib/uap-indexer: index.go, store.go,       *)
(* orders.go): positions, UTXOs, the undo log, the order book and its      *)
(* tombstones, written one SQLite transaction at a time under idx.mu.      *)
(*                                                                         *)
(* A write either commits whole or leaves the store untouched and latches  *)
(* storeErr, so every operation below is one atomic action, with its       *)
(* failing outcome as a second action.  The tip, its hash and prunedBelow  *)
(* are written to the meta table by every commit and to memory right after *)
(* it under the same lock: one variable stands for both copies.            *)
(*                                                                         *)
(* A row absent from a table is the value Absent, -1, NoEntry or NoOrder.  *)
(* An order is its scriptSig: a fragment signed for one outpoint.  What    *)
(* the cancel nonce adds is in module CancelAuth, the lineage aggregates   *)
(* in module Lineage.                                                      *)
(***************************************************************************)
EXTENDS Chain

CONSTANTS
  Fragment,    \* signed order fragments (scriptSigs)
  Offers,      \* the pairs <<outpoint, fragment>> that pass publishOrder's own checks
  NoOrder,     \* no row in orders or order_tombstones
  NoEntry,     \* no row in heights
  ReorgWindow  \* -reorgwindow, 0 retains everything

ASSUME IndexAssumption ==
  /\ Offers \subseteq UAP \X Fragment
  /\ NoOrder \notin Fragment
  /\ ReorgWindow \in Nat

VARIABLES
  tip,          \* TipHeight
  tipHash,      \* TipHash
  prunedBelow,  \* PrunedBelow
  heights,      \* heights table: height -> [hash, undo]
  positions,    \* positions table
  utxos,        \* utxos table: the height of the output, -1 when there is no row
  orders,       \* orders table
  tombs,        \* order_tombstones table
  storeErr      \* storeErr # nil (in memory only)

chainVars == <<tip, tipHash, prunedBelow, heights, positions, utxos>>
vars == <<chainVars, orders, tombs, storeErr>>

Book == [Outpoint -> Fragment \cup {NoOrder}]
Row == [height : -1..MaxHeight, spentTx : Tx \cup {NoTx}, spentHeight : Height]
Change == [created : SUBSET Outpoint, spentKeys : SUBSET Outpoint,
           utxosCreated : SUBSET Outpoint, utxosSpent : [Outpoint -> -1..MaxHeight],
           ordersPruned : Book]
Entry == [hash : Block, undo : Change]

ASSUME EntryAssumption == NoEntry \notin Entry

\* Each variable is of its type.
TypeOK ==
  /\ tip \in -1..MaxHeight
  /\ tipHash \in Block \cup {NoBlock}
  /\ prunedBelow \in 0..MaxHeight + 1
  /\ heights \in [Height -> Entry \cup {NoEntry}]
  /\ positions \in [Outpoint -> Row]
  /\ utxos \in [Outpoint -> -1..MaxHeight]
  /\ orders \in Book
  /\ tombs \in Book
  /\ storeErr \in BOOLEAN

Init ==
  /\ tip = -1
  /\ tipHash = NoBlock
  /\ prunedBelow = 0
  /\ heights = [h \in Height |-> NoEntry]
  /\ positions = [k \in Outpoint |-> Absent]
  /\ utxos = [k \in Outpoint |-> -1]
  /\ orders = [k \in Outpoint |-> NoOrder]
  /\ tombs = [k \in Outpoint |-> NoOrder]
  /\ storeErr = FALSE

Known(p)   == p.height # -1
Unspent(p) == p.height # -1 /\ p.spentTx = NoTx
Marked(p, t, h) == [height |-> p.height, spentTx |-> t, spentHeight |-> h]

HashAtHeight(h) ==
  IF h \in Height /\ heights[h] # NoEntry THEN heights[h].hash ELSE NoBlock
CanUndo(h)  == h \in Height /\ heights[h] # NoEntry
IsPruned(h) == h < prunedBelow

-----------------------------------------------------------------------------
(***************************************************************************)
(* ApplyBlock.  The code goes through the block transaction by transaction,*)
(* inputs first.  In a block the node serves, an input spends an output of *)
(* an earlier transaction of the block or of an earlier block, so putting  *)
(* all outputs first and then spending all inputs has the same effect.     *)
(***************************************************************************)
\* putPosition: a conflicting row keeps its height and loses its spent mark.
PositionsCreated(b) ==
  [k \in Outpoint |->
     IF k \in UAP \cap OutsOf(b)
       THEN [Absent EXCEPT !.height =
               IF Known(positions[k]) THEN positions[k].height ELSE HeightOf[b]]
       ELSE positions[k]]

SpentKeys(b) == {k \in InsOf(b) : Unspent(PositionsCreated(b)[k])}

PositionsApplied(b) ==
  [k \in Outpoint |->
     IF k \in SpentKeys(b)
       THEN Marked(PositionsCreated(b)[k], Spender(b, k), HeightOf[b])
       ELSE PositionsCreated(b)[k]]

\* putUTXO: a conflicting row stays as it is.
UTXOsCreated(b) ==
  [k \in Outpoint |->
     IF k \in P2PKH \cap OutsOf(b) /\ utxos[k] = -1 THEN HeightOf[b] ELSE utxos[k]]

UTXOsApplied(b) ==
  [k \in Outpoint |-> IF k \in InsOf(b) THEN -1 ELSE UTXOsCreated(b)[k]]

\* A standing order for a position the block spends is pruned.
OrdersApplied(b) ==
  [k \in Outpoint |-> IF k \in SpentKeys(b) THEN NoOrder ELSE orders[k]]

\* heightChange: everything the block did, so that UndoBlock can reverse it.
UndoLog(b) ==
  [created |-> UAP \cap OutsOf(b),
   spentKeys |-> SpentKeys(b),
   utxosCreated |-> P2PKH \cap OutsOf(b),
   utxosSpent |-> [k \in Outpoint |-> IF k \in InsOf(b) THEN UTXOsCreated(b)[k] ELSE -1],
   ordersPruned |-> [k \in Outpoint |-> IF k \in SpentKeys(b) THEN orders[k] ELSE NoOrder]]

PruneCutoff_KeepOne(b) ==
  IF ReorgWindow > 0 /\ HeightOf[b] - ReorgWindow >= prunedBelow
    THEN HeightOf[b] - ReorgWindow ELSE prunedBelow

\* The lowest height whose undo log survives the application of b.
PruneCutoff(b) ==
  IF ReorgWindow > 0 /\ HeightOf[b] - ReorgWindow >= prunedBelow
    THEN HeightOf[b] - ReorgWindow + 1 ELSE prunedBelow

Apply(b) ==
  /\ positions' = PositionsApplied(b)
  /\ utxos' = UTXOsApplied(b)
  /\ orders' = OrdersApplied(b)
  /\ heights' = [h \in Height |->
       IF PruneCutoff(b) # prunedBelow /\ h < PruneCutoff(b) THEN NoEntry
       ELSE IF h = HeightOf[b] THEN [hash |-> b, undo |-> UndoLog(b)]
       ELSE heights[h]]
  /\ tip' = HeightOf[b]
  /\ tipHash' = b
  /\ prunedBelow' = PruneCutoff(b)
  /\ UNCHANGED <<tombs, storeErr>>

\* begin, a statement, putMeta or commit failed: rolled back, error latched.
WriteFails ==
  /\ storeErr' = TRUE
  /\ UNCHANGED <<chainVars, orders, tombs>>

\* Index.write: nothing at all happens once an error is latched.
ApplyBlock(b) ==
  \/ storeErr /\ UNCHANGED vars
  \/ ~storeErr /\ Apply(b)
  \/ ~storeErr /\ WriteFails

-----------------------------------------------------------------------------
(***************************************************************************)
(* UndoBlock of height h, from its undo log c.                             *)
(***************************************************************************)
\* Created rows go; of the spent ones, those still there are unspent again.
PositionsUndone(c) ==
  [k \in Outpoint |->
     IF k \in c.created THEN Absent
     ELSE IF k \in c.spentKeys /\ Known(positions[k])
       THEN Marked(positions[k], NoTx, 0)
     ELSE positions[k]]

OrdersUndone_Replaced(c) == c.ordersPruned

\* Pruned orders come back, except for positions this block also created.
OrdersUndone(c) ==
  [k \in Outpoint |->
     IF c.ordersPruned[k] # NoOrder /\ k \notin c.created
       THEN c.ordersPruned[k] ELSE orders[k]]

UTXOsUndone_All(c) ==
  [k \in Outpoint |->
     IF c.utxosSpent[k] # -1 THEN c.utxosSpent[k]
     ELSE IF k \in c.utxosCreated THEN -1
     ELSE utxos[k]]

\* Created UTXOs go; spent ones come back, except any this block also created.
UTXOsUndone(c) ==
  [k \in Outpoint |->
     IF k \in c.utxosCreated THEN -1
     ELSE IF c.utxosSpent[k] # -1 /\ utxos[k] = -1 THEN c.utxosSpent[k]
     ELSE utxos[k]]

Undo(h) ==
  /\ LET c == heights[h].undo IN
       /\ positions' = PositionsUndone(c)
       /\ orders' = OrdersUndone(c)
       /\ utxos' = UTXOsUndone(c)
  /\ heights' = [heights EXCEPT ![h] = NoEntry]
  /\ IF tip = h
       THEN tip' = h - 1 /\ tipHash' = HashAtHeight(h - 1)
       ELSE UNCHANGED <<tip, tipHash>>
  /\ UNCHANGED <<prunedBelow, tombs, storeErr>>

\* Without an undo log, or with an error latched, nothing happens.
UndoBlock(h) ==
  \/ (storeErr \/ ~CanUndo(h)) /\ UNCHANGED vars
  \/ ~storeErr /\ CanUndo(h) /\ Undo(h)
  \/ ~storeErr /\ WriteFails

\* truncate keeps order_tombstones.
TombsReset == tombs

\* Reset: truncate every other table.
Reset ==
  \/ storeErr /\ UNCHANGED vars
  \/ /\ ~storeErr
     /\ tip' = -1 /\ tipHash' = NoBlock /\ prunedBelow' = 0
     /\ heights' = [h \in Height |-> NoEntry]
     /\ positions' = [k \in Outpoint |-> Absent]
     /\ utxos' = [k \in Outpoint |-> -1]
     /\ orders' = [k \in Outpoint |-> NoOrder]
     /\ tombs' = TombsReset
     /\ UNCHANGED storeErr
  \/ ~storeErr /\ WriteFails

-----------------------------------------------------------------------------
(***************************************************************************)
(* The order book (orders.go).  A failed begin, statement or commit here   *)
(* returns an error without latching it and changes nothing.               *)
(***************************************************************************)
PublishOrder_Spent(k, f) ==
  /\ ~storeErr /\ Known(positions[k])
  /\ orders' = [orders EXCEPT ![k] = f]
  /\ tombs' = [tombs EXCEPT ![k] = NoOrder]
  /\ UNCHANGED <<chainVars, storeErr>>

\* publishOrder(o, false): a maker's own publish clears the tombstone.
PublishOrder(k, f) ==
  /\ ~storeErr /\ Unspent(positions[k])
  /\ orders' = [orders EXCEPT ![k] = f]
  /\ tombs' = [tombs EXCEPT ![k] = NoOrder]
  /\ UNCHANGED <<chainVars, storeErr>>

AdoptMirroredOrder_Blind(k, f) ==
  /\ ~storeErr /\ Unspent(positions[k])
  /\ orders' = [orders EXCEPT ![k] = f]
  /\ UNCHANGED <<chainVars, tombs, storeErr>>

\* publishOrder(o, true): a peer's order is refused if withdrawn here.
AdoptMirroredOrder(k, f) ==
  /\ ~storeErr /\ Unspent(positions[k])
  /\ tombs[k] # f
  /\ orders' = [orders EXCEPT ![k] = f]
  /\ UNCHANGED <<chainVars, tombs, storeErr>>

\* CancelOrder, with a signature that authorises it: StoredOrder reads the
\* row itself, whether or not its position is still there.
CancelOrder(k) ==
  /\ ~storeErr /\ orders[k] # NoOrder
  /\ orders' = [orders EXCEPT ![k] = NoOrder]
  /\ tombs' = [tombs EXCEPT ![k] = orders[k]]
  /\ UNCHANGED <<chainVars, storeErr>>

\* The process stops and LoadIndex reopens the database: committed state
\* survives, the latched error does not.
Restart ==
  /\ storeErr' = FALSE
  /\ UNCHANGED <<chainVars, orders, tombs>>

-----------------------------------------------------------------------------
(***************************************************************************)
(* The calls of a caller that keeps to what the reorg walk is for: it      *)
(* applies only a child of the block it has as tip, undoes only the tip,   *)
(* and rebuilds when the tip has no undo log left.  Module Sync is the     *)
(* real caller.                                                            *)
(***************************************************************************)
Extends(b) ==
  IF tip < StartHeight THEN Prev[b] = NoBlock
                       ELSE tipHash # NoBlock /\ Prev[b] = tipHash

OrderStep ==
  \/ \E o \in Offers : PublishOrder(o[1], o[2])
  \/ \E o \in Offers : AdoptMirroredOrder(o[1], o[2])
  \/ \E k \in UAP : CancelOrder(k)

Next ==
  \/ \E b \in Block : Extends(b) /\ ApplyBlock(b)
  \/ tip >= StartHeight /\ CanUndo(tip) /\ UndoBlock(tip)
  \/ tip >= StartHeight /\ ~CanUndo(tip) /\ Reset
  \/ OrderStep
  \/ Restart

Spec == Init /\ [][Next]_vars

-----------------------------------------------------------------------------
\* What the index holds is exactly what the blocks of one chain, the one
\* that ends in its tip, make of it: no row of an orphaned block is left
\* and none of the chain's own is missing, through any sequence of apply,
\* undo, rebuild, failed write and restart.
IndexMatchesChain ==
  IF tip < StartHeight
    THEN positions = PositionsOf({}) /\ utxos = UTXOsOf({})
    ELSE \E b \in Block :
           /\ HeightOf[b] = tip
           /\ tipHash \in {b, NoBlock}
           /\ positions = PositionsOf(Anc[b])
           /\ utxos = UTXOsOf(Anc[b])

\* No order stands for a position the index has as spent: publishing checks
\* it, applying prunes it, and undoing restores an order only together with
\* its position.
NoOrderForSpentPosition ==
  \A k \in UAP : orders[k] # NoOrder => positions[k].spentTx = NoTx

\* The fragment last withdrawn on an outpoint stays withdrawn until the maker
\* publishes there again: neither a mirror pull, nor the undo of the block that
\* had filled it, nor a rebuild brings it back.  (Of those withdrawn before it
\* nothing is remembered: see module Withdrawals.)
LastWithdrawalSticks ==
  \A k \in UAP : tombs[k] # NoOrder => orders[k] # tombs[k]

\* The undo log is contiguous: every height from the lower end of the
\* window to the tip can be undone, no other can, and there are never more
\* than ReorgWindow of them.
UndoWindowIsTheTop ==
  /\ \A h \in Height :
       CanUndo(h) <=> h \in StartHeight..tip /\ ~IsPruned(h)
  /\ ReorgWindow > 0 /\ tip >= StartHeight => tip - prunedBelow < ReorgWindow

-----------------------------------------------------------------------------
\* What the order endpoints can show: orderQuery joins orders with the
\* positions that are not spent.
Open    == {k \in UAP : Unspent(positions[k])}
Funds   == {k \in Outpoint : utxos[k] # -1}
Listing == {<<k, orders[k]>> : k \in {k \in Open : orders[k] # NoOrder}}

M == INSTANCE Market WITH
  OpenAt  <- [b \in Block \cup {NoBlock} |-> OpenIn(ChainTo(b))],
  FundsAt <- [b \in Block \cup {NoBlock} |-> FundsIn(ChainTo(b))],
  open <- Open, funds <- Funds, listing <- Listing

\* The index implements the marketplace's view of it: every write, undo,
\* rebuild, failure and restart is a step the view allows or no step of it.
ImplementsMarket == M!Spec
=============================================================================
