-------------------------------- MODULE Sync --------------------------------
(***************************************************************************)
(* The poll loop of contrib/uap-indexer/main.go: syncOnce follows the      *)
(* node's best chain through the Index, one RPC or one store transaction a *)
(* step, while the node moves to other chains, calls fail, the order API   *)
(* runs and the process crashes.                                           *)
(*                                                                         *)
(* pc is where syncOnce is; "idle" is between two polls.  Only syncOnce    *)
(* moves the tip, so what it read of the index stays true until it acts;   *)
(* what it read of the node may not.                                       *)
(***************************************************************************)
EXTENDS Index

CONSTANTS
  NodeHoldsStill,   \* the node only extends its chain while a poll is in progress
  StoreReadsFail,   \* a store read may fail, as well as a write
  MaxCrashes        \* bound: crashes in one behaviour

ASSUME SyncAssumption ==
  /\ NodeHoldsStill \in BOOLEAN /\ StoreReadsFail \in BOOLEAN /\ MaxCrashes \in Nat
  /\ StartHeight <= MaxHeight

VARIABLES
  node,        \* the node's best block; NoBlock while it is below StartHeight
  rpcOk,       \* whether the node answers
  pc,
  nodeHeight,  \* GetBlockCount, read once per poll
  next,        \* the height to apply next
  hash,        \* the hash last read from the node
  crashes

syncVars == <<pc, nodeHeight, next, hash>>
svars == <<vars, node, rpcOk, syncVars, crashes>>

\* Each variable is of its type.
SyncTypeOK ==
  /\ TypeOK
  /\ node \in Block \cup {NoBlock}
  /\ rpcOk \in BOOLEAN
  /\ pc \in {"idle", "walk", "compare", "next", "apply", "fetch"}
  /\ nodeHeight \in -1..MaxHeight
  /\ next \in 0..MaxHeight + 1
  /\ hash \in Block \cup {NoBlock}
  /\ crashes \in 0..MaxCrashes

SyncInit ==
  /\ Init
  /\ node = NoBlock /\ rpcOk = TRUE
  /\ pc = "idle" /\ nodeHeight = -1 /\ next = 0 /\ hash = NoBlock
  /\ crashes = 0

Return == pc' = "idle" /\ nodeHeight' = -1 /\ next' = 0 /\ hash' = NoBlock

-----------------------------------------------------------------------------
(***************************************************************************)
(* The node, seen through getblockcount, getblockhash and getblock.  A     *)
(* block once announced is still served by hash after a reorg.             *)
(***************************************************************************)
NodeChain   == IF node = NoBlock THEN {} ELSE Anc[node]
BlockCount  == IF node = NoBlock THEN StartHeight - 1 ELSE HeightOf[node]
HasHeight(h) == h \in StartHeight..BlockCount
BlockHash(h) == CHOOSE b \in NodeChain : HeightOf[b] = h

NodeMoves ==
  /\ \E b \in Block \ {node} :
       /\ node' = b
       /\ NodeHoldsStill /\ pc # "idle" => NodeChain \subseteq Anc[b]
  /\ UNCHANGED <<vars, rpcOk, syncVars, crashes>>

RpcChanges ==
  /\ rpcOk' = ~rpcOk
  /\ UNCHANGED <<vars, node, syncVars, crashes>>

-----------------------------------------------------------------------------
Poll_OneMore ==
  /\ pc = "idle" /\ rpcOk
  /\ nodeHeight' = BlockCount + 1
  /\ pc' = "walk"
  /\ UNCHANGED <<vars, node, rpcOk, next, hash, crashes>>

\* GetBlockCount, then the reorg walk.
Poll ==
  /\ pc = "idle" /\ rpcOk
  /\ nodeHeight' = BlockCount
  /\ pc' = "walk"
  /\ UNCHANGED <<vars, node, rpcOk, next, hash, crashes>>

\* The walk at the tip: it ends below the start height, or asks the node.
WalkTip ==
  /\ pc = "walk"
  /\ \/ tip < StartHeight /\ pc' = "next" /\ UNCHANGED hash
     \/ /\ tip >= StartHeight /\ rpcOk /\ HasHeight(tip)
        /\ hash' = BlockHash(tip)
        /\ pc' = "compare"
  /\ UNCHANGED <<vars, node, rpcOk, nodeHeight, next, crashes>>

\* HashAtHeight and CanUndo turn a failed read into "no".
Read(value, no) == IF StoreReadsFail THEN {value, no} ELSE {value}

Compare_Eager ==
  /\ pc = "compare"
  /\ \/ ~CanUndo(tip) /\ pc' = "next" /\ (IF IsPruned(tip) THEN Reset ELSE UNCHANGED vars)
     \/ CanUndo(tip) /\ pc' = "walk" /\ UndoBlock(tip)
  /\ UNCHANGED <<node, rpcOk, nodeHeight, next, hash, crashes>>

\* Agreement, or a height never indexed, ends the walk.  Otherwise the tip
\* is undone, or everything is when its log is gone.
Compare ==
  /\ pc = "compare"
  /\ \E ours \in Read(HashAtHeight(tip), NoBlock), undoable \in Read(CanUndo(tip), FALSE) :
       \/ /\ ours = hash \/ (ours = NoBlock /\ ~IsPruned(tip))
          /\ pc' = "next" /\ UNCHANGED vars
       \/ /\ ours # hash /\ (ours # NoBlock \/ IsPruned(tip))
          /\ \/ ~undoable /\ pc' = "next" /\ Reset
             \/ undoable /\ pc' = "walk" /\ UndoBlock(tip)
  /\ UNCHANGED <<node, rpcOk, nodeHeight, next, hash, crashes>>

NextHeight_Refetch == IF tip < 0 THEN StartHeight ELSE tip
NextHeight_FromZero == tip + 1

NextHeight == IF tip < 0 THEN StartHeight ELSE tip + 1

PlanApply ==
  /\ pc = "next"
  /\ next' = NextHeight
  /\ pc' = "apply"
  /\ UNCHANGED <<vars, node, rpcOk, nodeHeight, hash, crashes>>

\* The apply loop: up to the height read at the start of the poll.
ApplyNext ==
  /\ pc = "apply"
  /\ \/ next > nodeHeight /\ Return
     \/ /\ next <= nodeHeight /\ rpcOk /\ HasHeight(next)
        /\ hash' = BlockHash(next)
        /\ pc' = "fetch" /\ UNCHANGED <<nodeHeight, next>>
  /\ UNCHANGED <<vars, node, rpcOk, crashes>>

\* GetBlockVerbose(hash), ApplyBlock, next++, StoreErr.
FetchAndApply ==
  /\ pc = "fetch" /\ rpcOk
  /\ ApplyBlock(hash)
  /\ IF storeErr' THEN Return
                  ELSE pc' = "apply" /\ next' = next + 1 /\ UNCHANGED <<nodeHeight, hash>>
  /\ UNCHANGED <<node, rpcOk, crashes>>

\* A call that fails, or a height the node's chain does not have, ends the poll.
RpcFails ==
  /\ \/ pc \in {"walk", "apply", "fetch"} /\ ~rpcOk
     \/ pc = "walk" /\ ~HasHeight(tip)
     \/ pc = "apply" /\ ~HasHeight(next)
  /\ pc = "walk" => tip >= StartHeight
  /\ pc = "apply" => next <= nodeHeight
  /\ Return
  /\ UNCHANGED <<vars, node, rpcOk, crashes>>

SyncStep ==
  \/ Poll \/ WalkTip \/ Compare \/ PlanApply
  \/ ApplyNext \/ FetchAndApply \/ RpcFails

Crash ==
  /\ crashes < MaxCrashes
  /\ crashes' = crashes + 1
  /\ Restart
  /\ Return
  /\ UNCHANGED <<node, rpcOk>>

OrderCall == OrderStep /\ UNCHANGED <<node, rpcOk, syncVars, crashes>>

SyncNext == SyncStep \/ NodeMoves \/ RpcChanges \/ Crash \/ OrderCall

SyncSpec == SyncInit /\ [][SyncNext]_svars

\* The poll loop is a goroutine that is always scheduled.
FairSyncSpec == SyncSpec /\ WF_svars(SyncStep)

-----------------------------------------------------------------------------
\* syncOnce calls the index only as Index assumes: it applies a child of
\* the tip, undoes the tip, and rebuilds only what it cannot undo.
CallsAreDisciplined == Spec

\* The walk goes down to the fork and no further: the tip moves down by one
\* block, which the node no longer has, or to nothing, which happens only when
\* the whole window has been undone.  (Its lower edge has no hash to compare
\* any more, so the walk starts over there also when the edge is the fork.)
StopsAtFork ==
  [][tip' < tip =>
       \/ tip' = tip - 1 /\ tipHash \in Block \ NodeChain
       \/ tip' = -1 /\ tipHash = NoBlock /\ IsPruned(tip)]_svars

\* Once the node settles on a chain at least as high as the index, answers,
\* and the store works, the index arrives at exactly that chain and stays.
CatchesUp ==
  \A b \in Block :
    <>[](node = b /\ rpcOk /\ ~storeErr /\ tip <= HeightOf[b])
      => <>[](/\ tip = HeightOf[b] /\ tipHash = b
              /\ positions = PositionsOf(Anc[b]) /\ utxos = UTXOsOf(Anc[b]))

\* Whatever a poll meets, it ends and the loop gets to poll again.
StoreErrorEndsPoll == storeErr ~> (pc = "idle")
=============================================================================
