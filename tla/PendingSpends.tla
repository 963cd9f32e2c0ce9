---------------------------- MODULE PendingSpends ----------------------------
(***************************************************************************)
(* The set of positions being spent by unconfirmed transactions, which     *)
(* keeps an order off the book while its fill waits to be mined            *)
(* (contrib/uap-indexer: mempool.go, the broadcast handler of api.go).     *)
(*                                                                         *)
(* The poller rebuilds the set from the node's mempool; every broadcast    *)
(* adds to it from a goroutine of its own.  Each RPC and each hold of      *)
(* idx.mu is one step.  syncOnce and the poller are the same goroutine, so *)
(* the positions do not change while a rebuild runs.                       *)
(***************************************************************************)
CONSTANTS
  Tx,        \* transactions
  NoTx,      \* the empty txid
  Position,  \* outpoints of positions
  Ins,       \* [Tx -> SUBSET Position]: the positions a transaction spends
  StoreReadsFail  \* whether a read of the position table may fail

ASSUME PendingAssumption ==
  NoTx \notin Tx /\ Ins \in [Tx -> SUBSET Position] /\ StoreReadsFail \in BOOLEAN

VARIABLES
  mempool, mined,  \* the node's: unconfirmed and confirmed transactions
  applied,         \* confirmed transactions the index has applied
  rpcOk,           \* whether the node answers
  pending,         \* idx.pendingSpends
  poll,            \* where the poll loop is
  listed,          \* txids: GetRawMempool's answer
  left,            \* the part of txids still to be fetched
  carry,           \* carryForward
  fresh,           \* newPending
  bc,              \* where the broadcast of each transaction is
  noteLeft,        \* inputs NotePendingSpends has still to look up
  noteHit          \* the input found unspent and not yet recorded

nodeVars == <<mempool, mined, applied, rpcOk>>
pollVars == <<poll, listed, left, carry, fresh>>
noteVars == <<bc, noteLeft, noteHit>>
vars == <<nodeVars, pending, pollVars, noteVars>>

Spends == [Position -> Tx \cup {NoTx}]
Nothing == [k \in Position |-> NoTx]

\* Each variable is of its type.
TypeOK ==
  /\ mempool \subseteq Tx /\ mined \subseteq Tx /\ applied \subseteq Tx
  /\ rpcOk \in BOOLEAN
  /\ pending \in Spends /\ carry \in Spends /\ fresh \in Spends
  /\ poll \in {"sync", "list", "carry", "fetch"}
  /\ listed \subseteq Tx /\ left \subseteq listed
  /\ bc \in [Tx -> {"none", "sent", "note", "answered", "failed"}]
  /\ noteLeft \in [Tx -> SUBSET Position] /\ noteHit \in [Tx -> SUBSET Position]

Init ==
  /\ mempool = {} /\ mined = {} /\ applied = {} /\ rpcOk = TRUE
  /\ pending = Nothing
  /\ poll = "sync" /\ listed = {} /\ left = {} /\ carry = Nothing /\ fresh = Nothing
  /\ bc = [t \in Tx |-> "none"] /\ noteLeft = [t \in Tx |-> {}] /\ noteHit = [t \in Tx |-> {}]

\* What the position table says of k: found and not spent.
KnownUnspent(k) == \A t \in applied : k \notin Ins[t]

\* The inputs of t that store.Position reports as known and unspent; one it
\* cannot read counts as unknown.
Lookups(t) ==
  LET hits == {k \in Ins[t] : KnownUnspent(k)}
  IN  IF StoreReadsFail THEN SUBSET hits ELSE {hits}

-----------------------------------------------------------------------------
(***************************************************************************)
(* The node: a mempool without conflicts, blocks, reorgs, evictions.       *)
(***************************************************************************)
Accepts(t) ==
  /\ t \notin mined
  /\ \A u \in (mempool \cup mined) \ {t} : Ins[t] \cap Ins[u] = {}

Arrives(t) == Accepts(t) /\ mempool' = mempool \cup {t} /\ UNCHANGED <<mined, applied, rpcOk>>

Mine(t) ==
  /\ t \in mempool /\ mempool' = mempool \ {t} /\ mined' = mined \cup {t}
  /\ UNCHANGED <<applied, rpcOk>>

Reorg(t) ==
  /\ t \in mined /\ mined' = mined \ {t} /\ mempool' = mempool \cup {t}
  /\ UNCHANGED <<applied, rpcOk>>

Evict(t) == t \in mempool /\ mempool' = mempool \ {t} /\ UNCHANGED <<mined, applied, rpcOk>>

RpcChanges == rpcOk' = ~rpcOk /\ UNCHANGED <<mempool, mined, applied>>

NodeStep ==
  /\ \/ \E t \in Tx : Arrives(t) \/ Mine(t) \/ Reorg(t) \/ Evict(t)
     \/ RpcChanges
  /\ UNCHANGED <<pending, pollVars, noteVars>>

-----------------------------------------------------------------------------
(***************************************************************************)
(* The poll loop: syncOnce, then UpdatePendingSpends, whether or not       *)
(* syncOnce succeeded.                                                     *)
(***************************************************************************)
Sync ==
  /\ poll = "sync" /\ poll' = "list"
  /\ applied' = IF rpcOk THEN mined ELSE applied
  /\ UNCHANGED <<mempool, mined, rpcOk, pending, listed, left, carry, fresh, noteVars>>

\* GetRawMempool; when it fails the set is left unchanged.
PollList ==
  /\ poll = "list"
  /\ IF rpcOk THEN poll' = "carry" /\ listed' = mempool /\ left' = mempool
              ELSE poll' = "sync" /\ UNCHANGED <<listed, left>>
  /\ UNCHANGED <<nodeVars, pending, carry, fresh, noteVars>>

\* pendingSpendsByTxid.
PollCarry ==
  /\ poll = "carry"
  /\ poll' = "fetch" /\ carry' = pending
  /\ UNCHANGED <<nodeVars, pending, listed, left, fresh, noteVars>>

Found(t, hits) == [k \in Position |-> IF k \in hits THEN t ELSE fresh[k]]

Carried_Skip(t) == fresh

Carried(t) ==
  [k \in Position |-> IF carry[k] = t THEN t ELSE fresh[k]]

\* GetRawTransaction of one listed txid.  The node still has what is in its
\* mempool; what has left it since may or may not be found.
PollFetch(t) ==
  /\ poll = "fetch" /\ t \in left
  /\ left' = left \ {t}
  /\ \/ rpcOk /\ \E hits \in Lookups(t) : fresh' = Found(t, hits)
     \/ (~rpcOk \/ t \notin mempool) /\ fresh' = Carried(t)
  /\ UNCHANGED <<nodeVars, pending, poll, listed, carry, noteVars>>

Swapped_Merge ==
  [k \in Position |-> IF fresh[k] # NoTx THEN fresh[k] ELSE pending[k]]

\* The set is replaced, not merged.
Swapped == fresh

PollSwap_Early ==
  /\ poll = "fetch"
  /\ pending' = Swapped
  /\ poll' = "sync" /\ listed' = {} /\ carry' = Nothing /\ fresh' = Nothing
  /\ UNCHANGED <<nodeVars, left, noteVars>>

PollSwap ==
  /\ poll = "fetch" /\ left = {}
  /\ pending' = Swapped
  /\ poll' = "sync" /\ listed' = {} /\ carry' = Nothing /\ fresh' = Nothing
  /\ UNCHANGED <<nodeVars, left, noteVars>>

PollStep == Sync \/ PollList \/ PollCarry \/ (\E t \in Tx : PollFetch(t)) \/ PollSwap

-----------------------------------------------------------------------------
(***************************************************************************)
(* POST /broadcast, then NotePendingSpends from the broadcast hook.        *)
(***************************************************************************)
Send(t) ==
  /\ bc[t] = "none" /\ rpcOk /\ Arrives(t)
  /\ bc' = [bc EXCEPT ![t] = "sent"]
  /\ UNCHANGED <<pending, pollVars, noteLeft, noteHit>>

\* GetRawTransaction: a failure is only logged.
NoteFetch(t) ==
  /\ bc[t] = "sent"
  /\ \/ /\ rpcOk
        /\ bc' = [bc EXCEPT ![t] = "note"] /\ noteLeft' = [noteLeft EXCEPT ![t] = Ins[t]]
     \/ /\ ~rpcOk \/ t \notin mempool
        /\ bc' = [bc EXCEPT ![t] = "failed"] /\ UNCHANGED noteLeft
  /\ UNCHANGED <<nodeVars, pending, pollVars, noteHit>>

\* One input is looked up ...
NoteLookup(t, k) ==
  /\ bc[t] = "note" /\ noteHit[t] = {} /\ k \in noteLeft[t]
  /\ noteLeft' = [noteLeft EXCEPT ![t] = @ \ {k}]
  /\ \E hits \in Lookups(t) : noteHit' = [noteHit EXCEPT ![t] = hits \cap {k}]
  /\ UNCHANGED <<nodeVars, pending, pollVars, bc>>

Noted(t) == [k \in Position |-> IF k \in noteHit[t] THEN t ELSE pending[k]]

\* ... and, if it is a known unspent position, recorded.
NoteSet(t) ==
  /\ bc[t] = "note" /\ noteHit[t] # {}
  /\ pending' = Noted(t) /\ noteHit' = [noteHit EXCEPT ![t] = {}]
  /\ UNCHANGED <<nodeVars, pollVars, bc, noteLeft>>

Answer(t) ==
  /\ bc[t] = "note" /\ noteLeft[t] = {} /\ noteHit[t] = {}
  /\ bc' = [bc EXCEPT ![t] = "answered"]
  /\ UNCHANGED <<nodeVars, pending, pollVars, noteLeft, noteHit>>

BroadcastStep(t) ==
  NoteFetch(t) \/ NoteSet(t) \/ Answer(t) \/ \E k \in Position : NoteLookup(t, k)

Next == NodeStep \/ PollStep \/ \E t \in Tx : Send(t) \/ BroadcastStep(t)

Spec == Init /\ [][Next]_vars

\* The poll loop runs on a ticker and every handler runs to its end.
FairSpec ==
  /\ Spec /\ WF_vars(PollStep)
  /\ \A t \in Tx : WF_vars(BroadcastStep(t))

-----------------------------------------------------------------------------
\* A rebuild never re-opens an order it had closed for a transaction that
\* the node still lists, whether or not that transaction could be fetched.
RebuildKeepsListed ==
  poll = "fetch" /\ left = {} =>
    \A k \in Position :
      carry[k] \in listed /\ KnownUnspent(k) => fresh[k] = carry[k]

\* Once the mempool is quiet, the node answers and the index has caught up,
\* the set becomes exactly the mempool's spends of unspent positions.
Converges ==
  \A M \in SUBSET Tx, A \in SUBSET Tx :
    <>[](mempool = M /\ mined = A /\ rpcOk) =>
      <>[](\A k \in Position :
             pending[k] = IF \E t \in M : k \in Ins[t] THEN CHOOSE t \in M : k \in Ins[t] ELSE NoTx)

\* When a broadcast has been answered and its fills were taken off the book,
\* they stay off it for as long as the transaction is unconfirmed.
FilledStaysOffBook ==
  [][\A k \in Position :
       LET t == pending[k]
       IN  t \in mempool /\ bc[t] = "answered" /\ KnownUnspent(k) => pending'[k] # NoTx]_vars
=============================================================================
