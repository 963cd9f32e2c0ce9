----------------------------- MODULE OrderProofs -----------------------------
(***************************************************************************)
(* Proofs about the two things that close an order before a block spends   *)
(* its position: a spend seen in the mempool (PendingSpends) and a cancel  *)
(* signed by the maker (CancelAuth).                                       *)
(***************************************************************************)
EXTENDS PendingSpends, CancelAuth, TLAPS

\* The provers a leaf that names none is given to, in turn.  tlapm gives up
\* preparing an obligation for a prover after a few seconds, which a large
\* context can take; the later entries are there for such a leaf.
USE SMTT(30), Zenon, Z3T(30), SMTT(40)

-----------------------------------------------------------------------------
(***************************************************************************)
(* A rebuild of the pending set keeps what it had closed, for any number   *)
(* of transactions, positions and concurrent broadcasts.                   *)
(*                                                                         *)
(* RebuildKeepsListed is about the end of a rebuild.  PendingInv says what *)
(* holds all through it: every entry of a set is for an input of its       *)
(* transaction, and one listing of the mempool has no two transactions     *)
(* that spend the same position, so fetching one never writes over what    *)
(* another has left in the new set.                                        *)
(***************************************************************************)

NoConflict(S) == \A t, u \in S : t # u => Ins[t] \cap Ins[u] = {}

\* Every entry of the set is for an input of the transaction it names.
SpendsOwnInputs(set) == \A k \in Position : set[k] # NoTx => k \in Ins[set[k]]

PendingInv ==
  /\ TypeOK
  /\ NoConflict(mempool \cup mined) /\ NoConflict(listed)
  /\ SpendsOwnInputs(pending) /\ SpendsOwnInputs(carry) /\ SpendsOwnInputs(fresh)
  /\ \A t \in Tx : noteHit[t] \subseteq Ins[t]
  /\ poll = "carry" => left = listed
  /\ poll = "fetch" =>
       \A k \in Position :
         carry[k] \in listed \ left /\ KnownUnspent(k) => fresh[k] = carry[k]

-----------------------------------------------------------------------------
\* The node keeps its mempool free of conflicts, and the indexer's sets do
\* not depend on it.
LEMMA NodeKeeps == PendingInv /\ NodeStep => PendingInv'
<1>. SUFFICES ASSUME PendingInv, NodeStep PROVE PendingInv'
  OBVIOUS
<1>1. UNCHANGED <<pending, pollVars, noteVars, applied>>
  BY DEF NodeStep, Arrives, Mine, Reorg, Evict, RpcChanges
<1>. DEFINE NodeOK == /\ NoConflict(mempool \cup mined)
                      /\ mempool \subseteq Tx /\ mined \subseteq Tx /\ rpcOk \in BOOLEAN
<1>2. NodeOK'
  <2>0. mempool \subseteq Tx /\ mined \subseteq Tx /\ rpcOk \in BOOLEAN /\ NoConflict(mempool \cup mined)
    BY DEF PendingInv, TypeOK
  <2>1. ASSUME NEW t \in Tx, Arrives(t) PROVE NodeOK'
    BY <2>0, <2>1 DEF Arrives, Accepts, NoConflict
  <2>2. ASSUME NEW t \in Tx, Mine(t) \/ Reorg(t) \/ Evict(t) PROVE NodeOK'
    BY <2>0, <2>2 DEF Mine, Reorg, Evict, NoConflict
  <2>3. CASE RpcChanges
    BY <2>0, <2>3 DEF RpcChanges
  <2>. QED
    BY <2>1, <2>2, <2>3 DEF NodeStep
<1>. QED
  BY <1>1, <1>2
     DEF PendingInv, TypeOK, pollVars, noteVars, KnownUnspent, NoConflict,
         SpendsOwnInputs

\* A fetch, found or carried forward, keeps what the earlier ones have left.
LEMMA FetchKeeps ==
  ASSUME ~StoreReadsFail, PendingInv, NEW t \in Tx, PollFetch(t)
  PROVE  PendingInv'
<1>0. /\ UNCHANGED <<nodeVars, pending, poll, listed, carry, noteVars>>
      /\ poll = "fetch" /\ t \in left /\ left' = left \ {t} /\ left \subseteq listed
      /\ fresh \in Spends /\ carry \in Spends /\ NoTx \notin Tx /\ listed \subseteq Tx
      /\ SpendsOwnInputs(fresh) /\ SpendsOwnInputs(carry) /\ NoConflict(listed)
  BY PendingAssumption DEF PollFetch, PendingInv, TypeOK
<1>1. PICK hits : /\ hits = {k \in Ins[t] : KnownUnspent(k)}
                  /\ fresh' = Found(t, hits) \/ fresh' = Carried(t)
  BY Zenon DEF PollFetch, Lookups
<1>2. /\ fresh' \in Spends
      /\ \A k \in Position : /\ fresh'[k] \in {t, fresh[k]}
                             /\ fresh'[k] = t => fresh[k] = t \/ k \in Ins[t]
                             /\ fresh'[k] # fresh[k] => k \in Ins[t]
                             /\ carry[k] = t /\ KnownUnspent(k) => fresh'[k] = t
  BY <1>0, <1>1 DEF Found, Carried, Spends, SpendsOwnInputs
<1>3. SpendsOwnInputs(fresh')
  BY <1>0, <1>2 DEF SpendsOwnInputs
<1>4. ASSUME NEW k \in Position, carry[k] \in listed \ left', KnownUnspent(k)
      PROVE  fresh'[k] = carry[k]
  <2>1. CASE carry[k] = t
    BY <1>2, <1>4, <2>1
  <2>2. CASE carry[k] # t
    <3>1. carry[k] \in listed \ left /\ carry[k] # NoTx
      BY <1>0, <1>4, <2>2
    <3>2. k \in Ins[carry[k]] /\ k \notin Ins[t]
      BY <1>0, <2>2, <3>1 DEF SpendsOwnInputs, NoConflict
    <3>. QED
      BY <1>0, <1>2, <1>4, <3>1, <3>2 DEF PendingInv
  <2>. QED
    BY <2>1, <2>2
<1>5. \A k \in Position : KnownUnspent(k)' <=> KnownUnspent(k)
  BY <1>0 DEF KnownUnspent, nodeVars
<1>. QED
  BY <1>0, <1>2, <1>3, <1>4, <1>5
     DEF PendingInv, TypeOK, nodeVars, noteVars, NoConflict, SpendsOwnInputs

\* So does every other step of the poll loop.
LEMMA PollKeeps == ~StoreReadsFail /\ PendingInv /\ PollStep => PendingInv'
<1>. SUFFICES ASSUME ~StoreReadsFail, PendingInv, PollStep PROVE PendingInv'
  OBVIOUS
<1>1. CASE Sync
  BY <1>1 DEF Sync, PendingInv, TypeOK, noteVars, NoConflict, SpendsOwnInputs
<1>2. CASE PollList
  <2>1. NoConflict(mempool)
    BY DEF PendingInv, NoConflict
  <2>. QED
    BY <1>2, <2>1 DEF PollList, PendingInv, TypeOK, nodeVars, noteVars, NoConflict,
           SpendsOwnInputs
<1>3. CASE PollCarry
  BY <1>3 DEF PollCarry, PendingInv, TypeOK, nodeVars, noteVars, NoConflict,
         SpendsOwnInputs
<1>4. CASE PollSwap
  BY <1>4
     DEF PollSwap, Swapped, Nothing, Spends, PendingInv, TypeOK, nodeVars, noteVars,
              NoConflict, SpendsOwnInputs
<1>. QED
  BY <1>1, <1>2, <1>3, <1>4, FetchKeeps DEF PollStep

\* A broadcast records its own inputs, and leaves a rebuild in progress alone.
LEMMA BroadcastKeeps ==
  ASSUME PendingInv, NEW t \in Tx, BroadcastStep(t)
  PROVE  PendingInv'
<1>0. /\ UNCHANGED <<nodeVars, pollVars>> /\ pending \in Spends /\ Ins[t] \subseteq Position
      /\ bc \in [Tx -> {"none", "sent", "note", "answered", "failed"}]
      /\ noteLeft \in [Tx -> SUBSET Position] /\ noteHit \in [Tx -> SUBSET Position]
      /\ SpendsOwnInputs(pending) /\ \A u \in Tx : noteHit[u] \subseteq Ins[u]
  BY PendingAssumption
     DEF BroadcastStep, NoteFetch, NoteLookup, NoteSet, Answer, PendingInv, TypeOK
<1>. DEFINE NotesOK == /\ pending \in Spends /\ SpendsOwnInputs(pending)
                       /\ bc \in [Tx -> {"none", "sent", "note", "answered", "failed"}]
                       /\ noteLeft \in [Tx -> SUBSET Position]
                       /\ noteHit \in [Tx -> SUBSET Position]
                       /\ \A u \in Tx : noteHit[u] \subseteq Ins[u]
<1>1. NotesOK'
  <2>1. CASE NoteFetch(t)
    BY <1>0, <2>1 DEF NoteFetch
  <2>2. CASE NoteSet(t)
    BY <1>0, <2>2, PendingAssumption DEF NoteSet, Noted, Spends, SpendsOwnInputs
  <2>3. CASE Answer(t)
    BY <1>0, <2>3 DEF Answer
  <2>4. ASSUME NEW k \in Position, NoteLookup(t, k) PROVE NotesOK'
    <3>1. PICK hits \in SUBSET Ins[t] : noteHit' = [noteHit EXCEPT ![t] = hits \cap {k}]
      BY <2>4, Zenon DEF NoteLookup, Lookups
    <3>. QED
      BY <1>0, <2>4, <3>1 DEF NoteLookup
  <2>. QED
    BY <2>1, <2>2, <2>3, <2>4 DEF BroadcastStep
<1>. QED
  BY <1>0, <1>1
     DEF PendingInv, TypeOK, nodeVars, pollVars, KnownUnspent, NoConflict,
         SpendsOwnInputs

\* Sending is the arrival of a transaction at the node.
LEMMA SendKeeps ==
  ASSUME PendingInv, NEW t \in Tx, Send(t)
  PROVE  PendingInv'
<1>1. /\ NoConflict(mempool \cup mined)' /\ mempool' \subseteq Tx
      /\ UNCHANGED <<mined, applied, rpcOk>>
  BY DEF Send, Arrives, Accepts, PendingInv, TypeOK, NoConflict
<1>2. bc' \in [Tx -> {"none", "sent", "note", "answered", "failed"}]
  BY DEF Send, PendingInv, TypeOK
<1>. QED
  BY <1>1, <1>2 DEF Send, PendingInv, TypeOK, pollVars, KnownUnspent, NoConflict,
         SpendsOwnInputs

-----------------------------------------------------------------------------
\* The invariant of the poll loop, the broadcasts and the node together.
THEOREM PendingInvariant == ~StoreReadsFail => (Spec => []PendingInv)
<1>. SUFFICES ASSUME ~StoreReadsFail PROVE Spec => []PendingInv
  OBVIOUS
<1>1. Init => PendingInv
  BY DEF Init, PendingInv, TypeOK, Nothing, Spends, NoConflict, SpendsOwnInputs
<1>2. PendingInv /\ [Next]_vars => PendingInv'
  <2>. SUFFICES ASSUME PendingInv, [Next]_vars PROVE PendingInv'
    OBVIOUS
  <2>1. CASE UNCHANGED vars
    BY <2>1
       DEF vars, nodeVars, pollVars, noteVars, PendingInv, TypeOK, KnownUnspent,
           NoConflict,
                SpendsOwnInputs
  <2>. QED
    BY <2>1, NodeKeeps, PollKeeps, BroadcastKeeps, SendKeeps DEF Next
<1>. QED
  BY <1>1, <1>2, PTL DEF Spec

\* Each variable keeps its type.
THEOREM TypeCorrect == ~StoreReadsFail => (Spec => []TypeOK)
<1>1. PendingInv => TypeOK
  BY DEF PendingInv
<1>. QED
  BY <1>1, PendingInvariant, PTL

\* UpdatePendingSpends never re-opens an order it had closed for a
\* transaction the node still lists, however fetches fail and broadcasts
\* interleave with the rebuild.
THEOREM RebuildKeeps == ~StoreReadsFail => (Spec => []RebuildKeepsListed)
<1>1. PendingInv => RebuildKeepsListed
  BY DEF PendingInv, RebuildKeepsListed
<1>. QED
  BY <1>1, PendingInvariant, PTL

-----------------------------------------------------------------------------
(***************************************************************************)
(* Proofs about CancelAuth.  A cancel signature names one publication as   *)
(* long as the process does not restart, or the clock never goes back and  *)
(* a restart takes it past every nonce issued.                             *)
(***************************************************************************)

\* What the relay depends on to tell publications apart.
Steady == (\A p \in MayRead : p[1] <= p[2]) /\ (\A p \in MayBoot : p[1] < p[2])

Dependable == MaxRestarts = 0 \/ Steady

\* The listings the relay or a signature still remembers.
Remembered == sigs \cup order \cup pruned

\* Every remembered nonce lies below the next one to be issued: the last
\* nonce bounds them, or, after a restart, the clock does.
BelowNext ==
  \/ \A o \in Remembered : o.nonce <= last
  \/ Steady /\ \A o \in Remembered : o.nonce < clock

\* The inductive invariant.
CInv ==
  /\ clock \in Nat /\ last \in Nat /\ pubs \in Nat /\ restarts \in Nat
  /\ Remembered \subseteq Listing
  /\ \A o \in Remembered : o.pub <= pubs
  /\ NoncesIncrease
  /\ BelowNext
  /\ Dependable

\* The invariant holds when the process starts on an empty book.
LEMMA InitCInv == Dependable /\ CancelInit => CInv
  BY CancelAssumption
     DEF Dependable, CancelInit, CInv, Remembered, NoncesIncrease, BelowNext

\* A step that remembers nothing new, and leaves clock, nonce and counters
\* alone, keeps the invariant.
LEMMA ForgettingKeepsCInv ==
  ASSUME CInv, Remembered' \subseteq Remembered, UNCHANGED <<clock, last, restarts, pubs>>
  PROVE  CInv'
<1>1. NoncesIncrease'
  BY DEF CInv, NoncesIncrease, Remembered
<1>2. BelowNext'
  BY DEF CInv, BelowNext
<1> QED
  BY <1>1, <1>2 DEF CInv

\* nextCancelNonce exceeds every remembered nonce.
LEMMA NonceIsFresh ==
  ASSUME CInv, NEW n, <<clock, n>> \in MayRead
  PROVE  /\ nextCancelNonce(n) \in Nat /\ n \in Nat
         /\ \A o \in Remembered : o.nonce < nextCancelNonce(n)
<1>1. n \in Nat /\ clock \in Nat /\ last \in Nat
  BY CancelAssumption DEF CInv
<1>2. nextCancelNonce(n) \in Nat /\ nextCancelNonce(n) > last /\ nextCancelNonce(n) >= n
  BY <1>1 DEF nextCancelNonce
<1>3. \A o \in Remembered : o.nonce \in Nat
  BY DEF CInv, Listing
<1>4. CASE \A o \in Remembered : o.nonce <= last
  BY <1>1, <1>2, <1>3, <1>4
<1>5. CASE Steady /\ \A o \in Remembered : o.nonce < clock
  <2>1. clock <= n
    BY <1>5 DEF Steady
  <2> QED
    BY <1>1, <1>2, <1>3, <1>5, <2>1
<1> QED
  BY <1>4, <1>5 DEF CInv, BelowNext

\* Storing an order, published or mirrored, keeps the invariant.
LEMMA StoredKeepsCInv ==
  ASSUME CInv, NEW f \in Fragment, NEW n, Stored(f, n)
  PROVE  CInv'
<1> DEFINE new == [frag |-> f, nonce |-> nextCancelNonce(n), pub |-> pubs + 1]
<1>1. /\ nextCancelNonce(n) \in Nat /\ n \in Nat
      /\ \A o \in Remembered : o.nonce < nextCancelNonce(n)
  BY NonceIsFresh DEF Stored
<1>2. /\ clock' = n /\ last' = nextCancelNonce(n) /\ pubs' = pubs + 1 /\ restarts' = restarts
      /\ pubs \in Nat /\ restarts \in Nat
      /\ Remembered' \subseteq Remembered \cup {new}
  BY DEF Stored, Remembered, CInv
<1>3. /\ new \in Listing /\ new.nonce = nextCancelNonce(n) /\ new.pub = pubs + 1
  BY <1>1, <1>2 DEF Listing
<1> HIDE DEF new
<1>4. \A o \in Remembered : o.pub \in Nat /\ o.nonce \in Nat /\ o.pub <= pubs
  BY DEF CInv, Listing
<1>5. Remembered' \subseteq Listing
  BY <1>2, <1>3 DEF CInv
<1>6. \A o \in Remembered' : o.pub <= pubs' /\ o.nonce <= last'
  <2> SUFFICES ASSUME NEW o \in Remembered' PROVE o.pub <= pubs' /\ o.nonce <= last'
    OBVIOUS
  <2>1. CASE o = new
    BY <1>1, <1>2, <1>3, <2>1
  <2>2. CASE o \in Remembered
    BY <1>1, <1>2, <1>4, <2>2
  <2> QED
    BY <1>2, <2>1, <2>2
<1>7. NoncesIncrease'
  <2> SUFFICES ASSUME NEW o \in Remembered', NEW p \in Remembered', o.pub < p.pub
               PROVE  o.nonce < p.nonce
    BY DEF NoncesIncrease, Remembered
  <2>1. CASE o = new
    BY <1>2, <1>3, <1>4, <2>1
  <2>2. CASE o \in Remembered /\ p = new
    BY <1>1, <1>3, <2>2
  <2>3. CASE o \in Remembered /\ p \in Remembered
    BY <2>3 DEF CInv, NoncesIncrease, Remembered
  <2> QED
    BY <1>2, <2>1, <2>2, <2>3
<1>8. BelowNext'
  BY <1>6 DEF BelowNext
<1> QED
  BY <1>1, <1>2, <1>5, <1>6, <1>7, <1>8 DEF CInv

\* A restart forgets the last nonce; where it may happen the clock has
\* passed every nonce.
LEMMA RestartKeepsCInv ==
  ASSUME CInv, NEW n, Restart(n)
  PROVE  CInv'
<1>1. Remembered' = Remembered /\ NoncesIncrease'
  BY DEF Restart, Remembered, CInv, NoncesIncrease
<1>2. /\ restarts \in Nat /\ clock \in Nat /\ last \in Nat /\ n \in Nat
      /\ clock' = n /\ last' = 0 /\ restarts' = restarts + 1 /\ pubs' = pubs
  BY CancelAssumption DEF Restart, CInv
<1>3. Steady
  BY <1>2, CancelAssumption DEF Restart, CInv, Dependable
<1>4. clock < n /\ last < n
  <2> DEFINE high == IF clock > last THEN clock ELSE last
  <2>1. <<high, n>> \in MayBoot
    BY DEF Restart
  <2>2. high < n
    BY <1>3, <2>1 DEF Steady
  <2> QED
    BY <1>2, <2>2
<1>5. \A o \in Remembered : o.nonce \in Nat
  BY DEF CInv, Listing
<1>6. \A o \in Remembered : o.nonce < n
  BY <1>2, <1>4, <1>5 DEF CInv, BelowNext
<1>7. BelowNext'
  BY <1>1, <1>2, <1>3, <1>6 DEF BelowNext
<1> QED
  BY <1>1, <1>2, <1>7 DEF CInv

\* Every step keeps the invariant.
LEMMA NextCInv == CInv /\ [CancelNext]_cancelVars => CInv'
<1> SUFFICES ASSUME CInv, [CancelNext]_cancelVars PROVE CInv'
  OBVIOUS
<1>1. ASSUME NEW f \in Fragment, NEW n, PublishOrder(f, n) \/ AdoptMirroredOrder(f, n)
      PROVE  CInv'
  BY <1>1, StoredKeepsCInv DEF PublishOrder, AdoptMirroredOrder
<1>2. CASE SignCancel
  BY <1>2, ForgettingKeepsCInv DEF SignCancel, Remembered
<1>3. ASSUME NEW s \in sigs, CancelOrder(s) PROVE CInv'
  BY <1>3, ForgettingKeepsCInv DEF CancelOrder, Remembered
<1>4. CASE Spend
  BY <1>4, ForgettingKeepsCInv DEF Spend, Remembered
<1>5. CASE Unspend
  BY <1>5, ForgettingKeepsCInv DEF Unspend, Remembered
<1>6. ASSUME NEW n, Restart(n) PROVE CInv'
  BY <1>6, RestartKeepsCInv
<1>7. CASE UNCHANGED cancelVars
  BY <1>7, ForgettingKeepsCInv DEF cancelVars, Remembered
<1> QED
  BY <1>1, <1>2, <1>3, <1>4, <1>5, <1>6, <1>7 DEF CancelNext

\* The invariant holds throughout.
THEOREM NonceInvariant == ASSUME Dependable PROVE CancelSpec => []CInv
<1>1. CancelInit => CInv
  BY InitCInv
<1> QED
  BY <1>1, NextCInv, PTL DEF CancelSpec

\* Nonces follow the order of publication (nextCancelNonce): whatever the
\* clock does in one process, and across restarts if it is steady.
THEOREM NoncesOrdered == ASSUME Dependable PROVE CancelSpec => []NoncesIncrease
<1>1. CInv => NoncesIncrease
  BY DEF CInv
<1> QED
  BY <1>1, NonceInvariant, PTL

\* A cancel signature withdraws the publication it was made for and no other
\* (CancelOrder, verifyCancelSignature), under the same condition.
THEOREM SignatureSound == ASSUME Dependable PROVE CancelSpec => []SignatureNamesOnePublication
<1>1. CInv => SignatureNamesOnePublication
  <2> SUFFICES ASSUME CInv, NEW s \in sigs, NEW o \in order \cup pruned,
                      cancelMessage(s) = cancelMessage(o)
               PROVE  s.pub = o.pub
    BY DEF SignatureNamesOnePublication
  <2>1. s.nonce = o.nonce
    BY DEF cancelMessage
  <2>2. s \in Remembered /\ o \in Remembered
    BY DEF Remembered
  <2>3. s.pub \in Nat /\ o.pub \in Nat /\ s.nonce \in Nat
    BY <2>2 DEF CInv, Listing
  <2>4. ~(s.pub < o.pub) /\ ~(o.pub < s.pub)
    BY <2>1, <2>2, <2>3 DEF CInv, NoncesIncrease, Remembered
  <2> QED
    BY <2>3, <2>4
<1> QED
  BY <1>1, NonceInvariant, PTL

-----------------------------------------------------------------------------
\* The order row and the undo log's copy of it are never both there: the
\* order of a spent position is in the log, that of an unspent one is not.
OneRow ==
  /\ CancelTypeOK
  /\ spent => order = {}
  /\ ~spent => pruned = {}

\* Each variable keeps its type and the outpoint its one row, whatever the
\* clock and the restarts do.
THEOREM CancelTypeCorrect == CancelSpec => []CancelTypeOK
<1>1. CancelInit => OneRow
  <2>. SUFFICES ASSUME CancelInit PROVE OneRow
    OBVIOUS
  <2>1. 0 \in 0..MaxRestarts /\ 0 \in 0..MaxPubs /\ 0 \in Nat
    BY CancelAssumption
  <2>2. CancelTypeOK
    BY <2>1, Zenon DEF CancelInit, CancelTypeOK
  <2>. QED
    BY <2>2 DEF CancelInit, OneRow
<1>2. OneRow /\ [CancelNext]_cancelVars => OneRow'
  <2>. SUFFICES ASSUME OneRow, [CancelNext]_cancelVars PROVE OneRow'
    OBVIOUS
  <2>1. ASSUME NEW f \in Fragment, NEW n, Stored(f, n), tomb' \subseteq Fragment PROVE OneRow'
    <3>1. n \in Nat /\ nextCancelNonce(n) \in Nat
      BY <2>1, CancelAssumption DEF Stored, nextCancelNonce, OneRow, CancelTypeOK
    <3>2. pubs + 1 \in 0..MaxPubs
      BY <2>1, CancelAssumption DEF Stored, OneRow, CancelTypeOK
    <3>3. [frag |-> f, nonce |-> nextCancelNonce(n), pub |-> pubs + 1] \in Listing
      BY <3>1, <3>2 DEF Listing
    <3>. QED
      BY <2>1, <3>1, <3>2, <3>3 DEF Stored, OneRow, CancelTypeOK
  <2>2. ASSUME NEW f \in Fragment, NEW n, PublishOrder(f, n) \/ AdoptMirroredOrder(f, n)
        PROVE  OneRow'
    BY <2>1, <2>2 DEF PublishOrder, AdoptMirroredOrder, OneRow, CancelTypeOK
  <2>3. CASE SignCancel
    BY <2>3 DEF SignCancel, OneRow, CancelTypeOK
  <2>4. ASSUME NEW s \in sigs, CancelOrder(s) PROVE OneRow'
    <3>1. tomb' \subseteq Fragment
      BY <2>4 DEF CancelOrder, OneRow, CancelTypeOK, Listing
    <3>. QED
      BY <2>4, <3>1 DEF CancelOrder, OneRow, CancelTypeOK
  <2>5. ASSUME NEW n, Restart(n) PROVE OneRow'
    <3>1. n \in Nat /\ restarts + 1 \in 0..MaxRestarts
      BY <2>5, CancelAssumption DEF Restart, OneRow, CancelTypeOK
    <3>. QED
      BY <2>5, <3>1 DEF Restart, OneRow, CancelTypeOK
  <2>6. CASE Spend \/ Unspend
    BY <2>6, Zenon DEF Spend, Unspend, OneRow, CancelTypeOK
  <2>7. CASE UNCHANGED cancelVars
    BY <2>7 DEF cancelVars, OneRow, CancelTypeOK
  <2>. QED
    BY <2>2, <2>3, <2>4, <2>5, <2>6, <2>7 DEF CancelNext
<1>3. OneRow => CancelTypeOK
  BY DEF OneRow
<1>. QED
  BY <1>1, <1>2, <1>3, PTL DEF CancelSpec
=============================================================================
