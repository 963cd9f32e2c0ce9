----------------------------- MODULE CancelAuth -----------------------------
(***************************************************************************)
(* Which publication of an order a cancel signature withdraws              *)
(* (contrib/uap-indexer: publishOrder, nextCancelNonce and CancelOrder of  *)
(* orders.go, cancel_auth.go, mirror.go).                                  *)
(*                                                                         *)
(* One outpoint.  A maker who republishes the same terms gets the same     *)
(* fragment (script_sig), so only the nonce the relay assigns tells two    *)
(* publications apart.  The nonce follows the wall clock, and what was     *)
(* last issued is forgotten when the process stops.                        *)
(***************************************************************************)
EXTENDS Integers

CONSTANTS
  Fragment,    \* signed fragments for the outpoint
  MayRead,     \* pairs <<a, b>>: the clock may read b after it has read a
  MayBoot,     \* pairs <<a, b>>: it may read b after a restart, a being the
               \* larger of the last reading and the last nonce
  MaxRestarts, \* bound on restarts
  MaxPubs      \* bound on publications

ASSUME CancelAssumption ==
  /\ MayRead \subseteq (Nat \X Nat) /\ MayBoot \subseteq (Nat \X Nat)
  /\ MaxRestarts \in Nat /\ MaxPubs \in Nat

VARIABLES
  clock,     \* the last wall-clock reading
  last,      \* idx.lastCancelNonce
  restarts,  \* restarts so far
  pubs,      \* publications so far
  spent,     \* whether the position is spent in the index
  order,     \* the stored order, as a set of at most one listing
  pruned,    \* the order in the undo log of the block that spent the position
  tomb,      \* the withdrawn fragment, as a set of at most one
  sigs       \* listings the maker has signed a cancel for

cancelVars == <<clock, last, restarts, pubs, spent, order, pruned, tomb, sigs>>

\* A listing: what the relay stores, and, not known to the relay, which
\* publication it is.
Listing == [frag : Fragment, nonce : Nat, pub : Nat]

\* Each variable is of its type; there is one row per outpoint.
CancelTypeOK ==
  /\ clock \in Nat /\ last \in Nat
  /\ restarts \in 0..MaxRestarts /\ pubs \in 0..MaxPubs
  /\ spent \in BOOLEAN
  /\ order \subseteq Listing /\ pruned \subseteq Listing /\ sigs \subseteq Listing
  /\ tomb \subseteq Fragment
  /\ \A o, p \in order \cup pruned : o = p

CancelInit ==
  /\ clock = 0 /\ last = 0 /\ restarts = 0 /\ pubs = 0
  /\ spent = FALSE /\ order = {} /\ pruned = {} /\ tomb = {} /\ sigs = {}

-----------------------------------------------------------------------------
\* nextCancelNonce, for a clock reading n.
nextCancelNonce_ClockOnly(n) == n

nextCancelNonce(n) == IF n <= last THEN last + 1 ELSE n

\* publishOrder past its checks.
Stored(f, n) ==
  /\ pubs < MaxPubs /\ <<clock, n>> \in MayRead
  /\ ~spent
  /\ clock' = n /\ last' = nextCancelNonce(n) /\ pubs' = pubs + 1
  /\ order' = {[frag |-> f, nonce |-> nextCancelNonce(n), pub |-> pubs + 1]}
  /\ UNCHANGED <<restarts, spent, pruned, sigs>>

PublishOrder(f, n) == Stored(f, n) /\ tomb' = {}

\* The order row is written over whether or not it is there already.
AdoptMirroredOrder(f, n) == f \notin tomb /\ Stored(f, n) /\ UNCHANGED tomb

\* cancelMessage: the domain and the outpoint are the same for all of them.
cancelMessage_NoNonce(o) == <<o.frag>>

cancelMessage(o) == <<o.frag, o.nonce>>

\* The maker reads the order the relay serves and signs its withdrawal.
SignCancel ==
  /\ order # {} /\ sigs' = sigs \cup order
  /\ UNCHANGED <<clock, last, restarts, pubs, spent, order, pruned, tomb>>

\* CancelOrder with signature s.  It may come any number of times.
CancelOrder(s) ==
  /\ \E o \in order : cancelMessage(o) = cancelMessage(s) /\ tomb' = {o.frag}
  /\ order' = {}
  /\ UNCHANGED <<clock, last, restarts, pubs, spent, pruned, sigs>>

\* applyBlock of a block that spends the position, and its undoing.
Spend ==
  /\ ~spent /\ spent' = TRUE /\ pruned' = order /\ order' = {}
  /\ UNCHANGED <<clock, last, restarts, pubs, tomb, sigs>>

Unspend_KeepsLog ==
  /\ spent /\ spent' = FALSE /\ order' = pruned /\ UNCHANGED pruned
  /\ UNCHANGED <<clock, last, restarts, pubs, tomb, sigs>>

Unspend ==
  /\ spent /\ spent' = FALSE /\ order' = pruned /\ pruned' = {}
  /\ UNCHANGED <<clock, last, restarts, pubs, tomb, sigs>>

\* newIndex: the tables are on disk, the last nonce is not.
Restart(n) ==
  /\ restarts < MaxRestarts /\ <<IF clock > last THEN clock ELSE last, n>> \in MayBoot
  /\ restarts' = restarts + 1 /\ last' = 0 /\ clock' = n
  /\ UNCHANGED <<pubs, spent, order, pruned, tomb, sigs>>

CancelNext ==
  \/ \E f \in Fragment, n \in {p[2] : p \in MayRead} : PublishOrder(f, n) \/ AdoptMirroredOrder(f, n)
  \/ SignCancel
  \/ \E s \in sigs : CancelOrder(s)
  \/ \E n \in {p[2] : p \in MayBoot} : Restart(n)
  \/ Spend \/ Unspend

CancelSpec == CancelInit /\ [][CancelNext]_cancelVars

-----------------------------------------------------------------------------
\* A cancel signature is good for the publication it was made for and for no
\* other one, however often the same terms are published again.
SignatureNamesOnePublication ==
  \A s \in sigs, o \in order \cup pruned :
    cancelMessage(s) = cancelMessage(o) => s.pub = o.pub

\* Nonces follow the order of publication: of two listings that are stored or
\* were signed for, the later one has the larger nonce.
NoncesIncrease ==
  \A o, p \in sigs \cup order \cup pruned : o.pub < p.pub => o.nonce < p.nonce
=============================================================================
