------------------------------- MODULE Market -------------------------------
(***************************************************************************)
(* What the indexer promises the marketplace behind it, without tables,    *)
(* undo logs, hashes or failing writes: at every moment the positions that *)
(* can be bought and the outputs that can be paid with are those of one    *)
(* chain of blocks; it moves along the tree a block at a time or starts    *)
(* again from nothing; and a position that stays open through such a move  *)
(* stays on offer as it was.                                               *)
(***************************************************************************)
CONSTANTS
  Block, NoBlock, Prev,  \* the block tree; NoBlock is where its roots start from
  OpenAt,                \* the positions open after a block, or after none
  FundsAt,               \* the outputs that can be spent
  Offers,                \* what may be offered: pairs of a position and an order
  NoOrder

VARIABLES open, funds, listing

vars == <<open, funds, listing>>

Shows(b) == open = OpenAt[b] /\ funds = FundsAt[b]

Init == Shows(NoBlock) /\ listing = {}

\* What is on offer is open, and what stays open is on offer as before.
Carried ==
  /\ \A o \in listing' : o[1] \in open'
  /\ \A o \in listing \cup listing' : o[1] \in open \cap open' => o \in listing \cap listing'

Connect == \E b \in Block : Shows(Prev[b]) /\ Shows(b)' /\ Carried
Disconnect == \E b \in Block : Shows(b) /\ Shows(Prev[b])' /\ Carried
Rebuild == Shows(NoBlock)' /\ listing' = {}

List(o) ==
  /\ o[1] \in open
  /\ listing' = {p \in listing : p[1] # o[1]} \cup {o}
  /\ UNCHANGED <<open, funds>>

Withdraw(o) ==
  /\ listing' = listing \ {o}
  /\ UNCHANGED <<open, funds>>

Next ==
  \/ Connect
  \/ Disconnect
  \/ Rebuild
  \/ \E o \in Offers : List(o)
  \/ \E o \in listing : Withdraw(o)

Spec == Init /\ [][Next]_vars
=============================================================================
