---------------------------- MODULE Withdrawals ----------------------------
(***************************************************************************)
(* The index with a memory of every withdrawal.  The code remembers one    *)
(* withdrawn fragment per outpoint (order_tombstones has the outpoint as   *)
(* its key); withdrawn is a history variable no step reads.                *)
(***************************************************************************)
EXTENDS Index

VARIABLE withdrawn  \* fragments withdrawn since the maker last published on the outpoint

wvars == <<vars, withdrawn>>

WithdrawalsInit == Init /\ withdrawn = [k \in Outpoint |-> {}]

\* A cancellation sets the tombstone, a maker's publish clears it.
WithdrawalsNext ==
  /\ Next
  /\ withdrawn' = [k \in Outpoint |->
       IF tombs'[k] = NoOrder THEN {} ELSE withdrawn[k] \cup {tombs'[k]}]

WithdrawalsSpec == WithdrawalsInit /\ [][WithdrawalsNext]_wvars

-----------------------------------------------------------------------------
\* What the README promises of DELETE /orders: a withdrawal is remembered, per
\* signature, until the maker publishes again, and this relay does not
\* resurrect what its own user withdrew.
WithdrawalsStick == \A k \in UAP : orders[k] \notin withdrawn[k]
=============================================================================
