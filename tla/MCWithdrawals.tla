--------------------------- MODULE MCWithdrawals ---------------------------
(***************************************************************************)
(* Withdrawals over the tree of MCTree, with two fragments a maker may     *)
(* have signed for the position k1.                                        *)
(***************************************************************************)
EXTENDS Withdrawals, MCTree

MCFragment == {"s1", "s2"}
MCOffers == {"k1"} \X MCFragment
=============================================================================
