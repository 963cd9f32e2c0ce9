------------------------------- MODULE MCSync -------------------------------
(***************************************************************************)
(* Sync over the tree of MCTree, with two fragments signed for k1.         *)
(***************************************************************************)
EXTENDS Sync, MCTree

MCFragment == {"s1", "s2"}
MCOffers == {"k1"} \X MCFragment
MCNoOffers == {}
=============================================================================
