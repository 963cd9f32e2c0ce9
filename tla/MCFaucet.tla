------------------------------ MODULE MCFaucet ------------------------------
(***************************************************************************)
(* Faucet for TLC: the handlers are interchangeable.                       *)
(***************************************************************************)
EXTENDS Faucet, TLC

HandlerSymmetry == Permutations(Handler)
=============================================================================
