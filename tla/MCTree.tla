------------------------------ MODULE MCTree ------------------------------
(***************************************************************************)
(* A block tree for model checking, with three branches:                   *)
(*                                                                         *)
(*   g --- a2 --- a3 --- a4        g:  pays an address (u1)                *)
(*    \      \                     a2: mints k1                            *)
(*     \      c3                   a3: transfers k1 to k2, spends u1       *)
(*      b2 --- b3                  c3: u1 -> u2 -> burnt, in one block     *)
(*                                 b2: mints k1 and transfers it at once   *)
(*                                 b3: spends u1                           *)
(*                                                                         *)
(* The same transactions are mined at different heights on the branches.   *)
(***************************************************************************)
EXTENDS Integers

MCBlock == {"g", "a2", "a3", "a4", "b2", "b3", "c3"}
MCPrev == [b \in MCBlock |->
  CASE b = "g" -> "none"
    [] b \in {"a2", "b2"} -> "g"
    [] b \in {"a3", "c3"} -> "a2"
    [] b = "a4" -> "a3"
    [] b = "b3" -> "b2"]
MCHeightOf == [b \in MCBlock |->
  CASE b = "g" -> 1
    [] b \in {"a2", "b2"} -> 2
    [] b \in {"a3", "c3", "b3"} -> 3
    [] b = "a4" -> 4]
MCAnc == [b \in MCBlock |->
  CASE b = "g" -> {"g"}
    [] b = "a2" -> {"g", "a2"}
    [] b = "b2" -> {"g", "b2"}
    [] b = "a3" -> {"g", "a2", "a3"}
    [] b = "c3" -> {"g", "a2", "c3"}
    [] b = "b3" -> {"g", "b2", "b3"}
    [] b = "a4" -> {"g", "a2", "a3", "a4"}]

MCTx == {"pay", "mint", "transfer", "spend", "burn"}
MCTxsOf == [b \in MCBlock |->
  CASE b = "g" -> {"pay"}
    [] b = "a2" -> {"mint"}
    [] b = "a3" -> {"transfer", "spend"}
    [] b = "a4" -> {}
    [] b = "b2" -> {"mint", "transfer"}
    [] b = "b3" -> {"spend"}
    [] b = "c3" -> {"spend", "burn"}]
MCOutpoint == {"k1", "k2", "u1", "u2"}
MCIns == [t \in MCTx |->
  CASE t = "transfer" -> {"k1"}
    [] t = "spend" -> {"u1"}
    [] t = "burn" -> {"u2"}
    [] OTHER -> {}]
MCOuts == [t \in MCTx |->
  CASE t = "pay" -> {"u1"}
    [] t = "mint" -> {"k1"}
    [] t = "transfer" -> {"k2"}
    [] t = "spend" -> {"u2"}
    [] OTHER -> {}]
MCUAP == {"k1", "k2"}
MCP2PKH == {"u1", "u2"}
=============================================================================
