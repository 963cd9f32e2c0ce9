----------------------------- MODULE MCPending -----------------------------
(***************************************************************************)
(* Two positions; t1 and t2 are two takers' fills of the first, and t2     *)
(* fills the second as well.                                               *)
(***************************************************************************)
EXTENDS PendingSpends

MCTx == {"t1", "t2"}
MCPosition == {"k1", "k2"}
MCIns == [t \in MCTx |-> IF t = "t1" THEN {"k1"} ELSE {"k1", "k2"}]
=============================================================================
