-------------------------------- MODULE MCUap --------------------------------
(***************************************************************************)
(* A plain coin and two mints to start from, of either multiplier, worth   *)
(* the entry fee, one more or one less; and before activation at most one  *)
(* more output, a transfer of a lineage nobody spent among others.         *)
(*                                                                         *)
(* Scripts of bytes of 16 values: keys of three and four of them, origins  *)
(* of two, and numbers of up to three.  Numbers of two bytes at most are   *)
(* CScriptNums, so multipliers end at 127; the indexer also reads longer   *)
(* ones.                                                                   *)
(***************************************************************************)
EXTENDS Uap, UapScript

Plain(v) == [kind |-> "plain", mult |-> 0, origin |-> 0, value |-> v]
Mint(m, v) == [kind |-> "mint", mult |-> m, origin |-> 0, value |-> v]
Transfer(m, o, v) == [kind |-> "transfer", mult |-> m, origin |-> o, value |-> v]

MCTransfer == {Transfer(m, o, v) : m \in {1, 2}, o \in {1, 2}, v \in {1, 2}} \cup {Transfer(2, 1, 3), Transfer(2, 3, 2)}

MCOutput == {Plain(1), Plain(2), Mint(1, 2), Mint(2, 1), Mint(2, 2), Mint(2, 3)} \cup MCTransfer

\* One output, or a position and a plain output, or two positions.
MCOutputLists ==
  {<<o>> : o \in MCOutput \ {Plain(1)}}
    \cup {<<t, Plain(1)>> : t \in MCTransfer}
    \cup {<<t, u>> : t \in MCTransfer, u \in {Transfer(1, 1, 1), Transfer(2, 1, 1), Transfer(2, 2, 2), Mint(2, 2)}}

MCStart ==
  {<<Mint(1, 2), Mint(2, 2), Plain(2)>>, <<Mint(2, 3), Mint(2, 1), Plain(2)>>, <<Mint(2, 3), Mint(2, 2), Plain(2)>>}

-----------------------------------------------------------------------------
Push(op, d) == [op |-> op, data |-> d]
Fill(n, last) == [i \in 1..n |-> IF i = n THEN last ELSE 5]

\* Around zero, the small integers, the sign bit and the highest byte.
NumberBytes == {0, 1, 2, 3, 7, 8, 9, 15}
Numbers == UNION {[1..n -> NumberBytes] : n \in 0..3} \cup [1..2 -> 0..15]

Keys ==
  {Push(n, Fill(n, 5)) : n \in 2..4}
    \cup {Push(OP_PUSHDATA1, Fill(3, 5)), Push(OP_MINT, <<>>), Push(OP_0, <<>>)}
Multipliers ==
  {Push(Len(d), d) : d \in Numbers} \cup {Push(OP_PUSHDATA1, d) : d \in Numbers}
    \cup {Push(op, <<>>) : op \in OP_1NEGATE..OP_1 + 3}
Origins ==
  {Push(2, Fill(2, b)) : b \in {5, OP_MINT, OP_MINT_TRANSFER}}
    \cup {Push(OP_PUSHDATA2, Fill(2, 5)), Push(3, Fill(3, OP_MINT)),
          Push(OP_MINT, <<>>), Push(OP_MINT_TRANSFER, <<>>), Push(Truncated, <<>>)}
Ends == {Push(OP_MINT, <<>>), Push(OP_MINT_TRANSFER, <<>>), Push(1, <<OP_MINT_TRANSFER>>),
         Push(Truncated, <<>>)}

MCElementAt == <<Keys, Multipliers, Origins, Ends>>

-----------------------------------------------------------------------------
\* Chains and scripts do not interact.  A behaviour takes up one or the other:
\* all interleavings would show no other chain and no other script.
MCInit == Init /\ ScriptInit
MCNext ==
  \/ script = <<>> /\ Next /\ UNCHANGED script
  \/ /\ coins = <<Mint(1, 2), Mint(2, 2), Plain(2)>> /\ height = 0
     /\ ScriptNext /\ UNCHANGED vars
MCSpec == MCInit /\ [][MCNext]_<<vars, script>>
=============================================================================
