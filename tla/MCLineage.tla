------------------------------ MODULE MCLineage ------------------------------
(***************************************************************************)
(* Two lineages and an orphan.  Lineage "a" (multiplier 5) is minted, sent *)
(* on to two holders, moved and merged, in blocks of one or two            *)
(* transactions; lineage "z" has multiplier zero.  MaxInt64 is the sum of  *)
(* all values, so the supply of "a" is below the limit with 2 units        *)
(* unspent and past it with 3.                                             *)
(***************************************************************************)
EXTENDS Lineage

MCPosition == {"am", "a1", "a2", "a3", "a4", "zm", "z1", "or"}
MCOriginOf == [k \in MCPosition |->
                 IF k \in {"zm", "z1"} THEN "z" ELSE IF k = "or" THEN "none" ELSE "a"]
MCKeyOf == [k \in MCPosition |-> IF k \in {"am", "a1", "a4", "zm"} THEN "alice" ELSE "bob"]
MCValueOf == [k \in MCPosition |->
                CASE k \in {"am", "a4"} -> 3 [] k = "a1" -> 1 [] k \in {"a2", "a3"} -> 2 [] OTHER -> 0]
MCIsMint == {"am", "zm"}
MCMultOf == [o \in {"a", "z"} |-> IF o = "a" THEN 5 ELSE 0]

Tx(s, m) == [i \in 1..Len(s) |-> [makes |-> FALSE, pos |-> s[i]]]
              \o [i \in 1..Len(m) |-> [makes |-> TRUE, pos |-> m[i]]]

MCTx ==
  { Tx(<<>>, <<"am">>), Tx(<<>>, <<"zm">>), Tx(<<>>, <<"or", "am">>),
    Tx(<<"am">>, <<"a1", "a2">>), Tx(<<"am">>, <<"a4">>), Tx(<<"a2">>, <<"a3">>),
    Tx(<<"a1", "a3">>, <<"a4">>), Tx(<<"a2", "a1">>, <<"a4">>), Tx(<<"a4">>, <<>>), Tx(<<"a3">>, <<>>),
    Tx(<<"zm">>, <<"z1">>), Tx(<<"z1", "or">>, <<>>) }

MCBlock == MCTx \cup {t \o u : t \in MCTx, u \in MCTx}
=============================================================================
