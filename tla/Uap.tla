--------------------------------- MODULE Uap ---------------------------------
(***************************************************************************)
(* The node's rules for UAP positions (src/validation.cpp, script/         *)
(* interpreter.cpp): which transactions a block, and the memory pool, may  *)
(* hold, and what they make of the unspent outputs.                        *)
(*                                                                         *)
(* An outpoint is the number of the output in the order of creation, so    *)
(* the SHA256 of an outpoint, by which UapOriginFromOutpoint names the     *)
(* lineage of a mint, is the outpoint itself.  A script is what            *)
(* ParseUapOutputScript makes of it.  Signatures are valid; the blocks of  *)
(* one chain are connected, transaction by transaction (disconnecting a    *)
(* block returns to an earlier state).                                     *)
(***************************************************************************)
EXTENDS Integers, Sequences, FiniteSetsExt

CONSTANTS
  Output,          \* outputs
  OutputLists,     \* the lists of outputs transactions may have
  Start,           \* the sets of outputs a chain may start from, as sequences
  Multiplier,      \* multipliers of positions
  EntryFee,        \* 1000 * COIN
  COIN,
  MaxBalance,      \* kMaxVirtualBalance
  MaxMoney,        \* MAX_MONEY
  UAPMintHeight,   \* activation
  MaxOutputs,      \* bound: outputs ever created
  MaxEarly,        \* bound: those of them created before activation
  MaxHeight        \* bound: blocks

\* An output: "plain" ones are no position, "mint" ones have no origin.
Covenant == [kind : {"plain", "mint", "transfer"}, mult : Nat, origin : Nat, value : Nat]

ASSUME UapAssumption ==
  /\ Output \subseteq Covenant
  /\ \A o \in Output : o.kind # "plain" => o.mult \in Multiplier
  /\ OutputLists \subseteq Seq(Output) /\ <<>> \notin OutputLists
  /\ Start \subseteq Seq(Output)
  /\ Multiplier \subseteq Nat
  /\ EntryFee \in Nat /\ COIN \in Nat \ {0} /\ MaxBalance \in Nat /\ MaxMoney \in Nat
  /\ UAPMintHeight \in Nat /\ MaxOutputs \in Nat /\ MaxEarly \in Nat /\ MaxHeight \in Nat

VARIABLES
  coins,   \* every output created, in order
  live,    \* the unspent ones
  height,  \* of the chain's tip
  early    \* how many of them were created before activation (history: no rule reads it)

vars == <<coins, live, height, early>>

\* Each variable is of its type.
TypeOK ==
  /\ coins \in Seq(Output)
  /\ live \subseteq DOMAIN coins
  /\ height \in 0..MaxHeight
  /\ early \in 0..Len(coins)

Init ==
  /\ coins \in Start /\ live = DOMAIN coins
  /\ height = 0 /\ early = Len(coins)

-----------------------------------------------------------------------------
IsUap(o) == o.kind # "plain"

\* The lineage an output continues, and the one the coin k belongs to.
Named(o) == <<o.mult, o.origin>>
LineageOf(k) == IF coins[k].kind = "mint" THEN <<coins[k].mult, k>> ELSE Named(coins[k])

InputLineages(ins) == {LineageOf(k) : k \in {j \in ins : IsUap(coins[j])}}

SumIn(ins) == SumFunctionOnSet([k \in DOMAIN coins |-> coins[k].value], ins)
SumOut(outs, I) == SumFunctionOnSet([i \in DOMAIN outs |-> outs[i].value], I)

CheckUapOutputCreation_IfSpending(ins, outs) ==
  InputLineages(ins) # {} =>
    \A i \in DOMAIN outs : outs[i].kind = "transfer" => Named(outs[i]) \in InputLineages(ins)

\* A transfer output names a lineage the transaction spends.
CheckUapOutputCreation(ins, outs) ==
  \A i \in DOMAIN outs : outs[i].kind = "transfer" => Named(outs[i]) \in InputLineages(ins)

CheckUapOneShot(k, ins) == \A j \in ins \ {k} : ~IsUap(coins[j])

CheckUapOutputConservation_AllInputs(l, ins, outs) ==
  LET mine == {i \in DOMAIN outs : outs[i].kind = "transfer" /\ Named(outs[i]) = l}
  IN  /\ \A i \in DOMAIN outs : outs[i].kind # "mint"
      /\ mine # {}
      /\ SumOut(outs, mine) <= SumIn(ins)

\* Lineage l goes on, in outputs worth no more than its inputs; no output is
\* a mint or of a lineage without inputs.
CheckUapOutputConservation(l, ins, outs) ==
  LET same == {k \in ins : IsUap(coins[k]) /\ LineageOf(k) = l}
      mine == {i \in DOMAIN outs : outs[i].kind = "transfer" /\ Named(outs[i]) = l}
  IN  /\ SumIn(same) <= MaxMoney /\ SumOut(outs, mine) <= MaxMoney
      /\ \A i \in DOMAIN outs : outs[i].kind # "mint"
      /\ \A i \in DOMAIN outs : outs[i].kind = "transfer" => Named(outs[i]) \in InputLineages(ins)
      /\ mine # {}
      /\ SumOut(outs, mine) <= SumIn(same)

\* (base coin * multiplier) <= 2^48, in the code's division.
WithinBalance(o) ==
  o.mult > 0 /\ o.value \div COIN > 0 => o.value \div COIN <= MaxBalance \div o.mult

OpMint_MintUnbounded(k, ins, outs) ==
  /\ coins[k].kind = "mint" => coins[k].value >= EntryFee
  /\ coins[k].kind = "transfer" => WithinBalance(coins[k])
  /\ coins[k].kind = "mint" => CheckUapOneShot(k, ins)
  /\ CheckUapOutputConservation(LineageOf(k), ins, outs)

\* Executing OP_MINT or OP_MINT_TRANSFER of input k, once activated.
OpMint(k, ins, outs) ==
  /\ coins[k].kind = "mint" => coins[k].value >= EntryFee
  /\ WithinBalance(coins[k])
  /\ coins[k].kind = "mint" => CheckUapOneShot(k, ins)
  /\ CheckUapOutputConservation(LineageOf(k), ins, outs)

-----------------------------------------------------------------------------
\* GetUapMintFlags of the next block.
Active == height + 1 >= UAPMintHeight

\* CheckTxInputs and the inputs' scripts, under the flags of the next block.
CheckInputs(ins, outs) ==
  /\ SumOut(outs, DOMAIN outs) <= SumIn(ins)
  /\ \A k \in ins : IsUap(coins[k]) => Active /\ OpMint(k, ins, outs)

AcceptToMemoryPool_Constant(ins, outs) ==
  /\ ins # {}
  /\ CheckUapOutputCreation(ins, outs)
  /\ SumOut(outs, DOMAIN outs) <= SumIn(ins)
  /\ \A k \in ins : IsUap(coins[k]) => OpMint(k, ins, outs)

\* The checks of AcceptToMemoryPool that concern positions.
AcceptToMemoryPool(ins, outs) ==
  /\ ins # {}
  /\ ~Active => \A k \in ins : ~IsUap(coins[k])
  /\ Active => CheckUapOutputCreation(ins, outs)
  /\ CheckInputs(ins, outs)

\* ConnectBlock, for one transaction; a coinbase has no inputs.  (Its value is
\* not limited here, nor the number of coinbases between two BlockEnds: what
\* holds of these chains holds of those with one coinbase a block.)
MayConnect(ins, outs) ==
  /\ Active => CheckUapOutputCreation(ins, outs)
  /\ ins # {} => CheckInputs(ins, outs)

Connect_OneMore(ins, outs) ==
  /\ Len(coins) + Len(outs) <= IF Active THEN MaxOutputs ELSE MaxEarly
  /\ MayConnect(ins, outs)
  /\ coins' = coins \o outs
  /\ live' = (live \ ins) \cup (Len(coins) + 1)..(Len(coins) + Len(outs) + 1)
  /\ early' = IF Active THEN early ELSE Len(coins) + Len(outs)
  /\ UNCHANGED height

Connect(ins, outs) ==
  /\ Len(coins) + Len(outs) <= IF Active THEN MaxOutputs ELSE MaxEarly
  /\ MayConnect(ins, outs)
  /\ coins' = coins \o outs
  /\ live' = (live \ ins) \cup (Len(coins) + 1)..(Len(coins) + Len(outs))
  /\ early' = IF Active THEN early ELSE Len(coins) + Len(outs)
  /\ UNCHANGED height

BlockEnds ==
  /\ height < MaxHeight
  /\ height' = height + 1
  /\ UNCHANGED <<coins, live, early>>

\* Bound: transactions of at most two inputs.
Inputs == {{}} \cup {{j, k} : j \in live, k \in live}

Next ==
  \/ \E ins \in Inputs, outs \in OutputLists : Connect(ins, outs)
  \/ BlockEnds

Spec == Init /\ [][Next]_vars

-----------------------------------------------------------------------------
Positions(o) == {k \in live : IsUap(coins[k]) /\ LineageOf(k)[2] = o}

\* Before activation the rule on creation is not enforced, and a transfer
\* output may name any lineage: the origins so named, of which nothing is said.
Squatted == {coins[k].origin : k \in {k \in 1..early : coins[k].kind = "transfer"}}

\* Every other position descends from a mint that paid the entry fee: its
\* origin is a mint output that was spent, of the position's own multiplier.
Provenance ==
  \A k \in DOMAIN coins :
    coins[k].kind = "transfer" /\ coins[k].origin \notin Squatted =>
      LET o == coins[k].origin IN
        /\ o \in DOMAIN coins /\ o \notin live
        /\ coins[o].kind = "mint" /\ coins[o].mult = coins[k].mult
        /\ coins[o].value >= EntryFee

\* However a lineage is split, merged and swapped alongside others, its
\* unspent positions are together worth no more than its mint was.
BackingBounded ==
  \A o \in DOMAIN coins \ Squatted :
    coins[o].kind = "mint" => SumIn(Positions(o)) <= coins[o].value

\* No merge makes a position that is too large to move: each can be sent
\* on whole, by itself.
PositionsCanMove ==
  \A k \in live :
    coins[k].kind = "transfer" /\ coins[k].origin \notin Squatted
      => OpMint(k, {k}, <<coins[k]>>)

\* What the mempool takes the next block takes, and so does the block after
\* it if the inputs are still unspent; also when activation comes in between,
\* with one exception: a transaction that makes a transfer output of a
\* lineage it does not spend.  The mempool takes it before activation, and
\* from then on no block does.
PooledStaysMinable ==
  [][height' > height =>
       \A ins \in Inputs, outs \in OutputLists :
         AcceptToMemoryPool(ins, outs) =>
           /\ MayConnect(ins, outs)
           /\ \/ MayConnect(ins, outs)'
              \/ ~Active /\ Active' /\ ~CheckUapOutputCreation(ins, outs)]_vars
=============================================================================
