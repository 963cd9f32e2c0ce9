------------------------------ MODULE UapProofs ------------------------------
(***************************************************************************)
(* Proofs about Uap: where positions come from, for every set of outputs   *)
(* and every activation height.                                            *)
(***************************************************************************)
EXTENDS Uap, Sums

\* The provers a leaf that names none is given to, in turn.  tlapm gives up
\* preparing an obligation for a prover after a few seconds, which a large
\* context can take; the later entries are there for such a leaf.
USE SMTT(30), Zenon, Z3T(30), SMTT(40)

\* Appending outputs keeps the coins there were.
LEMMA CoinsAppended ==
  ASSUME coins \in Seq(Output), NEW outs \in Seq(Output), coins' = coins \o outs
  PROVE  /\ coins' \in Seq(Output)
         /\ DOMAIN coins = 1..Len(coins)
         /\ DOMAIN coins' = 1..(Len(coins) + Len(outs))
         /\ \A k \in DOMAIN coins : k \in DOMAIN coins' /\ coins'[k] = coins[k]
         /\ \A k \in DOMAIN coins' \ DOMAIN coins :
              k - Len(coins) \in DOMAIN outs /\ coins'[k] = outs[k - Len(coins)]
  OBVIOUS

\* A step that connects a transaction connects one of the lists, whose
\* inputs are unspent.
LEMMA InputsAreLive == ASSUME NEW ins \in Inputs PROVE ins \subseteq live
  BY DEF Inputs

\* Connecting a transaction keeps the type.
LEMMA ConnectKeepsType ==
  ASSUME TypeOK, NEW ins \in Inputs, NEW outs \in OutputLists, Connect(ins, outs)
  PROVE  TypeOK'
<1>1. coins \in Seq(Output) /\ outs \in Seq(Output) /\ coins' = coins \o outs
  BY UapAssumption DEF TypeOK, Connect
<1>2. /\ coins' \in Seq(Output) /\ DOMAIN coins = 1..Len(coins)
      /\ DOMAIN coins' = 1..(Len(coins) + Len(outs))
  BY <1>1, CoinsAppended
<1>3. live' \subseteq DOMAIN coins'
  BY <1>1, <1>2 DEF TypeOK, Connect
<1>4. early' \in 0..Len(coins')
  <2>1. Len(coins') = Len(coins) + Len(outs) /\ Len(coins) \in Nat /\ Len(outs) \in Nat
    BY <1>1
  <2> QED
    BY <2>1 DEF TypeOK, Connect
<1> QED
  BY <1>2, <1>3, <1>4 DEF TypeOK, Connect

\* Origins once squatted on remain so, and every transfer output that is
\* created before activation squats on the origin it names.
LEMMA SquattedGrows ==
  ASSUME TypeOK, NEW ins \in Inputs, NEW outs \in OutputLists, Connect(ins, outs)
  PROVE  /\ Squatted \subseteq Squatted'
         /\ ~Active => \A k \in DOMAIN coins' :
                         coins'[k].kind = "transfer" => coins'[k].origin \in Squatted'
<1>1. coins \in Seq(Output) /\ outs \in Seq(Output) /\ coins' = coins \o outs
  BY UapAssumption DEF TypeOK, Connect
<1>2. /\ DOMAIN coins = 1..Len(coins) /\ Len(coins) \in Nat /\ Len(outs) \in Nat
      /\ DOMAIN coins' = 1..(Len(coins) + Len(outs))
      /\ \A k \in DOMAIN coins : k \in DOMAIN coins' /\ coins'[k] = coins[k]
  BY <1>1, CoinsAppended
<1>3. 1..early \subseteq DOMAIN coins /\ 1..early \subseteq 1..early'
  BY <1>2 DEF TypeOK, Connect
<1>4. ~Active => DOMAIN coins' = 1..early'
  BY <1>2 DEF Connect
<1> QED
  BY <1>2, <1>3, <1>4 DEF Squatted

\* The lineage of an input that a transaction may spend is that of a spent
\* mint, once the transaction is connected.
LEMMA InputHasMint ==
  ASSUME TypeOK, Provenance,
         NEW ins \in Inputs, NEW outs \in OutputLists,
         NEW j \in ins, IsUap(coins[j]), OpMint(j, ins, outs),
         LineageOf(j)[2] \notin Squatted
  PROVE  LET o == LineageOf(j)[2] IN
           /\ o \in DOMAIN coins /\ o \notin live \ ins
           /\ coins[o].kind = "mint" /\ coins[o].mult = LineageOf(j)[1]
           /\ coins[o].value >= EntryFee
<1>1. j \in DOMAIN coins /\ coins[j] \in Covenant
  BY InputsAreLive, UapAssumption DEF TypeOK
<1>2. CASE coins[j].kind = "mint"
  BY <1>1, <1>2 DEF LineageOf, OpMint
<1>3. CASE coins[j].kind = "transfer"
  BY <1>1, <1>3 DEF LineageOf, Named, Provenance
<1> QED
  BY <1>1, <1>2, <1>3 DEF IsUap, Covenant

\* The rule on creation and the checks of the inputs together keep every
\* position's descent, once activated; before, whatever is made is squatted on.
LEMMA ConnectKeepsProvenance ==
  ASSUME TypeOK, Provenance,
         NEW ins \in Inputs, NEW outs \in OutputLists, Connect(ins, outs)
  PROVE  Provenance'
<1> SUFFICES ASSUME NEW k \in DOMAIN coins', coins'[k].kind = "transfer",
                    coins'[k].origin \notin Squatted'
             PROVE  LET o == coins'[k].origin IN
                      /\ o \in DOMAIN coins' /\ o \notin live'
                      /\ coins'[o].kind = "mint" /\ coins'[o].mult = coins'[k].mult
                      /\ coins'[o].value >= EntryFee
  BY DEF Provenance
<1>1. coins \in Seq(Output) /\ outs \in Seq(Output) /\ coins' = coins \o outs
  BY UapAssumption DEF TypeOK, Connect
<1>2. live' = (live \ ins) \cup (Len(coins) + 1)..(Len(coins) + Len(outs))
  BY DEF Connect
<1>3. /\ DOMAIN coins = 1..Len(coins)
      /\ DOMAIN coins' = 1..(Len(coins) + Len(outs))
      /\ \A i \in DOMAIN coins : i \in DOMAIN coins' /\ coins'[i] = coins[i]
      /\ \A i \in DOMAIN coins' \ DOMAIN coins :
           i - Len(coins) \in DOMAIN outs /\ coins'[i] = outs[i - Len(coins)]
  BY <1>1, CoinsAppended
<1>4. \A o \in DOMAIN coins : o \notin live \ ins => o \notin live'
  BY <1>1, <1>2, <1>3
<1>s. coins'[k].origin \notin Squatted /\ Active
  BY SquattedGrows
<1>5. CASE k \in DOMAIN coins
  BY <1>3, <1>4, <1>5, <1>s DEF Provenance
<1>6. CASE k \notin DOMAIN coins
  <2> DEFINE i == k - Len(coins)
  <2>1. i \in DOMAIN outs /\ coins'[k] = outs[i]
    BY <1>3, <1>6
  <2>2. Named(outs[i]) \in InputLineages(ins)
    BY <1>s, <2>1 DEF Connect, MayConnect, CheckUapOutputCreation
  <2>3. PICK j \in ins : IsUap(coins[j]) /\ LineageOf(j) = Named(outs[i])
    BY <2>2 DEF InputLineages
  <2>4. OpMint(j, ins, outs)
    BY <2>3 DEF Connect, MayConnect, CheckInputs
  <2>5. LineageOf(j)[1] = outs[i].mult /\ LineageOf(j)[2] = outs[i].origin
    BY <2>3 DEF Named
  <2> HIDE DEF i
  <2> QED
    BY <1>3, <1>4, <1>s, <2>1, <2>3, <2>4, <2>5, InputHasMint
<1> QED
  BY <1>5, <1>6

\* Every output created is one of Output, and only created ones are unspent.
THEOREM TypeCorrect == Spec => []TypeOK
<1>1. Init => TypeOK
  BY UapAssumption DEF Init, TypeOK
<1>2. TypeOK /\ [Next]_vars => TypeOK'
  <2> SUFFICES ASSUME TypeOK, [Next]_vars PROVE TypeOK'
    OBVIOUS
  <2>1. ASSUME NEW ins \in Inputs, NEW outs \in OutputLists, Connect(ins, outs) PROVE TypeOK'
    BY <2>1, ConnectKeepsType
  <2>2. CASE BlockEnds
    BY <2>2, UapAssumption DEF TypeOK, BlockEnds
  <2>3. CASE UNCHANGED vars
    BY <2>3 DEF TypeOK, vars
  <2> QED
    BY <2>1, <2>2, <2>3 DEF Next
<1> QED
  BY <1>1, <1>2, PTL DEF Spec

\* No chain has a position without a mint, except of the origins named by
\* outputs from before activation: CheckUapOutputCreation and the checks
\* OP_MINT makes leave no other way to create one.
THEOREM PositionsDescendFromMints == Spec => []Provenance
<1>1. Init => Provenance
  <2> SUFFICES ASSUME Init PROVE Provenance
    OBVIOUS
  <2>1. DOMAIN coins = 1..early
    BY UapAssumption DEF Init
  <2> QED
    BY <2>1 DEF Provenance, Squatted
<1>2. TypeOK /\ Provenance /\ [Next]_vars => Provenance'
  <2> SUFFICES ASSUME TypeOK, Provenance, [Next]_vars PROVE Provenance'
    OBVIOUS
  <2>1. ASSUME NEW ins \in Inputs, NEW outs \in OutputLists, Connect(ins, outs) PROVE Provenance'
    BY <2>1, ConnectKeepsProvenance
  <2>2. CASE BlockEnds
    BY <2>2 DEF Provenance, Squatted, BlockEnds
  <2>3. CASE UNCHANGED vars
    BY <2>3 DEF Provenance, Squatted, vars
  <2> QED
    BY <2>1, <2>2, <2>3 DEF Next
<1> QED
  BY <1>1, <1>2, TypeCorrect, PTL DEF Spec

\* The unspent outputs stay as they are when a block ends, so the checks of
\* the inputs, passed below activation or above it, are passed again.
LEMMA ChecksCarryOver ==
  ASSUME TypeOK, BlockEnds, NEW ins, NEW outs, CheckInputs(ins, outs)
  PROVE  CheckInputs(ins, outs)'
<1>1. coins' = coins /\ (Active => Active')
  BY UapAssumption DEF BlockEnds, Active, TypeOK
<1>2. SumIn(ins)' = SumIn(ins)
  BY <1>1 DEF SumIn
<1>3. ASSUME NEW k, OpMint(k, ins, outs) PROVE OpMint(k, ins, outs)'
  BY <1>1, <1>3, ZenonT(60)
     DEF OpMint, WithinBalance, CheckUapOneShot, CheckUapOutputConservation,
                    LineageOf, InputLineages, IsUap, Named, SumIn, SumOut
<1> QED
  BY <1>1, <1>2, <1>3 DEF CheckInputs, SumOut

\* Because the mempool derives the flag from the height of the next block,
\* what it holds can be mined there, and in the block after; when activation
\* lies between, all of it but the transactions that the rule on creation,
\* which the mempool does not apply before, refuses.
THEOREM MempoolAgreesWithBlocks == Spec => PooledStaysMinable
<1>1. ASSUME TypeOK, [Next]_vars, height' > height,
             NEW ins \in Inputs, NEW outs \in OutputLists, AcceptToMemoryPool(ins, outs)
      PROVE  /\ MayConnect(ins, outs)
             /\ \/ MayConnect(ins, outs)'
                \/ ~Active /\ Active' /\ ~CheckUapOutputCreation(ins, outs)
  <2>1. BlockEnds
    BY <1>1 DEF Next, Connect, TypeOK, vars
  <2>2. CheckUapOutputCreation(ins, outs) => CheckUapOutputCreation(ins, outs)'
    BY <2>1
       DEF CheckUapOutputCreation, InputLineages, LineageOf, IsUap, Named, BlockEnds
  <2>3. CheckInputs(ins, outs) /\ CheckInputs(ins, outs)'
    BY <1>1, <2>1, ChecksCarryOver DEF AcceptToMemoryPool
  <2>4. Active => CheckUapOutputCreation(ins, outs)
    BY <1>1 DEF AcceptToMemoryPool
  <2> QED
    BY <2>2, <2>3, <2>4 DEF MayConnect
<1>2. TypeOK /\ [Next]_vars =>
        [height' > height =>
           \A ins \in Inputs, outs \in OutputLists :
             AcceptToMemoryPool(ins, outs) =>
               /\ MayConnect(ins, outs)
               /\ \/ MayConnect(ins, outs)'
                  \/ ~Active /\ Active' /\ ~CheckUapOutputCreation(ins, outs)]_vars
  BY <1>1
<1> QED
  BY <1>2, TypeCorrect, PTL DEF Spec, PooledStaysMinable

-----------------------------------------------------------------------------
\* Coins are finitely many, each worth a natural number.
LEMMA CoinValues ==
  ASSUME TypeOK
  PROVE  /\ IsFiniteSet(DOMAIN coins)
         /\ \A k \in DOMAIN coins : coins[k] \in Covenant /\ coins[k].value \in Nat
         /\ \A S \in SUBSET DOMAIN coins : IsFiniteSet(S) /\ SumIn(S) \in Nat
<1>1. IsFiniteSet(DOMAIN coins)
  BY FS_Interval DEF TypeOK
<1>2. \A k \in DOMAIN coins : coins[k] \in Covenant
  BY UapAssumption DEF TypeOK
<1>3. \A k \in DOMAIN coins : coins[k].value \in Nat
  BY <1>2 DEF Covenant
<1> DEFINE v == [k \in DOMAIN coins |-> coins[k].value]
<1>4. \A S \in SUBSET DOMAIN coins : IsFiniteSet(S) /\ \A k \in S : v[k] \in Nat
  BY <1>1, <1>3, FS_Subset
<1> HIDE DEF v
<1>5. \A S \in SUBSET DOMAIN coins : SumFunctionOnSet(v, S) \in Nat
  BY <1>4, SumNat
<1> QED
  BY <1>1, <1>2, <1>3, <1>4, <1>5 DEF SumIn, v

\* What a set of coins is worth: one coin its value, two separate sets the
\* sum, a part no more than the whole.
LEMMA Worth ==
  ASSUME TypeOK
  PROVE  /\ \A k \in DOMAIN coins : SumIn({k}) = coins[k].value
         /\ \A S, R \in SUBSET DOMAIN coins :
              /\ S \cap R = {} => SumIn(S \cup R) = SumIn(S) + SumIn(R)
              /\ R \subseteq S => SumIn(R) <= SumIn(S)
<1> DEFINE v == [k \in DOMAIN coins |-> coins[k].value]
<1>1. \A k \in DOMAIN coins : v[k] = coins[k].value /\ v[k] \in Nat /\ v[k] \in Int /\ v[k] <= v[k]
  BY CoinValues
<1>2. \A S \in SUBSET DOMAIN coins : IsFiniteSet(S)
  BY CoinValues
<1> HIDE DEF v
<1>3. \A k \in DOMAIN coins : SumFunctionOnSet(v, {k}) = coins[k].value
  BY <1>1, SumSingleton, Zenon
<1>4. ASSUME NEW S \in SUBSET DOMAIN coins, NEW R \in SUBSET DOMAIN coins, S \cap R = {}
      PROVE  SumFunctionOnSet(v, S \cup R) = SumFunctionOnSet(v, S) + SumFunctionOnSet(v, R)
  <2>1. IsFiniteSet(S) /\ IsFiniteSet(R) /\ \A k \in S \cup R : v[k] \in Int
    BY <1>1, <1>2
  <2> QED
    BY <1>4, <2>1, SumUnion
<1>5. ASSUME NEW S \in SUBSET DOMAIN coins, NEW R \in SUBSET DOMAIN coins, R \subseteq S
      PROVE  SumFunctionOnSet(v, R) <= SumFunctionOnSet(v, S)
  <2>1. IsFiniteSet(S) /\ \A k \in S : v[k] \in Int /\ v[k] \in Nat /\ v[k] <= v[k]
    BY <1>1, <1>2
  <2> QED
    BY <1>5, <2>1, SumMonotone
<1> QED
  BY <1>3, <1>4, <1>5 DEF SumIn, v

\* Connecting a transaction changes the worth of no coin there was, and its
\* outputs are worth what they say.
LEMMA WorthAppended ==
  ASSUME TypeOK, NEW outs \in Seq(Output), coins' = coins \o outs
  PROVE  /\ \A k \in DOMAIN coins' : SumIn({k})' = coins'[k].value /\ coins'[k].value \in Nat
         /\ \A I \in SUBSET DOMAIN outs : SumOut(outs, I) \in Int
         /\ \A S \in SUBSET DOMAIN coins, I \in SUBSET DOMAIN outs : \A R :
              (\A k : k \in R <=> \E i \in I : k = Len(coins) + i)
                => SumIn(S \cup R)' = SumIn(S) + SumOut(outs, I)
<1> DEFINE v == [k \in DOMAIN coins |-> coins[k].value]
           w == [k \in DOMAIN coins' |-> coins'[k].value]
           o == [i \in DOMAIN outs |-> outs[i].value]
<1>0. coins \in Seq(Output) /\ Len(coins) \in Nat /\ Len(outs) \in Nat /\ DOMAIN outs = 1..Len(outs)
  BY DEF TypeOK
<1>1. /\ DOMAIN coins = 1..Len(coins)
      /\ DOMAIN coins' = 1..(Len(coins) + Len(outs))
      /\ \A k \in DOMAIN coins : k \in DOMAIN coins' /\ coins'[k] = coins[k]
      /\ coins' \in Seq(Output)
  BY <1>0, CoinsAppended
<1>o. \A x \in Output : x.value \in Nat
  BY UapAssumption DEF Covenant
<1>v. \A k \in DOMAIN coins' : coins'[k].value \in Nat
  <2>1. \A k \in DOMAIN coins' : coins'[k] \in Output
    BY <1>1
  <2> QED
    BY <1>o, <2>1, Zenon
<1>2. \A i \in DOMAIN outs :
        /\ Len(coins) + i \in DOMAIN coins' /\ coins'[Len(coins) + i] = outs[i]
        /\ outs[i].value \in Nat
  <2>1. \A i \in DOMAIN outs : Len(coins) + i \in DOMAIN coins' /\ coins'[Len(coins) + i] = outs[i]
    BY <1>0, <1>1
  <2>2. \A i \in DOMAIN outs : outs[i] \in Output
    BY <1>0
  <2> QED
    BY <1>o, <2>1, <2>2, Zenon
<1>3. \A k \in DOMAIN coins : v[k] \in Int /\ w[k] = v[k]
  BY <1>1, CoinValues
<1>4. \A i \in DOMAIN outs : o[i] \in Int /\ w[Len(coins) + i] = o[i]
  BY <1>2
<1>w. \A k \in DOMAIN coins' : w[k] = coins'[k].value /\ w[k] \in Int
  BY <1>v
<1> HIDE DEF v, w, o
<1>5. ASSUME NEW S \in SUBSET DOMAIN coins
      PROVE  SumFunctionOnSet(w, S) = SumFunctionOnSet(v, S)
  BY <1>3, CoinValues, SumEqual
<1>6. ASSUME NEW I \in SUBSET DOMAIN outs, NEW R,
             \A k : k \in R <=> \E i \in I : k = Len(coins) + i
      PROVE  SumFunctionOnSet(w, R) = SumFunctionOnSet(o, I)
  <2> DEFINE h == [i \in I |-> Len(coins) + i]
  <2>1. /\ \A z : z \in R <=> \E i \in I : z = h[i]
        /\ \A i, j \in I : i # j => h[i] # h[j]
        /\ \A i \in I : o[i] \in Int /\ w[h[i]] = o[i]
    BY <1>0, <1>4, <1>6
  <2>2. IsFiniteSet(1..Len(outs))
    BY <1>0, FS_Interval
  <2>3. IsFiniteSet(I)
    BY <1>0, <2>2, FS_Subset
  <2> HIDE DEF h
  <2>4. Renames(h, o, I, w, R)
    BY <2>1, Zenon DEF Renames
  <2> QED
    BY <2>3, <2>4, SumRename
<1>7. ASSUME NEW S \in SUBSET DOMAIN coins, NEW I \in SUBSET DOMAIN outs,
             NEW R, \A k : k \in R <=> \E i \in I : k = Len(coins) + i
      PROVE  SumFunctionOnSet(w, S \cup R) = SumFunctionOnSet(v, S) + SumFunctionOnSet(o, I)
  <2>1. IsFiniteSet(1..(Len(coins) + Len(outs)))
    BY <1>0, FS_Interval
  <2>2. R \in SUBSET DOMAIN coins' /\ S \in SUBSET DOMAIN coins' /\ S \cap R = {}
    BY <1>0, <1>1, <1>2, <1>7
  <2>3. IsFiniteSet(S) /\ IsFiniteSet(R)
    BY <1>1, <2>1, <2>2, FS_Subset
  <2>4. SumFunctionOnSet(w, S \cup R) = SumFunctionOnSet(w, S) + SumFunctionOnSet(w, R)
    BY <1>w, <2>2, <2>3, SumUnion
  <2> QED
    BY <1>5, <1>6, <1>7, <2>4, Zenon
<1>8. \A k \in DOMAIN coins' : SumFunctionOnSet(w, {k}) = coins'[k].value
  BY <1>w, SumSingleton, ZenonT(60)
<1>9. ASSUME NEW I \in SUBSET DOMAIN outs PROVE SumFunctionOnSet(o, I) \in Int
  <2>1. IsFiniteSet(1..Len(outs))
    BY <1>0, FS_Interval
  <2>2. IsFiniteSet(I)
    BY <1>0, <2>1, FS_Subset
  <2> QED
    BY <1>4, <2>2, SumInt
<1> QED
  BY <1>v, <1>7, <1>8, <1>9, Zenon DEF SumIn, SumOut, v, w, o

-----------------------------------------------------------------------------
\* A mint is spent only within the limits: they are checked when it is.
SpentMintsFit ==
  \A o \in DOMAIN coins \ live :
    coins[o].kind = "mint" => WithinBalance(coins[o]) /\ coins[o].value <= MaxMoney

\* Connecting a transaction keeps the limits: a mint among its inputs has
\* been executed, and counts towards the sum that is compared with MaxMoney.
LEMMA ConnectKeepsLimits ==
  ASSUME TypeOK, SpentMintsFit, NEW ins \in Inputs, NEW outs \in OutputLists, Connect(ins, outs)
  PROVE  SpentMintsFit'
<1> SUFFICES ASSUME NEW o \in DOMAIN coins' \ live', coins'[o].kind = "mint"
             PROVE  WithinBalance(coins'[o]) /\ coins'[o].value <= MaxMoney
  BY DEF SpentMintsFit, WithinBalance
<1>1. coins \in Seq(Output) /\ outs \in Seq(Output) /\ coins' = coins \o outs
  BY UapAssumption DEF TypeOK, Connect
<1>2. live' = (live \ ins) \cup (Len(coins) + 1)..(Len(coins) + Len(outs))
  BY DEF Connect
<1>3. o \in DOMAIN coins /\ coins'[o] = coins[o] /\ (o \in ins \/ o \notin live)
  BY <1>1, <1>2, CoinsAppended
<1>4. CASE o \in ins
  <2>1. IsUap(coins[o])
    BY <1>3 DEF IsUap
  <2>2. OpMint(o, ins, outs)
    BY <1>4, <2>1 DEF Connect, MayConnect, CheckInputs
  <2> DEFINE same == {k \in ins : IsUap(coins[k]) /\ LineageOf(k) = LineageOf(o)}
  <2>3. WithinBalance(coins[o]) /\ SumIn(same) <= MaxMoney
    BY <2>2 DEF OpMint, CheckUapOutputConservation
  <2>4. {o} \subseteq same /\ same \in SUBSET DOMAIN coins
    BY <1>4, <2>1, InputsAreLive DEF TypeOK
  <2> HIDE DEF same
  <2>5. SumIn({o}) <= SumIn(same) /\ SumIn({o}) = coins[o].value
    BY <1>3, <2>4, Worth
  <2>6. coins[o].value \in Nat /\ SumIn(same) \in Nat /\ MaxMoney \in Nat
    BY <1>3, <2>4, CoinValues, UapAssumption
  <2>7. coins[o].value <= MaxMoney
    BY <2>3, <2>5, <2>6
  <2> QED
    BY <1>3, <2>3, <2>7
<1>5. CASE o \notin live
  BY <1>3, <1>5 DEF SpentMintsFit
<1> QED
  BY <1>3, <1>4, <1>5

\* The positions of a mint that is not spent are the mint itself; those of a
\* mint are of its multiplier.
LEMMA PositionsOfMint ==
  ASSUME TypeOK, Provenance, NEW o \in DOMAIN coins \ Squatted, coins[o].kind = "mint"
  PROVE  /\ Positions(o) \in SUBSET DOMAIN coins
         /\ o \in live => Positions(o) = {o}
         /\ \A k \in live : k \in Positions(o) <=> IsUap(coins[k]) /\ LineageOf(k) = <<coins[o].mult, o>>
<1>1. ASSUME NEW k \in live, IsUap(coins[k]), LineageOf(k)[2] = o
      PROVE  LineageOf(k) = <<coins[o].mult, o>> /\ (o \in live => k = o)
  <2>1. CASE coins[k].kind = "mint"
    BY <1>1, <2>1 DEF LineageOf
  <2>2. CASE coins[k].kind = "transfer"
    BY <1>1, <2>2 DEF LineageOf, Named, Provenance, TypeOK
  <2>3. coins[k] \in Covenant
    BY CoinValues DEF TypeOK
  <2> QED
    BY <1>1, <2>1, <2>2, <2>3 DEF IsUap, Covenant
<1>2. o \in live => o \in Positions(o)
  BY DEF Positions, IsUap, LineageOf
<1>3. \A k \in live : IsUap(coins[k]) /\ LineageOf(k) = <<coins[o].mult, o>> => k \in Positions(o)
  BY DEF Positions
<1> QED
  BY <1>1, <1>2, <1>3 DEF Positions, TypeOK

\* The outputs that continue the lineage of the mint o, and the coins that
\* the outputs I become.
Continuing(o, outs) ==
  {i \in DOMAIN outs : outs[i].kind = "transfer" /\ Named(outs[i]) = <<coins[o].mult, o>>}
Created(I) == {Len(coins) + i : i \in I}

\* What connecting a transaction does to the positions of a mint there was:
\* those among the inputs go, the outputs that name its lineage come.
LEMMA PositionsAfterConnect ==
  ASSUME TypeOK, TypeOK', Provenance, Provenance',
         NEW ins \in Inputs, NEW outs \in OutputLists, Connect(ins, outs),
         NEW o \in DOMAIN coins, o \notin Squatted', coins[o].kind = "mint"
  PROVE  Positions(o)' = (Positions(o) \ ins) \cup Created(Continuing(o, outs))
<1> DEFINE I == Continuing(o, outs)
           R == Created(I)
<1> /\ I \subseteq DOMAIN outs
    /\ \A i \in DOMAIN outs :
         i \in I <=> outs[i].kind = "transfer" /\ Named(outs[i]) = <<coins[o].mult, o>>
    /\ \A k : k \in R <=> \E i \in I : k = Len(coins) + i
  BY DEF Continuing, Created
<1> HIDE DEF I, R
<1>1. coins \in Seq(Output) /\ outs \in Seq(Output) /\ coins' = coins \o outs
  BY UapAssumption DEF TypeOK, Connect
<1>2. live' = (live \ ins) \cup (Len(coins) + 1)..(Len(coins) + Len(outs))
  BY DEF Connect
<1>3. /\ DOMAIN coins = 1..Len(coins) /\ Len(coins) \in Nat /\ Len(outs) \in Nat
      /\ DOMAIN outs = 1..Len(outs)
      /\ DOMAIN coins' = 1..(Len(coins) + Len(outs))
      /\ \A k \in DOMAIN coins : k \in DOMAIN coins' /\ coins'[k] = coins[k]
  BY <1>1, CoinsAppended
<1>4. \A i \in DOMAIN outs : Len(coins) + i \in DOMAIN coins' /\ coins'[Len(coins) + i] = outs[i]
  BY <1>1, <1>3
<1>5. o \in DOMAIN coins' /\ coins'[o].kind = "mint" /\ coins'[o].mult = coins[o].mult
  BY <1>3
<1> DEFINE Belongs(k) == IsUap(coins[k]) /\ LineageOf(k) = <<coins[o].mult, o>>
<1>6. /\ \A k \in live : k \in Positions(o) <=> Belongs(k)
      /\ Positions(o) \subseteq live
  BY PositionsOfMint, SquattedGrows DEF Positions
<1>7. /\ \A k \in live' : k \in Positions(o)' <=> Belongs(k)'
      /\ Positions(o)' \subseteq live'
  <2>1. Provenance' /\ coins' \in Seq(Output) /\ live' \subseteq DOMAIN coins'
    BY DEF TypeOK
  <2>2. \A k \in live' : coins'[k] \in Covenant
    BY <2>1, UapAssumption
  <2>3. ASSUME NEW k \in live', k \in Positions(o)' PROVE Belongs(k)'
    <3>1. IsUap(coins'[k]) /\ LineageOf(k)'[2] = o
      BY <2>3 DEF Positions, IsUap
    <3>2. CASE coins'[k].kind = "mint"
      BY <3>1, <3>2, <1>5 DEF LineageOf, IsUap
    <3>3. CASE coins'[k].kind = "transfer"
      <4>1. coins'[k].origin = o /\ LineageOf(k)' = <<coins'[k].mult, o>>
        BY <3>1, <3>3 DEF LineageOf, Named
      <4>2. coins'[o].mult = coins'[k].mult
        BY <2>1, <3>3, <4>1 DEF Provenance
      <4> QED
        BY <3>1, <4>1, <4>2, <1>5 DEF IsUap
    <3> QED
      BY <2>2, <3>1, <3>2, <3>3 DEF IsUap, Covenant
  <2>4. ASSUME NEW k \in live', Belongs(k)' PROVE k \in Positions(o)'
    BY <2>4 DEF Positions
  <2> QED
    BY <2>3, <2>4 DEF Positions
<1>8. ASSUME NEW k \in live \ ins PROVE k \in Positions(o)' <=> k \in Positions(o)
  <2>1. k \in live' /\ coins'[k] = coins[k]
    BY <1>2, <1>3 DEF TypeOK
  <2>2. Belongs(k)' <=> Belongs(k)
    BY <2>1, <1>5 DEF IsUap, LineageOf, Named
  <2> QED
    BY <2>1, <2>2, <1>6, <1>7
<1>9. ASSUME NEW i \in DOMAIN outs PROVE Len(coins) + i \in Positions(o)' <=> i \in I
  <2> DEFINE k == Len(coins) + i
  <2>1. k \in live' /\ coins'[k] = outs[i] /\ k \notin DOMAIN coins
    BY <1>2, <1>3, <1>4
  <2>2. PICK c : c = k
    OBVIOUS
  <2> HIDE DEF k
  <2>3. Belongs(c)' <=> outs[i].kind = "transfer" /\ Named(outs[i]) = <<coins[o].mult, o>>
    <3>0. outs[i] \in Covenant
      BY <1>1, UapAssumption
    <3>1. coins'[c] = outs[i] /\ c # o /\ outs[i].kind \in {"plain", "mint", "transfer"}
      BY <2>1, <2>2, <3>0 DEF Covenant
    <3> QED
      BY <3>1, <1>5 DEF IsUap, LineageOf, Named
  <2>4. c \in Positions(o)' <=> i \in I
    BY <2>1, <2>2, <2>3, <1>7
  <2> QED
    BY <2>2, <2>4 DEF k
<1>10. \A k \in live' : k \in live \ ins \/ \E i \in DOMAIN outs : k = Len(coins) + i
  <2>1. ASSUME NEW k \in (Len(coins) + 1)..(Len(coins) + Len(outs))
        PROVE  \E i \in DOMAIN outs : k = Len(coins) + i
    <3>1. k - Len(coins) \in DOMAIN outs /\ k = Len(coins) + (k - Len(coins))
      BY <1>3
    <3> QED
      BY <3>1
  <2> QED
    BY <1>2, <2>1
<1>11. \A k : k \in Positions(o)' <=> k \in (Positions(o) \ ins) \cup R
  <2>1. ASSUME NEW k \in Positions(o)' PROVE k \in (Positions(o) \ ins) \cup R
    BY <1>7, <1>8, <1>9, <1>10, <2>1
  <2>2. ASSUME NEW k \in Positions(o) \ ins PROVE k \in Positions(o)'
    BY <1>6, <1>8, <2>2
  <2>3. ASSUME NEW i \in I PROVE Len(coins) + i \in Positions(o)'
    BY <1>9, <2>3
  <2> QED
    BY <2>1, <2>2, <2>3
<1> QED
  BY <1>11 DEF I, R

\* CheckUapOutputConservation, made for each input that is a position, keeps
\* each lineage within its mint.
LEMMA ConnectKeepsBacking ==
  ASSUME TypeOK, TypeOK', Provenance, Provenance', BackingBounded,
         NEW ins \in Inputs, NEW outs \in OutputLists, Connect(ins, outs)
  PROVE  BackingBounded'
<1> SUFFICES ASSUME NEW o \in DOMAIN coins' \ Squatted', coins'[o].kind = "mint"
             PROVE  SumIn(Positions(o))' <= coins'[o].value
  BY DEF BackingBounded
<1>1. coins \in Seq(Output) /\ outs \in Seq(Output) /\ coins' = coins \o outs
  BY UapAssumption DEF TypeOK, Connect
<1>2. live' = (live \ ins) \cup (Len(coins) + 1)..(Len(coins) + Len(outs))
  BY DEF Connect
<1>3. /\ DOMAIN coins = 1..Len(coins) /\ Len(coins) \in Nat /\ Len(outs) \in Nat
      /\ DOMAIN outs = 1..Len(outs)
      /\ DOMAIN coins' = 1..(Len(coins) + Len(outs))
      /\ \A k \in DOMAIN coins : k \in DOMAIN coins' /\ coins'[k] = coins[k]
  BY <1>1, CoinsAppended
<1>s. o \notin Squatted
  BY SquattedGrows
<1>4. CASE o \notin DOMAIN coins
  <2>1. o \in live'
    BY <1>2, <1>3, <1>4
  <2>2. \A k \in live' : coins'[k].kind = "transfer" => coins'[k].origin # o
    BY <2>1 DEF Provenance, TypeOK
  <2>3. \A k \in live' : coins'[k].kind \in {"plain", "mint", "transfer"}
    BY UapAssumption DEF TypeOK, Covenant
  <2>4. ASSUME NEW k \in live' PROVE k \in Positions(o)' <=> k = o
    BY <2>2, <2>3 DEF Positions, IsUap, LineageOf, Named
  <2>5. Positions(o)' = {o}
    BY <2>1, <2>4 DEF Positions
  <2>6. SumIn({o})' = coins'[o].value /\ coins'[o].value \in Nat
    BY <1>1, WorthAppended, Zenon
  <2> QED
    BY <2>5, <2>6
<1>5. CASE o \in DOMAIN coins
  <2> DEFINE l == <<coins[o].mult, o>>
  <2>1. PICK I, old, gone, new :
          /\ I = Continuing(o, outs) /\ new = Created(I)
          /\ old = Positions(o) \ ins /\ gone = Positions(o) \cap ins
    BY Zenon
  <2>c. /\ I = {i \in DOMAIN outs : outs[i].kind = "transfer" /\ Named(outs[i]) = l}
        /\ I \in SUBSET DOMAIN outs
        /\ \A k : k \in new <=> \E i \in I : k = Len(coins) + i
    BY <2>1 DEF Continuing, Created
  <2>2. coins[o].kind = "mint" /\ coins'[o].value = coins[o].value /\ coins[o].value \in Nat
    BY <1>3, <1>5, CoinValues
  <2>3. Positions(o)' = old \cup new
    BY <1>5, <2>1, <2>2, PositionsAfterConnect
  <2>4. Positions(o) \in SUBSET DOMAIN coins
    BY <1>5, <1>s, <2>2, PositionsOfMint
  <2>5. old \in SUBSET DOMAIN coins /\ gone \in SUBSET DOMAIN coins
    BY <2>1, <2>4
  <2>6. old \cup gone = Positions(o) /\ old \cap gone = {}
    BY <2>1
  <2>7. /\ SumIn(Positions(o)) = SumIn(old) + SumIn(gone)
        /\ SumIn(old) \in Nat /\ SumIn(gone) \in Nat
    BY <2>5, <2>6, Worth, CoinValues
  <2>8. SumIn(old \cup new)' = SumIn(old) + SumOut(outs, I)
    <3>1. \A S \in SUBSET DOMAIN coins, J \in SUBSET DOMAIN outs : \A R :
            (\A k : k \in R <=> \E i \in J : k = Len(coins) + i)
              => SumIn(S \cup R)' = SumIn(S) + SumOut(outs, J)
      BY <1>1, WorthAppended, Zenon
    <3>2. I \in SUBSET DOMAIN outs /\ \A k : k \in new <=> \E i \in I : k = Len(coins) + i
      BY <2>c
    <3> HIDE DEF l
    <3> QED
      BY <2>5, <3>1, <3>2, Zenon
  <2>9. SumOut(outs, I) <= SumIn(gone)
    <3>1. CASE I = {}
      BY <3>1, <2>7, SumEmpty DEF SumOut
    <3>2. CASE I # {}
      <4>1. PICK i \in I : Named(outs[i]) = l
        BY <2>c, <3>2
      <4>a. Active
        <5>1. /\ Len(coins) + i \in DOMAIN coins' /\ coins'[Len(coins) + i] = outs[i]
              /\ outs[i].kind = "transfer" /\ outs[i].origin = o
          BY <1>1, <1>3, <2>c, <4>1 DEF Named
        <5> QED
          BY <5>1, SquattedGrows
      <4>2. l \in InputLineages(ins)
        BY <2>c, <4>1, <4>a, Zenon
           DEF Connect, MayConnect, CheckUapOutputCreation
      <4>3. PICK j \in ins : IsUap(coins[j]) /\ LineageOf(j) = l
        BY <4>2 DEF InputLineages
      <4>4. OpMint(j, ins, outs)
        BY <4>3 DEF Connect, MayConnect, CheckInputs
      <4>5. SumOut(outs, I) <= SumIn({k \in ins : IsUap(coins[k]) /\ LineageOf(k) = l})
        BY <2>c, <4>3, <4>4 DEF OpMint, CheckUapOutputConservation
      <4>6. {k \in ins : IsUap(coins[k]) /\ LineageOf(k) = l} = gone
        BY <1>5, <1>s, <2>1, <2>2, PositionsOfMint, InputsAreLive
      <4> QED
        BY <4>5, <4>6
    <3> QED
      BY <3>1, <3>2
  <2>10. SumIn(Positions(o)) <= coins[o].value
    BY <1>5, <1>s, <2>2 DEF BackingBounded
  <2>11. SumOut(outs, I) \in Int
    BY <1>1, <2>c, WorthAppended, Zenon
  <2>12. SumIn(Positions(o))' = SumIn(old \cup new)'
    BY <2>3
  <2> QED
    BY <2>2, <2>7, <2>8, <2>9, <2>10, <2>11, <2>12
<1> QED
  BY <1>4, <1>5

\* While no mint has been spent, each backs itself.
LEMMA StartIsBacked == ASSUME TypeOK, Provenance, live = DOMAIN coins PROVE BackingBounded
<1> SUFFICES ASSUME NEW o \in DOMAIN coins \ Squatted, coins[o].kind = "mint"
             PROVE  SumIn(Positions(o)) <= coins[o].value
  BY DEF BackingBounded
<1>1. Positions(o) = {o}
  BY PositionsOfMint
<1>2. SumIn({o}) = coins[o].value /\ coins[o].value \in Nat
  BY Worth, CoinValues
<1> QED
  BY <1>1, <1>2

\* The checks of OP_MINT_TRANSFER bound what a lineage's unspent positions
\* are worth together by its mint, for every number of splits, merges and
\* swaps, unless an output from before activation names it too.
THEOREM LineagesStayBacked == Spec => []BackingBounded
<1>1. Init /\ TypeOK /\ Provenance => BackingBounded
  BY StartIsBacked DEF Init
<1>2. TypeOK /\ TypeOK' /\ Provenance /\ Provenance' /\ BackingBounded /\ [Next]_vars => BackingBounded'
  <2> SUFFICES ASSUME TypeOK, TypeOK', Provenance, Provenance', BackingBounded, [Next]_vars
               PROVE  BackingBounded'
    OBVIOUS
  <2>1. ASSUME NEW ins \in Inputs, NEW outs \in OutputLists, Connect(ins, outs) PROVE BackingBounded'
    BY <2>1, ConnectKeepsBacking
  <2>2. CASE UNCHANGED <<coins, live, early>>
    BY <2>2 DEF BackingBounded, Squatted, SumIn, Positions, IsUap, LineageOf, Named
  <2> QED
    BY <2>1, <2>2 DEF Next, BlockEnds, vars
<1> QED
  BY <1>1, <1>2, TypeCorrect, PositionsDescendFromMints, PTL DEF Spec

\* Every mint that was spent was within MAX_MONEY and the virtual balance.
THEOREM SpentMintsWereChecked == Spec => []SpentMintsFit
<1>1. Init => SpentMintsFit
  BY DEF Init, SpentMintsFit
<1>2. TypeOK /\ SpentMintsFit /\ [Next]_vars => SpentMintsFit'
  <2> SUFFICES ASSUME TypeOK, SpentMintsFit, [Next]_vars PROVE SpentMintsFit'
    OBVIOUS
  <2>1. ASSUME NEW ins \in Inputs, NEW outs \in OutputLists, Connect(ins, outs) PROVE SpentMintsFit'
    BY <2>1, ConnectKeepsLimits
  <2>2. CASE UNCHANGED <<coins, live>>
    BY <2>2 DEF SpentMintsFit, WithinBalance
  <2> QED
    BY <2>1, <2>2 DEF Next, BlockEnds, vars
<1> QED
  BY <1>1, <1>2, TypeCorrect, PTL DEF Spec

\* A smaller position of the same multiplier is within the virtual balance if
\* the larger is.
LEMMA SmallerFits ==
  ASSUME NEW a \in Covenant, NEW b \in Covenant, a.mult = b.mult, a.value <= b.value, WithinBalance(b)
  PROVE  WithinBalance(a)
<1>1. a.value \in Nat /\ b.value \in Nat /\ b.mult \in Nat
  BY DEF Covenant
<1>2. COIN \in Nat \ {0} /\ MaxBalance \in Nat
  BY UapAssumption
<1>3. /\ a.value \div COIN <= b.value \div COIN
      /\ a.value \div COIN \in Nat /\ b.value \div COIN \in Nat
  BY <1>1, <1>2
<1>4. b.mult > 0 => MaxBalance \div b.mult \in Nat
  BY <1>1, <1>2
<1> QED
  BY <1>1, <1>3, <1>4 DEF WithinBalance

\* A position worth no more than a checked mint can be sent on whole.
LEMMA BackedPositionMoves ==
  ASSUME TypeOK, Provenance, BackingBounded, SpentMintsFit,
         NEW k \in live, coins[k].kind = "transfer", coins[k].origin \notin Squatted
  PROVE  OpMint(k, {k}, <<coins[k]>>)
<1> DEFINE o == coins[k].origin
<1>1. /\ k \in DOMAIN coins /\ coins[k] \in Covenant /\ coins[k].value \in Nat
      /\ SumIn({k}) = coins[k].value
  BY CoinValues, Worth DEF TypeOK
<1>2. /\ o \in DOMAIN coins \ live /\ coins[o].kind = "mint"
      /\ coins[o].mult = coins[k].mult
  BY <1>1 DEF Provenance
<1>3. /\ WithinBalance(coins[o]) /\ coins[o].value <= MaxMoney
      /\ coins[o] \in Covenant /\ coins[o].value \in Nat
  BY <1>2, CoinValues DEF SpentMintsFit
<1>4. {k} \subseteq Positions(o) /\ Positions(o) \in SUBSET DOMAIN coins
  BY <1>1, <1>2, PositionsOfMint DEF Positions, IsUap, LineageOf, Named
<1>5. SumIn({k}) <= SumIn(Positions(o)) /\ SumIn(Positions(o)) \in Nat
  BY <1>1, <1>4, Worth, CoinValues
<1>6. SumIn(Positions(o)) <= coins[o].value
  BY <1>2 DEF BackingBounded
<1>7. coins[k].value <= coins[o].value
  BY <1>1, <1>3, <1>5, <1>6
<1>8. WithinBalance(coins[k])
  BY <1>1, <1>2, <1>3, <1>7, SmallerFits
<1>9. coins[k].value <= MaxMoney
  BY <1>1, <1>3, <1>7, UapAssumption
<1> HIDE DEF o
<1>10. IsUap(coins[k]) /\ LineageOf(k) = Named(coins[k])
  BY DEF IsUap, LineageOf
<1> DEFINE outs == <<coins[k]>>
           v == [i \in DOMAIN outs |-> outs[i].value]
<1>11. DOMAIN outs = {1} /\ outs[1] = coins[k] /\ v[1] = coins[k].value
  OBVIOUS
<1> HIDE DEF outs, v
<1>12. SumOut(outs, {1}) = coins[k].value
  BY <1>1, <1>11, SumSingleton DEF SumOut, v
<1>13. {i \in {k} : IsUap(coins[i]) /\ LineageOf(i) = LineageOf(k)} = {k}
  BY <1>10
<1>14. {i \in DOMAIN outs : outs[i].kind = "transfer" /\ Named(outs[i]) = LineageOf(k)} = {1}
  BY <1>10, <1>11
<1>15. InputLineages({k}) = {LineageOf(k)}
  BY <1>10 DEF InputLineages
<1>16. CheckUapOutputConservation(LineageOf(k), {k}, outs)
  BY <1>1, <1>9, <1>10, <1>11, <1>12, <1>13, <1>14, <1>15
     DEF CheckUapOutputConservation
<1> QED
  BY <1>8, <1>16 DEF OpMint, outs

\* No merge makes a position that OP_MINT_TRANSFER would refuse to move for
\* its size: it is worth no more than its mint, and the mint was checked.
THEOREM PositionsNeverStick == Spec => []PositionsCanMove
<1>1. TypeOK /\ Provenance /\ BackingBounded /\ SpentMintsFit => PositionsCanMove
  BY BackedPositionMoves DEF PositionsCanMove
<1> QED
  BY <1>1, TypeCorrect, PositionsDescendFromMints, LineagesStayBacked,
     SpentMintsWereChecked, PTL
=============================================================================
