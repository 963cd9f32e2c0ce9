----------------------------- MODULE UapScript -----------------------------
(***************************************************************************)
(* UAP output scripts: the node's parser (script.cpp), by which consensus  *)
(* decides what is a position, the indexer's own (contrib/uap-indexer,     *)
(* script.go), by which it decides what to index, and the builder of the   *)
(* Go package uaptx (contrib/uaptx, script.go).                            *)
(*                                                                         *)
(* A script is a sequence of elements: an opcode and the data it pushes.   *)
(* Sizes are scaled down, bytes included: they are 0..Radix - 1.           *)
(***************************************************************************)
EXTENDS Integers, Sequences, FiniteSetsExt

CONSTANTS
  Radix,        \* 256
  DirectMax,    \* 75: the longest push whose opcode is its length
  SmallMax,     \* 16: OP_1 .. OP_16
  NumSize,      \* 4: CScriptNum's default size limit
  GoNumSize,    \* 8: scriptNumToInt64's
  PubkeySizes,  \* {33, 65}
  OriginSize,   \* 32
  ElementAt     \* [1..4 -> sets of elements]: what scripts are made of

HighBit == Radix \div 2
Power[k \in Nat] == IF k = 0 THEN 1 ELSE Radix * Power[k - 1]
MaxMultiplier == HighBit * Power[NumSize - 1] - 1

OP_0 == 0
OP_PUSHDATA1 == DirectMax + 1
OP_PUSHDATA2 == DirectMax + 2
OP_PUSHDATA4 == DirectMax + 3
OP_1NEGATE == DirectMax + 4
OP_1 == DirectMax + 6
OP_MINT == Radix - 2
OP_MINT_TRANSFER == Radix - 1
Truncated == Radix      \* a push that runs past the end of the script

\* What a script is cut into: only pushes have data.
IsElement(e) ==
  /\ e \in [op : 0..Truncated, data : Seq(0..Radix - 1)]
  /\ e.op > OP_PUSHDATA4 => e.data = <<>>

ASSUME ScriptAssumption ==
  /\ Radix \in Nat /\ HighBit \in Nat \ {0} /\ Radix = 2 * HighBit
  /\ DirectMax \in Nat /\ SmallMax \in 1..HighBit - 1
  /\ OP_1 + SmallMax - 1 < OP_MINT
  /\ NumSize \in 1..DirectMax /\ GoNumSize \in Nat /\ NumSize <= GoNumSize
  /\ PubkeySizes \subseteq 2..Radix * Radix - 1 /\ OriginSize \in 2..Radix * Radix - 1
  /\ \A i \in 1..4 : \A e \in ElementAt[i] : IsElement(e)

VARIABLE script  \* the script both parsers are given

NotUap == [multiplier |-> -1, pubkey |-> <<>>, origin |-> <<>>]

\* The value of a script number: little-endian, the sign in the top bit.
Unsigned(d) == SumFunctionOnSet([i \in 1..Len(d) |-> d[i] * Power[i - 1]], 1..Len(d))
NumberOf(d) ==
  IF d = <<>> THEN 0
  ELSE IF d[Len(d)] < HighBit THEN Unsigned(d)
  ELSE -(Unsigned(d) - HighBit * Power[Len(d) - 1])

-----------------------------------------------------------------------------
(***************************************************************************)
(* The node.                                                               *)
(***************************************************************************)
CheckMinimalPush(d, op) ==
  LET small == Len(d) = 1 /\ d[1] \in 1..SmallMax
      minus == Len(d) = 1 /\ d[1] = HighBit + 1
  IN  /\ d = <<>> => op = OP_0
      /\ small => op = OP_1 + d[1] - 1
      /\ minus => op = OP_1NEGATE
      /\ Len(d) \in 1..DirectMax /\ ~small /\ ~minus => op = Len(d)
      /\ Len(d) \in DirectMax + 1..Radix - 1 => op = OP_PUSHDATA1
      /\ Len(d) \in Radix..Radix * Radix - 1 => op = OP_PUSHDATA2

GetUapDataPush(e) == e.op <= OP_PUSHDATA4 /\ CheckMinimalPush(e.data, e.op)

\* CScriptNum(vch, true) does not throw.
IsScriptNum(d) ==
  /\ Len(d) <= NumSize
  /\ d # <<>> /\ d[Len(d)] % HighBit = 0 => Len(d) > 1 /\ d[Len(d) - 1] >= HighBit

\* The multiplier an element stands for, -1 for none.
NodeMultiplier(e) ==
  IF e.op \in OP_1..OP_1 + SmallMax - 1 THEN e.op - (OP_1 - 1)
  ELSE IF GetUapDataPush(e) /\ IsScriptNum(e.data) /\ NumberOf(e.data) \in 0..MaxMultiplier
    THEN NumberOf(e.data)
  ELSE -1

ParseUapOutputScript(s) ==
  IF /\ Len(s) >= 3
     /\ GetUapDataPush(s[1]) /\ Len(s[1].data) \in PubkeySizes
     /\ NodeMultiplier(s[2]) # -1
     /\ \/ s[3].op = OP_MINT /\ Len(s) = 3
        \/ /\ GetUapDataPush(s[3]) /\ Len(s[3].data) = OriginSize
           /\ Len(s) = 4 /\ s[4].op = OP_MINT_TRANSFER
    THEN [multiplier |-> NodeMultiplier(s[2]), pubkey |-> s[1].data, origin |-> s[3].data]
    ELSE NotUap

-----------------------------------------------------------------------------
(***************************************************************************)
(* The indexer.                                                            *)
(***************************************************************************)
IsPush(e) == e.op <= OP_PUSHDATA4

isMinimalPush(e) ==
  LET n == Len(e.data) IN
  IF n = 0 THEN e.op = OP_0
  ELSE IF n = 1 /\ e.data[1] >= 1 /\ e.data[1] <= SmallMax THEN e.op = OP_1 - 1 + e.data[1]
  ELSE IF n = 1 /\ e.data[1] = HighBit + 1 THEN e.op = OP_1NEGATE
  ELSE IF n <= DirectMax THEN e.op = n
  ELSE IF n < Radix THEN e.op = OP_PUSHDATA1
  ELSE n < Radix * Radix => e.op = OP_PUSHDATA2

isMinimalScriptNum(d) ==
  \/ d = <<>>
  \/ d[Len(d)] % HighBit # 0
  \/ Len(d) > 1 /\ d[Len(d) - 1] >= HighBit

IndexerMultiplier_Unbounded(e) ==
  IF ~IsPush(e) /\ e.op \in OP_1..OP_1 + SmallMax - 1 THEN e.op - (OP_1 - 1)
  ELSE IF /\ IsPush(e) /\ isMinimalPush(e) /\ isMinimalScriptNum(e.data)
          /\ Len(e.data) <= GoNumSize
    THEN NumberOf(e.data)
  ELSE -1

IndexerMultiplier(e) ==
  IF ~IsPush(e) /\ e.op \in OP_1..OP_1 + SmallMax - 1 THEN e.op - (OP_1 - 1)
  ELSE IF /\ IsPush(e) /\ isMinimalPush(e) /\ isMinimalScriptNum(e.data)
          /\ Len(e.data) <= GoNumSize
          /\ NumberOf(e.data) >= 0 /\ NumberOf(e.data) <= MaxMultiplier
    THEN NumberOf(e.data)
  ELSE -1

LastByte(e) ==
  IF e.data # <<>> THEN e.data[Len(e.data)] ELSE IF IsPush(e) THEN 0 ELSE e.op

\* The last byte says which of the two shapes to look for.
ParseUAPScript(s) ==
  IF /\ Len(s) > 0 /\ LastByte(s[Len(s)]) \in {OP_MINT, OP_MINT_TRANSFER}
     /\ \A i \in 1..Len(s) : s[i].op # Truncated
     /\ Len(s) = (IF LastByte(s[Len(s)]) = OP_MINT THEN 3 ELSE 4)
     /\ IsPush(s[1]) /\ isMinimalPush(s[1]) /\ Len(s[1].data) \in PubkeySizes
     /\ IndexerMultiplier(s[2]) # -1
     /\ IF LastByte(s[Len(s)]) = OP_MINT
          THEN ~IsPush(s[3]) /\ s[3].op = OP_MINT
          ELSE /\ IsPush(s[3]) /\ isMinimalPush(s[3]) /\ Len(s[3].data) = OriginSize
               /\ ~IsPush(s[4]) /\ s[4].op = OP_MINT_TRANSFER
    THEN [multiplier |-> IndexerMultiplier(s[2]), pubkey |-> s[1].data, origin |-> s[3].data]
    ELSE NotUap

-----------------------------------------------------------------------------
(***************************************************************************)
(* The builder of uaptx.                                                   *)
(***************************************************************************)
Opcode(op) == [op |-> op, data |-> <<>>]

pushData(d) ==
  [op |-> CASE Len(d) <= DirectMax -> Len(d)
            [] Len(d) \in DirectMax + 1..Radix - 1 -> OP_PUSHDATA1
            [] Len(d) >= Radix -> OP_PUSHDATA2,
   data |-> d]

\* For n > 0: as many bytes as it takes, and one more if the top bit is taken.
scriptNumBytes(n) ==
  LET size == CHOOSE k \in 1..NumSize + 1 : Power[k] > n /\ Power[k - 1] <= n
      low  == [i \in 1..size |-> n \div Power[i - 1] % Radix]
  IN  IF low[size] >= HighBit THEN Append(low, 0) ELSE low

pushMultiplier_DataOnly(n) ==
  IF n = 0 THEN Opcode(OP_0) ELSE pushData(scriptNumBytes(n))

pushMultiplier(n) ==
  IF n = 0 THEN Opcode(OP_0)
  ELSE IF n <= SmallMax THEN Opcode(OP_1 + n - 1)
  ELSE pushData(scriptNumBytes(n))

BuildScript(c) ==
  IF c.origin = <<>>
    THEN <<pushData(c.pubkey), pushMultiplier(c.multiplier), Opcode(OP_MINT)>>
    ELSE <<pushData(c.pubkey), pushMultiplier(c.multiplier), pushData(c.origin),
           Opcode(OP_MINT_TRANSFER)>>

-----------------------------------------------------------------------------
ScriptInit == script = <<>>

\* The scripts are all those that can be put together from the elements.
ScriptNext ==
  /\ Len(script) < 4
  /\ \E e \in ElementAt[Len(script) + 1] : script' = Append(script, e)

ScriptSpec == ScriptInit /\ [][ScriptNext]_script

-----------------------------------------------------------------------------
\* What the node takes for a position the indexer does too, with the same
\* multiplier, key and origin, and nothing else: the two number size limits
\* differ, and where they do the bound on multipliers decides.
ParsersAgree == ParseUapOutputScript(script) = ParseUAPScript(script)

Payloads(place, sizes) ==
  {e.data : e \in {e \in ElementAt[place] : e.op <= OP_PUSHDATA4 /\ Len(e.data) \in sizes}}
Covenants ==
  [multiplier : 0..MaxMultiplier, pubkey : Payloads(1, PubkeySizes),
   origin : Payloads(3, {OriginSize}) \cup {<<>>}]
BuiltScripts == {BuildScript(c) : c \in Covenants}

\* A covenant has exactly one script, the one uaptx builds: consensus
\* recognises that one as what it was built from, and no other script.
OneEncoding ==
  LET c == ParseUapOutputScript(script) IN
  /\ c # NotUap => script = BuildScript(c)
  /\ script \in BuiltScripts => \A d \in Covenants : script = BuildScript(d) => c = d
=============================================================================
