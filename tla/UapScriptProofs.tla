--------------------------- MODULE UapScriptProofs ---------------------------
(***************************************************************************)
(* Proofs about UapScript: that the two parsers agree and that a covenant  *)
(* has one script, for every size of bytes, pushes and numbers.            *)
(***************************************************************************)
EXTENDS UapScript, Sums

\* The provers a leaf that names none is given to, in turn.  tlapm gives up
\* preparing an obligation for a prover after a few seconds, which a large
\* context can take; the later entries are there for such a leaf.
USE SMTT(30), Zenon, Z3T(30), SMTT(40)

-----------------------------------------------------------------------------
(***************************************************************************)
(* Sequences and arithmetic.                                               *)
(***************************************************************************)
\* Only the empty sequence has length 0.
LEMMA NonEmptyLength ==
  ASSUME NEW S, NEW d \in Seq(S)
  PROVE  Len(d) \in Nat /\ (d # <<>> => Len(d) \in Nat \ {0}) /\ Len(<<>>) = 0
  OBVIOUS

\* Sequences of one length with the same elements are the same.
LEMMA SameElements ==
  ASSUME NEW S, NEW s \in Seq(S), NEW t \in Seq(S),
         Len(s) = Len(t), \A i \in 1..Len(s) : s[i] = t[i]
  PROVE  s = t
  OBVIOUS

LEMMA TimesMonotone ==
  ASSUME NEW a \in Int, NEW b \in Int, NEW p \in Nat, a <= b
  PROVE  a * p <= b * p
  OBVIOUS

LEMMA TimesNat == ASSUME NEW a \in Nat, NEW b \in Nat PROVE a * b \in Nat
  OBVIOUS

LEMMA TimesDistributes ==
  ASSUME NEW a \in Int, NEW b \in Int, NEW p \in Int
  PROVE  /\ a * p \in Int /\ b * p \in Int /\ a * p = p * a
         /\ (a - b) * p = a * p - b * p /\ (a + b) * p = a * p + b * p
  OBVIOUS

LEMMA TimesRegroups ==
  ASSUME NEW l \in Nat, NEW p \in Nat, NEW h \in Nat, NEW b \in Nat, NEW c \in Nat
  PROVE  /\ (l + p * h) + b * (p * c) = l + p * (h + b * c)
         /\ h + b * c \in Nat
         /\ (l + b * p) + (c * p) * h = p * (c * h + b) + l
         /\ c * h + b \in Nat
<1>1. b * (p * c) = p * (b * c) /\ b * c \in Nat /\ p * h \in Nat /\ p * (b * c) \in Nat
  OBVIOUS
<1>2. p * (h + b * c) = p * h + p * (b * c)
  BY <1>1
<1>3. (c * p) * h = p * (c * h) /\ c * h \in Nat /\ b * p \in Nat /\ p * (c * h) \in Nat
  OBVIOUS
<1>4. p * (c * h + b) = p * (c * h) + b * p
  BY <1>3
<1>5. (l + p * h) + p * (b * c) = l + (p * h + p * (b * c))
  BY <1>1
<1>6. (l + b * p) + p * (c * h) = (p * (c * h) + b * p) + l
  BY <1>3
<1> QED
  BY <1>1, <1>2, <1>3, <1>4, <1>5, <1>6

\* Quotient and remainder, and that nothing else is.
LEMMA DivideMod ==
  ASSUME NEW a \in Nat, NEW p \in Nat \ {0}
  PROVE  \E q \in Nat, r \in 0..(p - 1) : a = p * q + r /\ a \div p = q /\ a % p = r
<1>1. a % p \in 0..(p - 1)
  OBVIOUS
<1>2. a = p * (a \div p) + (a % p)
  OBVIOUS
<1>3. a \div p \in Nat
  OBVIOUS
<1> QED
  BY <1>1, <1>2, <1>3

LEMMA DivideUnique ==
  ASSUME NEW p \in Nat \ {0}, NEW q \in Nat, NEW r \in 0..(p - 1)
  PROVE  (p * q + r) \div p = q /\ (p * q + r) % p = r
  OBVIOUS

LEMMA Constants ==
  /\ Radix \in Nat \ {0} /\ HighBit \in Nat \ {0} /\ Radix = 2 * HighBit
  /\ NumSize \in Nat \ {0} /\ NumSize <= DirectMax /\ DirectMax \in Nat \ {0}
  /\ GoNumSize \in Nat /\ NumSize <= GoNumSize
  /\ SmallMax \in Nat \ {0} /\ SmallMax < HighBit
  /\ Radix * Radix \in Nat
<1>1. Radix \in Nat \ {0}
  BY ScriptAssumption
<1>2. Radix * Radix \in Nat
  BY <1>1, TimesNat
<1> HIDE DEF HighBit
<1>3. SmallMax \in Nat \ {0} /\ SmallMax < HighBit
  BY ScriptAssumption
<1>4. NumSize \in Nat \ {0} /\ NumSize <= DirectMax /\ DirectMax \in Nat \ {0}
  BY ScriptAssumption
<1> QED
  BY <1>1, <1>2, <1>3, <1>4, ScriptAssumption

\* The powers of the radix.
LEMMA PowerDefined ==
  /\ Power[0] = 1
  /\ \A k \in Nat : Power[k] \in Nat \ {0} /\ Power[k + 1] = Radix * Power[k]
<1>r. Radix \in Nat \ {0}
  BY Constants
<1> DEFINE G == [p \in Nat \X Nat |-> Radix * p[2]]
<1> HIDE DEF G
<1>n. PICK f : f = [n \in Nat |-> NatStep(1, G, f, n)]
  BY NatRecursion, Zenon
<1>1. f = [n \in Nat |-> IF n = 0 THEN 1 ELSE G[<<n, f[n - 1]>>]]
  BY <1>n DEF NatStep
<1>0. \A n \in Nat \ {0} : f[n] = G[<<n, f[n - 1]>>]
  BY <1>1
<1> USE DEF G
<1> DEFINE Typed == {n \in Nat : f[n] \in Nat}
<1>2. \A n \in Nat : f[n] \in Nat
  <2>1. 0 \in Typed
    BY <1>1
  <2>2. ASSUME NEW n \in Nat, n \in Typed PROVE n + 1 \in Typed
    <3>1. f[n + 1] = G[<<n + 1, f[n]>>]
      <4> HIDE DEF G
      <4> QED
        BY <1>0, n + 1 \in Nat \ {0}, n + 1 - 1 = n
    <3>2. <<n + 1, f[n]>> \in Nat \X Nat
      BY <2>2
    <3>3. f[n + 1] = Radix * f[n]
      BY <3>1, <3>2
    <3> QED
      BY <2>2, <3>3, <1>r, TimesNat
  <2>3. Nat \subseteq Typed
    <3> HIDE DEF Typed
    <3> QED
      BY <2>1, <2>2, NatsBySteps
  <2> QED
    BY <2>3
<1>3. f = [n \in Nat |-> IF n = 0 THEN 1 ELSE Radix * f[n - 1]]
  <2>1. ASSUME NEW n \in Nat PROVE f[n] = IF n = 0 THEN 1 ELSE Radix * f[n - 1]
    <3>1. CASE n = 0
      BY <1>1, <3>1
    <3>2. CASE n # 0
      <4>1. n - 1 \in Nat
        BY <3>2
      <4>2. <<n, f[n - 1]>> \in Nat \X Nat
        BY <4>1, <1>2
      <4>3. f[n] = G[<<n, f[n - 1]>>]
        BY <1>0, <3>2, Zenon
      <4> QED
        BY <3>2, <4>2, <4>3
    <3> QED
      BY <3>1, <3>2
  <2> QED
    BY <1>1, <2>1, Zenon
<1>4. Power = [n \in Nat |-> IF n = 0 THEN 1 ELSE Radix * Power[n - 1]]
  BY <1>3 DEF Power
<1>5. Power[0] = 1
  BY <1>4
<1>6. \A k \in Nat : Power[k + 1] = Radix * Power[k]
  BY <1>4
<1> DEFINE Positive == {n \in Nat : Power[n] \in Nat \ {0}}
<1>7. Nat \subseteq Positive
  <2>1. 0 \in Positive
    BY <1>5
  <2>2. ASSUME NEW n \in Nat, n \in Positive PROVE n + 1 \in Positive
    <3>1. PICK p \in Nat \ {0} : p = Power[n]
      BY <2>2
    <3>2. Radix * p \in Nat \ {0}
      BY <1>r, <3>1
    <3> QED
      BY <3>1, <3>2, <1>6, n + 1 \in Nat
  <2> HIDE DEF Positive
  <2> QED
    BY <2>1, <2>2, NatsBySteps
<1> QED
  BY <1>5, <1>6, <1>7

LEMMA PowerGrows ==
  ASSUME NEW i \in Nat, NEW j \in Nat, i <= j
  PROVE  Power[i] <= Power[j]
<1> DEFINE Above == {n \in Nat : Power[i] <= Power[i + n]}
<1>1. 0 \in Above
  BY PowerDefined
<1>2. ASSUME NEW n \in Nat, n \in Above PROVE n + 1 \in Above
  <2>1. PICK p \in Nat \ {0}, q \in Nat \ {0}, r \in Nat \ {0} :
          p = Power[i] /\ q = Power[i + n] /\ r = Power[i + (n + 1)]
    BY PowerDefined, i + n \in Nat, i + (n + 1) \in Nat, Zenon
  <2>2. r = Radix * q
    BY <2>1, PowerDefined, i + n \in Nat, i + (n + 1) = (i + n) + 1
  <2>3. q <= Radix * q
    BY <2>1, Constants
  <2>4. p <= q
    BY <1>2, <2>1
  <2>5. p <= r
    BY <2>1, <2>2, <2>3, <2>4, Constants
  <2> QED
    BY <2>1, <2>5, n + 1 \in Nat
<1>3. j - i \in Above
  <2> HIDE DEF Above
  <2> QED
    BY <1>1, <1>2, NatsBySteps, j - i \in Nat
<1> QED
  BY <1>3, i + (j - i) = j

-----------------------------------------------------------------------------
(***************************************************************************)
(* Numbers of digits in the radix.                                         *)
(***************************************************************************)
Byte == 0..Radix - 1
Weights(d) == [i \in 1..Len(d) |-> d[i] * Power[i - 1]]

\* The value of the first k bytes.
Low(d, k) == SumFunctionOnSet(Weights(d), 1..k)

\* Byte by byte, every one below the weight of the next.
LEMMA LowSteps ==
  ASSUME NEW d \in Seq(Byte)
  PROVE  /\ Low(d, 0) = 0
         /\ \A k \in 0..Len(d) : Low(d, k) \in Nat
         /\ \A k \in 0..(Len(d) - 1) : Low(d, k + 1) = Low(d, k) + d[k + 1] * Power[k]
         /\ Unsigned(d) = Low(d, Len(d))
<1> DEFINE w == Weights(d)
<1>0. Len(d) \in Nat /\ \A i \in 1..Len(d) : d[i] \in Nat
  BY Constants DEF Byte
<1>1. \A i \in 1..Len(d) : w[i] \in Nat /\ w[i] = d[i] * Power[i - 1]
  <2> SUFFICES ASSUME NEW i \in 1..Len(d) PROVE d[i] * Power[i - 1] \in Nat
    BY DEF Weights
  <2> QED
    BY <1>0, TimesNat, PowerDefined, i - 1 \in Nat, Zenon
<1>2. \A k \in 0..Len(d) : IsFiniteSet(1..k) /\ 1..k \subseteq 1..Len(d)
  BY <1>0, FS_Interval
<1> HIDE DEF w
<1>3. \A k \in 0..Len(d) : SumFunctionOnSet(w, 1..k) \in Nat
  BY <1>1, <1>2, SumNat
<1>4. ASSUME NEW k \in 0..(Len(d) - 1)
      PROVE  SumFunctionOnSet(w, 1..(k + 1)) = SumFunctionOnSet(w, 1..k) + d[k + 1] * Power[k]
  <2>1. 1..(k + 1) = (1..k) \cup {k + 1} /\ k + 1 \notin 1..k
    BY <1>0
  <2>2. \A x \in (1..k) \cup {k + 1} : w[x] \in Int
    BY <1>0, <1>1
  <2>3. IsFiniteSet(1..k)
    BY <1>0, <1>2
  <2>4. SumFunctionOnSet(w, (1..k) \cup {k + 1}) = w[k + 1] + SumFunctionOnSet(w, 1..k)
    BY <2>1, <2>2, <2>3, SumAdd, Zenon
  <2>5. w[k + 1] = d[k + 1] * Power[k] /\ w[k + 1] \in Nat
    BY <1>0, <1>1, k + 1 - 1 = k
  <2>6. SumFunctionOnSet(w, 1..k) \in Nat
    BY <1>0, <1>3
  <2>7. PICK x \in Nat, y \in Nat : x = w[k + 1] /\ y = SumFunctionOnSet(w, 1..k)
    BY <2>5, <2>6
  <2>8. x + y = y + x
    BY <2>7
  <2> QED
    BY <2>1, <2>4, <2>5, <2>7, <2>8, Zenon
<1>5. SumFunctionOnSet(w, 1..0) = 0
  BY SumEmpty, 1..0 = {}
<1> QED
  BY <1>3, <1>4, <1>5 DEF Low, Unsigned, w, Weights

LEMMA LowBelow ==
  ASSUME NEW d \in Seq(Byte), NEW k \in 0..Len(d)
  PROVE  Low(d, k) < Power[k]
<1> DEFINE Below == {n \in Nat : n <= Len(d) => Low(d, n) < Power[n]}
<1>1. 0 \in Below
  <2>1. Low(d, 0) = 0 /\ Power[0] = 1
    BY LowSteps, PowerDefined
  <2> QED
    BY <2>1
<1>2. ASSUME NEW n \in Nat, n \in Below PROVE n + 1 \in Below
  <2> SUFFICES ASSUME n + 1 <= Len(d) PROVE Low(d, n + 1) < Power[n + 1]
    BY n + 1 \in Nat
  <2>0. n \in 0..Len(d) /\ n \in 0..(Len(d) - 1) /\ n + 1 \in 1..Len(d)
    OBVIOUS
  <2>1. PICK p \in Nat \ {0}, l \in Nat, b \in Byte :
          p = Power[n] /\ l = Low(d, n) /\ b = d[n + 1]
    <3>1. Power[n] \in Nat \ {0} /\ Low(d, n) \in Nat
      BY <2>0, PowerDefined, LowSteps
    <3>2. d[n + 1] \in Byte
      BY <2>0
    <3> QED
      BY <3>1, <3>2
  <2>2. Low(d, n + 1) = l + b * p /\ Power[n + 1] = Radix * p /\ l < p
    BY <1>2, <2>0, <2>1, PowerDefined, LowSteps
  <2>3. b \in Nat /\ Radix \in Nat /\ b + 1 <= Radix
    BY <2>1, Constants DEF Byte
  <2>4. (b + 1) * p <= Radix * p
    BY <2>1, <2>3, TimesMonotone, b + 1 \in Int
  <2>5. (b + 1) * p = b * p + p
    BY <2>1, <2>3, TimesDistributes, 1 * p = p
  <2>6. PICK x \in Nat, y \in Nat : x = b * p /\ y = Radix * p
    BY <2>1, <2>3, TimesNat, Zenon
  <2>7. x + p <= y
    BY <2>4, <2>5, <2>6
  <2>8. l + x < y
    BY <2>1, <2>2, <2>6, <2>7
  <2> QED
    BY <2>2, <2>6, <2>8
<1>3. Nat \subseteq Below
  <2> HIDE DEF Below
  <2> QED
    BY <1>1, <1>2, NatsBySteps
<1> QED
  BY <1>3

\* What the top byte says of a number: its sign, and its size unless it is 0.
LEMMA TopByte ==
  ASSUME NEW d \in Seq(Byte), d # <<>>
  PROVE  \E p \in Nat \ {0}, l \in Nat, b \in Byte :
           /\ p = Power[Len(d) - 1] /\ l = Low(d, Len(d) - 1) /\ b = d[Len(d)] /\ l < p
           /\ Unsigned(d) = l + b * p
           /\ NumberOf(d) = IF b < HighBit THEN l + b * p ELSE -(l + (b - HighBit) * p)
           /\ b >= HighBit => NumberOf(d) <= 0 /\ (NumberOf(d) = 0 => b = HighBit /\ l = 0)
           /\ b \in 1..(HighBit - 1) => NumberOf(d) >= p
<1>0. Len(d) \in Nat \ {0} /\ Len(d) - 1 \in 0..Len(d) /\ (Len(d) - 1) + 1 = Len(d)
  BY NonEmptyLength
<1>1. PICK p \in Nat \ {0}, l \in Nat, b \in Byte :
        p = Power[Len(d) - 1] /\ l = Low(d, Len(d) - 1) /\ b = d[Len(d)]
  <2>1. Power[Len(d) - 1] \in Nat \ {0}
    BY <1>0, PowerDefined
  <2>2. Low(d, Len(d) - 1) \in Nat
    BY <1>0, LowSteps
  <2>3. d[Len(d)] \in Byte
    BY <1>0
  <2> QED
    BY <2>1, <2>2, <2>3
<1>2. l < p
  BY <1>0, <1>1, LowBelow
<1>3. Unsigned(d) = l + b * p
  BY <1>0, <1>1, LowSteps
<1>b. b \in Nat /\ HighBit \in Nat \ {0}
  BY <1>1, Constants DEF Byte
<1>4. PICK x \in Nat, h \in Nat :
        x = b * p /\ h = HighBit * p /\ (b - HighBit) * p = x - h
  <2>1. b * p \in Nat /\ HighBit * p \in Nat
    BY <1>1, <1>b, TimesNat
  <2>2. (b - HighBit) * p = b * p - HighBit * p
    BY <1>1, <1>b, TimesDistributes
  <2> QED
    BY <2>1, <2>2, Zenon
<1>5. NumberOf(d) = IF b < HighBit THEN l + b * p ELSE -(l + (b - HighBit) * p)
  <2>1. NumberOf(d) = IF b < HighBit THEN l + b * p ELSE -((l + b * p) - HighBit * p)
    BY <1>1, <1>3 DEF NumberOf
  <2>2. (l + x) - h = l + (x - h)
    BY <1>1, <1>4
  <2> QED
    BY <1>4, <2>1, <2>2
<1>6. ASSUME b >= HighBit PROVE NumberOf(d) <= 0 /\ (NumberOf(d) = 0 => b = HighBit /\ l = 0)
  <2>1. PICK e \in Nat : e = b - HighBit
    BY <1>6, <1>b
  <2>2. NumberOf(d) = -(l + e * p)
    BY <1>5, <1>6, <1>b, <2>1
  <2>3. e * p \in Nat /\ (e # 0 => e * p >= p)
    BY <1>1, <2>1
  <2>4. PICK y \in Nat : y = e * p
    BY <2>3
  <2>0. NumberOf(d) = -(l + y)
    BY <2>2, <2>4
  <2>5. -(l + y) <= 0 /\ (-(l + y) = 0 => y = 0 /\ l = 0)
    BY <1>1, <2>4
  <2>6. y = 0 => e = 0
    BY <1>1, <2>1, <2>3, <2>4
  <2>7. e = 0 => b = HighBit
    BY <1>b, <2>1
  <2> QED
    BY <2>0, <2>5, <2>6, <2>7
<1>7. ASSUME b \in 1..(HighBit - 1) PROVE NumberOf(d) >= p
  <2>1. b * p >= p
    BY <1>1, <1>7, <1>b
  <2>2. l + x >= p
    BY <1>1, <1>4, <2>1
  <2>3. b < HighBit
    BY <1>7, <1>b
  <2>4. NumberOf(d) = l + x
    BY <1>4, <1>5, <2>3
  <2> QED
    BY <2>2, <2>4
<1> QED
  BY <1>1, <1>2, <1>3, <1>5, <1>6, <1>7

\* A byte with the top bit set makes what it tops at least half its power.
LEMMA SecondByte ==
  ASSUME NEW d \in Seq(Byte), NEW k \in 1..Len(d), d[k] >= HighBit
  PROVE  Low(d, k) >= HighBit * Power[k - 1] /\ HighBit * Power[k - 1] \in Nat \ {0}
<1>0. k - 1 \in 0..(Len(d) - 1) /\ k - 1 \in 0..Len(d) /\ k - 1 \in Nat /\ (k - 1) + 1 = k
  OBVIOUS
<1>1. PICK p \in Nat \ {0}, l \in Nat, b \in Nat :
        p = Power[k - 1] /\ l = Low(d, k - 1) /\ b = d[k]
  <2>1. Power[k - 1] \in Nat \ {0} /\ Low(d, k - 1) \in Nat
    BY <1>0, PowerDefined, LowSteps, Zenon
  <2>2. d[k] \in Nat
    BY Constants DEF Byte
  <2> QED
    BY <2>1, <2>2
<1>2. Low(d, k) = l + b * p
  BY <1>0, <1>1, LowSteps
<1>3. HighBit * p <= b * p /\ HighBit * p \in Nat \ {0}
  <2>1. HighBit \in Nat \ {0} /\ HighBit <= b
    BY <1>1, Constants
  <2>2. HighBit * p \in Nat \ {0}
    BY <1>1, <2>1
  <2>3. HighBit * p <= b * p
    BY <1>1, <2>1, TimesMonotone, HighBit \in Int, b \in Int
  <2> QED
    BY <2>2, <2>3
<1>4. PICK x \in Nat, y \in Nat : x = HighBit * p /\ y = b * p
  BY <1>1, <1>3, TimesNat
<1>5. l + y >= x
  BY <1>1, <1>3, <1>4
<1> QED
  BY <1>1, <1>2, <1>3, <1>4, <1>5

LEMMA NumberIsInt == ASSUME NEW d \in Seq(Byte) PROVE NumberOf(d) \in Int
<1>1. CASE d = <<>>
  BY <1>1 DEF NumberOf
<1>2. CASE d # <<>>
  <2>1. PICK p \in Nat \ {0}, l \in Nat, b \in Byte :
          NumberOf(d) = IF b < HighBit THEN l + b * p ELSE -(l + (b - HighBit) * p)
    BY <1>2, TopByte
  <2>2. b \in Nat /\ HighBit \in Nat
    BY <2>1, Constants DEF Byte
  <2>3. b * p \in Int /\ (b - HighBit) * p \in Int
    BY <2>1, <2>2, TimesDistributes, b - HighBit \in Int
  <2> QED
    BY <2>1, <2>3
<1> QED
  BY <1>1, <1>2

\* A minimal number whose sign bit is set is below zero: there is no -0.
LEMMA MinimalSign ==
  ASSUME NEW d \in Seq(Byte), d # <<>>, isMinimalScriptNum(d), d[Len(d)] >= HighBit
  PROVE  NumberOf(d) < 0
<1>0. Len(d) \in Nat \ {0}
  BY NonEmptyLength
<1>1. PICK p \in Nat \ {0}, l \in Nat, b \in Byte :
        /\ l = Low(d, Len(d) - 1) /\ b = d[Len(d)]
        /\ b >= HighBit => NumberOf(d) <= 0 /\ (NumberOf(d) = 0 => b = HighBit /\ l = 0)
  BY TopByte
<1>2. NumberOf(d) \in Int
  BY NumberIsInt
<1>3. ASSUME NumberOf(d) = 0 PROVE FALSE
  <2>1. d[Len(d)] = HighBit /\ l = 0
    BY <1>1, <1>3
  <2>2. HighBit % HighBit = 0
    BY Constants
  <2>3. Len(d) > 1 /\ d[Len(d) - 1] >= HighBit
    BY <2>1, <2>2 DEF isMinimalScriptNum
  <2>4. Len(d) - 1 \in 1..Len(d)
    BY <1>0, <2>3
  <2>5. PICK x \in Nat \ {0} : Low(d, Len(d) - 1) >= x
    BY <2>3, <2>4, SecondByte
  <2> QED
    BY <1>1, <2>1, <2>5
<1> QED
  BY <1>1, <1>2, <1>3

\* A minimal number of more bytes than the node reads is not a multiplier.
LEMMA LongNumbers ==
  ASSUME NEW d \in Seq(Byte), Len(d) > NumSize, isMinimalScriptNum(d)
  PROVE  ~(NumberOf(d) >= 0 /\ NumberOf(d) <= MaxMultiplier)
<1>0. /\ Len(d) \in Nat /\ Len(d) >= 2 /\ NumSize \in Nat \ {0} /\ NumSize - 1 \in Nat
      /\ Len(d) - 1 \in 1..Len(d) /\ Len(d) - 2 \in Nat /\ (Len(d) - 1) - 1 = Len(d) - 2
      /\ d # <<>> /\ NumSize <= Len(d) - 1 /\ NumSize - 1 <= Len(d) - 2
  BY Constants, NonEmptyLength
<1>1. PICK q \in Nat \ {0} : q = Power[NumSize - 1]
  BY <1>0, PowerDefined, Zenon
<1>2. PICK m \in Nat \ {0} : m = HighBit * q /\ MaxMultiplier = m - 1
  <2>1. HighBit * q \in Nat \ {0}
    BY <1>1, Constants
  <2> QED
    BY <1>1, <2>1 DEF MaxMultiplier
<1>3. PICK p \in Nat \ {0}, l \in Nat, b \in Byte :
        /\ p = Power[Len(d) - 1] /\ l = Low(d, Len(d) - 1) /\ b = d[Len(d)]
        /\ NumberOf(d) = IF b < HighBit THEN l + b * p ELSE -(l + (b - HighBit) * p)
        /\ b \in 1..(HighBit - 1) => NumberOf(d) >= p
  BY <1>0, TopByte
<1>b. b \in Nat /\ HighBit \in Nat \ {0} /\ Radix = 2 * HighBit
  <2>1. \A c \in Byte : c \in Nat
    BY Constants DEF Byte
  <2> QED
    BY <2>1, Constants, Zenon
<1>c. b \in 1..(HighBit - 1) => NumberOf(d) >= p
  BY <1>3, Zenon
<1>d. p = Power[Len(d) - 1] /\ b = d[Len(d)]
  BY <1>3, Zenon
<1>e. b = 0 => NumberOf(d) = l
  <2> SUFFICES ASSUME b = 0 PROVE NumberOf(d) = l
    OBVIOUS
  <2>1. b < HighBit /\ l + 0 * p = l
    BY <1>b
  <2>2. NumberOf(d) = l + b * p
    BY <1>3, <2>1, Zenon
  <2> QED
    BY <2>1, <2>2, Zenon
<1>4. CASE b >= HighBit
  <2>1. NumberOf(d) < 0
    BY <1>0, <1>4, <1>d, MinimalSign
  <2>2. NumberOf(d) \in Int
    BY NumberIsInt
  <2> QED
    BY <2>1, <2>2
<1>5. CASE b < HighBit /\ b # 0
  <2>1. NumberOf(d) >= p
    <3>1. b \in 1..(HighBit - 1)
      BY <1>5, <1>b
    <3> QED
      BY <1>c, <3>1, Zenon
  <2>2. Power[NumSize] = Radix * q
    BY <1>0, <1>1, PowerDefined, (NumSize - 1) + 1 = NumSize
  <2>3. Radix * q <= p
    <3>1. Len(d) - 1 \in Nat
      BY <1>0
    <3>2. Power[NumSize] <= Power[Len(d) - 1]
      BY <1>0, <3>1, PowerGrows
    <3> QED
      BY <1>d, <2>2, <3>2, Zenon
  <2>4. Radix * q = m + m
    <3>1. Radix = HighBit + HighBit
      BY <1>b
    <3>2. (HighBit + HighBit) * q = HighBit * q + HighBit * q
      BY <1>b, TimesDistributes
    <3> QED
      BY <1>2, <3>1, <3>2, Zenon
  <2>5. NumberOf(d) \in Int
    BY NumberIsInt
  <2>6. m + m <= p
    BY <2>3, <2>4, Zenon
  <2>7. MaxMultiplier = m - 1
    BY <1>2, Zenon
  <2> QED
    BY <2>1, <2>5, <2>6, <2>7
<1>6. CASE b = 0
  <2>1. b % HighBit = 0
    BY <1>6, <1>b
  <2>2. d[Len(d) - 1] >= HighBit
    BY <1>0, <1>d, <2>1 DEF isMinimalScriptNum
  <2>3. PICK x \in Nat \ {0} : x = HighBit * Power[Len(d) - 2] /\ l >= x
    BY <1>0, <1>3, <2>2, SecondByte
  <2>4. PICK r \in Nat \ {0} : r = Power[Len(d) - 2] /\ q <= r
    BY <1>0, <1>1, PowerDefined, PowerGrows, ZenonT(60)
  <2>5. m <= x
    <3>1. q * HighBit <= r * HighBit
      BY <1>1, <1>b, <2>4, TimesMonotone
    <3> QED
      BY <1>1, <1>2, <1>b, <2>3, <2>4, <3>1, TimesDistributes
  <2>6. NumberOf(d) = l
    BY <1>6, <1>e, Zenon
  <2>7. MaxMultiplier = m - 1 /\ l >= x
    BY <1>2, <2>3, Zenon
  <2> QED
    BY <2>5, <2>6, <2>7
<1> QED
  BY <1>4, <1>5, <1>6, <1>b

-----------------------------------------------------------------------------
(***************************************************************************)
(* The two parsers.                                                        *)
(***************************************************************************)
\* What an element is, with the sizes and opcodes as numbers.
LEMMA Elements ==
  ASSUME NEW e, IsElement(e)
  PROVE  /\ e.op \in Nat /\ e.data \in Seq(Byte) /\ Len(e.data) \in Nat
         /\ e = [op |-> e.op, data |-> e.data]
         /\ \A i \in 1..Len(e.data) : e.data[i] \in Nat
         /\ e.data = <<>> <=> Len(e.data) = 0
         /\ ~IsPush(e) => e.data = <<>>
<1>1. e \in [op : 0..Radix, data : Seq(Byte)]
  BY DEF IsElement, Truncated, Byte
<1>2. e.op \in Nat /\ e.data \in Seq(Byte) /\ e = [op |-> e.op, data |-> e.data]
  BY <1>1, Constants
<1>3. /\ Len(e.data) \in Nat /\ (e.data = <<>> <=> Len(e.data) = 0)
      /\ \A i \in 1..Len(e.data) : e.data[i] \in Nat
  <2>1. PICK d \in Seq(Byte) : d = e.data
    BY <1>2
  <2>2. Len(d) \in Nat /\ (d = <<>> <=> Len(d) = 0)
    BY NonEmptyLength
  <2>3. \A i \in 1..Len(d) : d[i] \in Byte
    OBVIOUS
  <2>4. Byte \subseteq Nat
    BY Constants DEF Byte
  <2> QED
    BY <2>1, <2>2, <2>3, <2>4, Zenon
<1>4. OP_PUSHDATA4 \in Nat
  BY Constants DEF OP_PUSHDATA4
<1>5. ~IsPush(e) => e.data = <<>>
  BY <1>2, <1>4 DEF IsPush, IsElement
<1> QED
  BY <1>2, <1>3, <1>5

LEMMA PushesAgree ==
  ASSUME NEW e, IsElement(e)
  PROVE  CheckMinimalPush(e.data, e.op) <=> isMinimalPush(e)
<1> DEFINE d == e.data
           n == Len(d)
<1>1. n \in Nat /\ (d = <<>> <=> n = 0) /\ (n = 1 => d[1] \in Nat)
  BY Elements
<1>2. /\ DirectMax \in Nat \ {0} /\ Radix \in Nat /\ HighBit \in Nat /\ SmallMax \in Nat
      /\ DirectMax < Radix /\ SmallMax < HighBit + 1 /\ Radix * Radix \in Nat
      /\ Radix <= Radix * Radix
  BY Constants, ScriptAssumption DEF OP_1, OP_MINT
<1>3. ASSUME n = 1 PROVE CheckMinimalPush(d, e.op) <=> isMinimalPush(e)
  <2>1. PICK b \in Nat : b = d[1]
    BY <1>1, <1>3
  <2>2. d # <<>> /\ (b \in 1..SmallMax <=> b >= 1 /\ b <= SmallMax)
    BY <1>1, <1>2, <1>3, <2>1
  <2>3. b \in 1..SmallMax => OP_1 + b - 1 = OP_1 - 1 + b /\ b # HighBit + 1
    BY <1>2, <2>1 DEF OP_1
  <2>4. 1 \in 1..DirectMax /\ 1 <= DirectMax
    BY <1>2
  <2>5. ~(1 \in DirectMax + 1..Radix - 1) /\ ~(1 \in Radix..Radix * Radix - 1)
        /\ ~(1 >= Radix * Radix)
    BY <1>2
  <2> HIDE DEF n, d
  <2>6. CASE b \in 1..SmallMax
    BY <1>3, <2>1, <2>2, <2>3, <2>4, <2>5, <2>6
       DEF CheckMinimalPush, isMinimalPush, n, d
  <2>7. CASE b \notin 1..SmallMax
    BY <1>3, <2>1, <2>2, <2>3, <2>4, <2>5, <2>7
       DEF CheckMinimalPush, isMinimalPush, n, d
  <2> QED
    BY <2>6, <2>7
<1>4. ASSUME n # 1 PROVE CheckMinimalPush(d, e.op) <=> isMinimalPush(e)
  BY <1>1, <1>2, <1>4 DEF CheckMinimalPush, isMinimalPush
<1> QED
  BY <1>3, <1>4

\* The opcodes, in order.
LEMMA Opcodes ==
  /\ OP_0 = 0 /\ OP_PUSHDATA4 \in Nat /\ OP_PUSHDATA4 < OP_1 - 1 /\ OP_1 \in Nat
  /\ DirectMax + 2 < OP_PUSHDATA4
  /\ OP_1 + SmallMax - 1 < OP_MINT /\ OP_MINT \in Nat /\ OP_MINT_TRANSFER = OP_MINT + 1
  /\ Truncated = OP_MINT + 2
  BY Constants, ScriptAssumption
     DEF OP_0, OP_PUSHDATA4, OP_1, OP_MINT, OP_MINT_TRANSFER, Truncated

\* An element stands for the same multiplier, or for none, in both.
LEMMA MultipliersAgree ==
  ASSUME NEW e, IsElement(e)
  PROVE  NodeMultiplier(e) = IndexerMultiplier(e)
<1> DEFINE d == e.data
<1>1. /\ e.op \in Nat /\ d \in Seq(Byte) /\ Len(d) \in Nat
      /\ (d = <<>> <=> Len(d) = 0)
  BY Elements
<1>2. GetUapDataPush(e) <=> IsPush(e) /\ isMinimalPush(e)
  BY PushesAgree DEF GetUapDataPush, IsPush
<1>3. IsScriptNum(d) <=> Len(d) <= NumSize /\ isMinimalScriptNum(d)
  BY DEF IsScriptNum, isMinimalScriptNum
<1>4. e.op \in OP_1..OP_1 + SmallMax - 1 => ~IsPush(e)
  BY <1>1, Opcodes, Constants DEF IsPush
<1>5. isMinimalScriptNum(d) /\ Len(d) > NumSize
        => ~(NumberOf(d) >= 0 /\ NumberOf(d) <= MaxMultiplier)
  BY <1>1, LongNumbers
<1>6. isMinimalScriptNum(d) =>
        (NumberOf(d) \in 0..MaxMultiplier <=> NumberOf(d) >= 0 /\ NumberOf(d) <= MaxMultiplier)
  BY <1>1, NumberIsInt
<1>7. Len(d) <= NumSize => Len(d) <= GoNumSize
  BY <1>1, Constants
<1>8. Len(d) <= NumSize \/ Len(d) > NumSize
  BY <1>1, Constants
<1> HIDE DEF d
<1> QED
  BY <1>2, <1>3, <1>4, <1>5, <1>6, <1>7, <1>8
     DEF NodeMultiplier, IndexerMultiplier, d

\* A script of elements parses alike.
LEMMA ScriptsAgree ==
  ASSUME NEW T, NEW s \in Seq(T), \A e \in T : IsElement(e)
  PROVE  ParseUapOutputScript(s) = ParseUAPScript(s)
<1>0. Len(s) \in Nat /\ \A i \in 1..Len(s) : IsElement(s[i])
  OBVIOUS
<1> DEFINE Alike(e) ==
      /\ GetUapDataPush(e) <=> IsPush(e) /\ isMinimalPush(e)
      /\ NodeMultiplier(e) = IndexerMultiplier(e)
      /\ GetUapDataPush(e) \/ NodeMultiplier(e) # -1 => e.op # Truncated
      /\ e.op \in {OP_MINT, OP_MINT_TRANSFER} =>
           ~IsPush(e) /\ LastByte(e) = e.op /\ e.op # Truncated
<1>1. ASSUME NEW e, IsElement(e) PROVE Alike(e)
  <2>1. e.op \in Nat /\ NodeMultiplier(e) = IndexerMultiplier(e)
    BY <1>1, Elements, MultipliersAgree
  <2>2. GetUapDataPush(e) <=> IsPush(e) /\ isMinimalPush(e)
    BY <1>1, PushesAgree DEF GetUapDataPush, IsPush
  <2>3. GetUapDataPush(e) \/ NodeMultiplier(e) # -1 => e.op # Truncated
    BY <2>1, Opcodes, Constants DEF NodeMultiplier, GetUapDataPush
  <2>4. e.op \in {OP_MINT, OP_MINT_TRANSFER} => ~IsPush(e) /\ e.op # Truncated
    BY <2>1, Opcodes, Constants DEF IsPush
  <2>5. ~IsPush(e) => LastByte(e) = e.op
    BY <1>1, Elements DEF LastByte
  <2> QED
    BY <2>1, <2>2, <2>3, <2>4, <2>5
<1>a. \A i \in 1..Len(s) : Alike(s[i])
  <2> HIDE DEF Alike
  <2> QED
    BY <1>0, <1>1
<1>o. OP_MINT # OP_MINT_TRANSFER
  BY Opcodes
<1>2. CASE Len(s) = 3
  <2>1. Alike(s[1]) /\ Alike(s[2]) /\ Alike(s[3])
    <3> HIDE DEF Alike
    <3> QED
      BY <1>2, <1>a
  <2>2. \A i \in 1..Len(s) : i = 1 \/ i = 2 \/ i = 3
    BY <1>2
  <2> QED
    BY <1>o, <1>2, <2>1, <2>2 DEF ParseUapOutputScript, ParseUAPScript
<1>3. CASE Len(s) = 4
  <2>1. Alike(s[1]) /\ Alike(s[2]) /\ Alike(s[3]) /\ Alike(s[4])
    <3> HIDE DEF Alike
    <3> QED
      BY <1>3, <1>a
  <2>2. \A i \in 1..Len(s) : i = 1 \/ i = 2 \/ i = 3 \/ i = 4
    BY <1>3
  <2>3. ~(GetUapDataPush(s[3]) /\ s[3].op = OP_MINT)
    BY <2>1
  <2> QED
    BY <1>o, <1>3, <2>1, <2>2, <2>3 DEF ParseUapOutputScript, ParseUAPScript
<1>4. CASE Len(s) # 3 /\ Len(s) # 4
  BY <1>4 DEF ParseUapOutputScript, ParseUAPScript
<1> QED
  BY <1>2, <1>3, <1>4

AnyElement == UNION {ElementAt[i] : i \in 1..4}

\* Every script put together is one of elements.
LEMMA ScriptsOfElements == ScriptSpec => [](script \in Seq(AnyElement))
<1>1. ScriptInit => script \in Seq(AnyElement)
  BY DEF ScriptInit
<1>2. script \in Seq(AnyElement) /\ [ScriptNext]_script => (script \in Seq(AnyElement))'
  <2> SUFFICES ASSUME script \in Seq(AnyElement), ScriptNext PROVE script' \in Seq(AnyElement)
    OBVIOUS
  <2>1. Len(script) + 1 \in 1..4
    BY DEF ScriptNext
  <2>2. PICK e \in ElementAt[Len(script) + 1] : script' = Append(script, e)
    BY DEF ScriptNext
  <2>3. e \in AnyElement
    BY <2>1, <2>2 DEF AnyElement
  <2> QED
    BY <2>2, <2>3
<1> QED
  BY <1>1, <1>2, PTL DEF ScriptSpec

LEMMA ElementsAreWellFormed == ASSUME NEW e \in AnyElement PROVE IsElement(e)
  BY ScriptAssumption DEF AnyElement

\* The node and the indexer read every script alike, however large the bytes,
\* the pushes and the numbers: what differs between the two parsers' limits on
\* numbers is beyond the highest multiplier.
THEOREM IndexerReadsAsNode == ScriptSpec => []ParsersAgree
<1>1. script \in Seq(AnyElement) => ParsersAgree
  BY ElementsAreWellFormed, ScriptsAgree DEF ParsersAgree
<1> QED
  BY <1>1, ScriptsOfElements, PTL

-----------------------------------------------------------------------------
(***************************************************************************)
(* Numbers and their bytes.                                                *)
(***************************************************************************)
\* What lies above a byte is a multiple of its weight.
LEMMA PowerDivides ==
  ASSUME NEW i \in Nat, NEW j \in Nat, i <= j
  PROVE  \E c \in Nat : Power[j] = Power[i] * c
<1> DEFINE Multiple == {n \in Nat : \E c \in Nat : Power[i + n] = Power[i] * c}
<1>1. 0 \in Multiple
  <2>1. Power[i + 0] = Power[i] * 1
    BY PowerDefined
  <2> QED
    BY <2>1
<1>2. ASSUME NEW n \in Nat, n \in Multiple PROVE n + 1 \in Multiple
  <2>1. PICK c \in Nat : Power[i + n] = Power[i] * c
    BY <1>2
  <2>2. PICK p \in Nat, r \in Nat : p = Power[i] /\ r = Radix
    BY PowerDefined, Constants
  <2>3. Power[i + (n + 1)] = r * (p * c)
    BY <2>1, <2>2, PowerDefined, i + n \in Nat, i + (n + 1) = (i + n) + 1
  <2>4. r * (p * c) = p * (r * c) /\ r * c \in Nat
    BY <2>1, <2>2
  <2> QED
    BY <2>2, <2>3, <2>4, n + 1 \in Nat
<1>3. j - i \in Multiple
  <2> HIDE DEF Multiple
  <2> QED
    BY <1>1, <1>2, NatsBySteps, j - i \in Nat
<1> QED
  BY <1>3, i + (j - i) = j

LEMMA LowAbove ==
  ASSUME NEW d \in Seq(Byte), NEW k \in 0..Len(d), NEW n \in k..Len(d)
  PROVE  \E h \in Nat : Low(d, n) = Low(d, k) + Power[k] * h
<1> DEFINE Split == {m \in Nat : k + m <= Len(d) =>
                       \E h \in Nat : Low(d, k + m) = Low(d, k) + Power[k] * h}
<1>0. PICK p \in Nat \ {0}, l \in Nat : p = Power[k] /\ l = Low(d, k)
  <2>1. Power[k] \in Nat \ {0}
    BY PowerDefined
  <2>2. Low(d, k) \in Nat
    BY LowSteps
  <2> QED
    BY <2>1, <2>2
<1>1. 0 \in Split
  <2>1. l = l + p * 0
    BY <1>0
  <2> QED
    BY <1>0, <2>1, k + 0 = k
<1>2. ASSUME NEW m \in Nat, m \in Split PROVE m + 1 \in Split
  <2> SUFFICES ASSUME k + (m + 1) <= Len(d)
               PROVE  \E h \in Nat : Low(d, k + (m + 1)) = Low(d, k) + Power[k] * h
    BY m + 1 \in Nat
  <2>0. k + m \in Nat /\ k + m \in 0..(Len(d) - 1) /\ k + (m + 1) = (k + m) + 1
        /\ (k + m) + 1 \in 1..Len(d) /\ k + m <= Len(d)
    OBVIOUS
  <2>1. PICK h \in Nat : Low(d, k + m) = l + p * h
    BY <1>0, <1>2, <2>0
  <2>2. PICK c \in Nat : Power[k + m] = p * c
    BY <1>0, <2>0, PowerDivides, k <= k + m
  <2>3. PICK b \in Nat : b = d[(k + m) + 1]
    <3>1. d[(k + m) + 1] \in Byte
      BY <2>0
    <3> QED
      BY <3>1, Constants DEF Byte
  <2>4. Low(d, k + (m + 1)) = (l + p * h) + b * (p * c)
    BY <2>0, <2>1, <2>2, <2>3, LowSteps
  <2>5. (l + p * h) + b * (p * c) = l + p * (h + b * c) /\ h + b * c \in Nat
    <3>1. l \in Nat /\ p \in Nat /\ h \in Nat /\ b \in Nat /\ c \in Nat
      BY <1>0, <2>1, <2>2, <2>3
    <3> QED
      BY <3>1, TimesRegroups
  <2> QED
    BY <1>0, <2>4, <2>5
<1>3. n - k \in Split
  <2> HIDE DEF Split
  <2> QED
    BY <1>1, <1>2, NatsBySteps, n - k \in Nat
<1> QED
  BY <1>3, k + (n - k) = n

\* The bytes of a number can be read back from its value.
LEMMA DigitOf ==
  ASSUME NEW d \in Seq(Byte), NEW n \in 0..Len(d), NEW i \in 1..n
  PROVE  Low(d, n) \div Power[i - 1] % Radix = d[i]
<1> DEFINE k == i - 1
<1>0. k \in 0..Len(d) /\ k \in 0..(Len(d) - 1) /\ k + 1 = i /\ i \in 0..Len(d) /\ n \in i..Len(d)
      /\ k \in Nat /\ i \in 1..Len(d)
  OBVIOUS
<1> HIDE DEF k
<1>1. PICK p \in Nat \ {0}, l \in Nat, r \in Nat \ {0} :
        p = Power[k] /\ l = Low(d, k) /\ r = Radix /\ l < p
  BY <1>0, PowerDefined, LowSteps, LowBelow, Constants, Zenon
<1>2. PICK b \in 0..(r - 1) : b = d[i]
  <2>1. d[i] \in Byte
    BY <1>0
  <2> QED
    BY <1>1, <2>1 DEF Byte
<1>3. PICK h \in Nat : Low(d, n) = Low(d, i) + Power[i] * h
  BY <1>0, LowAbove
<1>4. Low(d, i) = l + b * p /\ Power[i] = r * p
  BY <1>0, <1>1, <1>2, LowSteps, PowerDefined, Zenon
<1>5. (l + b * p) + (r * p) * h = p * (r * h + b) + l
  <2>1. l \in Nat /\ p \in Nat /\ h \in Nat /\ b \in Nat /\ r \in Nat
    BY <1>1, <1>2, <1>3
  <2> QED
    BY <2>1, TimesRegroups
<1>6. r * h + b \in Nat /\ l \in 0..(p - 1)
  BY <1>1, <1>2, <1>3
<1>7. (p * (r * h + b) + l) \div p = r * h + b
  BY <1>1, <1>6, DivideUnique, ZenonT(60)
<1>8. (r * h + b) % r = b
  BY <1>1, <1>2, <1>3, DivideUnique, Zenon
<1> QED
  BY <1>1, <1>2, <1>3, <1>4, <1>5, <1>7, <1>8 DEF k

\* Only the first k bytes count for Low.
LEMMA LowPrefix ==
  ASSUME NEW d \in Seq(Byte), NEW f \in Seq(Byte), NEW k \in Nat,
         k <= Len(d), k <= Len(f), \A i \in 1..k : d[i] = f[i]
  PROVE  Low(d, k) = Low(f, k)
<1>1. IsFiniteSet(1..k)
  BY FS_Interval
<1>2. \A i \in 1..k : Weights(d)[i] = Weights(f)[i] /\ Weights(f)[i] \in Int
  <2> SUFFICES ASSUME NEW i \in 1..k
               PROVE  Weights(d)[i] = Weights(f)[i] /\ Weights(f)[i] \in Int
    OBVIOUS
  <2>1. i \in 1..Len(d) /\ i \in 1..Len(f) /\ i - 1 \in Nat
    OBVIOUS
  <2>2. PICK b \in Byte : b = d[i] /\ b = f[i]
    BY <2>1
  <2>3. Weights(d)[i] = b * Power[i - 1] /\ Weights(f)[i] = b * Power[i - 1]
    BY <2>1, <2>2 DEF Weights
  <2>4. b * Power[i - 1] \in Nat
    <3>1. b \in Nat
      BY <2>2, Constants DEF Byte
    <3>2. Power[i - 1] \in Nat
      BY <2>1, PowerDefined, Zenon
    <3> QED
      BY <3>1, <3>2, TimesNat
  <2> QED
    BY <2>3, <2>4
<1> QED
  BY <1>1, <1>2, SumEqual DEF Low

\* How many bytes a number takes without its sign: scriptNumBytes' size.
Sized(n, k) == k \in 1..NumSize + 1 /\ Power[k] > n /\ Power[k - 1] <= n
Bytes(n, k) == [i \in 1..k |-> n \div Power[i - 1] % Radix]

LEMMA SizeIsUnique ==
  ASSUME NEW n \in Nat, NEW j, NEW k, Sized(n, j), Sized(n, k)
  PROVE  j = k
<1>1. ASSUME NEW a, NEW b, Sized(n, a), Sized(n, b), a < b PROVE FALSE
  <2>1. a \in Nat /\ b \in Nat /\ b - 1 \in Nat /\ a <= b - 1
    BY <1>1, Constants DEF Sized
  <2>2. PICK x \in Nat, y \in Nat : x = Power[a] /\ y = Power[b - 1]
    BY <2>1, PowerDefined
  <2>3. x <= y
    BY <2>1, <2>2, PowerGrows
  <2>4. x > n /\ y <= n
    BY <1>1, <2>2 DEF Sized
  <2> QED
    BY <2>2, <2>3, <2>4
<1>2. j \in Nat /\ k \in Nat
  BY Constants DEF Sized
<1> QED
  BY <1>1, <1>2

LEMMA BytesOfSize ==
  ASSUME NEW n \in Nat, NEW k, Sized(n, k)
  PROVE  scriptNumBytes(n) =
           IF Bytes(n, k)[k] >= HighBit THEN Append(Bytes(n, k), 0) ELSE Bytes(n, k)
<1> DEFINE size == CHOOSE j \in 1..NumSize + 1 : Power[j] > n /\ Power[j - 1] <= n
<1>1. k \in 1..NumSize + 1 /\ Power[k] > n /\ Power[k - 1] <= n
  BY DEF Sized
<1>2. size \in 1..NumSize + 1 /\ Power[size] > n /\ Power[size - 1] <= n
  BY <1>1
<1>3. size = k
  <2> HIDE DEF size
  <2>1. Sized(n, size)
    BY <1>2 DEF Sized
  <2> QED
    BY <2>1, SizeIsUnique
<1>4. scriptNumBytes(n) =
        IF Bytes(n, size)[size] >= HighBit THEN Append(Bytes(n, size), 0) ELSE Bytes(n, size)
  BY DEF scriptNumBytes, Bytes
<1> HIDE DEF size
<1> QED
  BY <1>3, <1>4

LEMMA BytesAreBytes ==
  ASSUME NEW n \in Nat, NEW k \in Nat
  PROVE  /\ Bytes(n, k) \in Seq(Byte) /\ Len(Bytes(n, k)) = k
         /\ \A i \in 1..k : Bytes(n, k)[i] = n \div Power[i - 1] % Radix
<1>1. ASSUME NEW i \in 1..k PROVE n \div Power[i - 1] % Radix \in Byte
  <2>1. PICK p \in Nat \ {0}, r \in Nat \ {0} : p = Power[i - 1] /\ r = Radix
    BY PowerDefined, Constants, i - 1 \in Nat
  <2>2. PICK q \in Nat : n \div p = q
    BY <2>1, DivideMod
  <2>3. q % r \in 0..(r - 1)
    BY <2>1, <2>2, DivideMod
  <2> QED
    BY <2>1, <2>2, <2>3 DEF Byte
<1>2. Bytes(n, k) \in [1..k -> Byte]
  BY <1>1 DEF Bytes
<1>3. Bytes(n, k) \in Seq(Byte)
  BY <1>2
<1>4. Len(Bytes(n, k)) = k
  BY <1>2, <1>3
<1> QED
  BY <1>3, <1>4 DEF Bytes

\* The bytes of a positive minimal number are those its value is written in.
LEMMA ReadThenWritten ==
  ASSUME NEW d \in Seq(Byte), d # <<>>, isMinimalScriptNum(d), Len(d) <= NumSize,
         d[Len(d)] < HighBit
  PROVE  /\ NumberOf(d) \in Nat \ {0} /\ scriptNumBytes(NumberOf(d)) = d
         /\ Len(d) > 1 => NumberOf(d) >= HighBit
         /\ Len(d) = 1 => NumberOf(d) = d[1]
<1> DEFINE L == Len(d)
           n == NumberOf(d)
<1>0. L \in Nat \ {0} /\ L - 1 \in Nat /\ NumSize \in Nat /\ HighBit \in Nat \ {0}
  BY NonEmptyLength, Constants
<1>1. PICK p \in Nat \ {0}, l \in Nat, b \in Byte :
        /\ p = Power[L - 1] /\ l = Low(d, L - 1) /\ b = d[L] /\ l < p
        /\ Unsigned(d) = l + b * p
        /\ NumberOf(d) = IF b < HighBit THEN l + b * p ELSE -(l + (b - HighBit) * p)
        /\ b \in 1..(HighBit - 1) => NumberOf(d) >= p
  BY TopByte
<1>b. b \in Nat /\ b < HighBit
  BY <1>1, Constants DEF Byte
<1>2. n = Low(d, L) /\ n \in Nat
  <2>1. n = Unsigned(d)
    BY <1>1, <1>b
  <2>2. Unsigned(d) = Low(d, L)
    BY LowSteps
  <2>3. Low(d, L) \in Nat
    BY <1>0, LowSteps
  <2> QED
    BY <2>1, <2>2, <2>3
<1> HIDE DEF n, L
<1>3. CASE b # 0
  <2>1. n >= p
    BY <1>1, <1>3, <1>b, <1>0 DEF n
  <2>2. n < Power[L]
    BY <1>0, <1>2, LowBelow DEF L
  <2>3. Power[L] \in Nat
    BY <1>0, PowerDefined, Zenon
  <2>4. Sized(n, L)
    BY <1>0, <1>1, <1>2, <2>1, <2>2, <2>3 DEF Sized, L
  <2>5. Bytes(n, L) = d
    <3>1. \A i \in 1..L : n \div Power[i - 1] % Radix = d[i]
      BY <1>0, <1>2, DigitOf DEF L
    <3>2. d = [i \in 1..L |-> d[i]]
      BY DEF L
    <3> QED
      BY <3>1, <3>2 DEF Bytes
  <2>6. scriptNumBytes(n) = d
    BY <1>1, <1>2, <1>b, <1>0, <2>4, <2>5, BytesOfSize
  <2>7. L > 1 => n >= HighBit
    <3> HAVE L > 1
    <3>1. PICK q \in Nat \ {0} : p = Radix * q
      BY <1>0, <1>1, PowerDefined, L - 2 \in Nat, (L - 2) + 1 = L - 1, Zenon
    <3>2. Radix * q >= Radix /\ Radix >= HighBit /\ Radix \in Nat
      BY <3>1, Constants
    <3>3. p >= HighBit
      BY <1>0, <1>1, <3>1, <3>2
    <3> QED
      BY <1>0, <1>1, <1>2, <2>1, <3>3
  <2>8. L = 1 => n = d[1]
    <3> HAVE L = 1
    <3>1. p = 1 /\ l = 0
      BY <1>1, PowerDefined, LowSteps, L - 1 = 0
    <3>2. n = b * 1
      BY <1>1, <1>b, <3>1 DEF n
    <3> QED
      BY <1>1, <1>b, <3>2
  <2>9. n # 0
    BY <1>1, <1>2, <2>1
  <2> QED
    BY <1>2, <2>6, <2>7, <2>8, <2>9 DEF n, L
<1>4. CASE b = 0
  <2>1. b % HighBit = 0
    BY <1>4, <1>0
  <2>2. L > 1 /\ d[L - 1] >= HighBit
    BY <1>1, <2>1 DEF isMinimalScriptNum, L
  <2>0. L - 1 \in 1..Len(d) /\ L - 2 \in Nat /\ (L - 1) - 1 = L - 2 /\ L - 1 \in 0..Len(d)
        /\ L - 1 \in 1..NumSize + 1
    BY <1>0, <2>2 DEF L
  <2>3. n = l
    <3>1. 0 * p = 0
      BY <1>1
    <3> QED
      BY <1>1, <1>4, <1>b, <3>1 DEF n
  <2>4. PICK q \in Nat \ {0}, x \in Nat \ {0} :
          q = Power[L - 2] /\ x = HighBit * q /\ l >= x
    <3>1. PICK q \in Nat \ {0} : q = Power[L - 2]
      BY <2>0, PowerDefined, Zenon
    <3>2. Low(d, L - 1) >= HighBit * q /\ HighBit * q \in Nat \ {0}
      BY <2>0, <2>2, <3>1, SecondByte
    <3> QED
      BY <1>1, <3>1, <3>2
  <2>5. x >= q /\ x >= HighBit
    BY <1>0, <2>4
  <2>6. Sized(n, L - 1)
    BY <1>1, <1>2, <2>0, <2>3, <2>4, <2>5 DEF Sized
  <2>7. \A i \in 1..(L - 1) : n \div Power[i - 1] % Radix = d[i]
    BY <1>1, <2>0, <2>3, DigitOf
  <2>8. Bytes(n, L - 1)[L - 1] >= HighBit
    BY <2>0, <2>2, <2>7 DEF Bytes
  <2>9. Append(Bytes(n, L - 1), 0) = d
    <3>1. PICK e \in Seq(Byte) : e = Bytes(n, L - 1) /\ Len(e) = L - 1
                                 /\ \A i \in 1..(L - 1) : e[i] = d[i]
      <4>1. L - 1 \in Nat
        BY <2>0
      <4>2. /\ Bytes(n, L - 1) \in Seq(Byte) /\ Len(Bytes(n, L - 1)) = L - 1
            /\ \A i \in 1..(L - 1) : Bytes(n, L - 1)[i] = n \div Power[i - 1] % Radix
        BY <1>2, <4>1, BytesAreBytes, Zenon
      <4> QED
        BY <2>7, <4>2
    <3>2. 0 \in Byte
      BY Constants DEF Byte
    <3>3. /\ Append(e, 0) \in Seq(Byte) /\ Len(Append(e, 0)) = L
          /\ \A i \in 1..L : Append(e, 0)[i] = IF i = L THEN 0 ELSE e[i]
      BY <1>0, <2>0, <3>1, <3>2
    <3>4. \A i \in 1..L : Append(e, 0)[i] = d[i]
      <4> SUFFICES ASSUME NEW i \in 1..L PROVE Append(e, 0)[i] = d[i]
        BY Zenon
      <4>1. CASE i = L
        BY <1>1, <1>4, <3>3, <4>1, ZenonT(60)
      <4>2. CASE i # L
        <5>1. i \in 1..(L - 1)
          BY <1>0, <4>2
        <5> QED
          BY <3>1, <3>3, <4>2, <5>1
      <4> QED
        BY <4>1, <4>2, Zenon
    <3> QED
      BY <3>1, <3>3, <3>4, SameElements DEF L
  <2>10. scriptNumBytes(n) = d
    BY <1>2, <2>6, <2>8, <2>9, BytesOfSize, ZenonT(60)
  <2>11. n >= HighBit /\ n # 0
    BY <1>0, <1>1, <2>3, <2>4, <2>5
  <2> QED
    BY <1>2, <2>2, <2>10, <2>11 DEF n, L
<1> QED
  BY <1>3, <1>4

\* The bytes of n make up n, but for what lies above them.
LEMMA BytesMakeUp ==
  ASSUME NEW n \in Nat, NEW k \in Nat, NEW j \in 0..k
  PROVE  n = Low(Bytes(n, k), j) + Power[j] * (n \div Power[j])
<1> DEFINE d == Bytes(n, k)
           MadeUp == {m \in Nat : m <= k => n = Low(d, m) + Power[m] * (n \div Power[m])}
<1>0. /\ d \in Seq(Byte) /\ Len(d) = k
      /\ \A i \in 1..k : d[i] = n \div Power[i - 1] % Radix
  BY BytesAreBytes
<1> HIDE DEF d
<1>1. 0 \in MadeUp
  <2>1. Low(d, 0) = 0 /\ Power[0] = 1
    BY <1>0, LowSteps, PowerDefined
  <2>2. n \div 1 = n
    OBVIOUS
  <2> QED
    BY <2>1, <2>2
<1>2. ASSUME NEW m \in Nat, m \in MadeUp PROVE m + 1 \in MadeUp
  <2> SUFFICES ASSUME m + 1 <= k
               PROVE  n = Low(d, m + 1) + Power[m + 1] * (n \div Power[m + 1])
    BY m + 1 \in Nat
  <2>0. m \in 0..Len(d) /\ m \in 0..(Len(d) - 1) /\ m + 1 \in 0..Len(d) /\ m + 1 \in 1..k
        /\ (m + 1) - 1 = m
    BY <1>0
  <2>1. PICK p \in Nat \ {0}, l \in Nat, r \in Nat \ {0} :
          p = Power[m] /\ l = Low(d, m) /\ r = Radix
    <3>1. Power[m] \in Nat \ {0} /\ Radix \in Nat \ {0}
      BY PowerDefined, Constants
    <3>2. Low(d, m) \in Nat
      BY <1>0, <2>0, LowSteps
    <3> QED
      BY <3>1, <3>2
  <2>2. PICK q \in Nat : q = n \div p
    BY <2>1, DivideMod
  <2>3. n = l + p * q
    BY <1>2, <2>0, <2>1, <2>2
  <2>4. PICK h \in Nat, b \in 0..(r - 1) : q = r * h + b /\ q \div r = h /\ q % r = b
    BY <2>1, <2>2, DivideMod
  <2>5. d[m + 1] = b
    BY <1>0, <2>0, <2>1, <2>2, <2>4
  <2>6. Low(d, m + 1) = l + b * p
    BY <1>0, <2>0, <2>1, <2>5, LowSteps, Zenon
  <2>7. Power[m + 1] = r * p
    BY <2>1, PowerDefined
  <2>8. PICK s \in Nat \ {0}, a \in Nat : s = r * p /\ a = l + b * p
    <3>1. r * p \in Nat \ {0}
      BY <2>1
    <3>2. l + b * p \in Nat
      BY <2>1, <2>4
    <3> QED
      BY <3>1, <3>2
  <2>9. a < s
    BY <1>0, <2>0, <2>6, <2>7, <2>8, LowBelow
  <2>10. n = a + s * h
    <3>1. l \in Nat /\ p \in Nat /\ h \in Nat /\ b \in Nat /\ r \in Nat
      BY <2>1, <2>4
    <3>2. (l + b * p) + (r * p) * h = p * (r * h + b) + l
      BY <3>1, TimesRegroups
    <3>3. p * q + l = l + p * q
      BY <2>1, <2>2
    <3> QED
      BY <2>3, <2>4, <2>8, <3>2, <3>3
  <2>11. n \div s = h
    <3>1. s * h + a = a + s * h
      BY <2>4, <2>8
    <3>2. a \in 0..(s - 1)
      BY <2>8, <2>9
    <3>3. (s * h + a) \div s = h
      BY <2>4, <2>8, <3>2, DivideUnique
    <3> QED
      BY <2>10, <3>1, <3>3
  <2> QED
    BY <2>6, <2>7, <2>8, <2>10, <2>11
<1>3. j \in MadeUp
  <2> HIDE DEF MadeUp
  <2> QED
    BY <1>1, <1>2, NatsBySteps
<1> QED
  BY <1>3 DEF d

\* Every multiplier has a size, within what CScriptNum reads.
LEMMA SizeExists ==
  ASSUME NEW n \in 1..MaxMultiplier
  PROVE  \E k \in 1..NumSize : Sized(n, k)
<1> DEFINE Over == {k \in Nat : Power[k] > n}
<1>0. NumSize \in Nat \ {0} /\ NumSize - 1 \in Nat /\ (NumSize - 1) + 1 = NumSize
  BY Constants
<1>1. PICK q \in Nat \ {0}, m \in Nat \ {0} : 
        q = Power[NumSize - 1] /\ m = HighBit * q /\ MaxMultiplier = m - 1
  <2>1. PICK q \in Nat \ {0} : q = Power[NumSize - 1]
    BY <1>0, PowerDefined
  <2>2. HighBit * q \in Nat \ {0}
    BY <2>1, Constants
  <2> QED
    BY <2>1, <2>2 DEF MaxMultiplier
<1>2. n \in Nat \ {0} /\ n < m
  BY <1>1
<1>3. NumSize \in Over
  <2>1. Power[NumSize] = Radix * q
    BY <1>0, <1>1, PowerDefined
  <2>2. Radix * q = m + m
    BY <1>1, Constants, TimesDistributes, 2 * HighBit = HighBit + HighBit
  <2>3. Power[NumSize] > n
    BY <1>1, <1>2, <2>1, <2>2
  <2> QED
    BY <1>0, <2>3
<1>4. PICK k \in Over : \A j \in Over : k <= j
  <2>1. Over \subseteq Nat /\ Over # {}
    BY <1>3
  <2> HIDE DEF Over
  <2> QED
    BY <2>1, LeastNatural, Zenon
<1>5. k \in Nat /\ Power[k] > n /\ k <= NumSize
  BY <1>3, <1>4
<1>6. k # 0
  BY <1>2, <1>5, PowerDefined
<1>7. k - 1 \in Nat /\ k - 1 \notin Over
  BY <1>4, <1>5, <1>6
<1>8. Power[k - 1] <= n
  <2>1. PICK x \in Nat : x = Power[k - 1]
    BY <1>7, PowerDefined
  <2> QED
    BY <1>2, <1>7, <2>1
<1> QED
  BY <1>0, <1>5, <1>6, <1>8 DEF Sized

\* What a multiplier is written in is a minimal number that reads as it.
LEMMA WrittenThenRead ==
  ASSUME NEW n \in 1..MaxMultiplier
  PROVE  LET d == scriptNumBytes(n) IN
         /\ d \in Seq(Byte) /\ d # <<>> /\ Len(d) <= NumSize
         /\ isMinimalScriptNum(d) /\ d[Len(d)] < HighBit /\ NumberOf(d) = n
<1>1. PICK k \in 1..NumSize : Sized(n, k)
  BY SizeExists
<1> DEFINE e == Bytes(n, k)
<1>0. /\ k \in Nat \ {0} /\ k - 1 \in Nat /\ k - 1 \in 0..k /\ k \in 0..k /\ (k - 1) + 1 = k
      /\ n \in Nat \ {0} /\ HighBit \in Nat \ {0} /\ NumSize \in Nat \ {0} /\ k <= NumSize
  <2>1. MaxMultiplier \in Int
    <3>1. PICK q \in Nat : q = Power[NumSize - 1]
      BY Constants, PowerDefined, NumSize - 1 \in Nat
    <3>2. HighBit * q \in Nat
      BY <3>1, Constants, TimesNat
    <3> QED
      BY <3>1, <3>2 DEF MaxMultiplier
  <2> QED
    BY <1>1, <2>1, Constants
<1>2. e \in Seq(Byte) /\ Len(e) = k
  BY <1>0, BytesAreBytes, Zenon
<1>3. scriptNumBytes(n) = IF e[k] >= HighBit THEN Append(e, 0) ELSE e
  BY <1>0, <1>1, BytesOfSize
<1>4. n = Low(e, k)
  <2>1. PICK p \in Nat \ {0}, l \in Nat, q \in Nat : 
          p = Power[k] /\ l = Low(e, k) /\ q = n \div p
    <3>1. Power[k] \in Nat \ {0}
      BY <1>0, PowerDefined
    <3>2. Low(e, k) \in Nat
      BY <1>0, <1>2, LowSteps
    <3> HIDE DEF e
    <3>3. n \div Power[k] \in Nat
      BY <1>0, <3>1, DivideMod
    <3> QED
      BY <3>1, <3>2, <3>3
  <2>2. n = l + p * q
    BY <1>0, <2>1, BytesMakeUp
  <2>3. n < p
    BY <1>1, <2>1 DEF Sized
  <2>4. q = 0
    BY <1>0, <2>1, <2>2, <2>3
  <2>5. p * 0 = 0
    BY <2>1
  <2> QED
    BY <2>1, <2>2, <2>4, <2>5
<1> HIDE DEF e
<1>5. PICK p \in Nat \ {0}, l \in Nat, b \in Nat :
        /\ p = Power[k - 1] /\ l = Low(e, k - 1) /\ b = e[k] /\ l < p /\ p <= n
        /\ n = l + b * p
  <2>1. Power[k - 1] \in Nat \ {0} /\ Power[k - 1] <= n
    BY <1>0, <1>1, PowerDefined DEF Sized
  <2>2. Low(e, k - 1) \in Nat /\ Low(e, k - 1) < Power[k - 1]
    BY <1>0, <1>2, LowSteps, LowBelow
  <2>3. e[k] \in Byte
    BY <1>0, <1>2
  <2>4. e[k] \in Nat
    BY <2>3, Constants DEF Byte
  <2>5. Low(e, (k - 1) + 1) = Low(e, k - 1) + e[(k - 1) + 1] * Power[k - 1]
    BY <1>0, <1>2, LowSteps
  <2> QED
    BY <1>0, <1>4, <2>1, <2>2, <2>4, <2>5
<1>6. b # 0
  <2> SUFFICES ASSUME b = 0 PROVE FALSE
    OBVIOUS
  <2>1. 0 * p = 0
    BY <1>5
  <2>2. n = l + 0
    BY <1>5, <2>1
  <2> QED
    BY <1>5, <2>2
<1>7. e # <<>>
  BY <1>0, <1>2
<1>8. CASE b < HighBit
  <2>1. scriptNumBytes(n) = e
    BY <1>0, <1>3, <1>5, <1>8
  <2>2. b % HighBit # 0
    <3>1. b = HighBit * 0 + b /\ b \in 0..(HighBit - 1)
      BY <1>0, <1>5, <1>8
    <3>2. b % HighBit = b
      BY <1>0, <3>1, DivideUnique
    <3> QED
      BY <1>6, <3>2
  <2>3. isMinimalScriptNum(e)
    BY <1>2, <1>5, <2>2 DEF isMinimalScriptNum
  <2>4. NumberOf(e) = n
    <3>1. Unsigned(e) = Low(e, Len(e))
      BY <1>2, LowSteps
    <3> QED
      BY <1>2, <1>4, <1>5, <1>7, <1>8, <3>1, Zenon DEF NumberOf
  <2> QED
    BY <1>0, <1>2, <1>5, <1>7, <1>8, <2>1, <2>3, <2>4
<1>9. CASE b >= HighBit
  <2> DEFINE d == Append(e, 0)
  <2>1. scriptNumBytes(n) = d
    BY <1>3, <1>5, <1>9
  <2>2. 0 \in Byte
    BY Constants DEF Byte
  <2>3. d \in Seq(Byte) /\ Len(d) = k + 1 /\ d[k + 1] = 0 /\ \A i \in 1..k : d[i] = e[i]
    BY <1>0, <1>2, <2>2
  <2> HIDE DEF d
  <2>4. d # <<>>
    BY <1>0, <2>3
  <2>5. k < NumSize
    <3> SUFFICES ASSUME k = NumSize PROVE FALSE
      BY <1>0
    <3>1. MaxMultiplier = HighBit * p - 1
      BY <1>5 DEF MaxMultiplier
    <3>2. HighBit * p <= b * p
      BY <1>0, <1>5, <1>9, TimesMonotone, HighBit \in Int, b \in Int
    <3>3. PICK x \in Nat, y \in Nat : x = HighBit * p /\ y = b * p
      BY <1>0, <1>5, TimesNat
    <3>4. n <= x - 1 /\ n = l + y /\ x <= y
      BY <1>5, <3>1, <3>2, <3>3
    <3> QED
      BY <1>0, <1>5, <3>3, <3>4
  <2>6. isMinimalScriptNum(d)
    <3>1. Len(d) > 1 /\ d[Len(d) - 1] >= HighBit
      BY <1>0, <1>5, <1>9, <2>3
    <3> QED
      BY <3>1 DEF isMinimalScriptNum
  <2>7. NumberOf(d) = n
    <3>1. Low(d, k) = Low(e, k)
      BY <1>0, <1>2, <2>3, LowPrefix
    <3>2. Low(d, k + 1) = Low(d, k) + d[k + 1] * Power[k] /\ Unsigned(d) = Low(d, k + 1)
      BY <1>0, <2>3, LowSteps
    <3>3. 0 * Power[k] = 0
      BY <1>0, PowerDefined
    <3>4. Unsigned(d) = n
      BY <1>0, <1>4, <2>3, <3>1, <3>2, <3>3
    <3> QED
      BY <1>0, <2>3, <2>4, <3>4 DEF NumberOf
  <2> QED
    BY <1>0, <2>1, <2>3, <2>4, <2>5, <2>6, <2>7
<1> QED
  BY <1>0, <1>5, <1>8, <1>9

-----------------------------------------------------------------------------
(***************************************************************************)
(* Covenants and their scripts.                                            *)
(***************************************************************************)
\* A minimal push is the one the builder writes.
LEMMA PushIsWritten ==
  ASSUME NEW e, IsElement(e), GetUapDataPush(e), Len(e.data) < Radix * Radix
  PROVE  e = pushData(e.data)
<1> DEFINE d == e.data
           n == Len(d)
<1>1. /\ e.op \in Nat /\ n \in Nat /\ (d = <<>> <=> n = 0) /\ (n = 1 => d[1] \in Nat)
      /\ e = [op |-> e.op, data |-> d]
  BY Elements
<1>2. /\ DirectMax \in Nat \ {0} /\ Radix \in Nat /\ HighBit \in Nat /\ SmallMax \in Nat
      /\ DirectMax < Radix /\ Radix * Radix \in Nat
  BY Constants, ScriptAssumption DEF OP_1, OP_MINT
<1>3. e.op <= OP_PUSHDATA4 /\ CheckMinimalPush(d, e.op)
  BY DEF GetUapDataPush
<1>c. n \in 1..DirectMax /\ ~(n = 1 /\ d[1] \in 1..SmallMax) /\ ~(n = 1 /\ d[1] = HighBit + 1)
        => e.op = n
  BY <1>3 DEF CheckMinimalPush
<1> HIDE DEF d, n
<1>7. n < Radix * Radix
  BY DEF n, d
<1>4. CASE n <= DirectMax
  <2>1. e.op = n
    <3>1. CASE n = 0
      BY <1>1, <1>3, <3>1 DEF CheckMinimalPush, OP_0, n
    <3>2. CASE n = 1
      <4>1. PICK b \in Nat : b = d[1]
        BY <1>1, <3>2
      <4>2. b \in 1..SmallMax => e.op = OP_1 + b - 1
        BY <1>3, <3>2, <4>1 DEF CheckMinimalPush, n
      <4>3. b = HighBit + 1 => e.op = OP_1NEGATE
        BY <1>3, <3>2, <4>1 DEF CheckMinimalPush, n
      <4>4. ~(b \in 1..SmallMax) /\ b # HighBit + 1
        <5>1. OP_PUSHDATA4 \in Nat /\ OP_1 - 1 > OP_PUSHDATA4 /\ OP_1NEGATE > OP_PUSHDATA4
              /\ OP_1 \in Nat /\ OP_1NEGATE \in Nat
          BY <1>2 DEF OP_PUSHDATA4, OP_1, OP_1NEGATE
        <5>2. b \in 1..SmallMax => OP_1 + b - 1 > OP_PUSHDATA4
          BY <1>2, <4>1, <5>1
        <5>3. PICK op \in Nat : op = e.op /\ op <= OP_PUSHDATA4
          BY <1>1, <1>3
        <5> QED
          BY <4>1, <4>2, <4>3, <5>1, <5>2, <5>3
      <4> QED
        BY <1>2, <1>c, <3>2, <4>1, <4>4, 1 \in 1..DirectMax
    <3>3. CASE n > 1
      <4>1. n \in 1..DirectMax /\ n # 1
        BY <1>1, <1>2, <1>4, <3>3
      <4> QED
        BY <1>c, <4>1
    <3> QED
      BY <1>1, <3>1, <3>2, <3>3
  <2> QED
    BY <1>1, <1>2, <1>4, <2>1 DEF pushData, d, n
<1>5. CASE n > DirectMax /\ n < Radix
  <2>1. e.op = OP_PUSHDATA1
    BY <1>1, <1>2, <1>3, <1>5 DEF CheckMinimalPush, n
  <2> QED
    BY <1>1, <1>2, <1>5, <2>1 DEF pushData, d, n
<1>6. CASE n >= Radix
  <2>1. e.op = OP_PUSHDATA2
    BY <1>1, <1>2, <1>3, <1>6, <1>7 DEF CheckMinimalPush, n
  <2> QED
    BY <1>1, <1>2, <1>6, <2>1 DEF pushData, d, n
<1> QED
  BY <1>1, <1>2, <1>4, <1>5, <1>6

\* What the builder pushes, of more than a byte or of one that is no small
\* number, is a minimal push.
LEMMA WrittenIsPush ==
  ASSUME NEW d, Len(d) \in 1..(Radix * Radix - 1),
         Len(d) = 1 => d[1] \notin 1..SmallMax /\ d[1] # HighBit + 1
  PROVE  GetUapDataPush(pushData(d)) /\ pushData(d).data = d /\ pushData(d).op <= OP_PUSHDATA4
<1>1. PICK n \in Nat : n = Len(d) /\ n # 0 /\ n < Radix * Radix
  BY Constants
<1>2. /\ DirectMax \in Nat \ {0} /\ Radix \in Nat /\ DirectMax < Radix /\ Radix * Radix \in Nat
  BY Constants, ScriptAssumption DEF OP_1, OP_MINT
<1>3. pushData(d).data = d
  BY DEF pushData
<1>4. d # <<>>
  BY <1>1
<1>5. CASE n <= DirectMax
  <2>1. pushData(d).op = n
    BY <1>1, <1>2, <1>5 DEF pushData
  <2>2. CheckMinimalPush(d, n)
    BY <1>1, <1>2, <1>4, <1>5 DEF CheckMinimalPush
  <2>3. n <= OP_PUSHDATA4
    BY <1>1, <1>2, <1>5 DEF OP_PUSHDATA4
  <2> QED
    BY <1>3, <2>1, <2>2, <2>3 DEF GetUapDataPush
<1>6. CASE n > DirectMax /\ n < Radix
  <2>1. pushData(d).op = OP_PUSHDATA1
    BY <1>1, <1>2, <1>6 DEF pushData
  <2>2. CheckMinimalPush(d, OP_PUSHDATA1)
    BY <1>1, <1>2, <1>4, <1>6 DEF CheckMinimalPush
  <2>3. OP_PUSHDATA1 <= OP_PUSHDATA4
    BY <1>2 DEF OP_PUSHDATA1, OP_PUSHDATA4
  <2> QED
    BY <1>3, <2>1, <2>2, <2>3 DEF GetUapDataPush
<1>7. CASE n >= Radix
  <2>1. pushData(d).op = OP_PUSHDATA2
    BY <1>1, <1>2, <1>7 DEF pushData
  <2>2. CheckMinimalPush(d, OP_PUSHDATA2)
    BY <1>1, <1>2, <1>4, <1>7 DEF CheckMinimalPush
  <2>3. OP_PUSHDATA2 <= OP_PUSHDATA4
    BY <1>2 DEF OP_PUSHDATA2, OP_PUSHDATA4
  <2> QED
    BY <1>3, <2>1, <2>2, <2>3 DEF GetUapDataPush
<1> QED
  BY <1>1, <1>2, <1>5, <1>6, <1>7

LEMMA LengthCases == ASSUME NEW d \in Seq(Byte) PROVE d = <<>> \/ Len(d) = 1 \/ Len(d) > 1
<1>1. PICK n \in Nat : n = Len(d)
  OBVIOUS
<1>2. n = 0 \/ n = 1 \/ n > 1
  BY <1>1
<1>3. n = 0 => d = <<>>
  BY <1>1, NonEmptyLength, Zenon
<1> QED
  BY <1>1, <1>2, <1>3

\* The small numbers are multipliers.
LEMMA SmallIsMultiplier == MaxMultiplier \in Nat /\ SmallMax <= MaxMultiplier
<1>1. PICK q \in Nat \ {0} : q = Power[NumSize - 1]
  BY Constants, PowerDefined, NumSize - 1 \in Nat
<1>2. HighBit * q \in Nat /\ HighBit * q >= HighBit
  BY <1>1, Constants
<1>3. PICK x \in Nat : x = HighBit * q /\ MaxMultiplier = x - 1
  BY <1>1, <1>2 DEF MaxMultiplier
<1> QED
  BY <1>2, <1>3, Constants

\* The element a multiplier is read from is the one it is written as.
LEMMA MultiplierIsWritten ==
  ASSUME NEW e, IsElement(e), NodeMultiplier(e) # -1
  PROVE  e = pushMultiplier(NodeMultiplier(e)) /\ NodeMultiplier(e) \in 0..MaxMultiplier
<1> DEFINE d == e.data
<1>1. /\ e.op \in Nat /\ d \in Seq(Byte) /\ Len(d) \in Nat /\ (d = <<>> <=> Len(d) = 0)
      /\ e = [op |-> e.op, data |-> d] /\ (~IsPush(e) => d = <<>>)
  BY Elements
<1>m. MaxMultiplier \in Nat /\ SmallMax <= MaxMultiplier
  BY SmallIsMultiplier
<1>2. CASE e.op \in OP_1..OP_1 + SmallMax - 1
  <2>1. PICK n \in 1..SmallMax : n = e.op - (OP_1 - 1) /\ e.op = OP_1 + n - 1
    <3>1. PICK op \in Nat, o \in Nat, m \in Nat : op = e.op /\ o = OP_1 /\ m = SmallMax
      BY <1>1, Opcodes, Constants
    <3>2. op \in o..o + m - 1
      BY <1>2, <3>1
    <3>3. op - (o - 1) \in 1..m /\ op = o + (op - (o - 1)) - 1
      BY <3>1, <3>2
    <3> QED
      BY <3>1, <3>3
  <2>2. NodeMultiplier(e) = n
    BY <1>2, <2>1 DEF NodeMultiplier
  <2>3. d = <<>>
    <3>1. e.op > OP_PUSHDATA4
      BY <2>1, Opcodes, Constants
    <3> QED
      BY <1>1, <3>1, Opcodes DEF IsPush
  <2>4. n # 0 /\ n <= SmallMax /\ n \in 0..MaxMultiplier
    BY <1>m, <2>1, Constants
  <2>5. pushMultiplier(n) = Opcode(OP_1 + n - 1)
    BY <2>4 DEF pushMultiplier
  <2> QED
    BY <1>1, <2>1, <2>2, <2>3, <2>4, <2>5 DEF Opcode
<1>3. CASE e.op \notin OP_1..OP_1 + SmallMax - 1
  <2>1. /\ GetUapDataPush(e) /\ IsScriptNum(d) /\ NumberOf(d) \in 0..MaxMultiplier
        /\ NodeMultiplier(e) = NumberOf(d)
    BY <1>3 DEF NodeMultiplier
  <2>2. Len(d) <= NumSize /\ isMinimalScriptNum(d)
    BY <2>1 DEF IsScriptNum, isMinimalScriptNum
  <2>3. Len(d) < Radix * Radix
    <3>1. DirectMax < Radix /\ Radix <= Radix * Radix
      BY Constants, ScriptAssumption DEF OP_1, OP_MINT
    <3> QED
      BY <1>1, <2>2, <3>1, Constants
  <2>4. e = pushData(d)
    BY <2>1, <2>3, PushIsWritten
  <2>5. CASE d = <<>>
    <3>1. NumberOf(d) = 0
      BY <2>5 DEF NumberOf
    <3>2. e.op = OP_0
      BY <2>1, <2>5 DEF GetUapDataPush, CheckMinimalPush
    <3> QED
      BY <1>1, <1>m, <2>1, <2>5, <3>1, <3>2 DEF pushMultiplier, Opcode
  <2>6. CASE d # <<>>
    <3>0. HighBit \in Nat /\ d[Len(d)] \in Nat
      <4>1. Len(d) \in 1..Len(d)
        BY <1>1, <2>6
      <4>2. d[Len(d)] \in Byte
        BY <1>1, <4>1
      <4> QED
        BY <4>2, Constants DEF Byte
    <3>1. d[Len(d)] < HighBit
      <4> SUFFICES ASSUME d[Len(d)] >= HighBit PROVE FALSE
        BY <3>0
      <4>1. NumberOf(d) < 0
        BY <1>1, <2>2, <2>6, MinimalSign
      <4> QED
        BY <1>m, <2>1, <4>1
    <3>2. /\ NumberOf(d) \in Nat \ {0} /\ scriptNumBytes(NumberOf(d)) = d
          /\ Len(d) > 1 => NumberOf(d) >= HighBit
          /\ Len(d) = 1 => NumberOf(d) = d[1]
      BY <1>1, <2>2, <2>6, <3>1, ReadThenWritten
    <3>a. Len(d) > 1 \/ Len(d) = 1
      BY <1>1, <2>6, LengthCases
    <3>3. ~(NumberOf(d) <= SmallMax)
      <4> SUFFICES ASSUME NumberOf(d) <= SmallMax PROVE FALSE
        OBVIOUS
      <4>1. PICK n \in Nat \ {0} : n = NumberOf(d)
        BY <3>2
      <4>2. ~(Len(d) > 1)
        BY <3>2, <4>1, Constants
      <4>3. Len(d) = 1 /\ d[1] \in 1..SmallMax
        <5>1. Len(d) = 1
          BY <3>a, <4>2
        <5>2. n \in 1..SmallMax /\ d[1] = n
          BY <3>2, <4>1, <5>1, Constants
        <5> QED
          BY <5>1, <5>2
      <4>4. e.op = OP_1 + d[1] - 1
        BY <2>1, <4>3 DEF GetUapDataPush, CheckMinimalPush
      <4>5. e.op \in OP_1..OP_1 + SmallMax - 1
        BY <4>3, <4>4, Opcodes, Constants
      <4> QED
        BY <1>3, <4>5
    <3> HIDE DEF d
    <3>4. pushMultiplier(NumberOf(d)) = pushData(d)
      BY <3>2, <3>3 DEF pushMultiplier
    <3> QED
      BY <2>1, <2>4, <3>4
  <2> QED
    BY <2>5, <2>6
<1> QED
  BY <1>2, <1>3

\* The element a multiplier is written as reads as it.
LEMMA WrittenMultiplier ==
  ASSUME NEW n \in 0..MaxMultiplier
  PROVE  NodeMultiplier(pushMultiplier(n)) = n
<1>m. MaxMultiplier \in Nat /\ SmallMax <= MaxMultiplier
  BY SmallIsMultiplier
<1>1. CASE n = 0
  <2>1. pushMultiplier(n) = [op |-> OP_0, data |-> <<>>]
    BY <1>1 DEF pushMultiplier, Opcode
  <2> DEFINE e == [op |-> OP_0, data |-> <<>>]
  <2>2. e.op = 0 /\ e.data = <<>>
    BY DEF OP_0
  <2> HIDE DEF e
  <2>3. ~(e.op \in OP_1..OP_1 + SmallMax - 1) /\ e.op <= OP_PUSHDATA4
    BY <2>2, Opcodes, Constants
  <2>4. CheckMinimalPush(e.data, e.op)
    BY <2>2, Constants DEF CheckMinimalPush, OP_0
  <2>5. IsScriptNum(e.data) /\ NumberOf(e.data) = 0
    BY <2>2, Constants DEF IsScriptNum, NumberOf
  <2>6. NodeMultiplier(e) = 0
    BY <1>m, <2>3, <2>4, <2>5 DEF NodeMultiplier, GetUapDataPush
  <2> QED
    BY <1>1, <2>1, <2>6 DEF e
<1>2. CASE n # 0 /\ n <= SmallMax
  <2>1. PICK o \in Nat, m \in Nat : o = OP_1 /\ m = SmallMax
    BY Opcodes, Constants
  <2>2. o + n - 1 \in o..o + m - 1 /\ (o + n - 1) - (o - 1) = n
    BY <1>m, <1>2, <2>1
  <2>3. pushMultiplier(n) = [op |-> o + n - 1, data |-> <<>>]
    BY <1>2, <2>1 DEF pushMultiplier, Opcode
  <2>4. pushMultiplier(n).op = o + n - 1
    BY <2>3
  <2> QED
    BY <2>1, <2>2, <2>4 DEF NodeMultiplier
<1>3. CASE n > SmallMax
  <2>0. n \in 1..MaxMultiplier /\ n # 0 /\ ~(n <= SmallMax) /\ n \in Nat
    BY <1>m, <1>3, Constants
  <2>1. PICK d : d = scriptNumBytes(n)
    OBVIOUS
  <2>2. /\ d \in Seq(Byte) /\ d # <<>> /\ Len(d) <= NumSize
        /\ isMinimalScriptNum(d) /\ d[Len(d)] < HighBit /\ NumberOf(d) = n
    BY <2>0, <2>1, WrittenThenRead
  <2>3. pushMultiplier(n) = pushData(d)
    BY <2>0, <2>1 DEF pushMultiplier
  <2>4. Len(d) \in Nat \ {0}
    BY <2>2, NonEmptyLength
  <2>5. Len(d) \in 1..(Radix * Radix - 1)
    <3>1. DirectMax < Radix /\ Radix <= Radix * Radix
      BY Constants, ScriptAssumption DEF OP_1, OP_MINT
    <3> QED
      BY <2>2, <2>4, <3>1, Constants
  <2>6. Len(d) = 1 => d[1] \notin 1..SmallMax /\ d[1] # HighBit + 1
    <3> HAVE Len(d) = 1
    <3>1. n = d[1]
      BY <2>2, ReadThenWritten
    <3> QED
      BY <2>0, <2>2, <3>1, Constants
  <2>7. PICK e : e = pushData(d) /\ GetUapDataPush(e) /\ e.data = d /\ e.op <= OP_PUSHDATA4
    BY <2>5, <2>6, WrittenIsPush
  <2>8. IsScriptNum(d)
    BY <2>2 DEF IsScriptNum, isMinimalScriptNum
  <2>9. e.op \notin OP_1..OP_1 + SmallMax - 1
    BY <2>7, Opcodes, Constants
  <2>10. NodeMultiplier(e) = n
    BY <2>2, <2>7, <2>8, <2>9 DEF NodeMultiplier
  <2> QED
    BY <2>3, <2>7, <2>10
<1> QED
  BY <1>m, <1>1, <1>2, <1>3, Constants

\* A script that parses is the one its covenant is written as.
LEMMA ParsedIsBuilt ==
  ASSUME NEW T, NEW s \in Seq(T), \A e \in T : IsElement(e), ParseUapOutputScript(s) # NotUap
  PROVE  s = BuildScript(ParseUapOutputScript(s))
<1>1. /\ Len(s) >= 3
      /\ GetUapDataPush(s[1]) /\ Len(s[1].data) \in PubkeySizes
      /\ NodeMultiplier(s[2]) # -1
      /\ \/ s[3].op = OP_MINT /\ Len(s) = 3
         \/ /\ GetUapDataPush(s[3]) /\ Len(s[3].data) = OriginSize
            /\ Len(s) = 4 /\ s[4].op = OP_MINT_TRANSFER
  BY DEF ParseUapOutputScript
<1>0. /\ Len(s) \in Nat /\ \A i \in 1..Len(s) : IsElement(s[i])
      /\ 1 \in 1..Len(s) /\ 2 \in 1..Len(s) /\ 3 \in 1..Len(s)
  BY <1>1
<1> DEFINE c == ParseUapOutputScript(s)
<1>2. c = [multiplier |-> NodeMultiplier(s[2]), pubkey |-> s[1].data, origin |-> s[3].data]
  BY <1>1 DEF ParseUapOutputScript
<1> HIDE DEF c
<1>3. c.multiplier = NodeMultiplier(s[2]) /\ c.pubkey = s[1].data /\ c.origin = s[3].data
  BY <1>2
<1>4. s[1] = pushData(c.pubkey)
  <2>1. IsElement(s[1])
    BY <1>0
  <2>2. Len(s[1].data) < Radix * Radix
    BY <1>1, ScriptAssumption, Constants
  <2> QED
    BY <1>1, <1>3, <2>1, <2>2, PushIsWritten
<1>5. s[2] = pushMultiplier(c.multiplier)
  BY <1>0, <1>1, <1>3, MultiplierIsWritten
<1>6. CASE s[3].op = OP_MINT /\ Len(s) = 3
  <2>1. s[3] = Opcode(OP_MINT) /\ c.origin = <<>>
    <3>1. PICK e : e = s[3] /\ IsElement(e)
      BY <1>0
    <3>2. ~IsPush(e)
      BY <1>6, <3>1, Opcodes, Constants DEF IsPush
    <3> QED
      BY <1>3, <1>6, <3>1, <3>2, Elements DEF Opcode
  <2>2. BuildScript(c) = <<pushData(c.pubkey), pushMultiplier(c.multiplier), Opcode(OP_MINT)>>
    BY <2>1 DEF BuildScript
  <2>3. s = <<s[1], s[2], s[3]>>
    BY <1>6
  <2> QED
    BY <1>4, <1>5, <2>1, <2>2, <2>3 DEF c
<1>7. CASE /\ GetUapDataPush(s[3]) /\ Len(s[3].data) = OriginSize
           /\ Len(s) = 4 /\ s[4].op = OP_MINT_TRANSFER
  <2>1. s[3] = pushData(c.origin) /\ c.origin # <<>>
    <3>1. IsElement(s[3])
      BY <1>0
    <3>2. OriginSize \in Nat \ {0} /\ OriginSize < Radix * Radix
      BY ScriptAssumption, Constants
    <3>3. s[3].data # <<>>
      BY <1>7, <3>2
    <3> QED
      BY <1>3, <1>7, <3>1, <3>2, <3>3, PushIsWritten
  <2>2. s[4] = Opcode(OP_MINT_TRANSFER)
    <3>1. PICK e : e = s[4] /\ IsElement(e)
      BY <1>0, <1>7, 4 \in 1..4
    <3>2. ~IsPush(e)
      BY <1>7, <3>1, Opcodes, Constants DEF IsPush
    <3> QED
      BY <1>7, <3>1, <3>2, Elements DEF Opcode
  <2>3. BuildScript(c) = <<pushData(c.pubkey), pushMultiplier(c.multiplier),
                           pushData(c.origin), Opcode(OP_MINT_TRANSFER)>>
    BY <2>1 DEF BuildScript
  <2>4. s = <<s[1], s[2], s[3], s[4]>>
    BY <1>7
  <2> QED
    BY <1>4, <1>5, <2>1, <2>2, <2>3, <2>4 DEF c
<1> QED
  BY <1>1, <1>6, <1>7

\* A covenant's script parses as it.
LEMMA BuiltParses ==
  ASSUME NEW c \in Covenants
  PROVE  ParseUapOutputScript(BuildScript(c)) = c
<1>1. /\ c.multiplier \in 0..MaxMultiplier /\ Len(c.pubkey) \in PubkeySizes
      /\ c.origin = <<>> \/ Len(c.origin) = OriginSize
      /\ c = [multiplier |-> c.multiplier, pubkey |-> c.pubkey, origin |-> c.origin]
  BY DEF Covenants, Payloads
<1>2. /\ \A n \in PubkeySizes : n \in 1..(Radix * Radix - 1) /\ n # 1
      /\ OriginSize \in 1..(Radix * Radix - 1) /\ OriginSize # 1 /\ OriginSize # 0
  BY ScriptAssumption, Constants
<1>3. /\ GetUapDataPush(pushData(c.pubkey)) /\ pushData(c.pubkey).data = c.pubkey
  BY <1>1, <1>2, WrittenIsPush, Zenon
<1>4. NodeMultiplier(pushMultiplier(c.multiplier)) = c.multiplier /\ c.multiplier # -1
  BY <1>1, WrittenMultiplier, SmallIsMultiplier
<1>5. CASE c.origin = <<>>
  <2>1. PICK s : s = <<pushData(c.pubkey), pushMultiplier(c.multiplier), Opcode(OP_MINT)>>
    BY Zenon
  <2>2. /\ Len(s) = 3 /\ s[1] = pushData(c.pubkey) /\ s[2] = pushMultiplier(c.multiplier)
        /\ s[3].op = OP_MINT /\ s[3].data = <<>>
    BY <2>1 DEF Opcode
  <2>3. BuildScript(c) = s
    BY <1>5, <2>1 DEF BuildScript
  <2>4. ParseUapOutputScript(s)
          = [multiplier |-> NodeMultiplier(s[2]), pubkey |-> s[1].data, origin |-> s[3].data]
    BY <1>1, <1>3, <1>4, <2>2 DEF ParseUapOutputScript
  <2> QED
    BY <1>1, <1>3, <1>4, <1>5, <2>2, <2>3, <2>4
<1>6. CASE c.origin # <<>>
  <2>1. PICK s : s = <<pushData(c.pubkey), pushMultiplier(c.multiplier),
                       pushData(c.origin), Opcode(OP_MINT_TRANSFER)>>
    BY Zenon
  <2>2. /\ Len(s) = 4 /\ s[1] = pushData(c.pubkey) /\ s[2] = pushMultiplier(c.multiplier)
        /\ s[3] = pushData(c.origin) /\ s[4].op = OP_MINT_TRANSFER
    BY <2>1 DEF Opcode
  <2>3. BuildScript(c) = s
    BY <1>6, <2>1 DEF BuildScript
  <2>4. GetUapDataPush(pushData(c.origin)) /\ pushData(c.origin).data = c.origin
    BY <1>1, <1>2, <1>6, WrittenIsPush, Zenon
  <2>5. ParseUapOutputScript(s)
          = [multiplier |-> NodeMultiplier(s[2]), pubkey |-> s[1].data, origin |-> s[3].data]
    BY <1>1, <1>3, <1>4, <1>6, <2>2, <2>4 DEF ParseUapOutputScript
  <2> QED
    BY <1>1, <1>3, <1>4, <2>2, <2>3, <2>4, <2>5
<1> QED
  BY <1>5, <1>6

\* Every covenant has exactly one script that consensus takes for it, the one
\* uaptx builds, however large the bytes, pushes and numbers: no other
\* encoding of the key, the multiplier or the origin is a position.
THEOREM ScriptsAreCanonical == ScriptSpec => []OneEncoding
<1>1. script \in Seq(AnyElement) => OneEncoding
  <2> SUFFICES ASSUME script \in Seq(AnyElement) PROVE OneEncoding
    OBVIOUS
  <2>1. ParseUapOutputScript(script) # NotUap
          => script = BuildScript(ParseUapOutputScript(script))
    BY ElementsAreWellFormed, ParsedIsBuilt
  <2>2. \A d \in Covenants : script = BuildScript(d) => ParseUapOutputScript(script) = d
    BY BuiltParses
  <2> QED
    BY <2>1, <2>2 DEF OneEncoding
<1> QED
  BY <1>1, ScriptsOfElements, PTL

=============================================================================
