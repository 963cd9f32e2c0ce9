--------------------------------- MODULE Sums ---------------------------------
(***************************************************************************)
(* Sums over finite sets, as the proofs of the other modules need them:    *)
(* that SumFunctionOnSet(f, S) adds each element of S once, in whatever    *)
(* order, and what follows.                                                *)
(*                                                                         *)
(* Induction is over sets: a set of natural numbers (or of subsets) that   *)
(* holds the first and, with each, the next holds all of them.             *)
(***************************************************************************)
EXTENDS Integers, FiniteSetsExt, FiniteSetTheorems, WellFoundedInduction, TLAPS

\* The provers a leaf that names none is given to, in turn.  tlapm gives up
\* preparing an obligation for a prover after a few seconds, which a large
\* context can take; the later entries are there for such a leaf.
USE SMTT(30), Zenon, Z3T(30), SMTT(40)

\* A set of naturals that is not empty has a least element.
LEMMA LeastNatural ==
  ASSUME NEW T, T \subseteq Nat, T # {}
  PROVE  \E n \in T : \A m \in T : n <= m
<1>1. PICK n \in T : \A m \in T : ~(<<m, n>> \in OpToRel(<, Nat))
  BY NatLessThanWellFounded, WFMin, Zenon
<1>2. \A m \in T : <<m, n>> \in Nat \X Nat
  OBVIOUS
<1>3. \A m \in T : ~(m < n)
  BY <1>1, <1>2, Zenon DEF OpToRel
<1> QED
  BY <1>3

\* A set that holds 0 and, with each natural, the next holds all of them.
LEMMA NatsBySteps ==
  ASSUME NEW T, 0 \in T, \A n \in Nat : n \in T => n + 1 \in T
  PROVE  Nat \subseteq T
<1> DEFINE Missing == Nat \ T
<1> SUFFICES ASSUME Missing # {} PROVE FALSE
  OBVIOUS
<1>1. PICK n \in Missing : \A m \in Missing : n <= m
  BY LeastNatural, Zenon
<1>2. n - 1 \in Nat /\ n - 1 \notin Missing
  BY <1>1
<1> QED
  BY <1>2

\* A set that holds {} and, with each subset of a finite set, the subset with
\* one more element holds all of its subsets.
LEMMA SubsetsBySteps ==
  ASSUME NEW U, IsFiniteSet(U), NEW T, {} \in T,
         \A R \in SUBSET U, x \in U : R \in T /\ x \notin R => R \cup {x} \in T
  PROVE  SUBSET U \subseteq T
<1> DEFINE Reached == {n \in Nat : \A R \in SUBSET U : Cardinality(R) = n => R \in T}
<1>1. \A R \in SUBSET U : IsFiniteSet(R) /\ Cardinality(R) \in Nat
  BY FS_Subset, FS_CardinalityType
<1>2. 0 \in Reached
  BY <1>1, FS_EmptySet, Zenon
<1>3. ASSUME NEW n \in Nat, n \in Reached PROVE n + 1 \in Reached
  <2> SUFFICES ASSUME NEW R \in SUBSET U, Cardinality(R) = n + 1 PROVE R \in T
    OBVIOUS
  <2>1. R # {}
    BY FS_EmptySet
  <2>2. PICK x \in R : TRUE
    BY <2>1
  <2>3. Cardinality(R \ {x}) = Cardinality(R) - 1
    BY <1>1, <2>2, FS_RemoveElement, Zenon
  <2>4. R \ {x} \in T
    BY <1>3, <2>3
  <2>5. (R \ {x}) \cup {x} \in T
    BY <2>2, <2>4
  <2>6. (R \ {x}) \cup {x} = R
    BY <2>2
  <2> QED
    BY <2>5, <2>6, Zenon
<1>4. Nat \subseteq Reached
  <2> HIDE DEF Reached
  <2> QED
    BY <1>2, <1>3, NatsBySteps
<1> QED
  BY <1>1, <1>4

-----------------------------------------------------------------------------
\* One step of a recursion over the naturals, from a by G.
NatStep(a, G, g, n) == IF n = 0 THEN a ELSE G[<<n, g[n - 1]>>]
NatIter(a, G, n) == CHOOSE g : g = [k \in 0..n |-> NatStep(a, G, g, k)]

\* The recursion has a solution up to each natural.
LEMMA NatIterStep ==
  ASSUME NEW a, NEW G, NEW m \in Nat
  PROVE  \A k \in 0..m : NatIter(a, G, m)[k] = NatStep(a, G, NatIter(a, G, m), k)
<1> DEFINE Solved == {n \in Nat : \E g : g = [k \in 0..n |-> NatStep(a, G, g, k)]}
<1>1. 0 \in Solved
  <2> DEFINE g == [k \in 0..0 |-> a]
  <2>1. g = [k \in 0..0 |-> NatStep(a, G, g, k)]
    BY DEF NatStep
  <2> QED
    BY <2>1
<1>2. ASSUME NEW n \in Nat, n \in Solved PROVE n + 1 \in Solved
  <2>1. PICK g : g = [k \in 0..n |-> NatStep(a, G, g, k)]
    BY <1>2
  <2> DEFINE h == [k \in 0..(n + 1) |-> NatStep(a, G, g, k)]
  <2>2. ASSUME NEW k \in 0..(n + 1) PROVE NatStep(a, G, g, k) = NatStep(a, G, h, k)
    <3>1. CASE k = 0
      BY <3>1 DEF NatStep
    <3>2. CASE k # 0
      <4>1. k - 1 \in 0..n /\ k - 1 \in 0..(n + 1)
        BY <3>2
      <4>2. g[k - 1] = NatStep(a, G, g, k - 1) /\ h[k - 1] = NatStep(a, G, g, k - 1)
        BY <2>1, <4>1
      <4> HIDE DEF h
      <4> QED
        BY <3>2, <4>2 DEF NatStep
    <3> QED
      BY <3>1, <3>2
  <2>3. h = [k \in 0..(n + 1) |-> NatStep(a, G, h, k)]
    BY <2>2
  <2> HIDE DEF h
  <2>4. \E f : f = [k \in 0..(n + 1) |-> NatStep(a, G, f, k)]
    BY <2>3
  <2> QED
    BY <2>4, n + 1 \in Nat
<1>3. m \in Solved
  <2> HIDE DEF Solved
  <2> QED
    BY <1>1, <1>2, NatsBySteps
<1> DEFINE g == NatIter(a, G, m)
<1>4. g = [k \in 0..m |-> NatStep(a, G, g, k)]
  BY <1>3 DEF NatIter
<1> HIDE DEF g
<1>5. \A k \in 0..m : g[k] = NatStep(a, G, g, k)
  BY <1>4
<1> QED
  BY <1>5 DEF g

\* Two solutions agree where both are defined.
LEMMA NatIterUnique ==
  ASSUME NEW a, NEW G, NEW m \in Nat
  PROVE  NatIter(a, G, m + 1)[m] = NatIter(a, G, m)[m]
<1> DEFINE g == NatIter(a, G, m)
           h == NatIter(a, G, m + 1)
           Agree == {n \in Nat : n <= m => h[n] = g[n]}
<1>1. /\ \A k \in 0..m : g[k] = NatStep(a, G, g, k)
      /\ \A k \in 0..(m + 1) : h[k] = NatStep(a, G, h, k)
  BY NatIterStep, m + 1 \in Nat
<1> HIDE DEF g, h
<1>2. 0 \in Agree
  <2>1. 0 \in 0..m /\ 0 \in 0..(m + 1)
    OBVIOUS
  <2>2. h[0] = a /\ g[0] = a
    BY <1>1, <2>1, Zenon DEF NatStep
  <2> QED
    BY <2>2
<1>3. ASSUME NEW n \in Nat, n \in Agree PROVE n + 1 \in Agree
  <2> SUFFICES ASSUME n + 1 <= m PROVE h[n + 1] = g[n + 1]
    BY n + 1 \in Nat
  <2>1. h[n] = g[n]
    BY <1>3
  <2>2. h[n + 1] = NatStep(a, G, h, n + 1) /\ g[n + 1] = NatStep(a, G, g, n + 1)
    BY <1>1
  <2> QED
    BY <2>1, <2>2, n + 1 - 1 = n, n + 1 # 0 DEF NatStep
<1>4. Nat \subseteq Agree
  <2> HIDE DEF Agree
  <2> QED
    BY <1>2, <1>3, NatsBySteps
<1> QED
  BY <1>4 DEF g, h

\* A recursion over the naturals has a solution.
LEMMA NatRecursion ==
  ASSUME NEW a, NEW G
  PROVE  \E f : f = [n \in Nat |-> NatStep(a, G, f, n)]
<1> DEFINE f == [n \in Nat |-> NatIter(a, G, n)[n]]
<1>1. ASSUME NEW n \in Nat PROVE f[n] = NatStep(a, G, f, n)
  <2>1. NatIter(a, G, n)[n] = NatStep(a, G, NatIter(a, G, n), n)
    BY NatIterStep
  <2>2. CASE n = 0
    BY <2>1, <2>2 DEF NatStep
  <2>3. CASE n # 0
    <3>1. n - 1 \in Nat /\ (n - 1) + 1 = n
      BY <2>3
    <3>2. NatIter(a, G, n)[n - 1] = NatIter(a, G, n - 1)[n - 1]
      BY <3>1, NatIterUnique
    <3>3. f[n - 1] = NatIter(a, G, n)[n - 1]
      BY <3>1, <3>2
    <3> QED
      BY <2>1, <2>3, <3>3 DEF NatStep
  <2> QED
    BY <2>2, <2>3
<1>2. f = [n \in Nat |-> NatStep(a, G, f, n)]
  BY <1>1
<1> HIDE DEF f
<1> QED
  BY <1>2

-----------------------------------------------------------------------------
\* One step of the recursion that SumFunctionOnSet is defined by: g has the
\* sums of smaller sets.
SumStep(f, g, s) ==
  IF s = {} THEN 0 ELSE LET x == CHOOSE x \in s : TRUE IN f[x] + g[s \ {x}]

SumIter(f, S) == CHOOSE g : g = [s \in SUBSET S |-> SumStep(f, g, s)]

\* The definition, unfolded.
LEMMA SumDefinition == ASSUME NEW f, NEW S PROVE SumFunctionOnSet(f, S) = SumIter(f, S)[S]
  BY DEF SumFunctionOnSet, FoldFunctionOnSet, MapThenFoldSet, SumIter, SumStep

\* On a finite set the recursion has a solution.
LEMMA SumIterExists ==
  ASSUME NEW f, NEW S, IsFiniteSet(S)
  PROVE  \E g : g = [s \in SUBSET S |-> SumStep(f, g, s)]
<1> DEFINE Small(n) == {s \in SUBSET S : Cardinality(s) <= n}
           Solved == {n \in Nat : \E g : g = [s \in Small(n) |-> SumStep(f, g, s)]}
<1>1. \A s \in SUBSET S : IsFiniteSet(s) /\ Cardinality(s) \in Nat /\ Cardinality(s) <= Cardinality(S)
  BY FS_Subset, FS_CardinalityType
<1>2. ASSUME NEW s \in SUBSET S, NEW x \in s
      PROVE  s \ {x} \in SUBSET S /\ Cardinality(s \ {x}) = Cardinality(s) - 1
  BY <1>1, FS_RemoveElement
<1>3. 0 \in Solved
  <2> DEFINE g == [s \in Small(0) |-> 0]
  <2>1. \A s \in Small(0) : s = {}
    BY <1>1, FS_EmptySet
  <2>2. g = [s \in Small(0) |-> SumStep(f, g, s)]
    BY <2>1 DEF SumStep
  <2> QED
    BY <2>2, Zenon
<1>4. ASSUME NEW n \in Nat, n \in Solved PROVE n + 1 \in Solved
  <2>1. PICK g : g = [s \in Small(n) |-> SumStep(f, g, s)]
    BY <1>4, Zenon
  <2> DEFINE h == [s \in Small(n + 1) |-> SumStep(f, g, s)]
  <2>2. ASSUME NEW s \in Small(n + 1) PROVE SumStep(f, g, s) = SumStep(f, h, s)
    <3>1. CASE s = {}
      BY <3>1 DEF SumStep
    <3>2. CASE s # {}
      <4> DEFINE x == CHOOSE x \in s : TRUE
                 r == s \ {x}
      <4>1. x \in s
        BY <3>2
      <4>2. r \in SUBSET S /\ Cardinality(r) = Cardinality(s) - 1
        BY <4>1, <1>2, Zenon
      <4>3. Cardinality(r) <= n /\ Cardinality(r) <= n + 1
        BY <4>2, <1>1
      <4>4. r \in Small(n) /\ r \in Small(n + 1)
        BY <4>2, <4>3
      <4> HIDE DEF Small
      <4>5. g[r] = SumStep(f, g, r) /\ h[r] = SumStep(f, g, r)
        BY <2>1, <4>4
      <4> QED
        BY <3>2, <4>5 DEF SumStep
    <3> QED
      BY <3>1, <3>2
  <2>3. h = [s \in Small(n + 1) |-> SumStep(f, h, s)]
    <3> HIDE DEF Small
    <3> QED
      BY <2>2
  <2>4. \E k : k = [s \in Small(n + 1) |-> SumStep(f, k, s)]
    <3> HIDE DEF Small, h
    <3> QED
      BY <2>3
  <2>5. n + 1 \in Nat
    OBVIOUS
  <2> QED
    BY <2>4, <2>5, Zenon
<1>5. Cardinality(S) \in Solved
  <2> HIDE DEF Solved
  <2> QED
    BY <1>3, <1>4, NatsBySteps, FS_CardinalityType
<1>6. Small(Cardinality(S)) = SUBSET S
  BY <1>1
<1> QED
  BY <1>5, <1>6

\* What SumIter satisfies.
LEMMA SumIterStep ==
  ASSUME NEW f, NEW S, IsFiniteSet(S)
  PROVE  \A s \in SUBSET S : SumIter(f, S)[s] = SumStep(f, SumIter(f, S), s)
<1> DEFINE g == SumIter(f, S)
<1>1. g = [s \in SUBSET S |-> SumStep(f, g, s)]
  BY SumIterExists DEF SumIter
<1> HIDE DEF g
<1>2. \A s \in SUBSET S : g[s] = SumStep(f, g, s)
  BY <1>1
<1> QED
  BY <1>2 DEF g

\* The solutions for a set and for a subset agree where both are defined.
LEMMA SumIterUnique ==
  ASSUME NEW f, NEW Q, NEW R, IsFiniteSet(Q), R \subseteq Q
  PROVE  \A s \in SUBSET R : SumIter(f, Q)[s] = SumIter(f, R)[s]
<1> DEFINE g == SumIter(f, Q)
           h == SumIter(f, R)
           Agree == {n \in Nat : \A s \in SUBSET R : Cardinality(s) = n => g[s] = h[s]}
<1>2. \A s \in SUBSET R : g[s] = SumStep(f, g, s) /\ h[s] = SumStep(f, h, s)
  BY SumIterStep, FS_Subset
<1> HIDE DEF g, h
<1>1. \A s \in SUBSET R : IsFiniteSet(s) /\ Cardinality(s) \in Nat
  BY FS_Subset, FS_CardinalityType
<1>3. 0 \in Agree
  <2>1. \A s \in SUBSET R : Cardinality(s) = 0 => s = {}
    BY <1>1, FS_EmptySet
  <2> QED
    BY <1>2, <2>1 DEF SumStep
<1>4. ASSUME NEW n \in Nat, n \in Agree PROVE n + 1 \in Agree
  <2> SUFFICES ASSUME NEW s \in SUBSET R, Cardinality(s) = n + 1 PROVE g[s] = h[s]
    <3>1. n + 1 \in Nat
      OBVIOUS
    <3> QED
      BY <3>1
  <2>1. s # {}
    BY n + 1 # 0, FS_EmptySet
  <2> DEFINE x == CHOOSE x \in s : TRUE
             r == s \ {x}
  <2>2. x \in s
    BY <2>1
  <2>3. r \in SUBSET R /\ Cardinality(r) = Cardinality(s) - 1
    BY <1>1, <2>2, FS_RemoveElement, Zenon
  <2>4. g[r] = h[r]
    BY <1>4, <2>3, n + 1 - 1 = n
  <2>5. SumStep(f, g, s) = f[x] + g[r] /\ SumStep(f, h, s) = f[x] + h[r]
    BY <2>1 DEF SumStep
  <2> QED
    BY <1>2, <2>4, <2>5
<1>5. Nat \subseteq Agree
  <2> HIDE DEF Agree
  <2> QED
    BY <1>3, <1>4, NatsBySteps
<1> QED
  BY <1>1, <1>5 DEF g, h

\* The sum of no values is 0.
LEMMA SumEmpty == ASSUME NEW f PROVE SumFunctionOnSet(f, {}) = 0
  BY SumIterStep, FS_EmptySet, SumDefinition DEF SumStep

\* A sum is the value of the element that is chosen first and the sum of the
\* others.
LEMMA SumChoose ==
  ASSUME NEW f, NEW S, IsFiniteSet(S), S # {}
  PROVE  LET x == CHOOSE x \in S : TRUE IN
           x \in S /\ SumFunctionOnSet(f, S) = f[x] + SumFunctionOnSet(f, S \ {x})
<1> DEFINE x == CHOOSE x \in S : TRUE
           R == S \ {x}
<1>1. x \in S /\ R \subseteq S
  OBVIOUS
<1>2. SumIter(f, S)[R] = SumIter(f, R)[R]
  BY <1>1, SumIterUnique
<1>3. SumIter(f, S)[S] = SumStep(f, SumIter(f, S), S)
  BY SumIterStep
<1>4. SumStep(f, SumIter(f, S), S) = f[x] + SumIter(f, S)[R]
  BY DEF SumStep
<1> QED
  BY <1>1, <1>2, <1>3, <1>4, SumDefinition

\* Adding one element adds its value: the order of the choices is of no
\* account.
LEMMA SumAdd ==
  ASSUME NEW f, NEW S, IsFiniteSet(S), NEW y, y \notin S,
         \A x \in S \cup {y} : f[x] \in Int
  PROVE  /\ SumFunctionOnSet(f, S) \in Int
         /\ SumFunctionOnSet(f, S \cup {y}) = f[y] + SumFunctionOnSet(f, S)
<1> DEFINE U == S \cup {y}
           Sum(R) == SumFunctionOnSet(f, R)
           Fine(R) == Sum(R) \in Int /\ \A x \in U \ R : Sum(R \cup {x}) = f[x] + Sum(R)
           Done == {n \in Nat : \A R \in SUBSET U : Cardinality(R) = n => Fine(R)}
<1>1. IsFiniteSet(U)
  BY FS_AddElement
<1>2. \A R \in SUBSET U : IsFiniteSet(R) /\ Cardinality(R) \in Nat
  BY <1>1, FS_Subset, FS_CardinalityType
<1>3. ASSUME NEW R \in SUBSET U, R # {}
      PROVE  \E c \in R : Sum(R) = f[c] + Sum(R \ {c})
  BY <1>2, <1>3, SumChoose, Zenon
<1> HIDE DEF U, Sum
<1>4. \A x \in U : f[x] \in Int
  BY DEF U
<1>5. Sum({}) = 0
  BY SumEmpty DEF Sum
<1>6. Fine({})
  <2> SUFFICES ASSUME NEW x \in U PROVE Sum({x}) = f[x] + Sum({})
    BY <1>5
  <2>1. PICK c \in {x} : Sum({x}) = f[c] + Sum({x} \ {c})
    BY <1>3
  <2> QED
    BY <2>1, {x} \ {x} = {}
<1>7. 0 \in Done
  BY <1>2, <1>6, FS_EmptySet
<1>8. ASSUME NEW n \in Nat, n \in Done PROVE n + 1 \in Done
  <2> SUFFICES ASSUME NEW R \in SUBSET U, Cardinality(R) = n + 1 PROVE Fine(R)
    BY n + 1 \in Nat
  <2>1. R # {}
    BY n + 1 # 0, FS_EmptySet
  <2>2. ASSUME NEW c \in R
        PROVE  /\ R \ {c} \in SUBSET U /\ Fine(R \ {c})
               /\ Sum(R) = f[c] + Sum(R \ {c})
    <3>1. Cardinality(R \ {c}) = Cardinality(R) - 1 /\ n + 1 - 1 = n
      BY <1>2, FS_RemoveElement
    <3>2. R \ {c} \in SUBSET U /\ Cardinality(R \ {c}) = n
      BY <3>1
    <3>3. Fine(R \ {c})
      BY <1>8, <3>2
    <3>4. (R \ {c}) \cup {c} = R /\ c \in U \ (R \ {c})
      OBVIOUS
    <3> QED
      BY <3>2, <3>3, <3>4, Zenon
  <2>3. Sum(R) \in Int
    <3>1. PICK c \in R : TRUE
      BY <2>1
    <3>2. f[c] \in Int /\ Sum(R \ {c}) \in Int /\ Sum(R) = f[c] + Sum(R \ {c})
      BY <1>4, <2>2
    <3> QED
      BY <3>2
  <2>4. ASSUME NEW x \in U \ R PROVE Sum(R \cup {x}) = f[x] + Sum(R)
    <3> DEFINE W == R \cup {x}
    <3>1. PICK c \in W : Sum(W) = f[c] + Sum(W \ {c})
      BY <1>3
    <3>2. CASE c = x
      BY <3>1, <3>2, W \ {x} = R
    <3>3. CASE c # x
      <4>1. c \in R /\ x \in U \ (R \ {c}) /\ W \ {c} = (R \ {c}) \cup {x}
        BY <3>1, <3>3
      <4>2. /\ Sum(W \ {c}) = f[x] + Sum(R \ {c})
            /\ Sum(R) = f[c] + Sum(R \ {c})
            /\ Sum(R \ {c}) \in Int
        BY <4>1, <2>2, Zenon
      <4>3. f[c] \in Int /\ f[x] \in Int
        BY <1>4, <4>1
      <4> QED
        BY <3>1, <4>2, <4>3
    <3> QED
      BY <3>2, <3>3
  <2> QED
    BY <2>3, <2>4
<1>9. Nat \subseteq Done
  <2> HIDE DEF Done
  <2> QED
    BY <1>7, <1>8, NatsBySteps
<1>10. Fine(S) /\ y \in U \ S
  BY <1>2, <1>9 DEF U
<1> QED
  BY <1>10 DEF Sum

\* Removing one element subtracts its value.
LEMMA SumRemove ==
  ASSUME NEW f, NEW S, IsFiniteSet(S), NEW y \in S, \A x \in S : f[x] \in Int
  PROVE  /\ SumFunctionOnSet(f, S \ {y}) \in Int
         /\ SumFunctionOnSet(f, S) = f[y] + SumFunctionOnSet(f, S \ {y})
<1>1. IsFiniteSet(S \ {y}) /\ (S \ {y}) \cup {y} = S
  BY FS_RemoveElement
<1> QED
  BY <1>1, SumAdd

\* A sum of integers is one.
LEMMA SumInt ==
  ASSUME NEW f, NEW S, IsFiniteSet(S), \A x \in S : f[x] \in Int
  PROVE  SumFunctionOnSet(f, S) \in Int
<1>1. CASE S = {}
  BY <1>1, SumEmpty
<1>2. CASE S # {}
  <2>1. PICK y \in S : TRUE
    BY <1>2
  <2>2. SumFunctionOnSet(f, S) = f[y] + SumFunctionOnSet(f, S \ {y})
    BY SumRemove
  <2>3. SumFunctionOnSet(f, S \ {y}) \in Int /\ f[y] \in Int
    BY SumRemove, Zenon
  <2> QED
    BY <2>2, <2>3
<1> QED
  BY <1>1, <1>2

\* The sum of one value.
LEMMA SumSingleton ==
  ASSUME NEW f, NEW y, f[y] \in Int
  PROVE  SumFunctionOnSet(f, {y}) = f[y]
<1>1. IsFiniteSet({}) /\ {} \cup {y} = {y}
  BY FS_EmptySet
<1>2. SumFunctionOnSet(f, {y}) = f[y] + SumFunctionOnSet(f, {})
  BY <1>1, SumAdd, Zenon
<1> QED
  BY <1>2, SumEmpty

\* The sum over two sets without a common element.
LEMMA SumUnion ==
  ASSUME NEW f, NEW S, NEW R, IsFiniteSet(S), IsFiniteSet(R), S \cap R = {},
         \A x \in S \cup R : f[x] \in Int
  PROVE  SumFunctionOnSet(f, S \cup R) = SumFunctionOnSet(f, S) + SumFunctionOnSet(f, R)
<1> DEFINE Sum(Q) == SumFunctionOnSet(f, Q)
           Split == {Q \in SUBSET R : Sum(S \cup Q) = Sum(S) + Sum(Q)}
<1>1. \A Q \in SUBSET R : IsFiniteSet(Q) /\ IsFiniteSet(S \cup Q)
  BY FS_Subset, FS_Union, Zenon
<1>2. \A Q \in SUBSET R : Sum(Q) \in Int /\ Sum(S) \in Int
  BY <1>1, SumInt, Zenon
<1>3. {} \in Split
  BY <1>2, SumEmpty, S \cup {} = S
<1>4. ASSUME NEW Q \in SUBSET R, NEW y \in R, Q \in Split, y \notin Q
      PROVE  Q \cup {y} \in Split
  <2>1. Sum(Q \cup {y}) = f[y] + Sum(Q)
    BY <1>1, <1>4, SumAdd
  <2>2. Sum((S \cup Q) \cup {y}) = f[y] + Sum(S \cup Q)
    BY <1>1, <1>4, SumAdd, Zenon
  <2>3. (S \cup Q) \cup {y} = S \cup (Q \cup {y}) /\ Q \cup {y} \in SUBSET R
    OBVIOUS
  <2>4. Sum(S \cup Q) = Sum(S) + Sum(Q) /\ f[y] \in Int /\ Sum(S) \in Int /\ Sum(Q) \in Int
    BY <1>2, <1>4
  <2> HIDE DEF Sum
  <2>5. Sum(S \cup (Q \cup {y})) = f[y] + Sum(S \cup Q)
    BY <2>2, <2>3, Zenon
  <2>6. Sum(S \cup (Q \cup {y})) = Sum(S) + Sum(Q \cup {y})
    BY <2>1, <2>4, <2>5
  <2> QED
    BY <2>3, <2>6
<1>5. SUBSET R \subseteq Split
  <2> HIDE DEF Split
  <2>1. \A Q \in SUBSET R, y \in R : Q \in Split /\ y \notin Q => Q \cup {y} \in Split
    BY <1>4
  <2> QED
    BY ONLY <1>3, <2>1, IsFiniteSet(R), SubsetsBySteps, Zenon
<1> QED
  BY <1>5

\* Values that are no larger, over a set that is no larger, add up to no more.
LEMMA SumMonotone ==
  ASSUME NEW f, NEW g, NEW S, NEW R, IsFiniteSet(S), R \subseteq S,
         \A x \in S : f[x] \in Int /\ g[x] \in Nat,
         \A x \in R : f[x] <= g[x]
  PROVE  SumFunctionOnSet(f, R) <= SumFunctionOnSet(g, S)
<1> DEFINE Low(Q) == SumFunctionOnSet(f, Q \cap R)
           High(Q) == SumFunctionOnSet(g, Q)
           Bounded == {Q \in SUBSET S : Low(Q) <= High(Q)}
<1>1. \A Q \in SUBSET S : IsFiniteSet(Q) /\ IsFiniteSet(Q \cap R)
  BY FS_Subset
<1>2. \A Q \in SUBSET S : Low(Q) \in Int /\ High(Q) \in Int
  BY <1>1, SumInt, Nat \subseteq Int
<1>3. {} \in Bounded
  BY SumEmpty, {} \cap R = {}
<1>4. ASSUME NEW Q \in SUBSET S, NEW y \in S, Q \in Bounded, y \notin Q
      PROVE  Q \cup {y} \in Bounded
  <2>1. High(Q \cup {y}) = g[y] + High(Q)
    BY <1>1, <1>4, SumAdd, Nat \subseteq Int
  <2>2. Low(Q \cup {y}) = Low(Q) \/ (f[y] <= g[y] /\ Low(Q \cup {y}) = f[y] + Low(Q))
    <3>1. CASE y \in R
      <4>1. (Q \cup {y}) \cap R = (Q \cap R) \cup {y}
        BY <3>1
      <4>2. SumFunctionOnSet(f, (Q \cap R) \cup {y}) = f[y] + SumFunctionOnSet(f, Q \cap R)
        BY <1>1, <1>4, SumAdd, Zenon
      <4> QED
        BY <3>1, <4>1, <4>2
    <3>2. CASE y \notin R
      BY <3>2, (Q \cup {y}) \cap R = Q \cap R
    <3> QED
      BY <3>1, <3>2
  <2>3. f[y] \in Int /\ g[y] \in Nat /\ Low(Q) \in Int /\ High(Q) \in Int /\ Low(Q) <= High(Q)
    BY <1>2, <1>4
  <2> HIDE DEF Low, High
  <2>4. Low(Q \cup {y}) <= High(Q \cup {y})
    BY <2>1, <2>2, <2>3
  <2> QED
    BY <2>4
<1>5. SUBSET S \subseteq Bounded
  <2> HIDE DEF Bounded
  <2> QED
    BY <1>3, <1>4, SubsetsBySteps, Zenon
<1> QED
  BY <1>5, S \cap R = R

\* h renames the elements of S to those of R, no two to one name, and f has
\* at the new name what g has at the old one.
Renames(h, g, S, f, R) ==
  /\ \A x, y \in S : x # y => h[x] # h[y]
  /\ \A x \in S : g[x] \in Int /\ f[h[x]] = g[x]
  /\ \A z : z \in R <=> \E x \in S : z = h[x]

\* Renaming the elements keeps the sum.
LEMMA SumRename ==
  ASSUME NEW f, NEW g, NEW S, IsFiniteSet(S), NEW h, NEW R, Renames(h, g, S, f, R)
  PROVE  SumFunctionOnSet(f, R) = SumFunctionOnSet(g, S)
<1>0. /\ \A x, y \in S : x # y => h[x] # h[y]
      /\ \A x \in S : g[x] \in Int /\ f[h[x]] = g[x]
      /\ \A z : z \in R <=> \E x \in S : z = h[x]
  BY DEF Renames
<1> DEFINE Image(Q) == {h[x] : x \in Q}
           Sum(Q) == SumFunctionOnSet(f, Image(Q))
           Same == {Q \in SUBSET S : IsFiniteSet(Image(Q)) /\ Sum(Q) = SumFunctionOnSet(g, Q)}
<1>1. {} \in Same
  BY SumEmpty, FS_EmptySet, Image({}) = {}
<1>2. ASSUME NEW Q \in SUBSET S, NEW y \in S, Q \in Same, y \notin Q
      PROVE  Q \cup {y} \in Same
  <2>1. Image(Q \cup {y}) = Image(Q) \cup {h[y]} /\ h[y] \notin Image(Q)
    BY <1>0, <1>2
  <2>2. \A z \in Image(Q) \cup {h[y]} : f[z] \in Int
    BY <1>0
  <2>3. IsFiniteSet(Q) /\ IsFiniteSet(Image(Q)) /\ Sum(Q) = SumFunctionOnSet(g, Q)
    BY <1>2, FS_Subset
  <2>4. SumFunctionOnSet(g, Q \cup {y}) = g[y] + SumFunctionOnSet(g, Q)
    BY <1>0, <1>2, <2>3, SumAdd
  <2>5. IsFiniteSet(Image(Q) \cup {h[y]})
    BY <2>3, FS_AddElement, Zenon
  <2> HIDE DEF Image
  <2>6. Sum(Q \cup {y}) = f[h[y]] + Sum(Q)
    <3>1. PICK J, z : J = Image(Q) /\ z = h[y]
      OBVIOUS
    <3>2. IsFiniteSet(J) /\ z \notin J /\ \A x \in J \cup {z} : f[x] \in Int
      BY <2>1, <2>2, <2>3, <3>1
    <3>3. SumFunctionOnSet(f, J \cup {z}) = f[z] + SumFunctionOnSet(f, J)
      BY <3>2, SumAdd
    <3> QED
      BY <2>1, <3>1, <3>3, Zenon
  <2>7. IsFiniteSet(Image(Q \cup {y})) /\ Sum(Q \cup {y}) = SumFunctionOnSet(g, Q \cup {y})
    BY <1>0, <2>1, <2>3, <2>4, <2>5, <2>6
  <2> QED
    BY <2>7
<1>3. SUBSET S \subseteq Same
  <2> HIDE DEF Same
  <2>1. \A Q \in SUBSET S, y \in S : Q \in Same /\ y \notin Q => Q \cup {y} \in Same
    BY <1>2
  <2> QED
    BY ONLY <1>1, <2>1, IsFiniteSet(S), SubsetsBySteps, Zenon
<1>4. Image(S) = R
  BY <1>0
<1> QED
  BY <1>3, <1>4, Zenon

\* A sum depends on the values over the set only.
LEMMA SumEqual ==
  ASSUME NEW f, NEW g, NEW S, IsFiniteSet(S), \A x \in S : g[x] \in Int /\ f[x] = g[x]
  PROVE  SumFunctionOnSet(f, S) = SumFunctionOnSet(g, S)
<1> DEFINE h == [x \in S |-> x]
<1>1. \A x \in S : h[x] = x
  OBVIOUS
<1> HIDE DEF h
<1>2. Renames(h, g, S, f, S)
  BY <1>1 DEF Renames
<1> QED
  BY <1>2, SumRename

\* A sum of naturals is one.
LEMMA SumNat ==
  ASSUME NEW f, NEW S, IsFiniteSet(S), \A x \in S : f[x] \in Nat
  PROVE  SumFunctionOnSet(f, S) \in Nat
<1>1. SumFunctionOnSet(f, S) \in Int /\ \A x \in S : f[x] \in Int
  BY SumInt
<1>2. SumFunctionOnSet(f, {}) <= SumFunctionOnSet(f, S)
  BY <1>1, SumMonotone
<1> QED
  BY <1>1, <1>2, SumEmpty
=============================================================================
