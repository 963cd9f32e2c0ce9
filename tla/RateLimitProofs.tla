--------------------------- MODULE RateLimitProofs ---------------------------
(***************************************************************************)
(* For every number of requests in flight, and every rate, burst and       *)
(* time-out under which an idle bucket refills (RefillAssumption): buckets *)
(* stay within their capacity, and a client within its rate.               *)
(***************************************************************************)
EXTENDS RateLimit, TLAPS, FiniteSetTheorems

\* The provers a leaf that names none is given to, in turn.  tlapm gives up
\* preparing an obligation for a prover after a few seconds, which a large
\* context can take; the later entries are there for such a leaf.
USE SMTT(30), Zenon, Z3T(30), SMTT(40)

\* A refill stays within the capacity.
LEMMA RefilledInRange ==
  ASSUME TypeOK, NEW b \in Bucket
  PROVE  Refilled(b) \in 0..Capacity
<1>1. tokens[b] \in Nat /\ age[b] \in Nat
  BY RateAssumption DEF TypeOK
<1>2. age[b] * Rate \in Nat
  BY <1>1, RateAssumption
<1>. DEFINE accrued == age[b] * Rate
<1>3. tokens[b] + accrued \in Nat
  BY <1>1, <1>2
<1>. HIDE DEF accrued
<1>4. Smaller(Capacity, tokens[b] + accrued) \in 0..Capacity
  BY <1>3, RateAssumption DEF Smaller
<1>. QED
  BY <1>4 DEF Refilled, accrued

\* Collecting keeps the two tables of buckets well typed.
LEMMA CollectKeepsType ==
  ASSUME NEW t \in [Bucket -> 0..Capacity], NEW a \in [Bucket -> 0..MaxAge], Collect(t, a)
  PROVE  tokens' \in [Bucket -> 0..Capacity] /\ age' \in [Bucket -> 0..MaxAge]
BY RateAssumption DEF Collect

LEMMA TypeStep == TypeOK /\ [Next]_vars => TypeOK'
<1>. SUFFICES ASSUME TypeOK, [Next]_vars PROVE TypeOK'
  OBVIOUS
<1>1. ASSUME NEW h \in Handler, Lookup(h) PROVE TypeOK'
  <2>1. CASE buckets # NoBucket
    BY <1>1, <2>1 DEF Lookup, TypeOK
  <2>2. CASE buckets = NoBucket
    <3>. DEFINE b == CHOOSE b \in Bucket : b \notin Referenced
    <3>1. b \in Bucket
      BY <1>1, <2>2 DEF Lookup
    <3>2. /\ holds' = [holds EXCEPT ![h] = b] /\ buckets' = b /\ meter' = meter /\ evicting' = evicting
          /\ Collect([tokens EXCEPT ![b] = Capacity], [age EXCEPT ![b] = 0])
      BY <1>1, <2>2 DEF Lookup
    <3>. HIDE DEF b
    <3>3. /\ [tokens EXCEPT ![b] = Capacity] \in [Bucket -> 0..Capacity]
          /\ [age EXCEPT ![b] = 0] \in [Bucket -> 0..MaxAge]
      BY <3>1, RateAssumption DEF TypeOK
    <3>4. tokens' \in [Bucket -> 0..Capacity] /\ age' \in [Bucket -> 0..MaxAge]
      BY <3>2, <3>3, CollectKeepsType, Zenon
    <3>. QED
      BY <3>1, <3>2, <3>4 DEF TypeOK
  <2>. QED
    BY <2>1, <2>2
<1>2. ASSUME NEW h \in Handler, Take(h) PROVE TypeOK'
  <2>. DEFINE b    == holds[h]
              full == Refilled(b)
              left == IF full >= Cost THEN full - Cost ELSE full
  <2>1. b \in Bucket
    BY <1>2 DEF Take, TypeOK
  <2>2. full \in 0..Capacity
    BY <2>1, RefilledInRange
  <2>3. /\ Collect([tokens EXCEPT ![b] = left], [age EXCEPT ![b] = 0])
        /\ meter' = IF full >= Cost THEN meter + Cost ELSE meter
        /\ holds' = [holds EXCEPT ![h] = NoBucket] /\ buckets' = buckets
        /\ evicting' = evicting
    BY <1>2 DEF Take
  <2>. HIDE DEF b, full
  <2>4. left \in 0..Capacity
    BY <2>2, RateAssumption
  <2>. HIDE DEF left
  <2>5. /\ [tokens EXCEPT ![b] = left] \in [Bucket -> 0..Capacity]
        /\ [age EXCEPT ![b] = 0] \in [Bucket -> 0..MaxAge]
    BY <2>1, <2>4, RateAssumption DEF TypeOK
  <2>6. tokens' \in [Bucket -> 0..Capacity] /\ age' \in [Bucket -> 0..MaxAge]
    BY <2>3, <2>5, CollectKeepsType, Zenon
  <2>. QED
    BY <2>3, <2>6, RateAssumption DEF TypeOK
<1>3. CASE Delete
  <2>1. tokens' \in [Bucket -> 0..Capacity] /\ age' \in [Bucket -> 0..MaxAge]
    BY <1>3, CollectKeepsType DEF Delete, TypeOK
  <2>. QED
    BY <1>3, <2>1 DEF Delete, TypeOK
<1>4. CASE Tick
  <2>1. ASSUME NEW b \in Bucket PROVE Smaller(MaxAge, age[b] + 1) \in 0..MaxAge
    BY RateAssumption DEF TypeOK, Smaller
  <2>2. age' \in [Bucket -> 0..MaxAge]
    BY <1>4, <2>1, RateAssumption DEF Tick
  <2>3. meter' \in Nat
    BY <1>4, RateAssumption DEF Tick, TypeOK
  <2>. QED
    BY <1>4, <2>2, <2>3 DEF Tick, TypeOK
<1>5. CASE FindStale
  BY <1>5 DEF FindStale, TypeOK
<1>6. CASE UNCHANGED vars
  BY <1>6 DEF vars, TypeOK
<1>. QED
  BY <1>1, <1>2, <1>3, <1>4, <1>5, <1>6 DEF Next

\* Buckets hold between nothing and the burst, whatever requests, evictions
\* and pauses follow each other.
THEOREM TypeCorrect == Spec => []TypeOK
<1>1. Init => TypeOK
  <2>. SUFFICES ASSUME Init PROVE TypeOK
    OBVIOUS
  <2>1. evicting \in BOOLEAN
    BY Zenon DEF Init
  <2>. QED
    BY <2>1, RateAssumption DEF Init, TypeOK
<1>. QED
  BY <1>1, TypeStep, PTL DEF Spec

\* In the time after which a bucket is stale, more than its capacity accrues.
LEMMA StaleAccrued ==
  ASSUME TypeOK, NEW b \in Bucket, Stale(b)
  PROVE  /\ age[b] * Rate \in Nat /\ Cost * Cardinality(Handler) \in Nat
         /\ age[b] * Rate >= Capacity + Cost * Cardinality(Handler)
<1>1. age[b] \in Nat /\ age[b] > Idle
  BY RateAssumption DEF TypeOK, Stale
<1>2. Cost * Cardinality(Handler) \in Nat
  BY RateAssumption, FS_CardinalityType
<1>3. PICK more \in Nat : age[b] = Idle + more
  <2>1. age[b] - Idle \in Nat /\ age[b] = Idle + (age[b] - Idle)
    BY <1>1, RateAssumption
  <2>. QED
    BY <2>1
<1>4. age[b] * Rate = Rate * Idle + more * Rate
  BY <1>3, RateAssumption
<1>5. more * Rate \in Nat /\ Rate * Idle \in Nat
  BY <1>3, RateAssumption
<1>. QED
  BY <1>2, <1>4, <1>5, RefillAssumption, RateAssumption

-----------------------------------------------------------------------------
\* The bucket the client's next request will find: none once the eviction loop
\* is about to delete it, since a look-up waits for rl.mu.
Entry == IF evicting THEN NoBucket ELSE buckets

\* The requests that hold a bucket no other request will find, and what they may
\* still take; the bound on it while the map has a bucket (its creator, or
\* the last to use it, is not one of them), and the one on all that such
\* requests take.
Straying == {h \in Handler : holds[h] \notin {NoBucket, Entry}}
OwedTo(S) == Cost * Cardinality(S)
Older == Cost * (Cardinality(Handler) - 1)
Slack == Cost * (2 * Cardinality(Handler) - 1)

\* The inductive invariant.  What was allowed, what the bucket of the map has
\* and what is owed to straying requests are together bounded; and as the
\* bucket of the map ages, what was allowed before its last use is worn off.
RateInv ==
  /\ Entry = NoBucket => meter + OwedTo(Straying) <= Slack
  /\ Entry # NoBucket =>
       /\ OwedTo(Straying) <= Older
       /\ meter + Refilled(Entry) + OwedTo(Straying) <= Capacity + Slack
       /\ \/ meter + OwedTo(Straying) <= Older
          \/ meter + OwedTo(Straying) + age[Entry] * Rate <= Capacity + Slack

\* What is owed is a natural number, of which each request has the same share.
LEMMA Owing ==
  ASSUME NEW S \in SUBSET Handler
  PROVE  /\ OwedTo(S) \in Nat /\ OwedTo(Handler) \in Nat /\ Older \in Nat /\ Slack \in Nat
         /\ Slack = Older + OwedTo(Handler)
         /\ OwedTo(S) <= OwedTo(Handler)
         /\ S # Handler => OwedTo(S) <= Older
         /\ \A h \in S : OwedTo(S \ {h}) = OwedTo(S) - Cost
<1>. DEFINE n == Cardinality(Handler)
            e == Cardinality(S)
<1>1. n \in Nat \ {0} /\ IsFiniteSet(S) /\ e \in Nat /\ e <= n /\ (S # Handler => e # n)
  BY RateAssumption, FS_CardinalityType, FS_EmptySet, FS_Subset
<1>2. \A h \in S : Cardinality(S \ {h}) = e - 1
  BY <1>1, FS_RemoveElement, Zenon
<1>. HIDE DEF n, e
<1>3. Cost \in Nat
  BY RateAssumption
<1>4. /\ Cost * e \in Nat /\ Cost * n \in Nat /\ Cost * (n - 1) \in Nat /\ Cost * (2 * n - 1) \in Nat
      /\ Cost * (2 * n - 1) = Cost * (n - 1) + Cost * n
      /\ Cost * (e - 1) = Cost * e - Cost
  BY <1>1, <1>3
<1>5. Cost * e <= Cost * n
  BY <1>1, <1>3
<1>6. S # Handler => Cost * e <= Cost * (n - 1)
  <2>1. S # Handler => e <= n - 1
    BY <1>1
  <2>. QED
    BY <1>1, <1>3, <2>1
<1>. QED
  BY <1>2, <1>4, <1>5, <1>6 DEF OwedTo, Older, Slack, n, e

\* The bucket of the map is referred to.
LEMMA MapRefers ==
  /\ Entry # NoBucket => Entry = buckets /\ Entry \in Referenced
  /\ Entry' # NoBucket => Entry' = buckets' /\ Entry' \in Referenced'
  BY DEF Entry, Referenced

\* It is a bucket.
LEMMA EntryRange == ASSUME TypeOK PROVE Entry \in Bucket \cup {NoBucket}
  BY DEF TypeOK, Entry

LEMMA StrayingRange == Straying \in SUBSET Handler /\ Straying' \in SUBSET Handler
  BY DEF Straying

\* A request without a bucket in the map starts one: it is not straying, and
\* what it is given is what the bound allows for.
LEMMA LookupKeepsRate == ASSUME TypeOK, RateInv, NEW h \in Handler, Lookup(h) PROVE RateInv'
<1>0. holds[h] = NoBucket /\ meter' = meter /\ Entry = buckets /\ Entry' = buckets'
  BY DEF Lookup, Entry
<1>1. CASE Entry # NoBucket
  <2>1. /\ holds' = [holds EXCEPT ![h] = Entry]
        /\ Entry' = Entry /\ tokens' = tokens /\ age' = age
    BY <1>0, <1>1 DEF Lookup
  <2>2. Straying' = Straying
    BY <1>0, <2>1, RateAssumption DEF Straying, TypeOK
  <2>3. Refilled(Entry)' = Refilled(Entry)
    BY <2>1 DEF Refilled
  <2>. QED
    BY <1>0, <2>1, <2>2, <2>3 DEF RateInv, OwedTo
<1>2. CASE Entry = NoBucket
  <2>1. PICK b \in Bucket :
          /\ b \notin Referenced
          /\ holds' = [holds EXCEPT ![h] = b] /\ Entry' = b
          /\ Collect([tokens EXCEPT ![b] = Capacity], [age EXCEPT ![b] = 0])
    BY <1>0, <1>2, Zenon DEF Lookup
  <2>2. Straying' = Straying /\ h \notin Straying
    <3>1. \A k \in Handler : holds[k] # b
      BY <2>1 DEF Referenced
    <3>. QED
      BY <1>0, <1>2, <2>1, <3>1, RateAssumption DEF Straying, TypeOK
  <2>3. tokens'[b] = Capacity /\ age'[b] = 0
    <3>1. b \in Referenced'
      BY <2>1, MapRefers, RateAssumption
    <3>. QED
      BY <2>1, <3>1 DEF Collect, TypeOK
  <2>4. Refilled(b)' = Capacity /\ age'[b] * Rate = 0
    BY <2>3, RateAssumption DEF Refilled, Smaller
  <2>5. /\ OwedTo(Straying) <= Older /\ OwedTo(Straying) \in Nat /\ Slack \in Nat
        /\ meter + OwedTo(Straying) <= Slack /\ meter \in Nat
    BY <1>2, <2>2, Owing, StrayingRange DEF RateInv, TypeOK
  <2>6. /\ meter + Capacity + OwedTo(Straying) <= Capacity + Slack
        /\ meter + OwedTo(Straying) + 0 <= Capacity + Slack
    BY <2>5, RateAssumption
  <2>7. OwedTo(Straying)' = OwedTo(Straying) /\ Slack' = Slack /\ Older' = Older
    BY <2>2 DEF OwedTo, Slack, Older
  <2>. QED
    BY <1>0, <2>1, <2>4, <2>5, <2>6, <2>7, RateAssumption DEF RateInv
<1>. QED
  BY <1>1, <1>2

\* What a request takes from the map's bucket it has less of; what a straying
\* one takes was owed to it.
LEMMA TakeKeepsRate == ASSUME TypeOK, RateInv, NEW h \in Handler, Take(h) PROVE RateInv'
<1>. DEFINE b    == holds[h]
            full == Refilled(b)
            left == IF full >= Cost THEN full - Cost ELSE full
<1>1. b \in Bucket /\ full \in 0..Capacity
  BY RefilledInRange DEF Take, TypeOK
<1>2. /\ Collect([tokens EXCEPT ![b] = left], [age EXCEPT ![b] = 0])
      /\ meter' = IF full >= Cost THEN meter + Cost ELSE meter
      /\ holds' = [holds EXCEPT ![h] = NoBucket] /\ Entry' = Entry
  BY DEF Take, Entry
<1>3. left \in 0..Capacity /\ meter' + left = meter + full /\ meter' \in Nat /\ meter' <= meter + Cost
  BY <1>1, <1>2, RateAssumption DEF TypeOK
<1>4. Slack' = Slack /\ Older' = Older /\ meter \in Nat
  BY DEF Slack, Older, TypeOK
<1>5. OwedTo(Straying) \in Nat /\ Slack \in Nat /\ Older \in Nat
  BY Owing, StrayingRange
<1>6. CASE b = Entry
  <2>1. Straying' = Straying
    BY <1>2, <1>6 DEF Straying, TypeOK
  <2>2. tokens'[b] = left /\ age'[b] = 0
    <3>1. b \in Referenced'
      BY <1>1, <1>2, <1>6, MapRefers, RateAssumption
    <3>. HIDE DEF left
    <3>. QED
      BY <1>1, <1>2, <3>1 DEF Collect, TypeOK
  <2>. HIDE DEF left, full, b
  <2>3. PICK c : c = b
    OBVIOUS
  <2>4. Refilled(c)' = left /\ age'[c] * Rate = 0
    BY <1>3, <2>2, <2>3, RateAssumption DEF Refilled, Smaller
  <2>5. OwedTo(Straying)' = OwedTo(Straying)
    BY <2>1 DEF OwedTo
  <2>6. OwedTo(Straying) <= Older /\ meter + full + OwedTo(Straying) <= Capacity + Slack
    BY <1>1, <1>6, RateAssumption DEF RateInv, full
  <2>7. /\ meter' + left + OwedTo(Straying) <= Capacity + Slack
        /\ meter' + OwedTo(Straying) + 0 <= Capacity + Slack
    <3>1. PICK l \in Nat, f \in Nat, m \in Nat, next \in Nat :
            l = left /\ f = full /\ m = meter /\ next = meter'
      <4>1. left \in Nat /\ full \in Nat /\ meter \in Nat /\ meter' \in Nat
        BY <1>1, <1>3, <1>4, RateAssumption
      <4>. QED
        BY <4>1
    <3>2. PICK o \in Nat, s \in Nat : o = OwedTo(Straying) /\ s = Slack
      BY <1>5
    <3>3. next + l = m + f /\ m + f + o <= Capacity + s /\ Capacity \in Nat
      BY <1>3, <2>6, <3>1, <3>2, RateAssumption, Zenon
    <3>4. next + l + o <= Capacity + s /\ next + o + 0 <= Capacity + s
      BY <3>3
    <3>. QED
      BY <3>1, <3>2, <3>4
  <2>8. Entry' = c /\ c # NoBucket
    BY <1>1, <1>2, <1>6, <2>3, RateAssumption
  <2>. QED
    BY <1>4, <2>4, <2>5, <2>6, <2>7, <2>8 DEF RateInv
<1>7. CASE b # Entry
  <2>1. h \in Straying /\ Straying' = Straying \ {h}
    BY <1>1, <1>2, <1>7, RateAssumption DEF Straying, TypeOK
  <2>2. OwedTo(Straying)' = OwedTo(Straying) - Cost
    <3>1. OwedTo(Straying \ {h}) = OwedTo(Straying) - Cost
      BY <2>1, StrayingRange, Owing
    <3>. QED
      BY <2>1, <3>1 DEF OwedTo
  <2>3. meter' + OwedTo(Straying)' <= meter + OwedTo(Straying) /\ OwedTo(Straying)' <= OwedTo(Straying)
    BY <1>3, <1>4, <1>5, <2>2, RateAssumption
  <2>4. OwedTo(Straying)' \in Nat
    BY Owing, StrayingRange DEF OwedTo
  <2>5. CASE Entry = NoBucket
    <3>1. meter' + OwedTo(Straying)' <= Slack
      BY <1>3, <1>4, <1>5, <2>3, <2>4, <2>5 DEF RateInv
    <3>. QED
      BY <1>2, <1>4, <2>5, <3>1 DEF RateInv
  <2>6. CASE Entry # NoBucket
    <3>1. tokens'[Entry] = tokens[Entry] /\ age'[Entry] = age[Entry]
      <4>1. Entry \in Bucket /\ Entry \in Referenced'
        BY <1>2, <2>6, MapRefers, EntryRange
      <4>. HIDE DEF left
      <4>. QED
        BY <1>1, <1>2, <1>7, <4>1 DEF Collect, TypeOK
    <3>2. Refilled(Entry)' = Refilled(Entry)
      BY <1>2, <3>1 DEF Refilled
    <3>3. Refilled(Entry) \in Nat /\ age[Entry] * Rate \in Nat
      <4>1. Entry \in Bucket
        BY <2>6, EntryRange
      <4>2. age[Entry] \in Nat
        BY <4>1, RateAssumption DEF TypeOK
      <4>. QED
        BY <4>1, <4>2, RefilledInRange, RateAssumption
    <3>. DEFINE worn == age[Entry] * Rate
    <3>4. /\ OwedTo(Straying) <= Older
          /\ meter + Refilled(Entry) + OwedTo(Straying) <= Capacity + Slack
          /\ \/ meter + OwedTo(Straying) <= Older
             \/ meter + OwedTo(Straying) + worn <= Capacity + Slack
      BY <2>6 DEF RateInv
    <3>. HIDE DEF worn
    <3>5. worn \in Nat
      BY <3>3 DEF worn
    <3>6. /\ OwedTo(Straying)' <= Older
          /\ meter' + Refilled(Entry) + OwedTo(Straying)' <= Capacity + Slack
          /\ \/ meter' + OwedTo(Straying)' <= Older
             \/ meter' + OwedTo(Straying)' + worn <= Capacity + Slack
      BY <1>3, <1>4, <1>5, <2>3, <2>4, <3>3, <3>4, <3>5, RateAssumption
    <3>. QED
      BY <1>2, <1>4, <2>6, <3>1, <3>2, <3>6 DEF RateInv, worn
  <2>. QED
    BY <2>5, <2>6
<1>. QED
  BY <1>6, <1>7

\* By the time a bucket is evicted the meter is down to what straying requests
\* have taken since it was last used.
LEMMA EvictKeepsRate == ASSUME TypeOK, RateInv, FindStale PROVE RateInv'
<1>1. Entry # NoBucket /\ Entry \in Bucket /\ Stale(Entry) /\ Entry' = NoBucket /\ meter' = meter
  BY DEF FindStale, Entry, TypeOK
<1>2. PICK owed \in Nat, all \in Nat, older \in Nat, slack \in Nat :
        /\ owed = OwedTo(Straying) /\ older = Older /\ slack = Slack /\ all = OwedTo(Handler)
        /\ slack = older + all
  BY Owing, StrayingRange
<1>3. PICK worn \in Nat : worn = age[Entry] * Rate /\ worn >= Capacity + all
  BY <1>1, <1>2, StaleAccrued DEF OwedTo
<1>4. PICK next \in Nat : next = OwedTo(Straying') /\ next <= all
  BY <1>2, Owing, StrayingRange
<1>5. meter \in Nat /\ Capacity \in Nat
  BY RateAssumption DEF TypeOK
<1>6. meter + owed <= older \/ meter + owed + worn <= Capacity + slack
  BY <1>1, <1>2, <1>3 DEF RateInv
<1>7. meter + owed <= older
  BY <1>2, <1>3, <1>5, <1>6
<1>8. meter + next <= slack
  BY <1>2, <1>4, <1>5, <1>7
<1>9. OwedTo(Straying)' = next /\ Slack' = slack
  BY <1>2, <1>4 DEF OwedTo, Slack
<1>. QED
  BY <1>1, <1>8, <1>9 DEF RateInv

\* In a tick the meter goes down by what accrues to the bucket, or to zero.
LEMMA TickKeepsRate == ASSUME TypeOK, RateInv, Tick PROVE RateInv'
<1>1. Entry' = Entry /\ holds' = holds /\ tokens' = tokens
  BY DEF Tick, Entry
<1>2. PICK owed \in Nat, all \in Nat, older \in Nat, slack \in Nat :
        /\ owed = OwedTo(Straying) /\ older = Older /\ slack = Slack
        /\ owed <= all /\ slack = older + all
  BY Owing, StrayingRange, Zenon
<1>3. OwedTo(Straying)' = owed /\ Older' = older /\ Slack' = slack
  BY <1>1, <1>2 DEF OwedTo, Straying, Older, Slack
<1>4. Capacity \in Nat /\ Rate \in Nat
  BY RateAssumption
<1>5. PICK m \in Nat, next \in Nat :
        /\ m = meter /\ next = meter'
        /\ next = 0 \/ next = m - Rate
        /\ next <= m
  <2>1. meter \in Nat /\ meter' \in Nat /\ meter' <= meter /\ (meter' = 0 \/ meter' = meter - Rate)
    BY <1>4 DEF Tick, TypeOK
  <2>. QED
    BY <2>1
<1>6. CASE Entry = NoBucket
  <2>1. m + owed <= slack
    BY <1>2, <1>5, <1>6 DEF RateInv
  <2>2. next + owed <= slack
    BY <1>2, <1>5, <2>1
  <2>. QED
    BY <1>1, <1>3, <1>5, <1>6, <2>2, Zenon DEF RateInv
<1>7. CASE Entry # NoBucket
  <2>1. Entry \in Bucket /\ Entry \in Referenced
    BY <1>7, EntryRange, MapRefers
  <2>2. PICK a \in Nat, n \in Nat, t \in Nat :
          /\ a = age[Entry] /\ n = age'[Entry] /\ t = tokens[Entry]
          /\ n = a \/ n = a + 1
    <3>1. /\ age[Entry] \in Nat /\ age'[Entry] \in Nat /\ tokens[Entry] \in Nat
          /\ age'[Entry] = age[Entry] \/ age'[Entry] = age[Entry] + 1
      BY <2>1, RateAssumption DEF Tick, TypeOK, Smaller
    <3>. QED
      BY <3>1
  <2>3. a * Rate \in Nat /\ n * Rate \in Nat /\ (n * Rate = a * Rate \/ n * Rate = a * Rate + Rate)
    <3>1. (a + 1) * Rate = a * Rate + Rate /\ a * Rate \in Nat
      BY <1>4
    <3>. QED
      BY <2>2, <3>1, <1>4
  <2>4. PICK worn \in Nat, aged \in Nat :
          /\ worn = a * Rate /\ aged = n * Rate
          /\ aged = worn \/ aged = worn + Rate
    BY <2>3
  <2>5. PICK full \in Nat, more \in Nat :
          /\ full = Refilled(Entry) /\ more = Refilled(Entry)'
          /\ more <= Capacity /\ more <= full + Rate
    <3>1. Refilled(Entry) = Smaller(Capacity, t + worn) /\ Refilled(Entry)' = Smaller(Capacity, t + aged)
      BY <1>1, <2>2, <2>4 DEF Refilled
    <3>2. /\ Smaller(Capacity, t + worn) \in Nat /\ Smaller(Capacity, t + aged) \in Nat
          /\ Smaller(Capacity, t + aged) <= Capacity
          /\ Smaller(Capacity, t + aged) <= Smaller(Capacity, t + worn) + Rate
      BY <1>4, <2>4 DEF Smaller
    <3>. QED
      BY <3>1, <3>2
  <2>6. /\ owed <= older /\ m + full + owed <= Capacity + slack
        /\ m + owed <= older \/ m + owed + worn <= Capacity + slack
    BY <1>2, <1>5, <1>7, <2>2, <2>4, <2>5 DEF RateInv
  <2>7. next + more + owed <= Capacity + slack
    BY <1>2, <1>4, <1>5, <2>5, <2>6
  <2>8. next + owed <= older \/ next + owed + aged <= Capacity + slack
    BY <1>2, <1>4, <1>5, <2>4, <2>6
  <2>. QED
    BY <1>1, <1>3, <1>5, <1>7, <2>2, <2>4, <2>5, <2>6, <2>7, <2>8, Zenon DEF RateInv
<1>. QED
  BY <1>6, <1>7

\* The delete itself takes nothing from any request: the bucket was lost to
\* look-ups already, and those that held it are straying still.
LEMMA DeleteKeepsRate == ASSUME TypeOK, RateInv, Delete PROVE RateInv'
<1>1. Entry = NoBucket /\ Entry' = NoBucket /\ holds' = holds /\ meter' = meter
  BY DEF Delete, Entry
<1>2. OwedTo(Straying)' = OwedTo(Straying) /\ Slack' = Slack
  BY <1>1 DEF OwedTo, Straying, Slack
<1>. QED
  BY <1>1, <1>2 DEF RateInv

\* Over every period a client is allowed at most the rate and the burst, and
\* beyond them one request less than twice the number of handlers, however
\* look-ups, uses and evictions of its Entry interleave.
THEOREM RateIsBounded == Spec => []RateBound
<1>1. Init => RateInv
  <2>. SUFFICES ASSUME Init PROVE RateInv
    OBVIOUS
  <2>1. Straying = {} /\ Entry = NoBucket /\ meter = 0
    BY DEF Init, Straying, Entry
  <2>2. OwedTo({}) = 0 /\ Slack \in Nat
    BY Owing, StrayingRange, FS_EmptySet, RateAssumption DEF OwedTo
  <2>. QED
    BY <2>1, <2>2 DEF RateInv
<1>2. TypeOK /\ RateInv /\ [Next]_vars => RateInv'
  <2>. SUFFICES ASSUME TypeOK, RateInv, [Next]_vars PROVE RateInv'
    OBVIOUS
  <2>1. CASE UNCHANGED vars
    BY <2>1 DEF vars, RateInv, OwedTo, Straying, Slack, Older, Refilled, Entry
  <2>. QED
    BY <2>1, LookupKeepsRate, TakeKeepsRate, EvictKeepsRate, DeleteKeepsRate,
       TickKeepsRate DEF Next
<1>3. TypeOK /\ RateInv => RateBound
  <2>. SUFFICES ASSUME TypeOK, RateInv PROVE meter <= Capacity + Slack
    BY DEF RateBound, Slack
  <2>1. OwedTo(Straying) \in Nat /\ Slack \in Nat /\ meter \in Nat /\ Capacity \in Nat
    BY Owing, StrayingRange, RateAssumption DEF TypeOK
  <2>2. CASE Entry = NoBucket
    BY <2>1, <2>2 DEF RateInv
  <2>3. CASE Entry # NoBucket
    <3>1. Refilled(Entry) \in Nat
      BY <2>3, EntryRange, RefilledInRange
    <3>. QED
      BY <2>1, <2>3, <3>1 DEF RateInv
  <2>. QED
    BY <2>2, <2>3
<1>. QED
  BY <1>1, <1>2, <1>3, TypeCorrect, PTL DEF Spec
=============================================================================
