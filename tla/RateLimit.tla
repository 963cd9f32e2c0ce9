------------------------------ MODULE RateLimit ------------------------------
(***************************************************************************)
(* The per-client rate limiter (contrib/uap-indexer/ratelimit.go), for one *)
(* client: requests look its bucket up under rl.mu and take a token from   *)
(* it under b.mu, while the eviction loop drops buckets not seen for a     *)
(* while.  Clients share only the map and its lock.                        *)
(*                                                                         *)
(* Time is counted in ticks; a bucket keeps the ticks since it was last    *)
(* used, up to a limit past which nothing depends on them.  Tokens are     *)
(* counted in fractions of which a request costs Cost.                     *)
(***************************************************************************)
EXTENDS Integers, FiniteSets

CONSTANTS
  Handler,   \* requests of the client in flight at a time
  Bucket,    \* bucket objects
  NoBucket,
  Capacity,  \* burst
  Rate,      \* accrued per tick
  Cost,      \* one token
  Idle,      \* idleTimeout
  MaxAge     \* bound: ticks a bucket counts

ASSUME RateAssumption ==
  /\ NoBucket \notin Bucket
  /\ Capacity \in Nat /\ Rate \in Nat /\ Cost \in Nat \ {0} /\ Idle \in Nat
  /\ MaxAge \in Nat /\ MaxAge > Idle
  /\ IsFiniteSet(Handler) /\ Handler # {}

\* The ten minutes after which a bucket is evicted fill it, with a token to
\* spare for each request in flight (by the flags' defaults they add 3000
\* tokens for reads and 300 for writes, against bursts of 50 and 10).
ASSUME RefillAssumption == Rate * Idle >= Capacity + Cost * Cardinality(Handler)

VARIABLES
  buckets,  \* the client's entry in the map
  evicting, \* evictStaleLoop has found it stale and, holding rl.mu, is about to delete it
  holds,    \* the bucket a request has looked up and not used yet
  tokens,   \* of each bucket, as of its last use
  age,      \* ticks since its last use
  meter     \* over all periods that end now, the most that was allowed beyond Rate per tick

vars == <<buckets, evicting, holds, tokens, age, meter>>

\* Each variable is of its type.
TypeOK ==
  /\ buckets \in Bucket \cup {NoBucket} /\ evicting \in BOOLEAN
  /\ holds \in [Handler -> Bucket \cup {NoBucket}]
  /\ tokens \in [Bucket -> 0..Capacity]
  /\ age \in [Bucket -> 0..MaxAge]
  /\ meter \in Nat

Init ==
  /\ buckets = NoBucket /\ evicting = FALSE
  /\ holds = [h \in Handler |-> NoBucket]
  /\ tokens = [b \in Bucket |-> 0]
  /\ age = [b \in Bucket |-> 0]
  /\ meter = 0

Smaller(m, n) == IF m < n THEN m ELSE n

Referenced == {buckets} \cup {holds[h] : h \in Handler}

\* The contents of buckets that nothing refers to any more are forgotten.
Collect(newTokens, newAge) ==
  /\ tokens' = [b \in Bucket |-> IF b \in Referenced' THEN newTokens[b] ELSE 0]
  /\ age' = [b \in Bucket |-> IF b \in Referenced' THEN newAge[b] ELSE 0]

-----------------------------------------------------------------------------
\* Allow, under rl.mu: a client without a bucket gets a full one.
Lookup(h) ==
  /\ holds[h] = NoBucket /\ ~evicting
  /\ \/ /\ buckets # NoBucket
        /\ holds' = [holds EXCEPT ![h] = buckets]
        /\ UNCHANGED <<buckets, tokens, age>>
     \/ /\ buckets = NoBucket
        /\ Bucket \ Referenced # {}
        /\ LET b == CHOOSE b \in Bucket : b \notin Referenced
           IN  /\ holds' = [holds EXCEPT ![h] = b]
               /\ buckets' = b
               /\ Collect([tokens EXCEPT ![b] = Capacity], [age EXCEPT ![b] = 0])
  /\ UNCHANGED <<evicting, meter>>

Refilled_Uncapped(b) == tokens[b] + age[b] * Rate

Refilled(b) == Smaller(Capacity, tokens[b] + age[b] * Rate)

\* A refill that does not move b.last.
Take_KeepsLast(h) ==
  /\ holds[h] # NoBucket
  /\ holds' = [holds EXCEPT ![h] = NoBucket]
  /\ UNCHANGED <<buckets, evicting>>
  /\ LET b    == holds[h]
         full == Refilled(b)
         left == IF full >= Cost THEN full - Cost ELSE full
     IN  /\ Collect([tokens EXCEPT ![b] = left], age)
         /\ meter' = IF full >= Cost THEN meter + Cost ELSE meter

\* tokenBucket.Allow, under b.mu.
Take(h) ==
  /\ holds[h] # NoBucket
  /\ holds' = [holds EXCEPT ![h] = NoBucket]
  /\ UNCHANGED <<buckets, evicting>>
  /\ LET b    == holds[h]
         full == Refilled(b)
         left == IF full >= Cost THEN full - Cost ELSE full
     IN  /\ Collect([tokens EXCEPT ![b] = left], [age EXCEPT ![b] = 0])
         /\ meter' = IF full >= Cost THEN meter + Cost ELSE meter

Stale_Drained(b) == age[b] > Idle /\ tokens[b] < Cost
Stale(b) == age[b] > Idle

\* evictStaleLoop, for this client's bucket: the test under rl.mu and b.mu.
FindStale ==
  /\ ~evicting /\ buckets # NoBucket /\ Stale(buckets)
  /\ evicting' = TRUE
  /\ UNCHANGED <<buckets, holds, tokens, age, meter>>

\* The delete, under rl.mu alone: a request that holds the bucket may have
\* used it since the test.
Delete ==
  /\ evicting
  /\ buckets' = NoBucket /\ evicting' = FALSE
  /\ UNCHANGED <<holds, meter>>
  /\ Collect(tokens, age)

Tick ==
  /\ age' = [b \in Bucket |-> IF b \in Referenced THEN Smaller(MaxAge, age[b] + 1) ELSE 0]
  /\ meter' = IF meter > Rate THEN meter - Rate ELSE 0
  /\ UNCHANGED <<buckets, evicting, holds, tokens>>

Next == (\E h \in Handler : Lookup(h) \/ Take(h)) \/ FindStale \/ Delete \/ Tick

Spec == Init /\ [][Next]_vars

\* Time passes, the eviction loop is a ticker, and a request in progress ends.
FairSpec ==
  /\ Spec
  /\ WF_vars(Tick) /\ WF_vars(FindStale) /\ WF_vars(Delete)
  /\ \A h \in Handler : WF_vars(Take(h))

-----------------------------------------------------------------------------
\* NewRateLimiter's promise, over every period: what was allowed exceeds the
\* rate by no more than the burst, and what requests take from a bucket that
\* was evicted between their look-up and their use of it: a request of each
\* handler from one such bucket, and one of each other from an older one.
RateBound == meter <= Capacity + Cost * (2 * Cardinality(Handler) - 1)

\* The map does not grow without bound: a client that stays away is forgotten.
IdleIsEvicted == <>[](\A h \in Handler : holds[h] = NoBucket) => <>[](buckets = NoBucket)
=============================================================================
