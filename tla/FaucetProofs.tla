---------------------------- MODULE FaucetProofs ----------------------------
(***************************************************************************)
(* What the faucet's checks are worth when requests race, for any number   *)
(* of handlers, clients and claims.                                        *)
(*                                                                         *)
(* A check and the insert it guards are not one transaction, so the bounds *)
(* are inductive only together with the requests that have passed a check  *)
(* and not yet logged: while a window is open, its claims and those        *)
(* requests together are no more than there are handlers.                  *)
(***************************************************************************)
EXTENDS Faucet, FiniteSetTheorems, SequenceTheorems, TLAPS

\* The provers a leaf that names none is given to, in turn.  tlapm gives up
\* preparing an obligation for a prover after a few seconds, which a large
\* context can take; the later entries are there for such a leaf.
USE SMTT(30), Zenon, Z3T(30), SMTT(40)

\* Requests that have passed the check by address, by cookie, by day.
PastIp(a)     == {h \in Handler : pc[h] \in {"cookie", "limit", "send", "log"} /\ who[h].ip = a}
PastCookie(c) == {h \in Handler : pc[h] \in {"limit", "send", "log"} /\ who[h].cookie = c}
PastLimit     == {h \in Handler : pc[h] \in {"send", "log"}}
Logging       == {h \in Handler : pc[h] = "log"}

\* Claims of one address, of one cookie, of one day.
InWindow(i, t)     == requests[i].time >= t /\ requests[i].time < t + Day
IpWindow(a, t)     == {i \in DOMAIN requests : requests[i].ip = a /\ InWindow(i, t)}
CookieWindow(c, t) == {i \in DOMAIN requests : requests[i].cookie = c /\ InWindow(i, t)}
InDay(d)           == {i \in DOMAIN requests : requests[i].time \div Day = d}

Most == Cardinality(Handler)

\* The clock has passed every claim and every time a query counts from.
ClockInv ==
  /\ TypeOK
  /\ \A i \in DOMAIN requests : requests[i].time <= now
  /\ \A h \in Handler : pc[h] \in {"ip", "cookie"} => since[h] <= now - Day
  /\ \A h \in Handler : pc[h] = "limit" => since[h] <= StartOfDay

IpInv ==
  \A i \in DOMAIN requests :
    LET a == requests[i].ip  t == requests[i].time
    IN  /\ Cardinality(IpWindow(a, t)) <= Most
        /\ now < t + Day => Cardinality(IpWindow(a, t)) + Cardinality(PastIp(a)) <= Most

CookieInv ==
  \A i \in DOMAIN requests :
    LET c == requests[i].cookie  t == requests[i].time
    IN  c # NoCookie =>
          /\ Cardinality(CookieWindow(c, t)) <= Most
          /\ now < t + Day => Cardinality(CookieWindow(c, t)) + Cardinality(PastCookie(c)) <= Most

DayInv ==
  /\ \A d \in Nat : Cardinality(InDay(d)) < DailyLimit + Most
  /\ Cardinality(InDay(now \div Day)) + Cardinality(PastLimit) < DailyLimit + Most
  /\ PastLimit # {} => DailyLimit > 0

-----------------------------------------------------------------------------
\* A set of handlers or of log entries is finite, and a part of it no larger.
LEMMA HandlerSets ==
  ASSUME NEW P \in SUBSET Handler
  PROVE  /\ IsFiniteSet(P) /\ Cardinality(P) \in Nat /\ Cardinality(P) <= Most
         /\ Most \in Nat /\ Most > 0
         /\ \A h \in P : Cardinality(P \ {h}) = Cardinality(P) - 1
         /\ \A h \in Handler \ P : Cardinality(P) <= Most - 1
         /\ \A Q \in SUBSET P : Cardinality(Q) \in Nat /\ Cardinality(Q) <= Cardinality(P)
<1>1. IsFiniteSet(Handler) /\ Handler # {}
  BY FaucetAssumption
<1>2. /\ IsFiniteSet(P) /\ Cardinality(P) <= Most
      /\ \A Q \in SUBSET P : IsFiniteSet(Q) /\ Cardinality(Q) <= Cardinality(P)
  BY <1>1, FS_Subset DEF Most
<1>3. Cardinality(P) \in Nat /\ Most \in Nat /\ \A Q \in SUBSET P : Cardinality(Q) \in Nat
  BY <1>1, <1>2, FS_CardinalityType DEF Most
<1>4. Most # 0
  BY <1>1, FS_EmptySet DEF Most
<1>5. \A h \in P : Cardinality(P \ {h}) = Cardinality(P) - 1
  BY <1>2, FS_RemoveElement
<1>6. ASSUME NEW h \in Handler \ P PROVE Cardinality(P) <= Most - 1
  <2>1. P \in SUBSET (Handler \ {h})
    BY <1>6
  <2>2. IsFiniteSet(Handler \ {h}) /\ Cardinality(Handler \ {h}) = Most - 1
    BY <1>1, <1>6, FS_RemoveElement DEF Most
  <2>. QED
    BY <2>1, <2>2, FS_Subset
<1>. QED
  BY <1>2, <1>3, <1>4, <1>5, <1>6

\* Log entries are numbered from 1, and the next one is new to every set of
\* them.
LEMMA LogSets ==
  ASSUME NEW n \in Nat, NEW W \in SUBSET (1..n)
  PROVE  /\ IsFiniteSet(W) /\ Cardinality(W) \in Nat
         /\ Cardinality(W \cup {n + 1}) = Cardinality(W) + 1
<1>1. IsFiniteSet(1..n)
  BY FS_Interval
<1>2. IsFiniteSet(W)
  BY <1>1, FS_Subset, Zenon
<1>3. n + 1 \notin W
  OBVIOUS
<1>. QED
  BY <1>2, <1>3, FS_CardinalityType, FS_AddElement

\* Division by the length of a day.
LEMMA Days ==
  ASSUME NEW x \in Nat, NEW y \in Nat
  PROVE  /\ x \div Day \in Nat
         /\ (x \div Day) * Day <= x
         /\ x <= y => x \div Day <= y \div Day /\ (x \div Day) * Day <= (y \div Day) * Day
<1>0. Day \in Nat \ {0}
  BY FaucetAssumption
<1>1. /\ x \div Day \in Nat /\ (x \div Day) * Day <= x /\ x < (x \div Day) * Day + Day
      /\ y \div Day \in Nat /\ (y \div Day) * Day <= y /\ y < (y \div Day) * Day + Day
  BY <1>0
<1>. DEFINE p == x \div Day  q == y \div Day
<1>2. p \in Nat /\ q \in Nat /\ p * Day <= x /\ y < q * Day + Day
  BY <1>1
<1>. HIDE DEF p, q
<1>3. /\ p * Day \in Nat /\ q * Day \in Nat
      /\ q < p => q * Day + Day <= p * Day
      /\ p <= q => p * Day <= q * Day
  BY <1>0, <1>2
<1>4. x <= y => p <= q
  BY <1>0, <1>2, <1>3
<1>5. x <= y => p <= q /\ p * Day <= q * Day
  BY <1>3, <1>4
<1>. QED
  BY <1>1, <1>5 DEF p, q

-----------------------------------------------------------------------------
\* logRequest appends one claim and leaves the others.
LEMMA LogAdds ==
  ASSUME TypeOK, NEW h \in Handler, requests' = Append(requests, ClaimOf(h))
  PROVE  /\ Len(requests) \in Nat /\ DOMAIN requests = 1..Len(requests)
         /\ DOMAIN requests' = (1..Len(requests)) \cup {Len(requests) + 1}
         /\ \A i \in DOMAIN requests : requests'[i] = requests[i]
         /\ requests'[Len(requests) + 1] = ClaimOf(h)
         /\ requests' \in Seq(Claim) /\ Len(requests') = Len(requests) + 1
         /\ ClaimOf(h).ip = who[h].ip /\ ClaimOf(h).cookie = who[h].cookie
         /\ ClaimOf(h).time = now
<1>1. ClaimOf(h) \in Claim
  BY DEF TypeOK, ClaimOf, Claim, Client
<1>2. requests \in Seq(Claim)
  BY DEF TypeOK
<1>3. Len(requests) \in Nat /\ DOMAIN requests = 1..Len(requests)
  BY <1>2, LenProperties
<1>4. /\ requests' \in Seq(Claim) /\ Len(requests') = Len(requests) + 1
      /\ \A i \in 1..Len(requests) : requests'[i] = requests[i]
      /\ requests'[Len(requests) + 1] = ClaimOf(h)
  BY <1>1, <1>2, AppendProperties
<1>5. DOMAIN requests' = 1..Len(requests')
  BY <1>4, LenProperties
<1>. QED
  BY <1>3, <1>4, <1>5 DEF ClaimOf

\* The log as it is: its entries are claims, and every part of it is finite.
LEMMA LogIs ==
  ASSUME TypeOK
  PROVE  /\ Len(requests) \in Nat /\ DOMAIN requests = 1..Len(requests)
         /\ \A i \in DOMAIN requests : requests[i] \in Claim /\ requests[i].time \in 0..MaxTime
         /\ \A W \in SUBSET (DOMAIN requests) : Cardinality(W) \in Nat
<1>1. requests \in Seq(Claim)
  BY DEF TypeOK
<1>2. Len(requests) \in Nat /\ DOMAIN requests = 1..Len(requests)
  BY <1>1, LenProperties
<1>3. \A i \in DOMAIN requests : requests[i] \in Claim
  BY <1>1, <1>2, ElementOfSeq
<1>. QED
  BY <1>2, <1>3, LogSets, Zenon DEF Claim

\* The steps of a handler that only move it: everything but the payment and
\* the insert.
Moves(h) == Post(h) \/ CheckIP(h) \/ CheckCookie(h) \/ CheckLimit(h) \/ QueryFails(h)

\* A handler that serves nobody has a client all the same.
LEMMA NoOneIsClient == NoOne \in Client
<1>1. PICK a : a \in IP
  BY FaucetAssumption
<1>2. [ip |-> a, cookie |-> NoCookie] \in Client
  BY <1>1 DEF Client
<1>. QED
  BY <1>2 DEF NoOne

\* Times are numbers; StartOfDay is not after now.
LEMMA Times ==
  ASSUME TypeOK
  PROVE  /\ now \in 0..MaxTime /\ now \in Nat /\ Day \in Nat \ {0} /\ MaxTime \in Nat
         /\ Cutoff \in -Day..MaxTime /\ Cutoff = now - Day
         /\ StartOfDay \in 0..MaxTime /\ StartOfDay <= now
<1>1. now \in 0..MaxTime /\ now \in Nat /\ Day \in Nat \ {0} /\ MaxTime \in Nat
  BY FaucetAssumption DEF TypeOK
<1>2. (now \div Day) * Day \in Nat /\ (now \div Day) * Day <= now
  BY <1>1, Days
<1>. QED
  BY <1>1, <1>2 DEF Cutoff, StartOfDay

\* Where a move can take a handler, and with what.
LEMMA MovesTo ==
  ASSUME TypeOK, NEW h \in Handler, Moves(h)
  PROVE  /\ UNCHANGED <<now, requests, sent>>
         /\ pc[h] # "log"
         /\ \E l \in {"idle", "ip", "cookie", "limit", "send"}, c \in Client, t \in -Day..MaxTime :
              /\ Goto(h, l, c, t)
              /\ l = "ip" => t = Cutoff
              /\ l = "cookie" => pc[h] = "ip" /\ c = who[h] /\ t = since[h]
              /\ l = "limit" => pc[h] = "cookie" /\ c = who[h] /\ t = StartOfDay
              /\ l = "send" => pc[h] = "limit" /\ c = who[h]
<1>0. /\ who[h] \in Client /\ since[h] \in -Day..MaxTime /\ 0 \in -Day..MaxTime
      /\ Cutoff \in -Day..MaxTime /\ StartOfDay \in -Day..MaxTime
  BY Times DEF TypeOK
<1>1. CASE Post(h)
  BY <1>0, <1>1 DEF Post
<1>2. CASE CheckIP(h)
  BY <1>0, <1>2, NoOneIsClient, Zenon DEF CheckIP, End
<1>3. CASE CheckCookie(h)
  BY <1>0, <1>3, NoOneIsClient, Zenon DEF CheckCookie, End
<1>4. CASE CheckLimit(h)
  BY <1>0, <1>4, NoOneIsClient DEF CheckLimit, End
<1>5. CASE QueryFails(h)
  BY <1>0, <1>5, NoOneIsClient DEF QueryFails, End
<1>. QED
  BY <1>1, <1>2, <1>3, <1>4, <1>5 DEF Moves

-----------------------------------------------------------------------------
\* Every step keeps the types, and the clock ahead of what was read from it.
LEMMA ClockNext ==
  ASSUME ClockInv, [Next]_vars
  PROVE  ClockInv'
<1>0. /\ TypeOK /\ now \in 0..MaxTime /\ Day \in Nat \ {0} /\ MaxTime \in Nat
      /\ pc \in [Handler -> {"idle", "ip", "cookie", "limit", "send", "log"}]
      /\ who \in [Handler -> Client] /\ since \in [Handler -> -Day..MaxTime]
      /\ requests \in Seq(Claim) /\ sent \in Seq(Claim)
      /\ Len(requests) \in Nat /\ Len(sent) \in Nat
      /\ Len(requests) + Cardinality(Logging) <= Len(sent)
      /\ Cardinality(Logging) \in Nat /\ Logging \subseteq Handler
  BY FaucetAssumption, HandlerSets, LenProperties DEF ClockInv, TypeOK, Logging
<1>1. CASE UNCHANGED vars
  BY <1>1 DEF vars, ClockInv, TypeOK, StartOfDay
<1>2. CASE Tick
  <2>1. now' \in 0..MaxTime /\ now < now' /\ UNCHANGED <<requests, sent, pc, who, since>>
    BY <1>0, <1>2 DEF Tick
  <2>2. StartOfDay <= StartOfDay' /\ StartOfDay \in Int /\ StartOfDay' \in Int
    <3>0. now \in Nat /\ now' \in Nat /\ now <= now'
      BY <1>0, <2>1
    <3>1. /\ (now \div Day) * Day <= (now' \div Day) * Day
          /\ now \div Day \in Nat /\ now' \div Day \in Nat
      BY <3>0, Days
    <3>. QED
      BY <1>0, <3>1 DEF StartOfDay
  <2>3. TypeOK'
    BY <1>0, <2>1 DEF TypeOK
  <2>4. \A h \in Handler : since[h] \in Int
    BY <1>0
  <2>5. \A i \in DOMAIN requests : requests[i].time \in Int
    BY <1>0, LogIs
  <2>. QED
    BY <1>0, <2>1, <2>2, <2>3, <2>4, <2>5 DEF ClockInv
<1>3. ASSUME NEW h \in Handler, Moves(h) PROVE ClockInv'
  <2>1. UNCHANGED <<now, requests, sent>> /\ pc[h] # "log"
    BY <1>0, <1>3, MovesTo
  <2>2. PICK l \in {"idle", "ip", "cookie", "limit", "send"}, c \in Client, t \in -Day..MaxTime :
          /\ Goto(h, l, c, t)
          /\ l = "ip" => t = Cutoff
          /\ l = "cookie" => pc[h] = "ip" /\ c = who[h] /\ t = since[h]
          /\ l = "limit" => t = StartOfDay
    BY <1>0, <1>3, MovesTo, Zenon
  <2>3. Logging' = Logging
    BY <1>0, <2>1, <2>2 DEF Logging, Goto
  <2>4. TypeOK'
    BY <1>0, <2>1, <2>2, <2>3, Zenon DEF TypeOK, Goto, Logging
  <2>5. UNCHANGED <<Cutoff, StartOfDay>> /\ Cutoff = now - Day /\ StartOfDay \in Int
    BY <1>0, <2>1, Times DEF Cutoff, StartOfDay
  <2>6. ASSUME NEW g \in Handler
        PROVE  /\ pc'[g] \in {"ip", "cookie"} => since'[g] <= now' - Day
               /\ pc'[g] = "limit" => since'[g] <= StartOfDay'
    <3>1. CASE g = h
      <4>1. pc'[g] = l /\ since'[g] = t
        BY <1>0, <2>2, <3>1 DEF Goto
      <4>2. pc[h] = "ip" => since[h] <= now - Day
        BY DEF ClockInv
      <4>. QED
        BY <1>0, <2>1, <2>2, <2>5, <4>1, <4>2
    <3>2. CASE g # h
      <4>1. pc'[g] = pc[g] /\ since'[g] = since[g]
        BY <1>0, <2>2, <3>2 DEF Goto
      <4>. QED
        BY <2>1, <2>5, <4>1 DEF ClockInv
    <3>. QED
      BY <3>1, <3>2
  <2>. QED
    BY <2>1, <2>4, <2>6 DEF ClockInv
<1>4. ASSUME NEW h \in Handler, SendToAddress(h) PROVE ClockInv'
  <2>0. UNCHANGED <<now, requests, StartOfDay>> /\ pc[h] = "send"
    BY <1>4 DEF SendToAddress, StartOfDay
  <2>1. PICK l \in {"idle", "log"}, c \in Client :
          /\ Goto(h, l, c, 0)
          /\ l = "idle" => UNCHANGED sent
          /\ l = "log" => sent' = Append(sent, ClaimOf(h))
    <3>1. who[h] \in Client
      BY <1>0
    <3>. QED
      BY <1>4, <3>1, NoOneIsClient DEF SendToAddress, End
  <2>2. /\ sent' \in Seq(Claim)
        /\ Len(requests) + Cardinality(Logging') <= Len(sent')
    <3>1. CASE l = "idle"
      <4>1. Logging' = Logging
        BY <1>0, <2>0, <2>1, <3>1 DEF Logging, Goto
      <4>. QED
        BY <1>0, <2>1, <3>1, <4>1
    <3>2. CASE l = "log"
      <4>1. Logging' = Logging \cup {h} /\ h \notin Logging
        BY <1>0, <2>0, <2>1, <3>2 DEF Logging, Goto
      <4>2. Cardinality(Logging') = Cardinality(Logging) + 1
        BY <1>0, <4>1, FS_AddElement, HandlerSets
      <4>3. ClaimOf(h) \in Claim
        BY <1>0 DEF ClaimOf, Claim, Client
      <4>4. sent' \in Seq(Claim) /\ Len(sent') = Len(sent) + 1
        <5>1. sent \in Seq(Claim) /\ sent' = Append(sent, ClaimOf(h))
          BY <1>0, <2>1, <3>2
        <5>. QED
          BY <4>3, <5>1, AppendProperties
      <4>. QED
        BY <1>0, <4>2, <4>4
    <3>. QED
      BY <3>1, <3>2
  <2>3. TypeOK'
    BY <1>0, <2>0, <2>1, <2>2 DEF TypeOK, Goto, Logging
  <2>4. ASSUME NEW g \in Handler
        PROVE  pc'[g] \in {"ip", "cookie", "limit"} => pc'[g] = pc[g] /\ since'[g] = since[g]
    BY <1>0, <2>1 DEF Goto
  <2>. QED
    BY <2>0, <2>3, <2>4 DEF ClockInv
<1>5. ASSUME NEW h \in Handler, LogRequest(h) PROVE ClockInv'
  <2>0. UNCHANGED <<now, sent, StartOfDay>> /\ pc[h] = "log" /\ Goto(h, "idle", NoOne, 0)
    BY <1>5 DEF LogRequest, End, StartOfDay
  <2>1. Logging' = Logging \ {h} /\ h \in Logging
    BY <1>0, <2>0 DEF Logging, Goto
  <2>2. Cardinality(Logging') = Cardinality(Logging) - 1
    BY <1>0, <2>1, HandlerSets
  <2>3. /\ requests' \in Seq(Claim) /\ Len(requests') <= Len(requests) + 1
        /\ Len(requests') \in Nat
        /\ \A i \in DOMAIN requests' : requests'[i].time <= now
    <3>1. CASE requests' = Append(requests, ClaimOf(h))
      BY <1>0, <3>1, LogAdds DEF ClockInv
    <3>2. CASE UNCHANGED requests
      BY <1>0, <3>2 DEF ClockInv
    <3>. QED
      BY <1>5, <3>1, <3>2 DEF LogRequest
  <2>4. TypeOK'
    <3>1. Len(requests') + Cardinality(Logging') <= Len(sent')
      BY <1>0, <2>0, <2>2, <2>3
    <3>. QED
      BY <1>0, <2>0, <2>3, <3>1, NoOneIsClient DEF TypeOK, Goto, Logging
  <2>5. ASSUME NEW g \in Handler
        PROVE  pc'[g] \in {"ip", "cookie", "limit"} => pc'[g] = pc[g] /\ since'[g] = since[g]
    BY <1>0, <2>0 DEF Goto
  <2>. QED
    BY <2>0, <2>3, <2>4, <2>5 DEF ClockInv
<1>. QED
  BY <1>1, <1>2, <1>3, <1>4, <1>5 DEF Next, Handle, Moves

-----------------------------------------------------------------------------
\* While the window of a claim is open, nobody with its address, or with its
\* cookie, gets past the check.
LEMMA NobodyGetsPast ==
  ASSUME ClockInv, NEW h \in Handler, Handle(h), NEW i \in DOMAIN requests,
         now < requests[i].time + Day,
         NEW a, a = requests[i].ip, NEW c, c = requests[i].cookie
  PROVE  /\ PastIp(a)' \subseteq PastIp(a)
         /\ c # NoCookie => PastCookie(c)' \subseteq PastCookie(c)
<1>. DEFINE t == requests[i].time
<1>0. /\ TypeOK /\ now \in Int /\ Day \in Int /\ t \in Int
      /\ pc \in [Handler -> {"idle", "ip", "cookie", "limit", "send", "log"}]
      /\ who \in [Handler -> Client] /\ since \in [Handler -> -Day..MaxTime]
      /\ since[h] \in Int
  BY LogIs, FaucetAssumption DEF ClockInv, TypeOK
<1>1. pc[h] \in {"ip", "cookie"} => t > since[h]
  <2>1. pc[h] \in {"ip", "cookie"} => since[h] <= now - Day
    BY DEF ClockInv
  <2>2. now < t + Day
    OBVIOUS
  <2>. HIDE DEF t
  <2>. QED
    BY <1>0, <2>1, <2>2
<1>ints. StartOfDay \in Int /\ Cutoff \in Int
  BY <1>0, FaucetAssumption DEF StartOfDay, Cutoff
<1>. DEFINE Leads(l, w, u) ==
       /\ Goto(h, l, w, u)
       /\ l \in {"cookie", "limit", "send", "log"} => w = who[h]
       /\ l = "cookie" => pc[h] = "ip" /\ who[h].ip # a
       /\ l = "limit" => pc[h] = "cookie" /\ (who[h].cookie = NoCookie \/ who[h].cookie # c)
       /\ l = "send" => pc[h] = "limit"
       /\ l = "log" => pc[h] = "send"
<1>2. PICK l \in {"idle", "ip", "cookie", "limit", "send", "log"}, w \in Client, u \in Int :
        Leads(l, w, u)
  <2>0. End(h) => Leads("idle", NoOne, 0)
    BY DEF End
  <2>1. CASE CheckIP(h)
    <3>1. CASE Claims(LAMBDA r : r.ip = who[h].ip /\ r.time > since[h]) = {}
      <4>1. who[h].ip # a
        BY <1>1, <2>1, <3>1 DEF CheckIP, Claims
      <4>2. Leads("cookie", who[h], since[h])
        BY <2>1, <3>1, <4>1, Zenon DEF CheckIP
      <4>3. who[h] \in Client
        BY <1>0
      <4>. HIDE DEF Leads
      <4>. QED
        BY <1>0, <4>2, <4>3
    <3>2. CASE Claims(LAMBDA r : r.ip = who[h].ip /\ r.time > since[h]) # {}
      <4>1. Leads("idle", NoOne, 0)
        BY <2>0, <2>1, <3>2, Zenon DEF CheckIP
      <4>. HIDE DEF Leads
      <4>. QED
        BY <4>1, NoOneIsClient
    <3>. QED
      BY <3>1, <3>2, Zenon
  <2>2. CASE CheckCookie(h)
    <3>. DEFINE Free == \/ who[h].cookie = NoCookie
                       \/ Claims(LAMBDA r : r.cookie = who[h].cookie /\ r.time > since[h]) = {}
    <3>1. CASE Free
      <4>1. who[h].cookie = NoCookie \/ who[h].cookie # c
        BY <1>1, <2>2, <3>1 DEF CheckCookie, Claims
      <4>2. Leads("limit", who[h], StartOfDay)
        BY <2>2, <3>1, <4>1, Zenon DEF CheckCookie
      <4>3. who[h] \in Client
        BY <1>0
      <4>. HIDE DEF Leads
      <4>. QED
        BY <1>ints, <4>2, <4>3
    <3>2. CASE ~Free
      <4>1. Leads("idle", NoOne, 0)
        BY <2>0, <2>2, <3>2 DEF CheckCookie
      <4>. HIDE DEF Leads
      <4>. QED
        BY <4>1, NoOneIsClient
    <3>. QED
      BY <3>1, <3>2, Zenon
  <2>3. CASE Post(h) \/ CheckLimit(h) \/ QueryFails(h) \/ SendToAddress(h) \/ LogRequest(h)
    BY <1>0, <1>ints, <2>3, NoOneIsClient
       DEF Post, CheckLimit, QueryFails, SendToAddress, LogRequest, End
  <2>. QED
    BY <2>1, <2>2, <2>3 DEF Handle
<1>3. PastIp(a)' \subseteq PastIp(a)
  BY <1>0, <1>2 DEF PastIp, Goto
<1>4. c # NoCookie => PastCookie(c)' \subseteq PastCookie(c)
  BY <1>0, <1>2 DEF PastCookie, Goto
<1>. QED
  BY <1>3, <1>4

\* Every step keeps the bound on the claims of one address.
LEMMA IpNext ==
  ASSUME ClockInv, IpInv, [Next]_vars
  PROVE  IpInv'
<1>. DEFINE Bounded(a, t) ==
       /\ Cardinality(IpWindow(a, t)) <= Most
       /\ now < t + Day => Cardinality(IpWindow(a, t)) + Cardinality(PastIp(a)) <= Most
<1>0. /\ TypeOK /\ now \in Int /\ Day \in Nat \ {0} /\ Most \in Nat /\ Most > 0
      /\ \A i \in DOMAIN requests : requests[i].time \in Int /\ requests[i].time <= now
      /\ \A a : PastIp(a) \subseteq Handler /\ Cardinality(PastIp(a)) \in Nat
      /\ \A a : PastIp(a)' \subseteq Handler /\ Cardinality(PastIp(a)') \in Nat
  <2>1. \A a : PastIp(a) \subseteq Handler /\ PastIp(a)' \subseteq Handler
    BY DEF PastIp
  <2>. QED
    BY <2>1, HandlerSets, LogIs, FaucetAssumption DEF ClockInv, TypeOK
<1>1. ASSUME NEW i \in DOMAIN requests PROVE Bounded(requests[i].ip, requests[i].time)
  BY <1>1 DEF IpInv
<1>2. SUFFICES ASSUME NEW i \in DOMAIN requests', NEW a, a = requests'[i].ip,
                      NEW t, t = requests'[i].time
               PROVE  Bounded(a, t)'
  BY Zenon DEF IpInv, IpWindow, InWindow, PastIp
<1>3. ASSUME UNCHANGED requests, now' >= now, now' \in Int,
             now < t + Day => PastIp(a)' \subseteq PastIp(a)
      PROVE  Bounded(a, t)'
  <2>1. IpWindow(a, t)' = IpWindow(a, t) /\ IpWindow(a, t) \subseteq DOMAIN requests
    BY <1>3 DEF IpWindow, InWindow
  <2>2. Cardinality(IpWindow(a, t)) \in Nat /\ t \in Int /\ Bounded(a, t)
    BY <1>0, <1>1, <1>2, <1>3, <2>1, LogIs
  <2>3. now < t + Day => Cardinality(PastIp(a)') <= Cardinality(PastIp(a))
    BY <1>0, <1>3, HandlerSets
  <2>. QED
    BY <1>0, <1>3, <2>1, <2>2, <2>3
<1>4. CASE UNCHANGED vars \/ Tick
  BY <1>0, <1>3, <1>4 DEF vars, Tick, PastIp
<1>5. ASSUME NEW h \in Handler, Handle(h), UNCHANGED requests PROVE Bounded(a, t)'
  <2>1. now' = now
    BY <1>5, Zenon DEF Handle, Post, CheckIP, CheckCookie, CheckLimit, QueryFails,
           SendToAddress, LogRequest
  <2>2. now < t + Day => PastIp(a)' \subseteq PastIp(a)
    BY <1>2, <1>5, NobodyGetsPast
  <2>. QED
    BY <1>0, <1>3, <1>5, <2>1, <2>2
<1>6. ASSUME NEW h \in Handler, LogRequest(h), requests' = Append(requests, ClaimOf(h))
      PROVE  Bounded(a, t)'
  <2>. DEFINE n == Len(requests) + 1  W == IpWindow(a, t)
  <2>0. /\ now' = now /\ pc[h] = "log" /\ pc' = [pc EXCEPT ![h] = "idle"]
        /\ who' = [who EXCEPT ![h] = NoOne]
    BY <1>6 DEF LogRequest, End, Goto
  <2>1. /\ DOMAIN requests = 1..Len(requests) /\ Len(requests) \in Nat
        /\ DOMAIN requests' = DOMAIN requests \cup {n}
        /\ \A j \in DOMAIN requests : requests'[j] = requests[j]
        /\ requests'[n].ip = who[h].ip /\ requests'[n].time = now
    BY <1>0, <1>6, LogAdds
  <2>2. PastIp(a)' = PastIp(a) \ {h} /\ (who[h].ip = a => h \in PastIp(a))
    BY <1>0, <2>0 DEF PastIp, TypeOK
  <2>3. /\ W \subseteq 1..Len(requests) /\ Cardinality(W) \in Nat
        /\ Cardinality(W \cup {n}) = Cardinality(W) + 1
    BY <2>1, LogSets, Zenon DEF IpWindow
  <2>4. CASE \E j \in DOMAIN requests : requests[j].ip = a /\ requests[j].time = t
    <3>1. Bounded(a, t) /\ t \in Int /\ t <= now
      BY <1>0, <1>1, <1>2, <2>4
    <3>2. CASE who[h].ip = a /\ now < t + Day
      <4>1. W' = W \cup {n}
        BY <1>0, <2>0, <2>1, <3>1, <3>2 DEF IpWindow, InWindow
      <4>2. Cardinality(PastIp(a)') = Cardinality(PastIp(a)) - 1
        BY <1>0, <2>2, <3>2, HandlerSets
      <4>3. Cardinality(W') = Cardinality(W) + 1
        BY <2>3, <4>1
      <4>. HIDE DEF W
      <4>. QED
        BY <1>0, <2>0, <2>3, <3>1, <3>2, <4>2, <4>3 DEF W
    <3>3. CASE ~(who[h].ip = a /\ now < t + Day)
      <4>1. W' = W
        BY <1>0, <2>0, <2>1, <3>1, <3>3 DEF IpWindow, InWindow
      <4>2. Cardinality(PastIp(a)') <= Cardinality(PastIp(a))
        BY <1>0, <2>2, HandlerSets
      <4>. QED
        BY <1>0, <2>0, <2>3, <3>1, <4>1, <4>2
    <3>. QED
      BY <3>2, <3>3
  <2>5. CASE ~\E j \in DOMAIN requests : requests[j].ip = a /\ requests[j].time = t
    <3>1. i = n /\ a = who[h].ip /\ t = now
      BY <1>2, <2>1, <2>5
    <3>2. W = {} /\ W' = {n}
      BY <1>0, <2>0, <2>1, <2>5, <3>1 DEF IpWindow, InWindow
    <3>3. Cardinality(W') = 1
      BY <3>2, FS_Singleton, Zenon
    <3>4. Cardinality(PastIp(a)') <= Most - 1
      BY <1>0, <2>2, HandlerSets
    <3>. QED
      BY <1>0, <3>3, <3>4
  <2>. QED
    BY <2>4, <2>5
<1>. QED
  BY <1>4, <1>5, <1>6, ZenonT(60)
     DEF Next, Handle, Post, CheckIP, CheckCookie, CheckLimit, QueryFails,
                          SendToAddress, LogRequest

\* Every step keeps the bound on the claims of one cookie.
LEMMA CookieNext ==
  ASSUME ClockInv, CookieInv, [Next]_vars
  PROVE  CookieInv'
<1>. DEFINE Bounded(a, t) ==
       /\ Cardinality(CookieWindow(a, t)) <= Most
       /\ now < t + Day => Cardinality(CookieWindow(a, t)) + Cardinality(PastCookie(a)) <= Most
<1>0. /\ TypeOK /\ now \in Int /\ Day \in Nat \ {0} /\ Most \in Nat /\ Most > 0
      /\ \A i \in DOMAIN requests : requests[i].time \in Int /\ requests[i].time <= now
      /\ \A a : PastCookie(a) \subseteq Handler /\ Cardinality(PastCookie(a)) \in Nat
      /\ \A a : PastCookie(a)' \subseteq Handler /\ Cardinality(PastCookie(a)') \in Nat
  <2>1. \A a : PastCookie(a) \subseteq Handler /\ PastCookie(a)' \subseteq Handler
    BY DEF PastCookie
  <2>. QED
    BY <2>1, HandlerSets, LogIs, FaucetAssumption DEF ClockInv, TypeOK
<1>1. ASSUME NEW i \in DOMAIN requests, requests[i].cookie # NoCookie PROVE Bounded(requests[i].cookie, requests[i].time)
  BY <1>1 DEF CookieInv
<1>2. SUFFICES ASSUME NEW i \in DOMAIN requests', NEW a, a = requests'[i].cookie,
                      NEW t, t = requests'[i].time, a # NoCookie
               PROVE  Bounded(a, t)'
  BY ZenonT(60) DEF CookieInv, CookieWindow, InWindow, PastCookie
<1>3. ASSUME UNCHANGED requests, now' >= now, now' \in Int,
             now < t + Day => PastCookie(a)' \subseteq PastCookie(a)
      PROVE  Bounded(a, t)'
  <2>1. CookieWindow(a, t)' = CookieWindow(a, t) /\ CookieWindow(a, t) \subseteq DOMAIN requests
    BY <1>3 DEF CookieWindow, InWindow
  <2>2. Cardinality(CookieWindow(a, t)) \in Nat /\ t \in Int /\ Bounded(a, t)
    BY <1>0, <1>1, <1>2, <1>3, <2>1, LogIs
  <2>3. now < t + Day => Cardinality(PastCookie(a)') <= Cardinality(PastCookie(a))
    BY <1>0, <1>3, HandlerSets
  <2>. QED
    BY <1>0, <1>3, <2>1, <2>2, <2>3
<1>4. CASE UNCHANGED vars \/ Tick
  BY <1>0, <1>3, <1>4 DEF vars, Tick, PastCookie
<1>5. ASSUME NEW h \in Handler, Handle(h), UNCHANGED requests PROVE Bounded(a, t)'
  <2>1. now' = now
    BY <1>5, Zenon DEF Handle, Post, CheckIP, CheckCookie, CheckLimit, QueryFails,
           SendToAddress, LogRequest
  <2>2. now < t + Day => PastCookie(a)' \subseteq PastCookie(a)
    BY <1>2, <1>5, NobodyGetsPast
  <2>. QED
    BY <1>0, <1>3, <1>5, <2>1, <2>2
<1>6. ASSUME NEW h \in Handler, LogRequest(h), requests' = Append(requests, ClaimOf(h))
      PROVE  Bounded(a, t)'
  <2>. DEFINE n == Len(requests) + 1  W == CookieWindow(a, t)
  <2>0. /\ now' = now /\ pc[h] = "log" /\ pc' = [pc EXCEPT ![h] = "idle"]
        /\ who' = [who EXCEPT ![h] = NoOne]
    BY <1>6 DEF LogRequest, End, Goto
  <2>1. /\ DOMAIN requests = 1..Len(requests) /\ Len(requests) \in Nat
        /\ DOMAIN requests' = DOMAIN requests \cup {n}
        /\ \A j \in DOMAIN requests : requests'[j] = requests[j]
        /\ requests'[n].cookie = who[h].cookie /\ requests'[n].time = now
    BY <1>0, <1>6, LogAdds, ZenonT(60)
  <2>2. PastCookie(a)' = PastCookie(a) \ {h} /\ (who[h].cookie = a => h \in PastCookie(a))
    BY <1>0, <2>0 DEF PastCookie, TypeOK
  <2>3. /\ W \subseteq 1..Len(requests) /\ Cardinality(W) \in Nat
        /\ Cardinality(W \cup {n}) = Cardinality(W) + 1
    BY <2>1, LogSets, Zenon DEF CookieWindow
  <2>4. CASE \E j \in DOMAIN requests : requests[j].cookie = a /\ requests[j].time = t
    <3>1. Bounded(a, t) /\ t \in Int /\ t <= now
      BY <1>0, <1>1, <1>2, <2>4, ZenonT(60)
    <3>2. CASE who[h].cookie = a /\ now < t + Day
      <4>1. W' = W \cup {n}
        BY <1>0, <2>0, <2>1, <3>1, <3>2, Zenon DEF CookieWindow, InWindow
      <4>2. Cardinality(PastCookie(a)') = Cardinality(PastCookie(a)) - 1
        BY <1>0, <2>2, <3>2, HandlerSets, ZenonT(60)
      <4>3. Cardinality(W') = Cardinality(W) + 1
        BY <2>3, <4>1
      <4>. HIDE DEF W
      <4>. QED
        BY <1>0, <2>0, <2>3, <3>1, <3>2, <4>2, <4>3 DEF W
    <3>3. CASE ~(who[h].cookie = a /\ now < t + Day)
      <4>1. W' = W
        BY <1>0, <2>0, <2>1, <3>1, <3>3, ZenonT(60) DEF CookieWindow, InWindow
      <4>2. Cardinality(PastCookie(a)') <= Cardinality(PastCookie(a))
        BY <1>0, <2>2, HandlerSets
      <4>. QED
        BY <1>0, <2>0, <2>3, <3>1, <4>1, <4>2
    <3>. QED
      BY <3>2, <3>3
  <2>5. CASE ~\E j \in DOMAIN requests : requests[j].cookie = a /\ requests[j].time = t
    <3>1. i = n /\ a = who[h].cookie /\ t = now
      BY <1>2, <2>1, <2>5
    <3>2. W = {} /\ W' = {n}
      BY <1>0, <2>0, <2>1, <2>5, <3>1 DEF CookieWindow, InWindow
    <3>3. Cardinality(W') = 1
      BY <3>2, FS_Singleton, Zenon
    <3>4. Cardinality(PastCookie(a)') <= Most - 1
      BY <1>0, <2>2, HandlerSets
    <3>. QED
      BY <1>0, <3>3, <3>4
  <2>. QED
    BY <2>4, <2>5
<1>. QED
  BY <1>4, <1>5, <1>6, Zenon
     DEF Next, Handle, Post, CheckIP, CheckCookie, CheckLimit, QueryFails,
                          SendToAddress, LogRequest

\* Every step keeps the bound on the claims of one day.
LEMMA DayNext ==
  ASSUME ClockInv, DayInv, [Next]_vars
  PROVE  DayInv'
<1>. DEFINE today == now \div Day
<1>0. /\ TypeOK /\ now \in Nat /\ Day \in Nat \ {0} /\ Most \in Nat /\ Most > 0 /\ DailyLimit \in Nat
      /\ today \in Nat
      /\ \A i \in DOMAIN requests : requests[i].time \in Nat /\ requests[i].time <= now
      /\ PastLimit \subseteq Handler /\ Cardinality(PastLimit) \in Nat
      /\ PastLimit' \subseteq Handler /\ Cardinality(PastLimit') \in Nat /\ Cardinality(PastLimit') <= Most
      /\ \A d \in Nat : InDay(d) \subseteq DOMAIN requests /\ Cardinality(InDay(d)) \in Nat
  <2>1. PastLimit \subseteq Handler /\ PastLimit' \subseteq Handler
    BY DEF PastLimit
  <2>2. \A d \in Nat : InDay(d) \subseteq DOMAIN requests
    BY DEF InDay
  <2>3. now \in Nat /\ TypeOK
    BY DEF ClockInv, TypeOK
  <2>. QED
    BY <2>1, <2>2, <2>3, Days, HandlerSets, LogIs, FaucetAssumption DEF ClockInv
<1>1. ASSUME UNCHANGED <<requests, now>>, PastLimit' \subseteq PastLimit PROVE DayInv'
  <2>1. Cardinality(PastLimit') <= Cardinality(PastLimit)
    BY <1>0, <1>1, HandlerSets
  <2>2. \A d \in Nat : InDay(d)' = InDay(d)
    BY <1>1 DEF InDay
  <2>3. InDay(today)' = InDay(today)
    BY <1>1 DEF InDay
  <2>. HIDE DEF today
  <2>4. Cardinality(InDay(today)) + Cardinality(PastLimit') < DailyLimit + Most
    BY <1>0, <2>1 DEF DayInv, today
  <2>. QED
    BY <1>1, <2>2, <2>3, <2>4 DEF DayInv, today
<1>2. CASE UNCHANGED vars
  BY <1>1, <1>2 DEF vars, PastLimit
<1>3. CASE Tick
  <2>0. now' = now + 1 /\ UNCHANGED <<requests, PastLimit>>
    BY <1>3 DEF Tick, PastLimit
  <2>1. \A d \in Nat : InDay(d)' = InDay(d)
    BY <2>0 DEF InDay
  <2>2. today' \in Nat /\ today <= today'
    <3>1. now \in Nat /\ now' \in Nat /\ now <= now'
      BY <1>0, <2>0
    <3>. QED
      BY <3>1, Days
  <2>3. InDay(today)' = {i \in DOMAIN requests : requests[i].time \div Day = today'}
    BY <2>0 DEF InDay
  <2>4. CASE today' = today
    <3>1. InDay(today)' = InDay(today)
      BY <2>3, <2>4 DEF InDay
    <3>. QED
      BY <2>0, <2>1, <3>1 DEF DayInv
  <2>5. CASE today < today'
    <3>1. \A i \in DOMAIN requests : requests[i].time \div Day # today'
      <4>1. \A i \in DOMAIN requests :
              requests[i].time \div Day \in Nat /\ requests[i].time \div Day <= today
        BY <1>0, Days, Zenon
      <4>. HIDE DEF today
      <4>. QED
        BY <1>0, <2>2, <2>5, <4>1
    <3>2. Cardinality(InDay(today)') = 0
      BY <2>3, <3>1, FS_EmptySet
    <3>3. Cardinality(PastLimit') < DailyLimit + Most
      <4>1. CASE PastLimit = {}
        BY <1>0, <2>0, <4>1, FS_EmptySet
      <4>2. CASE PastLimit # {}
        BY <1>0, <2>0, <4>2 DEF DayInv
      <4>. QED
        BY <4>1, <4>2
    <3>. QED
      BY <1>0, <2>0, <2>1, <3>2, <3>3 DEF DayInv
  <2>. QED
    BY <1>0, <2>2, <2>4, <2>5
<1>4. ASSUME NEW h \in Handler, CheckLimit(h) PROVE DayInv'
  <2>0. UNCHANGED <<requests, now>> /\ pc[h] = "limit"
    BY <1>4 DEF CheckLimit
  <2>1. CASE ClaimsToday(h) >= DailyLimit
    BY <1>0, <1>1, <1>4, <2>0, <2>1, Zenon
       DEF CheckLimit, End, Goto, PastLimit, TypeOK
  <2>2. CASE ~(ClaimsToday(h) >= DailyLimit)
    <3>. DEFINE S == {i \in DOMAIN requests : requests[i].time >= since[h]}
    <3>1. ClaimsToday(h) = Cardinality(S)
      BY DEF ClaimsToday, Claims
    <3>2. InDay(today) \subseteq S
      <4>1. since[h] <= today * Day /\ since[h] \in Int /\ today * Day \in Int
        BY <1>0, <2>0 DEF ClockInv, StartOfDay, TypeOK
      <4>2. \A i \in InDay(today) : today * Day <= requests[i].time
        BY <1>0, Days DEF InDay
      <4>3. \A i \in InDay(today) : i \in DOMAIN requests
        BY DEF InDay
      <4>. HIDE DEF today
      <4>. QED
        BY <1>0, <4>1, <4>2, <4>3
    <3>3. Cardinality(S) \in Nat /\ Cardinality(InDay(today)) <= Cardinality(S)
      <4>1. IsFiniteSet(S)
        BY <1>0, LogIs, LogSets, Zenon
      <4>. QED
        BY <3>2, <4>1, FS_Subset, FS_CardinalityType
    <3>4. Cardinality(InDay(today)) < DailyLimit
      <4>. HIDE DEF S, today
      <4>. QED
        BY <1>0, <2>2, <3>1, <3>3
    <3>5. DailyLimit > 0
      <4>. HIDE DEF today
      <4>. QED
        BY <1>0, <3>4
    <3>6. InDay(today)' = InDay(today) /\ \A d \in Nat : InDay(d)' = InDay(d)
      BY <2>0 DEF InDay
    <3>7. Cardinality(InDay(today)) + Cardinality(PastLimit') < DailyLimit + Most
      <4>. HIDE DEF today
      <4>. QED
        BY <1>0, <3>4
    <3>. QED
      BY <3>5, <3>6, <3>7 DEF DayInv
  <2>. QED
    BY <2>1, <2>2
<1>5. ASSUME NEW h \in Handler,
             Post(h) \/ CheckIP(h) \/ CheckCookie(h) \/ QueryFails(h) \/ SendToAddress(h)
      PROVE  DayInv'
  <2>1. UNCHANGED <<requests, now>>
    BY <1>5, Zenon DEF Post, CheckIP, CheckCookie, QueryFails, SendToAddress
  <2>2. PastLimit' \subseteq PastLimit
    BY <1>0, <1>5, ZenonT(60)
       DEF Post, CheckIP, CheckCookie, QueryFails, SendToAddress, End, Goto,
           PastLimit, TypeOK
  <2>. QED
    BY <1>1, <2>1, <2>2
<1>6. ASSUME NEW h \in Handler, LogRequest(h) PROVE DayInv'
  <2>0. now' = now /\ PastLimit' = PastLimit \ {h} /\ h \in PastLimit
    BY <1>0, <1>6, Zenon DEF LogRequest, End, Goto, PastLimit, TypeOK
  <2>1. CASE UNCHANGED requests
    BY <1>1, <2>0, <2>1
  <2>2. CASE requests' = Append(requests, ClaimOf(h))
    <3>. DEFINE n == Len(requests) + 1
    <3>1. /\ DOMAIN requests = 1..Len(requests) /\ Len(requests) \in Nat
          /\ DOMAIN requests' = DOMAIN requests \cup {n}
          /\ \A j \in DOMAIN requests : requests'[j] = requests[j]
          /\ requests'[n].time = now
      BY <1>0, <2>2, LogAdds, Zenon
    <3>2. \A d \in Nat : d # today => InDay(d)' = InDay(d)
      BY <3>1 DEF InDay
    <3>3. InDay(today)' = InDay(today) \cup {n}
      BY <2>0, <3>1 DEF InDay
    <3>4. Cardinality(InDay(today) \cup {n}) = Cardinality(InDay(today)) + 1
      BY <1>0, <3>1, LogSets, Zenon
    <3>5. Cardinality(PastLimit') = Cardinality(PastLimit) - 1
      BY <1>0, <2>0, HandlerSets
    <3>6. /\ Cardinality(InDay(today)') < DailyLimit + Most
          /\ Cardinality(InDay(today)') + Cardinality(PastLimit') < DailyLimit + Most
      <4>1. Cardinality(InDay(today)) + Cardinality(PastLimit) < DailyLimit + Most
        BY DEF DayInv
      <4>2. Cardinality(InDay(today)') = Cardinality(InDay(today)) + 1
        BY <3>3, <3>4, Zenon
      <4>3. Cardinality(InDay(today)) \in Nat
        BY <1>0
      <4>. HIDE DEF today
      <4>. QED
        BY <1>0, <3>5, <4>1, <4>2, <4>3
    <3>7. ASSUME NEW d \in Nat PROVE Cardinality(InDay(d)') < DailyLimit + Most
      <4>1. CASE d = today
        <5>1. InDay(d)' = InDay(today)'
          BY <2>0, <4>1 DEF InDay
        <5>. QED
          BY <3>6, <5>1
      <4>2. CASE d # today
        BY <3>2, <4>2 DEF DayInv
      <4>. QED
        BY <4>1, <4>2
    <3>. QED
      BY <2>0, <3>6, <3>7 DEF DayInv
  <2>. QED
    BY <1>6, <2>1, <2>2 DEF LogRequest
<1>. QED
  BY <1>2, <1>3, <1>4, <1>5, <1>6 DEF Next, Handle

-----------------------------------------------------------------------------
\* An empty log and idle handlers are within every bound.
LEMMA InitFaucet == Init => ClockInv /\ IpInv /\ CookieInv /\ DayInv
<1>. SUFFICES ASSUME Init PROVE ClockInv /\ IpInv /\ CookieInv /\ DayInv
  OBVIOUS
<1>1. requests = <<>> /\ sent = <<>> /\ DOMAIN requests = {} /\ Len(requests) = 0 /\ Len(sent) = 0
  BY EmptySeq DEF Init
<1>2. Logging = {} /\ PastLimit = {} /\ Cardinality({}) = 0
  BY FS_EmptySet DEF Init, Logging, PastLimit
<1>3. Most \in Nat /\ Most > 0 /\ DailyLimit \in Nat /\ Day \in Nat \ {0} /\ MaxTime \in Nat
  BY HandlerSets, FaucetAssumption
<1>4. TypeOK
  <2>1. Len(requests) + Cardinality(Logging) <= Len(sent)
    BY <1>1, <1>2
  <2>2. requests \in Seq(Claim) /\ sent \in Seq(Claim)
    BY <1>1
  <2>. QED
    BY <1>3, <2>1, <2>2, NoOneIsClient DEF Init, TypeOK, Logging
<1>5. ClockInv
  BY <1>1, <1>4 DEF Init, ClockInv
<1>6. \A d : InDay(d) = {}
  BY <1>1 DEF InDay
<1>7. DayInv
  <2>1. \A d : Cardinality(InDay(d)) = 0
    BY <1>2, <1>6
  <2>2. Cardinality(PastLimit) = 0 /\ 0 < DailyLimit + Most /\ 0 + 0 < DailyLimit + Most
    BY <1>2, <1>3
  <2>. QED
    BY <1>2, <2>1, <2>2 DEF DayInv
<1>. QED
  BY <1>1, <1>5, <1>7, Zenon DEF IpInv, CookieInv

\* The bounds hold with the requests in flight counted in.
THEOREM FaucetInvariant == Spec => [](ClockInv /\ IpInv /\ CookieInv /\ DayInv)
<1>1. ClockInv /\ IpInv /\ CookieInv /\ DayInv /\ [Next]_vars
        => (ClockInv /\ IpInv /\ CookieInv /\ DayInv)'
  BY ClockNext, IpNext, CookieNext, DayNext
<1>. QED
  BY <1>1, InitFaucet, PTL DEF Spec

\* Each variable keeps its type and nothing is logged that was not paid.
THEOREM TypeCorrect == Spec => []TypeOK
<1>1. ClockInv => TypeOK
  BY DEF ClockInv
<1>. QED
  BY <1>1, FaucetInvariant, PTL

\* canRequest and logRequest, however many requests race through them: a
\* client has at most one claim logged per handler in any 24 hours.
THEOREM WindowBound == Spec => []LoggedPerWindow
<1>1. IpInv /\ CookieInv => LoggedPerWindow
  <2>. SUFFICES ASSUME IpInv, CookieInv, NEW i \in DOMAIN requests
                PROVE  LET window == Claims(LAMBDA r : r.time >= requests[i].time /\ r.time < requests[i].time + Day)
                       IN  /\ Cardinality({j \in window : requests[j].ip = requests[i].ip}) <= Most
                           /\ requests[i].cookie # NoCookie =>
                                Cardinality({j \in window : requests[j].cookie = requests[i].cookie}) <= Most
    BY Zenon DEF LoggedPerWindow, Most
  <2>. DEFINE window == Claims(LAMBDA r : r.time >= requests[i].time /\ r.time < requests[i].time + Day)
  <2>1. /\ {j \in window : requests[j].ip = requests[i].ip} = IpWindow(requests[i].ip, requests[i].time)
        /\ {j \in window : requests[j].cookie = requests[i].cookie}
             = CookieWindow(requests[i].cookie, requests[i].time)
    BY DEF Claims, IpWindow, CookieWindow, InWindow
  <2>. QED
    BY <2>1, Zenon DEF IpInv, CookieInv
<1>. QED
  BY <1>1, FaucetInvariant, PTL

\* getClaimsToday against getDailyClaimLimit: the day's claims exceed the
\* limit by less than the number of handlers.
THEOREM DailyLimitBound == Spec => []DailyLimitSlack
<1>1. DayInv => DailyLimitSlack
  BY FaucetAssumption DEF DayInv, DailyLimitSlack, InDay, Most
<1>. QED
  BY <1>1, FaucetInvariant, PTL
=============================================================================
