------------------------------- MODULE Faucet -------------------------------
(***************************************************************************)
(* The faucet's claim handler (contrib/faucet/faucet.go).                  *)
(*                                                                         *)
(* Every POST runs in a goroutine of its own.  It looks for the client's   *)
(* earlier claims, counts the day's claims, sends the coins and only then  *)
(* logs the claim: each query, each RPC and the insert is one step, and    *)
(* time may pass between any two of them.                                  *)
(***************************************************************************)
EXTENDS Integers, FiniteSets, Sequences

CONSTANTS
  Handler,     \* requests the server has in flight at once
  IP,          \* client addresses
  Cookie,      \* faucet_id values
  NoCookie,    \* the empty faucet_id of a request without the cookie
  Day,         \* clock units in 24 hours
  DailyLimit,  \* daily_claim_limit
  LogFails,    \* whether the insert into requests may fail
  MaxTime,     \* bound on the clock
  MaxClaims    \* bound on payments

ASSUME FaucetAssumption ==
  /\ NoCookie \notin Cookie /\ IP # {}
  /\ IsFiniteSet(Handler) /\ Handler # {}
  /\ Day \in Nat \ {0} /\ DailyLimit \in Nat /\ LogFails \in BOOLEAN
  /\ MaxTime \in Nat /\ MaxClaims \in Nat

VARIABLES
  now,       \* the wall clock
  requests,  \* the requests table: a sequence of claims
  sent,      \* payments made by the node, in order
  pc,        \* where each handler is
  who,       \* the client each handler serves
  since      \* the time its next query counts from: cutoff, then startOfDay

vars == <<now, requests, sent, pc, who, since>>

Client == [ip : IP, cookie : Cookie \cup {NoCookie}]
Claim == [ip : IP, cookie : Cookie \cup {NoCookie}, time : 0..MaxTime]

\* Each variable is of its type, and no claim is logged that was not paid.
TypeOK ==
  /\ now \in 0..MaxTime
  /\ requests \in Seq(Claim) /\ sent \in Seq(Claim)
  /\ Len(requests) + Cardinality({h \in Handler : pc[h] = "log"}) <= Len(sent)
  /\ pc \in [Handler -> {"idle", "ip", "cookie", "limit", "send", "log"}]
  /\ who \in [Handler -> Client] /\ since \in [Handler -> -Day..MaxTime]

\* What the locals hold while a handler serves nobody.
NoOne == CHOOSE c \in Client : c.cookie = NoCookie

Init ==
  /\ now = 0 /\ requests = <<>> /\ sent = <<>>
  /\ pc = [h \in Handler |-> "idle"]
  /\ who = [h \in Handler |-> NoOne] /\ since = [h \in Handler |-> 0]

-----------------------------------------------------------------------------
\* Handler h, serving client c, goes on at l and counts from t.
Goto(h, l, c, t) ==
  pc' = [pc EXCEPT ![h] = l] /\ who' = [who EXCEPT ![h] = c] /\ since' = [since EXCEPT ![h] = t]

End(h) == Goto(h, "idle", NoOne, 0)

Claims(Match(_)) == {i \in DOMAIN requests : Match(requests[i])}

Cutoff == now - Day
StartOfDay == (now \div Day) * Day

\* The clock moves on.
Tick == now < MaxTime /\ now' = now + 1 /\ UNCHANGED <<requests, sent, pc, who, since>>

\* A POST whose address the node finds valid; any other one ends here.
\* canRequest takes its cutoff once, for both of its queries.
Post(h) ==
  /\ pc[h] = "idle"
  /\ \E c \in Client : Goto(h, "ip", c, Cutoff)
  /\ UNCHANGED <<now, requests, sent>>

\* canRequest, first query.
CheckIP(h) ==
  /\ pc[h] = "ip"
  /\ IF Claims(LAMBDA r : r.ip = who[h].ip /\ r.time > since[h]) = {}
     THEN Goto(h, "cookie", who[h], since[h])
     ELSE End(h)
  /\ UNCHANGED <<now, requests, sent>>

\* canRequest, second query, if there is a cookie; then startOfDay.
CheckCookie_Skipped(h) ==
  /\ pc[h] = "cookie" /\ Goto(h, "limit", who[h], StartOfDay)
  /\ UNCHANGED <<now, requests, sent>>

CheckCookie(h) ==
  /\ pc[h] = "cookie"
  /\ IF \/ who[h].cookie = NoCookie
        \/ Claims(LAMBDA r : r.cookie = who[h].cookie /\ r.time > since[h]) = {}
     THEN Goto(h, "limit", who[h], StartOfDay)
     ELSE End(h)
  /\ UNCHANGED <<now, requests, sent>>

ClaimsToday(h) == Cardinality(Claims(LAMBDA r : r.time >= since[h]))

\* getClaimsToday against getDailyClaimLimit.
CheckLimit_OneMore(h) ==
  /\ pc[h] = "limit"
  /\ IF ClaimsToday(h) > DailyLimit THEN End(h) ELSE Goto(h, "send", who[h], 0)
  /\ UNCHANGED <<now, requests, sent>>

CheckLimit(h) ==
  /\ pc[h] = "limit"
  /\ IF ClaimsToday(h) >= DailyLimit THEN End(h) ELSE Goto(h, "send", who[h], 0)
  /\ UNCHANGED <<now, requests, sent>>

\* A query that fails ends the request, as a refusal or an error.
QueryFails(h) ==
  /\ pc[h] \in {"ip", "cookie", "limit", "send"} /\ End(h)
  /\ UNCHANGED <<now, requests, sent>>

ClaimOf(h) == [ip |-> who[h].ip, cookie |-> who[h].cookie, time |-> now]

\* sendtoaddress; when it fails the claim ends unlogged.
SendToAddress(h) ==
  /\ pc[h] = "send"
  /\ \/ End(h) /\ UNCHANGED sent
     \/ Len(sent) < MaxClaims /\ sent' = Append(sent, ClaimOf(h)) /\ Goto(h, "log", who[h], 0)
  /\ UNCHANGED <<now, requests>>

\* logRequest; a failure is only written to the log file.
LogRequest_Twice(h) ==
  /\ pc[h] = "log" /\ requests' = requests \o <<ClaimOf(h), ClaimOf(h)>>
  /\ End(h) /\ UNCHANGED <<now, sent>>

LogRequest(h) ==
  /\ pc[h] = "log"
  /\ \/ requests' = Append(requests, ClaimOf(h))
     \/ LogFails /\ UNCHANGED requests
  /\ End(h) /\ UNCHANGED <<now, sent>>

Handle(h) ==
  \/ Post(h) \/ CheckIP(h) \/ CheckCookie(h) \/ CheckLimit(h) \/ QueryFails(h)
  \/ SendToAddress(h) \/ LogRequest(h)

Next == Tick \/ \E h \in Handler : Handle(h)

Spec == Init /\ [][Next]_vars

-----------------------------------------------------------------------------
\* What the faucet says of itself: it pays an address, and the holder of a
\* cookie, once every 24 hours, and no more than daily_claim_limit claims in a
\* UTC day.  The checks and the insert are separate statements, so requests in
\* flight at once get past both: the two bounds below are what is left.
LimitsAreKept ==
  /\ \A i, j \in DOMAIN sent :
       /\ i < j
       /\ \/ sent[i].ip = sent[j].ip
          \/ sent[i].cookie = sent[j].cookie /\ sent[i].cookie # NoCookie
       => sent[j].time >= sent[i].time + Day
  /\ \A d \in 0..MaxTime :
       Cardinality({i \in DOMAIN sent : sent[i].time \div Day = d}) <= DailyLimit

\* However requests interleave, one address, and one cookie, has no more
\* claims logged within any 24 hours than there are requests in flight: the
\* first to be logged stops every request that comes after it.
LoggedPerWindow ==
  \A i \in DOMAIN requests :
    LET window == Claims(LAMBDA r : r.time >= requests[i].time /\ r.time < requests[i].time + Day)
        most(S) == Cardinality(S) <= Cardinality(Handler)
    IN  /\ most({j \in window : requests[j].ip = requests[i].ip})
        /\ requests[i].cookie # NoCookie =>
             most({j \in window : requests[j].cookie = requests[i].cookie})

\* The claims logged in one UTC day exceed the limit by less than the number
\* of requests in flight, even for those checked before midnight and paid
\* after it.  (Payments whose insert fails are not logged, and not counted.)
DailyLimitSlack ==
  \A d \in 0..MaxTime :
    Cardinality({i \in DOMAIN requests : requests[i].time \div Day = d})
      < DailyLimit + Cardinality(Handler)
=============================================================================
