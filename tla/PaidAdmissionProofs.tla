-------------------------- MODULE PaidAdmissionProofs --------------------------
(***************************************************************************)
(* Theorems about PaidAdmission: types, revocation, single settlement.     *)
(***************************************************************************)
EXTENDS PaidAdmission, TLAPS

USE DEF None, Never

LEMMA Numbers ==
  /\ TTL \in Nat /\ TTL > 0 /\ StoreTimeout \in Nat /\ StoreTimeout < TTL
  /\ FetchTimeout \in Nat /\ MaxStale \in Nat /\ MaxTime \in Nat /\ Never \in Nat
BY AdmissionAssumption

\* A priced call costs a natural number of minor units.
LEMMA MinorUnitsType ==
  ASSUME NEW units \in Nat, NEW unit_price_micros \in Nat
  PROVE  MinorUnits(units, unit_price_micros) \in Nat
<1>1. units * unit_price_micros \in Nat
  OBVIOUS
<1>2. ASSUME NEW n \in Nat PROVE (n + 9999) \div 10000 \in Nat
  OBVIOUS
<1> QED BY <1>1, <1>2 DEF MinorUnits

\* What the plane says has units and a price, and differs from Unknown.
LEMMA PlanEntries ==
  /\ \A n \in DOMAIN Plan : Plan[n] \in Says
  /\ \A e \in Says : e # Unknown => e.units \in Nat /\ e.unit_price_micros \in Nat
  /\ 1 \in DOMAIN Plan
<1> DEFINE Entries == [over : BOOLEAN, units : Nat, unit_price_micros : Nat]
<1>1. Plan \in Seq(Entries) /\ Plan # <<>>
  BY AdmissionAssumption
<1>2. DOMAIN Plan = 1..Len(Plan) /\ Len(Plan) \in Nat /\ \A n \in DOMAIN Plan : Plan[n] \in Entries
  <2> HIDE DEF Entries
  <2> QED BY <1>1
<1>3. 1 \in DOMAIN Plan
  BY <1>1, <1>2
<1>4. \A e \in Says : e # Unknown => \E n \in DOMAIN Plan : e = Plan[n]
  BY DEF Says, Range
<1> QED BY <1>2, <1>3, <1>4 DEF Says, Range

\* The price of a request is an amount, or it has none.
LEMMA PriceType ==
  ASSUME AdmissionTypeOK, NEW q \in Requests, call[q].home \in Replicas
  PROVE  Price(q) \in Nat \cup {Unpriced}
<1>1. call[q].quota \in Says /\ cache[call[q].home].entry \in Says
  BY DEF AdmissionTypeOK, Calls
<1> QED BY <1>1, PlanEntries, MinorUnitsType DEF Price

-------------------------------------------------------------------------------
LEMMA InitTypes == AdmissionInit => AdmissionTypeOK
<1> SUFFICES ASSUME AdmissionInit PROVE AdmissionTypeOK
  OBVIOUS
<1>1. Loaded \in [entry : Says, refreshed : 0..Never] /\ Cold \in [entry : Says, refreshed : 0..Never]
  BY PlanEntries, AdmissionAssumption DEF Loaded, Cold, Says
<1>2. cache \in [Replicas -> [entry : Says, refreshed : 0..Never]]
  BY <1>1 DEF AdmissionInit
<1>3. NewCall \in Calls
  BY AdmissionAssumption DEF NewCall, Calls, Says
<1>4. fetch \in [Replicas -> [entry : Says, since : 0..Never, due : Nat]]
  BY PlanEntries, AdmissionAssumption DEF AdmissionInit
<1>5. plane \in [step : DOMAIN Plan, revoked : 0..Never]
  BY PlanEntries, AdmissionAssumption DEF AdmissionInit
<1> QED
  BY <1>2, <1>3, <1>4, <1>5, AdmissionAssumption DEF AdmissionInit, AdmissionTypeOK, NotIssued, NotHeld

\* The plane and the caches.
LEMMA PlaneStepTypes ==
  ASSUME AdmissionTypeOK, PlaneChanges
  PROVE  AdmissionTypeOK'
<1>1. plane' \in [step : DOMAIN Plan, revoked : 0..Never]
  <2>1. CASE plane.step < Len(Plan) /\ plane' = [plane EXCEPT !.step = @ + 1]
    <3>1. DOMAIN Plan = 1..Len(Plan) /\ Len(Plan) \in Nat
      BY PlanEntries
    <3>2. plane.step + 1 \in DOMAIN Plan
      BY <2>1, <3>1 DEF AdmissionTypeOK
    <3> QED BY <2>1, <3>2 DEF AdmissionTypeOK
  <2>2. CASE plane' = [plane EXCEPT !.revoked = clock]
    <3>1. clock \in 0..Never
      BY AdmissionAssumption DEF AdmissionTypeOK
    <3> QED BY <2>2, <3>1 DEF AdmissionTypeOK
  <2> QED BY <2>1, <2>2 DEF PlaneChanges
<1> QED BY <1>1 DEF PlaneChanges, AdmissionTypeOK, replayVars

LEMMA CacheStepTypes ==
  ASSUME AdmissionTypeOK, NEW p \in Replicas,
         FetchSnapshot(p) \/ ApplySnapshot(p) \/ FetchFails(p)
  PROVE  AdmissionTypeOK'
<1>1. CASE FetchSnapshot(p)
  <2>1. PlaneEntry \in Says
    BY PlanEntries DEF AdmissionTypeOK, PlaneEntry, Says
  <2>2. clock \in 0..Never /\ clock + Interval \in Nat
    BY AdmissionAssumption DEF AdmissionTypeOK
  <2>3. fetch' \in [Replicas -> [entry : Says, since : 0..Never, due : Nat]]
    BY <1>1, <2>1, <2>2 DEF FetchSnapshot, AdmissionTypeOK
  <2> QED BY <1>1, <2>3 DEF FetchSnapshot, AdmissionTypeOK, replayVars
<1>2. ASSUME NoFetch(p)
      PROVE  fetch' \in [Replicas -> [entry : Says, since : 0..Never, due : Nat]]
  <2>1. Unknown \in Says /\ Never \in 0..Never
    BY AdmissionAssumption DEF Says
  <2> QED BY <1>2, <2>1 DEF NoFetch, AdmissionTypeOK
<1>3. CASE ApplySnapshot(p)
  <2>1. fetch[p].entry \in Says /\ clock \in 0..Never
    BY AdmissionAssumption DEF AdmissionTypeOK
  <2>2. cache' \in [Replicas -> [entry : Says, refreshed : 0..Never]]
    BY <1>3, <2>1 DEF ApplySnapshot, AdmissionTypeOK
  <2> QED BY <1>2, <1>3, <2>2 DEF ApplySnapshot, AdmissionTypeOK, replayVars
<1>4. CASE FetchFails(p)
  BY <1>2, <1>4 DEF FetchFails, AdmissionTypeOK, replayVars
<1> QED BY <1>1, <1>3, <1>4

\* The replay store.
LEMMA StoreStepTypes ==
  ASSUME AdmissionTypeOK, NEW m \in sent, StoreApplies(m) \/ StoreLoses(m)
  PROVE  AdmissionTypeOK'
<1>1. m \in Operations /\ m.owner \in Requests /\ m.challenge \in Challenges
  BY DEF AdmissionTypeOK, Operations
<1>2. sent' \subseteq Operations
  BY DEF StoreApplies, StoreLoses, AdmissionTypeOK
<1>3. call' \in [Requests -> Calls]
  <2>1. ASSUME NEW a \in {None, "ok", "held", "error"},
               call' = [call EXCEPT ![m.owner].answer = a]
        PROVE  call' \in [Requests -> Calls]
    <3>1. call \in [Requests -> Calls]
      BY DEF AdmissionTypeOK
    <3>2. [call[m.owner] EXCEPT !.answer = a] \in Calls
      BY <1>1, <2>1, <3>1 DEF Calls
    <3> QED BY <1>1, <2>1, <3>1, <3>2
  <2>2. Outcome(m) \in {None, "ok", "held", "error"}
    BY DEF Outcome
  <2> QED BY <2>1, <2>2 DEF StoreApplies, StoreLoses, AdmissionTypeOK
<1>4. held' \in [Challenges -> [owner : Requests \cup {None}, until : Nat]]
  <2>1. clock + RetainFor \in Nat
    BY AdmissionAssumption DEF AdmissionTypeOK, RetainFor
  <2>2. CASE Reserve(m)
    BY <1>1, <2>1, <2>2 DEF Reserve, AdmissionTypeOK
  <2>3. CASE Release(m)
    BY <1>1, <2>3 DEF Release, AdmissionTypeOK, NotHeld
  <2> QED BY <2>2, <2>3 DEF StoreApplies, StoreLoses, AdmissionTypeOK
<1> QED BY <1>2, <1>3, <1>4 DEF StoreApplies, StoreLoses, AdmissionTypeOK, cacheVars

ChallengesTyped ==
  /\ challenge \in [Challenges -> [amount : Nat \cup {Unpriced}, expires : Nat]]
  /\ \A c \in Challenges : challenge[c] # NotIssued => challenge[c].amount \in Nat

\* Up to its verdict a request has a home, and while its challenge is tried it presents one.
Placed(r) ==
  /\ r.stage \in {"reading", "pricing", "reserving", "verifying", "releasing", "admitted"}
       => r.home \in Replicas
  /\ r.stage \in {"reserving", "verifying", "releasing"} => r.presents \in Challenges

AllPlaced == \A q \in Requests : Placed(call[q])

AdmissionTypes == AdmissionTypeOK /\ AllPlaced

\* The record of a request after a step of the gate.
Becomes(q, r) == r \in Calls /\ Placed(r) /\ call' = [call EXCEPT ![q] = r]

\* Challenges stay as they were issued.
OnlyIssues ==
  \A c \in Challenges :
    \/ challenge'[c] = challenge[c]
    \/ challenge[c] = NotIssued /\ challenge'[c].expires = clock + TTL

LEMMA CallTypes ==
  ASSUME AdmissionTypes, NEW q \in Requests
  PROVE  /\ call[q] \in Calls /\ Placed(call[q]) /\ call \in [Requests -> Calls]
         /\ call[q].quota \in Says /\ call[q].amount \in Nat \cup {Unpriced}
         /\ call[q].presents \in Challenges \cup {None}
         /\ NewCall \in Calls
<1>1. call[q] \in Calls /\ Placed(call[q]) /\ call \in [Requests -> Calls]
  BY DEF AdmissionTypes, AdmissionTypeOK, AllPlaced
<1>2. NewCall \in Calls
  BY AdmissionAssumption DEF NewCall, Calls, Says
<1> QED BY <1>1, <1>2 DEF Calls

\* An answer ends the request's locals.
LEMMA AnswerEffect ==
  ASSUME AdmissionTypes, NEW q \in Requests, NEW stage \in {"refused", "failed"},
         Answer(q, stage)
  PROVE  \E r : Becomes(q, r) /\ r.stage = stage /\ r.presents = None
<1> DEFINE r == [NewCall EXCEPT !.stage = stage]
<1>1. r \in Calls /\ r.stage = stage /\ r.presents = None
  BY CallTypes DEF Calls, NewCall
<1>2. Becomes(q, r)
  BY <1>1 DEF Answer, Becomes, Placed
<1> HIDE DEF r
<1> QED BY <1>1, <1>2

LEMMA AdmitEffect ==
  ASSUME AdmissionTypes, NEW q \in Requests, call[q].home \in Replicas, Admit(q)
  PROVE  \E r : Becomes(q, r) /\ r.stage = "admitted" /\ r.presents = None
<1> DEFINE r == [NewCall EXCEPT !.stage = "admitted", !.home = call[q].home]
<1>1. r \in Calls /\ r.stage = "admitted" /\ r.home = call[q].home /\ r.presents = None
  BY CallTypes DEF NewCall, Calls
<1>2. Becomes(q, r)
  BY <1>1 DEF Admit, Becomes, Placed
<1> HIDE DEF r
<1> QED BY <1>1, <1>2

\* A verdict admits or refuses, and issues at most one challenge.
LEMMA VerdictEffect ==
  ASSUME AdmissionTypes, NEW q \in Requests, NEW seen \in Says,
         NEW price \in Nat \cup {Unpriced}, Verdict(q, seen, price),
         call[q].home \in Replicas
  PROVE  /\ \E r : Becomes(q, r) /\ r.stage \in {"admitted", "refused"} /\ r.presents = None
         /\ ChallengesTyped' /\ OnlyIssues
<1>1. \E r : Becomes(q, r) /\ r.stage \in {"admitted", "refused"} /\ r.presents = None
  BY AdmitEffect, AnswerEffect DEF Verdict
<1>2. CASE UNCHANGED challenge
  BY <1>1, <1>2 DEF AdmissionTypes, AdmissionTypeOK, ChallengesTyped, OnlyIssues
<1>3. CASE price # Unpriced /\ ~ UNCHANGED challenge
  <2>1. PICK c \in Unissued :
          challenge' = [challenge EXCEPT ![c] = [amount |-> price, expires |-> clock + TTL]]
    BY <1>3 DEF Verdict, Admit, Offer
  <2>2. clock + TTL \in Nat
    BY AdmissionAssumption DEF AdmissionTypes, AdmissionTypeOK
  <2>3. ChallengesTyped'
    BY <1>3, <2>1, <2>2 DEF AdmissionTypes, AdmissionTypeOK, ChallengesTyped, Unissued
  <2>4. OnlyIssues
    BY <2>1 DEF AdmissionTypes, AdmissionTypeOK, Unissued, OnlyIssues
  <2> QED BY <1>1, <2>3, <2>4
<1> QED BY <1>2, <1>3 DEF Verdict, Admit

\* The steps that keep the request's locals.
LEMMA ArriveEffect ==
  ASSUME AdmissionTypes, NEW q \in Requests, Arrive(q)
  PROVE  \E r : /\ Becomes(q, r) /\ r.stage \in {"reading", "admitted"} /\ r.answer = None
                /\ r.presents \in (Challenges \ Unissued) \cup {None}
<1>1. PICK p \in Replicas :
        IF Authenticates(p)
        THEN \E c \in (Challenges \ Unissued) \cup {None} :
               call' = [call EXCEPT ![q] = [NewCall EXCEPT !.stage = "reading", !.home = p,
                                                          !.presents = c]]
        ELSE call' = [call EXCEPT ![q] = [NewCall EXCEPT !.stage = "admitted", !.home = p]]
  BY DEF Arrive
<1>2. CASE Authenticates(p)
  <2>1. PICK c \in (Challenges \ Unissued) \cup {None} :
          call' = [call EXCEPT ![q] = [NewCall EXCEPT !.stage = "reading", !.home = p,
                                                     !.presents = c]]
    BY <1>1, <1>2
  <2> DEFINE r == [NewCall EXCEPT !.stage = "reading", !.home = p, !.presents = c]
  <2>2. r \in Calls /\ r.stage = "reading" /\ r.home = p /\ r.presents = c /\ r.answer = None
    BY CallTypes DEF NewCall, Calls
  <2>3. Becomes(q, r)
    BY <2>1, <2>2 DEF Becomes, Placed
  <2> HIDE DEF r
  <2> QED BY <2>2, <2>3
<1>3. CASE ~Authenticates(p)
  <2> DEFINE r == [NewCall EXCEPT !.stage = "admitted", !.home = p]
  <2>1. r \in Calls /\ r.stage = "admitted" /\ r.home = p /\ r.presents = None /\ r.answer = None
    BY CallTypes DEF NewCall, Calls
  <2>2. Becomes(q, r)
    BY <1>1, <1>3, <2>1 DEF Becomes, Placed
  <2> HIDE DEF r
  <2> QED BY <2>1, <2>2
<1> QED BY <1>2, <1>3

LEMMA ReadQuotaEffect ==
  ASSUME AdmissionTypes, NEW q \in Requests, ReadQuota(q)
  PROVE  \E r : /\ Becomes(q, r) /\ r.stage = "pricing"
                /\ r.presents = call[q].presents /\ r.answer = call[q].answer
<1> DEFINE c == call[q]
           e == IF Authenticates(c.home) THEN cache[c.home].entry ELSE Unknown
           r == [c EXCEPT !.stage = "pricing", !.quota = e]
<1>1. c \in Calls /\ c.home \in Replicas
  BY CallTypes DEF Placed, ReadQuota
<1>2. e \in Says
  BY <1>1 DEF AdmissionTypes, AdmissionTypeOK, Says
<1>3. r \in Calls /\ r.stage = "pricing" /\ r.home = c.home /\ r.presents = c.presents /\ r.answer = c.answer
  BY <1>1, <1>2 DEF Calls
<1>4. Becomes(q, r)
  BY <1>1, <1>3 DEF ReadQuota, Becomes, Placed
<1> HIDE DEF r
<1> QED BY <1>3, <1>4

\* The reservation is sent: a priced call presents a challenge it can redeem.
LEMMA ReserveEffect ==
  ASSUME AdmissionTypes, NEW q \in Requests, ReadPrice(q),
         Redeemable(call[q].presents, Price(q))
  PROVE  \E r : /\ Becomes(q, r) /\ r.stage = "reserving" /\ r.presents = call[q].presents
                /\ r.answer = call[q].answer /\ r.at = clock
<1> DEFINE c == call[q]
           r == [c EXCEPT !.stage = "reserving", !.amount = Price(q), !.at = clock]
<1>1. c \in Calls /\ c.home \in Replicas /\ c.presents \in Challenges /\ clock \in 0..MaxTime
  BY CallTypes DEF Placed, ReadPrice, Redeemable, AdmissionTypes, AdmissionTypeOK
<1>2. Price(q) \in Nat \cup {Unpriced}
  BY <1>1, PriceType DEF AdmissionTypes
<1>3. /\ r \in Calls /\ r.stage = "reserving" /\ r.home = c.home /\ r.presents = c.presents
      /\ r.answer = c.answer /\ r.at = clock
  BY <1>1, <1>2 DEF Calls
<1>4. Becomes(q, r)
  BY <1>1, <1>3 DEF ReadPrice, Becomes, Placed
<1> HIDE DEF r
<1> QED BY <1>3, <1>4

LEMMA ConsultEffect ==
  ASSUME AdmissionTypes, NEW q \in Requests, Consult(q)
  PROVE  \E r : Becomes(q, r) /\ r.stage = "verifying" /\ r.presents = call[q].presents
<1> DEFINE c == call[q]
           r == [c EXCEPT !.stage = "verifying"]
<1>1. c \in Calls /\ c.home \in Replicas /\ c.presents \in Challenges
  BY CallTypes DEF Placed, Consult
<1>2. r \in Calls /\ r.stage = "verifying" /\ r.home = c.home /\ r.presents = c.presents
  BY <1>1 DEF Calls
<1>3. Becomes(q, r)
  BY <1>1, <1>2 DEF Consult, Becomes, Placed
<1> HIDE DEF r
<1> QED BY <1>2, <1>3

LEMMA NotSettledEffect ==
  ASSUME AdmissionTypes, NEW q \in Requests, NotSettled(q)
  PROVE  \E r : /\ Becomes(q, r) /\ r.stage = "releasing" /\ r.presents = call[q].presents
                /\ r.answer = None
<1> DEFINE c == call[q]
           r == [c EXCEPT !.stage = "releasing", !.at = clock, !.answer = None]
<1>1. c \in Calls /\ c.home \in Replicas /\ c.presents \in Challenges /\ clock \in 0..MaxTime
  BY CallTypes DEF Placed, NotSettled, AdmissionTypes, AdmissionTypeOK
<1>2. /\ r \in Calls /\ r.stage = "releasing" /\ r.home = c.home /\ r.presents = c.presents
      /\ r.answer = None
  BY <1>1 DEF Calls
<1>3. Becomes(q, r)
  BY <1>1, <1>2 DEF NotSettled, Becomes, Placed
<1> HIDE DEF r
<1> QED BY <1>2, <1>3

LEMMA MeterEffect ==
  ASSUME AdmissionTypes, NEW q \in Requests, Meter(q)
  PROVE  \E r : /\ Becomes(q, r) /\ r.stage \in {"served", "refused"}
                /\ r.presents \in {call[q].presents, None}
<1>1. CASE Answer(q, "refused")
  BY <1>1, AnswerEffect
<1>2. CASE call' = [call EXCEPT ![q] = [@ EXCEPT !.stage = "served", !.home = None]]
  <2> DEFINE c == call[q]
             r == [c EXCEPT !.stage = "served", !.home = None]
  <2>0. c \in Calls
    BY CallTypes
  <2>1. r \in Calls /\ r.stage = "served" /\ r.presents = c.presents
    BY <2>0 DEF Calls
  <2>2. Becomes(q, r)
    BY <1>2, <2>1 DEF Becomes, Placed
  <2> HIDE DEF r
  <2> QED BY <2>1, <2>2
<1> QED BY <1>1, <1>2 DEF Meter

\* What a step of the gate may change.
LEMMA GateTypes ==
  ASSUME AdmissionTypes, NEW q \in Requests, NEW r, Becomes(q, r),
         ChallengesTyped', sent' \subseteq Operations,
         consulted' \in [Challenges -> {"never", "asked", "settled", "refused"}],
         UNCHANGED <<clock, cacheVars, held>>
  PROVE  AdmissionTypes'
<1>1. call' \in [Requests -> Calls] /\ AllPlaced'
  BY DEF AdmissionTypes, AdmissionTypeOK, AllPlaced, Becomes
<1> QED BY <1>1 DEF AdmissionTypes, AdmissionTypeOK, ChallengesTyped, cacheVars

LEMMA GateStepTypes ==
  ASSUME AdmissionTypes, NEW q \in Requests, Gate(q)
  PROVE  AdmissionTypes'
<1> DEFINE c == call[q]
<1>1. ASSUME UNCHANGED challenge PROVE ChallengesTyped'
  BY <1>1 DEF AdmissionTypes, AdmissionTypeOK, ChallengesTyped
<1>2. ASSUME UNCHANGED sent PROVE sent' \subseteq Operations
  BY <1>2 DEF AdmissionTypes, AdmissionTypeOK
<1>3. ASSUME NEW op \in {"reserve", "release"}, Send(q, op), c.presents \in Challenges
      PROVE  sent' \subseteq Operations
  BY <1>3 DEF Send, AdmissionTypes, AdmissionTypeOK, Operations
<1>4. ASSUME UNCHANGED consulted
      PROVE  consulted' \in [Challenges -> {"never", "asked", "settled", "refused"}]
  BY <1>4 DEF AdmissionTypes, AdmissionTypeOK
<1>5. ASSUME NEW v \in {"asked", "settled", "refused"},
             consulted' = [consulted EXCEPT ![c.presents] = v]
      PROVE  consulted' \in [Challenges -> {"never", "asked", "settled", "refused"}]
  BY <1>5 DEF AdmissionTypes, AdmissionTypeOK
<1>6. CASE Arrive(q)
  BY <1>1, <1>2, <1>4, <1>6, ArriveEffect, GateTypes DEF Arrive, replayVars
<1>7. CASE ReadQuota(q)
  BY <1>1, <1>2, <1>4, <1>7, ReadQuotaEffect, GateTypes DEF ReadQuota, replayVars
<1>8. CASE ReadPrice(q)
  <2>1. CASE Redeemable(c.presents, Price(q))
    <3>1. c.presents \in Challenges
      BY <2>1, CallTypes DEF Redeemable
    <3> QED BY <1>1, <1>3, <1>4, <1>8, <2>1, <3>1, ReserveEffect, GateTypes DEF ReadPrice
  <2>2. CASE ~Redeemable(c.presents, Price(q))
    <3>1. Price(q) \in Nat \cup {Unpriced} /\ c.home \in Replicas
      BY <1>8, CallTypes, PriceType DEF ReadPrice, Placed, AdmissionTypes
    <3> QED BY <1>2, <1>4, <1>8, <2>2, <3>1, CallTypes, VerdictEffect, GateTypes DEF ReadPrice
  <2> QED BY <2>1, <2>2
<1>9. CASE Consult(q)
  BY <1>1, <1>2, <1>5, <1>9, ConsultEffect, GateTypes DEF Consult, replayVars
<1>10. CASE AlreadyHeld(q) \/ Released(q)
  <2>1. c.home \in Replicas /\ Verdict(q, c.quota, c.amount)
    BY <1>10, CallTypes DEF AlreadyHeld, Released, Placed
  <2> QED BY <1>2, <1>4, <1>10, <2>1, CallTypes, VerdictEffect, GateTypes
          DEF AlreadyHeld, Released, replayVars
<1>11. CASE Settled(q)
  <2>1. c.home \in Replicas /\ Admit(q)
    BY <1>11, CallTypes DEF Settled, Placed
  <2> QED BY <1>1, <1>2, <1>5, <1>11, <2>1, AdmitEffect, GateTypes DEF Settled, Admit, replayVars
<1>12. CASE NotSettled(q)
  <2>1. c.presents \in Challenges
    BY <1>12, CallTypes DEF NotSettled, Placed
  <2> QED BY <1>1, <1>3, <1>5, <1>12, <2>1, NotSettledEffect, GateTypes DEF NotSettled
<1>13. CASE Ambiguous(q) \/ Unavailable(q) \/ Cancelled(q)
  BY <1>1, <1>2, <1>4, <1>13, AnswerEffect, GateTypes
     DEF Ambiguous, Unavailable, Cancelled, replayVars
<1>14. CASE Meter(q)
  BY <1>1, <1>2, <1>4, <1>14, MeterEffect, GateTypes DEF Meter, replayVars
<1> QED BY <1>6, <1>7, <1>8, <1>9, <1>10, <1>11, <1>12, <1>13, <1>14 DEF Gate

\* Only the meter serves a request, and only a granted one consults the facilitator.
LEMMA GateStages ==
  ASSUME AdmissionTypes, NEW q \in Requests, Gate(q)
  PROVE  \E r : /\ Becomes(q, r)
                /\ r.stage = "served" => Meter(q)
                /\ r.stage = "verifying" => Consult(q)
<1> DEFINE c == call[q]
<1>1. CASE ReadPrice(q)
  <2>1. CASE Redeemable(c.presents, Price(q))
    BY <1>1, <2>1, ReserveEffect
  <2>2. CASE ~Redeemable(c.presents, Price(q))
    <3>1. Price(q) \in Nat \cup {Unpriced} /\ c.home \in Replicas
      BY <1>1, CallTypes, PriceType DEF ReadPrice, Placed, AdmissionTypes
    <3> QED BY <1>1, <2>2, <3>1, CallTypes, VerdictEffect DEF ReadPrice
  <2> QED BY <2>1, <2>2
<1>2. CASE AlreadyHeld(q) \/ Released(q) \/ Settled(q)
  <2>1. c.home \in Replicas /\ (Verdict(q, c.quota, c.amount) \/ Admit(q))
    BY <1>2, CallTypes DEF AlreadyHeld, Released, Settled, Placed
  <2> QED BY <2>1, CallTypes, VerdictEffect, AdmitEffect
<1>3. CASE Arrive(q) \/ ReadQuota(q) \/ NotSettled(q)
  BY <1>3, ArriveEffect, ReadQuotaEffect, NotSettledEffect
<1>4. CASE Ambiguous(q) \/ Unavailable(q) \/ Cancelled(q)
  BY <1>4, AnswerEffect DEF Ambiguous, Unavailable, Cancelled
<1>5. CASE Consult(q) \/ Meter(q)
  BY <1>5, ConsultEffect, MeterEffect
<1> QED BY <1>1, <1>2, <1>3, <1>4, <1>5 DEF Gate

\* The store changes at most the answer its sender waits for.
LEMMA StoreStepCalls ==
  ASSUME AdmissionTypes, NEW m \in sent, StoreApplies(m) \/ StoreLoses(m)
  PROVE  \A q \in Requests :
           /\ call'[q].stage = call[q].stage /\ call'[q].home = call[q].home
           /\ call'[q].presents = call[q].presents /\ call'[q].at = call[q].at
           /\ q # m.owner => call'[q] = call[q]
<1>1. m.owner \in Requests
  BY DEF AdmissionTypes, AdmissionTypeOK, Operations
<1>2. call \in [Requests -> Calls]
  BY DEF AdmissionTypes, AdmissionTypeOK
<1>3. CASE UNCHANGED call
  BY <1>3
<1>4. ASSUME NEW a, call' = [call EXCEPT ![m.owner].answer = a]
      PROVE  \A q \in Requests :
               /\ call'[q].stage = call[q].stage /\ call'[q].home = call[q].home
               /\ call'[q].presents = call[q].presents /\ call'[q].at = call[q].at
               /\ q # m.owner => call'[q] = call[q]
  <2> DEFINE c == call[m.owner]
             r == [c EXCEPT !.answer = a]
  <2>1. r.stage = c.stage /\ r.home = c.home /\ r.presents = c.presents /\ r.at = c.at
    BY <1>1, <1>2 DEF Calls
  <2>2. call' = [call EXCEPT ![m.owner] = r]
    BY <1>4
  <2> HIDE DEF r
  <2> QED BY <1>1, <1>2, <2>1, <2>2
<1> QED BY <1>3, <1>4 DEF StoreApplies, StoreLoses

LEMMA InitAdmissionTypes == AdmissionInit => AdmissionTypes
BY InitTypes DEF AdmissionInit, AdmissionTypes, AllPlaced, Placed, NewCall

\* A step of nobody in the gate moves a request at most to an answer.
LEMMA StepTypes == AdmissionTypes /\ [AdmissionNext]_admissionVars => AdmissionTypes'
<1> SUFFICES ASSUME AdmissionTypes, [AdmissionNext]_admissionVars PROVE AdmissionTypes'
  OBVIOUS
<1>1. CASE UNCHANGED admissionVars
  BY <1>1 DEF AdmissionTypes, AdmissionTypeOK, AllPlaced, Placed, admissionVars, cacheVars, replayVars
<1>2. CASE Tick
  <2>1. clock' \in 0..MaxTime
    BY <1>2, AdmissionAssumption DEF Tick, AdmissionTypes, AdmissionTypeOK
  <2> QED BY <1>2, <2>1 DEF Tick, AdmissionTypes, AdmissionTypeOK, AllPlaced, Placed, cacheVars,
                            replayVars
<1>3. CASE PlaneChanges
  <2>1. AllPlaced'
    BY <1>3 DEF PlaneChanges, AdmissionTypes, AllPlaced, Placed
  <2> QED BY <1>3, <2>1, PlaneStepTypes DEF AdmissionTypes
<1>4. ASSUME NEW p \in Replicas, FetchSnapshot(p) \/ ApplySnapshot(p) \/ FetchFails(p)
      PROVE  AdmissionTypes'
  <2>1. AllPlaced'
    BY <1>4 DEF FetchSnapshot, ApplySnapshot, FetchFails, AdmissionTypes, AllPlaced, Placed
  <2> QED BY <1>4, <2>1, CacheStepTypes DEF AdmissionTypes
<1>5. ASSUME NEW m \in sent, StoreApplies(m) \/ StoreLoses(m)
      PROVE  AdmissionTypes'
  <2>1. AllPlaced'
    BY <1>5, StoreStepCalls DEF AdmissionTypes, AllPlaced, Placed
  <2> QED BY <1>5, <2>1, StoreStepTypes DEF AdmissionTypes
<1> QED BY <1>1, <1>2, <1>3, <1>4, <1>5, GateStepTypes DEF AdmissionNext

LEMMA AdmissionTypesHold == AdmissionSpec => []AdmissionTypes
BY InitAdmissionTypes, StepTypes, PTL DEF AdmissionSpec

(***************************************************************************)
(* The gate keeps its types, and every challenge it issues has a price:    *)
(* decide() offers payment only for a call that has one.                   *)
(***************************************************************************)
THEOREM AdmissionIsTyped == AdmissionSpec => []AdmissionTypeOK
<1>1. AdmissionTypes => AdmissionTypeOK
  BY DEF AdmissionTypes
<1> QED BY <1>1, AdmissionTypesHold, PTL
-------------------------------------------------------------------------------
(***************************************************************************)
(* Revocation.  An entry that still lets the tenant in was asked for       *)
(* before the key was revoked, so a cache applied it at most one fetch     *)
(* after that.                                                             *)
(***************************************************************************)
AskedBeforeRevocation ==
  \A p \in Replicas :
    /\ fetch[p].entry # Unknown => fetch[p].since <= clock /\ fetch[p].since <= plane.revoked
    /\ cache[p].entry # Unknown =>
         cache[p].refreshed <= clock /\ cache[p].refreshed <= plane.revoked + FetchTimeout

LEMMA InitRevocation == AdmissionInit => AskedBeforeRevocation
<1> SUFFICES ASSUME AdmissionInit, NEW p \in Replicas
             PROVE  /\ fetch[p].since <= clock /\ fetch[p].since <= plane.revoked
                    /\ cache[p].entry # Unknown =>
                         cache[p].refreshed <= clock /\ cache[p].refreshed <= plane.revoked + FetchTimeout
  BY DEF AskedBeforeRevocation
<1>1. cache[p] \in {Loaded, Cold}
  BY DEF AdmissionInit
<1> QED BY <1>1, AdmissionAssumption DEF AdmissionInit, Loaded, Cold

\* Steps that leave the caches alone, whatever the time.
LEMMA SameRevocation ==
  ASSUME AdmissionTypes, AskedBeforeRevocation, UNCHANGED cacheVars,
         clock' = clock \/ clock' = clock + 1
  PROVE  AskedBeforeRevocation'
<1> SUFFICES ASSUME NEW p \in Replicas
             PROVE  /\ fetch[p].entry # Unknown =>
                         fetch[p].since <= clock' /\ fetch[p].since <= plane.revoked
                    /\ cache[p].entry # Unknown =>
                         cache[p].refreshed <= clock' /\ cache[p].refreshed <= plane.revoked + FetchTimeout
  BY DEF AskedBeforeRevocation, cacheVars
<1>1. /\ fetch[p].entry # Unknown => fetch[p].since <= clock /\ fetch[p].since <= plane.revoked
      /\ cache[p].entry # Unknown =>
           cache[p].refreshed <= clock /\ cache[p].refreshed <= plane.revoked + FetchTimeout
  BY DEF AskedBeforeRevocation
<1>2. clock \in Nat /\ fetch[p].since \in Nat /\ cache[p].refreshed \in Nat
  BY AdmissionAssumption DEF AdmissionTypes, AdmissionTypeOK
<1> QED BY <1>1, <1>2

LEMMA RevocationStep ==
  AdmissionTypes /\ AskedBeforeRevocation /\ [AdmissionNext]_admissionVars => AskedBeforeRevocation'
<1> SUFFICES ASSUME AdmissionTypes, AskedBeforeRevocation, [AdmissionNext]_admissionVars
             PROVE  AskedBeforeRevocation'
  OBVIOUS
<1>1. /\ clock \in Nat /\ plane.revoked \in Nat
      /\ \A p \in Replicas : fetch[p].since \in Nat /\ cache[p].refreshed \in Nat
  BY AdmissionAssumption DEF AdmissionTypes, AdmissionTypeOK
<1>2. CASE PlaneChanges
  <2>1. \/ plane'.revoked = plane.revoked
        \/ plane'.revoked = clock
    BY <1>2 DEF PlaneChanges, AdmissionTypes, AdmissionTypeOK
  <2>2. UNCHANGED <<clock, fetch, cache>>
    BY <1>2 DEF PlaneChanges
  <2>3. CASE plane'.revoked = plane.revoked
    BY <2>2, <2>3 DEF AskedBeforeRevocation
  <2>4. CASE plane'.revoked = clock
    BY <1>1, <2>2, <2>4, AdmissionAssumption DEF AskedBeforeRevocation
  <2> QED BY <2>1, <2>3, <2>4
<1>3. ASSUME NEW p \in Replicas, FetchSnapshot(p)
      PROVE  AskedBeforeRevocation'
  <2>1. fetch' = [fetch EXCEPT ![p] = [entry |-> PlaneEntry, since |-> clock, due |-> clock + Interval]]
        /\ UNCHANGED <<clock, plane, cache>>
    BY <1>3 DEF FetchSnapshot
  <2>2. PlaneEntry # Unknown => clock <= plane.revoked
    BY AdmissionAssumption DEF PlaneEntry, AdmissionTypes, AdmissionTypeOK
  <2> QED BY <2>1, <2>2 DEF AskedBeforeRevocation, AdmissionTypes, AdmissionTypeOK
<1>4. ASSUME NEW p \in Replicas, ApplySnapshot(p)
      PROVE  AskedBeforeRevocation'
  <2>1. /\ fetch' = [fetch EXCEPT ![p] = [entry |-> Unknown, since |-> Never, due |-> fetch[p].due]]
        /\ cache' = [cache EXCEPT ![p] = [entry |-> fetch[p].entry, refreshed |-> clock]]
        /\ clock <= fetch[p].since + FetchTimeout
        /\ UNCHANGED <<clock, plane>>
    BY <1>4 DEF ApplySnapshot, NoFetch
  <2>2. fetch[p].entry # Unknown => clock <= plane.revoked + FetchTimeout
    BY <1>1, <2>1, Numbers DEF AskedBeforeRevocation
  <2> QED BY <1>1, <2>1, <2>2 DEF AskedBeforeRevocation, AdmissionTypes, AdmissionTypeOK
<1>5. ASSUME NEW p \in Replicas, FetchFails(p)
      PROVE  AskedBeforeRevocation'
  BY <1>5 DEF FetchFails, NoFetch, AskedBeforeRevocation, AdmissionTypes, AdmissionTypeOK
<1>6. CASE UNCHANGED cacheVars /\ (clock' = clock \/ clock' = clock + 1)
  BY <1>6, SameRevocation
<1>7. ASSUME NEW q \in Requests, Gate(q) PROVE UNCHANGED <<clock, cacheVars>>
  BY <1>7 DEF Gate, Arrive, ReadQuota, ReadPrice, Consult, AlreadyHeld, Settled, NotSettled,
              Ambiguous, Released, Unavailable, Cancelled, Meter
<1>8. CASE Tick \/ UNCHANGED admissionVars \/ \E m \in sent : StoreApplies(m) \/ StoreLoses(m)
  BY <1>6, <1>8 DEF Tick, StoreApplies, StoreLoses, admissionVars
<1> QED BY <1>2, <1>3, <1>4, <1>5, <1>6, <1>7, <1>8 DEF AdmissionNext

\* Only the meter serves, on an entry that is not older than max_stale.
LEMMA ServedWhileFresh ==
  ASSUME AdmissionTypes, AskedBeforeRevocation, [AdmissionNext]_admissionVars,
         NEW q \in Requests, call[q].stage # "served", call'[q].stage = "served"
  PROVE  clock <= plane.revoked + FetchTimeout + MaxStale
<1>1. Authenticates(call[q].home) /\ call[q].stage = "admitted"
  <2>1. call \in [Requests -> Calls]
    BY DEF AdmissionTypes, AdmissionTypeOK
  <2>2. ASSUME NEW m \in sent, StoreApplies(m) \/ StoreLoses(m) PROVE FALSE
    BY <2>2, StoreStepCalls
  <2>3. PICK q2 \in Requests : Gate(q2)
    BY <2>2 DEF AdmissionNext, admissionVars, Tick, PlaneChanges, FetchSnapshot, ApplySnapshot,
                FetchFails, replayVars
  <2>4. Meter(q)
    <3>1. PICK r : /\ Becomes(q2, r)
                   /\ r.stage = "served" => Meter(q2)
                   /\ r.stage = "verifying" => Consult(q2)
      <4>1. Gate(q2)
        BY <2>3
      <4> QED BY <4>1, GateStages
    <3> QED BY <2>1, <3>1 DEF Becomes
  <2>5. ~ Answer(q, "refused")
    BY AnswerEffect, <2>1 DEF Becomes
  <2> QED BY <2>4, <2>5 DEF Meter
<1>2. call[q].home \in Replicas
  BY <1>1 DEF AdmissionTypes, AllPlaced, Placed
<1>3. /\ clock \in Nat /\ plane.revoked \in Nat
      /\ \A p \in Replicas : cache[p].refreshed \in Nat
  BY Numbers DEF AdmissionTypes, AdmissionTypeOK
<1> QED
  BY <1>1, <1>2, <1>3, Numbers DEF Authenticates, Fresh, AskedBeforeRevocation

(***************************************************************************)
(* A revoked key is served no longer than FetchTimeout + MaxStale after    *)
(* its revocation: apply(), authenticate() and the meter's own check, for  *)
(* any sidecars, snapshots lost or late, and any plan.                     *)
(***************************************************************************)
THEOREM RevocationTakesEffect == AdmissionSpec => RevocationIsBounded
<1>1. AdmissionTypes /\ AskedBeforeRevocation /\ [AdmissionNext]_admissionVars
        => [\A q \in Requests :
              call[q].stage # "served" /\ call'[q].stage = "served"
                => clock <= plane.revoked + FetchTimeout + MaxStale]_admissionVars
  BY ServedWhileFresh
<1> QED BY <1>1, InitRevocation, RevocationStep, AdmissionTypesHold, PTL
        DEF AdmissionSpec, RevocationIsBounded
-------------------------------------------------------------------------------
(***************************************************************************)
(* The hold on a challenge.  A challenge is guarded once a presentation    *)
(* was granted its slot, until the facilitator has refused the payment:    *)
(* the hold outlives the challenge and no release on its way can end it.   *)
(* The store answers a presentation while the challenge can be redeemed,   *)
(* or so shortly after that the hold has not ended: it grants no second    *)
(* one.                                                                    *)
(***************************************************************************)
Granted(q, c) ==
  call[q].stage = "reserving" /\ call[q].answer = "ok" /\ call[q].presents = c

Spent(c) == consulted[c] \in {"asked", "settled"}

Guarded(c) == Spent(c) \/ \E q \in Requests : Granted(q, c)

Blocked(c) ==
  /\ held[c].owner # None
  /\ held[c].until >= challenge[c].expires + TTL
  /\ \A m \in sent : m.op = "release" /\ m.challenge = c => m.owner # held[c].owner

GuardedAreBlocked == \A c \in Challenges : Guarded(c) => Blocked(c)

GrantedOnce ==
  \A q, q2 \in Requests, c \in Challenges :
    Granted(q, c) => ~Spent(c) /\ (Granted(q2, c) => q2 = q)

AskedOnce ==
  \A q, q2 \in Requests :
    call[q].stage = "verifying" =>
      /\ consulted[call[q].presents] = "asked"
      /\ call[q2].stage = "verifying" /\ call[q2].presents = call[q].presents => q2 = q

\* Challenges do not change after their issue, and nothing is known of one before.
IssuedFirst ==
  /\ \A c \in Challenges :
       /\ challenge[c].expires <= clock + TTL
       /\ consulted[c] # "never" => challenge[c] # NotIssued
  /\ \A q \in Requests :
       /\ call[q].presents # None => challenge[call[q].presents] # NotIssued
       /\ call[q].stage = "reserving" => call[q].at <= challenge[call[q].presents].expires

\* An operation under way is the only one of its request, which awaits it or has failed.
Awaits(q, m) ==
  /\ call[q].stage = IF m.op = "reserve" THEN "reserving" ELSE "releasing"
  /\ call[q].presents = m.challenge
  /\ call[q].answer = None

SentOnce ==
  /\ \A m, n \in sent : m.owner = n.owner => m = n
  /\ \A m \in sent : Awaits(m.owner, m) \/ call[m.owner].stage = "failed"
  /\ \A q \in Requests : call[q].stage \in {"reading", "pricing"} => call[q].answer = None

SlotInv == GuardedAreBlocked /\ GrantedOnce /\ AskedOnce /\ IssuedFirst /\ SentOnce

LEMMA InitSlots == AdmissionInit => SlotInv
<1> SUFFICES ASSUME AdmissionInit PROVE SlotInv
  OBVIOUS
<1>1. \A q \in Requests : call[q].stage = "new" /\ call[q].presents = None
  BY DEF AdmissionInit, NewCall
<1>2. \A c \in Challenges : consulted[c] = "never" /\ challenge[c].expires = 0
  BY DEF AdmissionInit, NotIssued
<1>3. sent = {} /\ clock = 0
  BY DEF AdmissionInit
<1>4. GuardedAreBlocked /\ GrantedOnce
  BY <1>1, <1>2 DEF GuardedAreBlocked, Guarded, Granted, Spent, GrantedOnce
<1> QED BY <1>1, <1>2, <1>3, <1>4, Numbers DEF SlotInv, AskedOnce, IssuedFirst, SentOnce

\* What is guarded was issued.
LEMMA GuardedIsIssued ==
  ASSUME AdmissionTypes, SlotInv, NEW c \in Challenges, Guarded(c)
  PROVE  challenge[c] # NotIssued
BY AdmissionAssumption DEF SlotInv, IssuedFirst, Guarded, Granted, Spent

\* Time passes, or others than the gate and the store move.
LEMMA SameSlots ==
  ASSUME AdmissionTypes, SlotInv, UNCHANGED <<challenge, held, sent, call, consulted>>,
         clock' = clock \/ clock' = clock + 1
  PROVE  SlotInv'
<1>1. GuardedAreBlocked' /\ GrantedOnce' /\ AskedOnce' /\ SentOnce'
  BY DEF SlotInv, GuardedAreBlocked, GrantedOnce, AskedOnce, SentOnce, Guarded, Blocked, Granted,
         Spent, Awaits
<1>2. IssuedFirst'
  BY Numbers DEF SlotInv, IssuedFirst, AdmissionTypes, AdmissionTypeOK
<1> QED BY <1>1, <1>2 DEF SlotInv

(***************************************************************************)
(* A request moves outside the stages in which it tries its challenge.  An *)
(* outstanding operation of its fails it.                                  *)
(***************************************************************************)
LEMMA QuietStep ==
  ASSUME AdmissionTypes, SlotInv, NEW q \in Requests, NEW r, Becomes(q, r),
         r.stage \notin {"reserving", "verifying", "releasing"},
         r.presents # None => challenge[r.presents] # NotIssued,
         r.stage \in {"reading", "pricing"} => r.answer = None,
         r.stage = "failed" \/ \A m \in sent : m.owner # q,
         OnlyIssues, UNCHANGED <<clock, held, sent>>,
         \A c \in Challenges :
           \/ consulted'[c] = consulted[c]
           \/ /\ call[q].stage = "verifying" /\ c = call[q].presents
              /\ consulted[c] = "asked" /\ consulted'[c] = "settled"
  PROVE  SlotInv'
<1>1. /\ call'[q] = r
      /\ \A q2 \in Requests : q2 # q => call'[q2] = call[q2]
  BY DEF Becomes, AdmissionTypes, AdmissionTypeOK
<1>2. \A q2 \in Requests, c \in Challenges : Granted(q2, c)' => q2 # q /\ Granted(q2, c)
  BY <1>1 DEF Granted
<1>3. \A c \in Challenges : Spent(c)' <=> Spent(c)
  BY DEF Spent
<1>4. GuardedAreBlocked'
  <2> SUFFICES ASSUME NEW c \in Challenges, Guarded(c)' PROVE Blocked(c)'
    BY DEF GuardedAreBlocked
  <2>1. Guarded(c)
    BY <1>2, <1>3 DEF Guarded
  <2>2. Blocked(c) /\ challenge'[c] = challenge[c]
    BY <2>1, GuardedIsIssued DEF SlotInv, GuardedAreBlocked, OnlyIssues
  <2> QED BY <2>2 DEF Blocked
<1>5. GrantedOnce'
  BY <1>2, <1>3 DEF SlotInv, GrantedOnce
<1>6. \A q2 \in Requests : call[q2].stage = "verifying" => call[q2].presents \in Challenges
  BY DEF AdmissionTypes, AllPlaced, Placed
<1>7. AskedOnce'
  BY <1>1, <1>6 DEF SlotInv, AskedOnce
<1>8. IssuedFirst'
  <2>1. ASSUME NEW c \in Challenges
        PROVE  challenge'[c].expires <= clock' + TTL /\ (consulted'[c] # "never" => challenge'[c] # NotIssued)
    <3>1. clock + TTL \in Nat /\ (consulted'[c] # "never" => consulted[c] # "never")
      BY Numbers DEF AdmissionTypes, AdmissionTypeOK
    <3> QED BY <3>1 DEF OnlyIssues, SlotInv, IssuedFirst
  <2>2. ASSUME NEW q2 \in Requests
        PROVE  /\ call'[q2].presents # None => challenge'[call'[q2].presents] # NotIssued
               /\ call'[q2].stage = "reserving" =>
                    call'[q2].at <= challenge'[call'[q2].presents].expires
    <3>1. call'[q2].presents # None =>
            call'[q2].presents \in Challenges /\ challenge[call'[q2].presents] # NotIssued
      BY <1>1, CallTypes DEF SlotInv, IssuedFirst, Becomes, Calls
    <3>2. call'[q2].presents # None => challenge'[call'[q2].presents] = challenge[call'[q2].presents]
      BY <3>1 DEF OnlyIssues
    <3>3. call'[q2].stage = "reserving" => call'[q2] = call[q2] /\ call[q2].presents # None
      BY <1>1, CallTypes, AdmissionAssumption DEF Placed
    <3> QED BY <3>1, <3>2, <3>3 DEF SlotInv, IssuedFirst
  <2> QED BY <2>1, <2>2 DEF IssuedFirst
<1>9. SentOnce'
  BY <1>1 DEF SlotInv, SentOnce, Awaits, AdmissionTypes, AdmissionTypeOK, Operations
<1> QED BY <1>4, <1>5, <1>7, <1>8, <1>9 DEF SlotInv

\* A request with no operation under way that does not wait for one may send one.
LEMMA ReserveStep ==
  ASSUME AdmissionTypes, SlotInv, NEW q \in Requests, ReadPrice(q),
         Redeemable(call[q].presents, Price(q))
  PROVE  SlotInv'
<1>0. PICK new : new = [op |-> "reserve", owner |-> q, challenge |-> call[q].presents]
  OBVIOUS
<1>1. PICK r : /\ Becomes(q, r) /\ r.stage = "reserving" /\ r.presents = call[q].presents
               /\ r.answer = call[q].answer /\ r.at = clock
  BY ReserveEffect
<1>2. call'[q] = r /\ \A q2 \in Requests : q2 # q => call'[q2] = call[q2]
  BY <1>1 DEF Becomes, AdmissionTypes, AdmissionTypeOK
<1>3. /\ call[q].stage = "pricing" /\ call[q].presents \in Challenges
      /\ clock <= challenge[call[q].presents].expires
      /\ UNCHANGED <<clock, challenge, held, consulted>>
      /\ sent' = sent \cup {new}
  BY <1>0, CallTypes DEF ReadPrice, Redeemable, Send
<1>4. r.answer = None /\ \A m \in sent : m.owner # q
  BY <1>1, <1>3 DEF SlotInv, SentOnce, Awaits
<1>5. \A q2 \in Requests, c \in Challenges : Granted(q2, c)' => q2 # q /\ Granted(q2, c)
  BY <1>2, <1>4 DEF Granted
<1>6. \A c \in Challenges : Spent(c)' <=> Spent(c)
  BY <1>3 DEF Spent
<1>7. GuardedAreBlocked'
  <2> SUFFICES ASSUME NEW c \in Challenges, Guarded(c)' PROVE Blocked(c)'
    BY DEF GuardedAreBlocked
  <2>1. Blocked(c)
    BY <1>5, <1>6 DEF Guarded, SlotInv, GuardedAreBlocked
  <2> QED BY <1>0, <1>3, <2>1 DEF Blocked
<1>8. GrantedOnce'
  BY <1>5, <1>6 DEF SlotInv, GrantedOnce
<1>9. AskedOnce'
  BY <1>1, <1>2, <1>3 DEF SlotInv, AskedOnce
<1>10. IssuedFirst'
  BY <1>1, <1>2, <1>3 DEF SlotInv, IssuedFirst
<1>11. SentOnce'
  <2>1. Awaits(q, new)'
    BY <1>0, <1>1, <1>2, <1>4 DEF Awaits
  <2>2. \A m \in sent' : m = new \/ (m \in sent /\ m.owner \in Requests /\ m.owner # q)
    BY <1>0, <1>3, <1>4 DEF AdmissionTypes, AdmissionTypeOK, Operations
  <2>3. \A m \in sent' : Awaits(m.owner, m)' \/ call'[m.owner].stage = "failed"
    <3> SUFFICES ASSUME NEW m \in sent' PROVE Awaits(m.owner, m)' \/ call'[m.owner].stage = "failed"
      OBVIOUS
    <3>1. CASE m = new
      BY <1>0, <2>1, <3>1
    <3>2. CASE m \in sent /\ m.owner \in Requests /\ m.owner # q
      BY <1>2, <3>2 DEF SlotInv, SentOnce, Awaits
    <3> QED BY <2>2, <3>1, <3>2
  <2>4. \A m, n \in sent' : m.owner = n.owner => m = n
    BY <1>0, <2>2 DEF SlotInv, SentOnce
  <2> QED BY <1>1, <1>2, <2>3, <2>4 DEF SlotInv, SentOnce
<1> QED BY <1>7, <1>8, <1>9, <1>10, <1>11 DEF SlotInv

\* The granted request asks the facilitator, the only one to ask.
LEMMA ConsultStep ==
  ASSUME AdmissionTypes, SlotInv, NEW q \in Requests, Consult(q)
  PROVE  SlotInv'
<1>0. PICK c : c = call[q].presents
  OBVIOUS
<1>1. PICK r : Becomes(q, r) /\ r.stage = "verifying" /\ r.presents = c
  BY <1>0, ConsultEffect
<1>2. call'[q] = r /\ \A q2 \in Requests : q2 # q => call'[q2] = call[q2]
  BY <1>1 DEF Becomes, AdmissionTypes, AdmissionTypeOK
<1>3. /\ Granted(q, c) /\ c \in Challenges /\ UNCHANGED <<clock, challenge, held, sent>>
      /\ consulted'[c] = "asked" /\ \A c2 \in Challenges : c2 # c => consulted'[c2] = consulted[c2]
  BY <1>0, CallTypes DEF Consult, Granted, Placed, replayVars, AdmissionTypes, AdmissionTypeOK
<1>4. ~Spent(c) /\ \A q2 \in Requests : Granted(q2, c) => q2 = q
  BY <1>3 DEF SlotInv, GrantedOnce
<1>5. \A q2 \in Requests, c2 \in Challenges :
        Granted(q2, c2)' => q2 # q /\ Granted(q2, c2) /\ c2 # c
  BY <1>1, <1>2, <1>4 DEF Granted
<1>6. \A c2 \in Challenges : c2 # c => (Spent(c2)' <=> Spent(c2))
  BY <1>3 DEF Spent
<1>7. GuardedAreBlocked'
  <2> SUFFICES ASSUME NEW c2 \in Challenges, Guarded(c2)' PROVE Blocked(c2)'
    BY DEF GuardedAreBlocked
  <2>1. Guarded(c2)
    BY <1>3, <1>5, <1>6 DEF Guarded
  <2>2. Blocked(c2)
    BY <2>1 DEF SlotInv, GuardedAreBlocked
  <2> QED BY <1>3, <2>2 DEF Blocked
<1>8. GrantedOnce'
  BY <1>5, <1>6 DEF SlotInv, GrantedOnce
<1>9. \A q2 \in Requests : q2 # q /\ call[q2].stage = "verifying" =>
        call[q2].presents \in Challenges /\ call[q2].presents # c
  BY <1>4 DEF SlotInv, AskedOnce, Spent, AdmissionTypes, AllPlaced, Placed
<1>10. AskedOnce'
  BY <1>1, <1>2, <1>3, <1>9 DEF SlotInv, AskedOnce
<1>11. IssuedFirst'
  <2>1. challenge[c] # NotIssued
    BY <1>3, GuardedIsIssued DEF Guarded
  <2> QED BY <1>0, <1>1, <1>2, <1>3, <2>1 DEF SlotInv, IssuedFirst
<1>12. SentOnce'
  <2>1. \A m \in sent : m.owner \in Requests /\ m.owner # q
    BY <1>3 DEF SlotInv, SentOnce, Awaits, Granted, AdmissionTypes, AdmissionTypeOK, Operations
  <2> QED BY <1>1, <1>2, <1>3, <2>1 DEF SlotInv, SentOnce, Awaits
<1> QED BY <1>7, <1>8, <1>10, <1>11, <1>12 DEF SlotInv

\* After a refusal the challenge is not guarded: its release may go out.
LEMMA NotSettledStep ==
  ASSUME AdmissionTypes, SlotInv, NEW q \in Requests, NotSettled(q)
  PROVE  SlotInv'
<1>0. PICK c, new : c = call[q].presents /\ new = [op |-> "release", owner |-> q, challenge |-> c]
  OBVIOUS
<1>1. PICK r : /\ Becomes(q, r) /\ r.stage = "releasing" /\ r.presents = c
               /\ r.answer = None
  BY <1>0, NotSettledEffect
<1>2. call'[q] = r /\ \A q2 \in Requests : q2 # q => call'[q2] = call[q2]
  BY <1>1 DEF Becomes, AdmissionTypes, AdmissionTypeOK
<1>3. /\ call[q].stage = "verifying" /\ c \in Challenges /\ UNCHANGED <<clock, challenge, held>>
      /\ consulted'[c] = "refused"
      /\ \A c2 \in Challenges : c2 # c => consulted'[c2] = consulted[c2]
      /\ sent' = sent \cup {new}
  BY <1>0, CallTypes DEF NotSettled, Send, Placed, AdmissionTypes, AdmissionTypeOK
<1>4. consulted[c] = "asked" /\ \A q2 \in Requests : ~Granted(q2, c)
  BY <1>0, <1>3 DEF SlotInv, AskedOnce, GrantedOnce, Spent
<1>5. \A q2 \in Requests, c2 \in Challenges :
        Granted(q2, c2)' => q2 # q /\ Granted(q2, c2) /\ c2 # c
  BY <1>1, <1>2, <1>4 DEF Granted
<1>6. /\ ~Spent(c)'
      /\ \A c2 \in Challenges : c2 # c => (Spent(c2)' <=> Spent(c2))
  BY <1>3 DEF Spent
<1>7. GuardedAreBlocked'
  <2> SUFFICES ASSUME NEW c2 \in Challenges, Guarded(c2)' PROVE Blocked(c2)'
    BY DEF GuardedAreBlocked
  <2>1. Guarded(c2) /\ c2 # c
    BY <1>5, <1>6 DEF Guarded
  <2>2. Blocked(c2)
    BY <2>1 DEF SlotInv, GuardedAreBlocked
  <2> QED BY <1>0, <1>3, <2>1, <2>2 DEF Blocked
<1>8. GrantedOnce'
  BY <1>5, <1>6 DEF SlotInv, GrantedOnce
<1>9. AskedOnce'
  <2>1. \A q2 \in Requests : q2 # q /\ call[q2].stage = "verifying" =>
          call[q2].presents \in Challenges /\ call[q2].presents # c
    BY <1>0, <1>3 DEF SlotInv, AskedOnce, AdmissionTypes, AllPlaced, Placed
  <2> QED BY <1>1, <1>2, <1>3, <2>1 DEF SlotInv, AskedOnce
<1>10. IssuedFirst'
  <2>1. IssuedFirst /\ challenge[c] # NotIssued
    <3>1. IssuedFirst
      BY DEF SlotInv
    <3> QED BY <1>3, <1>4, <3>1 DEF IssuedFirst
  <2> QED BY <1>1, <1>2, <1>3, <2>1 DEF IssuedFirst
<1>11. \A m \in sent : m.owner \in Requests /\ m.owner # q
  BY <1>3 DEF SlotInv, SentOnce, Awaits, AdmissionTypes, AdmissionTypeOK, Operations
<1>12. SentOnce'
  <2>1. Awaits(q, new)'
    BY <1>0, <1>1, <1>2 DEF Awaits
  <2>2. \A m \in sent' : m = new \/ (m \in sent /\ m.owner \in Requests /\ m.owner # q)
    BY <1>0, <1>3, <1>11
  <2>3. \A m \in sent' : Awaits(m.owner, m)' \/ call'[m.owner].stage = "failed"
    <3> SUFFICES ASSUME NEW m \in sent' PROVE Awaits(m.owner, m)' \/ call'[m.owner].stage = "failed"
      OBVIOUS
    <3>1. CASE m = new
      BY <1>0, <2>1, <3>1
    <3>2. CASE m \in sent /\ m.owner \in Requests /\ m.owner # q
      BY <1>2, <3>2 DEF SlotInv, SentOnce, Awaits
    <3> QED BY <2>2, <3>1, <3>2
  <2>4. \A m, n \in sent' : m.owner = n.owner => m = n
    BY <1>0, <2>2 DEF SlotInv, SentOnce
  <2> QED BY <1>1, <1>2, <2>3, <2>4 DEF SlotInv, SentOnce
<1> QED BY <1>7, <1>8, <1>9, <1>10, <1>12 DEF SlotInv

(***************************************************************************)
(* The store acts.  A request is granted a slot only while the slot can be *)
(* free: it was sent before the challenge expired, and answered soon       *)
(* enough after that.                                                      *)
(***************************************************************************)
LEMMA StoreStep ==
  ASSUME AdmissionTypes, SlotInv, NEW m \in sent, StoreApplies(m) \/ StoreLoses(m)
  PROVE  SlotInv'
<1>0. PICK o, c : o = m.owner /\ c = m.challenge
  OBVIOUS
<1>1. /\ m \in Operations /\ o \in Requests /\ c \in Challenges
      /\ UNCHANGED <<clock, challenge, consulted>> /\ sent' = sent \ {m}
  BY <1>0 DEF AdmissionTypes, AdmissionTypeOK, Operations, StoreApplies, StoreLoses
<1>2. \A q \in Requests :
        /\ call'[q].stage = call[q].stage /\ call'[q].presents = call[q].presents
        /\ call'[q].at = call[q].at /\ (q # o => call'[q] = call[q])
  BY <1>0, StoreStepCalls
<1>3. \A n \in sent' : n \in sent /\ n.owner \in Requests /\ n.owner # o
  BY <1>0, <1>1 DEF SlotInv, SentOnce, AdmissionTypes, AdmissionTypeOK, Operations
<1>4. Awaits(o, m) \/ call[o].stage = "failed"
  BY <1>0 DEF SlotInv, SentOnce
<1>5. IssuedFirst'
  BY <1>1, <1>2 DEF SlotInv, IssuedFirst
<1>6. AskedOnce'
  BY <1>1, <1>2 DEF SlotInv, AskedOnce
<1>7. SentOnce'
  <2>1. \A n \in sent' : Awaits(n.owner, n)' \/ call'[n.owner].stage = "failed"
    BY <1>2, <1>3 DEF SlotInv, SentOnce, Awaits
  <2>2. \A q \in Requests : call'[q].stage \in {"reading", "pricing"} => call'[q].answer = None
    BY <1>2, <1>4 DEF SlotInv, SentOnce, Awaits
  <2> QED BY <1>3, <2>1, <2>2 DEF SlotInv, SentOnce
<1>8. \A c2 \in Challenges : Spent(c2)' <=> Spent(c2)
  BY <1>1 DEF Spent
\* A grant is given to a reservation that finds its slot free.
<1>9. \A q \in Requests, c2 \in Challenges :
        Granted(q, c2)' /\ ~Granted(q, c2) =>
          /\ q = o /\ c2 = c /\ StoreApplies(m) /\ Reserve(m) /\ ~Held(c)
          /\ clock <= challenge[c].expires + StoreTimeout
  <2> SUFFICES ASSUME NEW q \in Requests, NEW c2 \in Challenges, Granted(q, c2)', ~Granted(q, c2)
               PROVE  /\ q = o /\ c2 = c /\ StoreApplies(m) /\ Reserve(m) /\ ~Held(c)
                      /\ clock <= challenge[c].expires + StoreTimeout
    OBVIOUS
  <2>1. q = o /\ call[o].stage = "reserving" /\ call[o].presents = c2 /\ call'[o].answer = "ok"
        /\ call[o].answer # "ok"
    BY <1>2 DEF Granted
  <2>2. m.op = "reserve" /\ c2 = c
    BY <1>0, <1>1, <1>4, <2>1 DEF Awaits, Operations
  <2>3. StoreApplies(m) /\ Outcome(m) = "ok" /\ clock <= call[o].at + StoreTimeout
    <3>1. ASSUME NEW a, call' = [call EXCEPT ![o].answer = a] PROVE a = "ok"
      BY <1>1, <2>1, <3>1, CallTypes DEF Calls
    <3>2. ~UNCHANGED call
      BY <2>1
    <3> QED BY <1>0, <2>1, <3>1, <3>2 DEF StoreApplies, StoreLoses
  <2>4. Reserve(m) /\ ~Held(c)
    BY <1>0, <2>2, <2>3 DEF StoreApplies, Release, Outcome
  <2>5. call[o].at <= challenge[c].expires
    BY <1>1, <2>1, <2>2 DEF SlotInv, IssuedFirst
  <2>6. call[o].at \in Nat /\ challenge[c].expires \in Nat /\ clock \in Nat
    BY <1>1, CallTypes, Numbers DEF Calls, AdmissionTypes, AdmissionTypeOK
  <2> QED BY <2>1, <2>2, <2>3, <2>4, <2>5, <2>6, Numbers
\* While a challenge is guarded and may still be granted, its slot is not free.
<1>10. \A q \in Requests, c2 \in Challenges : Granted(q, c2)' /\ ~Granted(q, c2) => ~Guarded(c2)
  <2> SUFFICES ASSUME NEW q \in Requests, NEW c2 \in Challenges, Granted(q, c2)', ~Granted(q, c2),
                      Guarded(c2)
               PROVE  FALSE
    OBVIOUS
  <2>1. c2 = c /\ ~Held(c) /\ clock <= challenge[c].expires + StoreTimeout
    BY <1>9
  <2>2. Blocked(c)
    BY <1>1, <2>1 DEF SlotInv, GuardedAreBlocked
  <2>3. held[c].until \in Nat /\ challenge[c].expires \in Nat /\ clock \in Nat
    BY <1>1, Numbers DEF AdmissionTypes, AdmissionTypeOK
  <2> QED BY <2>1, <2>2, <2>3, Numbers DEF Blocked, Held
<1>11. GrantedOnce'
  <2> SUFFICES ASSUME NEW q \in Requests, NEW q2 \in Requests, NEW c2 \in Challenges, Granted(q, c2)'
               PROVE  ~Spent(c2)' /\ (Granted(q2, c2)' => q2 = q)
    BY DEF GrantedOnce
  <2>1. CASE Granted(q, c2)
    <3>1. Guarded(c2)
      BY <2>1 DEF Guarded
    <3> QED BY <1>8, <1>10, <2>1, <3>1 DEF SlotInv, GrantedOnce
  <2>2. CASE ~Granted(q, c2)
    <3>1. ~Guarded(c2) /\ q = o
      BY <1>9, <1>10, <2>2
    <3> QED BY <1>8, <1>9, <3>1 DEF Guarded
  <2> QED BY <2>1, <2>2
<1>12. GuardedAreBlocked'
  <2> SUFFICES ASSUME NEW c2 \in Challenges, Guarded(c2)' PROVE Blocked(c2)'
    BY DEF GuardedAreBlocked
  <2>1. CASE held' # held /\ Reserve(m) /\ c2 = c
    <3>1. held'[c] = [owner |-> o, until |-> clock + 2 * TTL]
      BY <1>0, <1>1, <2>1 DEF Reserve, RetainFor, AdmissionTypes, AdmissionTypeOK
    <3>2. clock + 2 * TTL >= challenge[c].expires + TTL
      <4>1. clock \in Nat /\ challenge[c].expires \in Nat
        BY <1>1, Numbers DEF AdmissionTypes, AdmissionTypeOK
      <4>2. challenge[c].expires <= clock + TTL
        BY <1>1 DEF SlotInv, IssuedFirst
      <4> QED BY <4>1, <4>2, Numbers
    <3>3. o # None
      BY <1>1, AdmissionAssumption
    <3> QED BY <1>1, <1>3, <2>1, <3>1, <3>2, <3>3 DEF Blocked
  <2>2. CASE ~(held' # held /\ Reserve(m) /\ c2 = c)
    <3>1. Guarded(c2)
      <4>1. CASE \E q \in Requests : Granted(q, c2)' /\ ~Granted(q, c2)
        <5>1. c2 = c /\ Reserve(m) /\ ~Held(c)
          BY <1>9, <4>1
        <5>2. held' = held
          BY <2>2, <5>1
        <5>3. held'[c].owner = o /\ held'[c].until = clock + 2 * TTL
          BY <1>0, <1>1, <5>1 DEF Reserve, RetainFor, AdmissionTypes, AdmissionTypeOK
        <5>4. clock \in Nat /\ o # None
          BY <1>1, Numbers, AdmissionAssumption DEF AdmissionTypes, AdmissionTypeOK
        <5> QED BY <5>1, <5>2, <5>3, <5>4, Numbers DEF Held
      <4> QED BY <1>8, <4>1 DEF Guarded
    <3>2. Blocked(c2)
      BY <3>1 DEF SlotInv, GuardedAreBlocked
    <3>3. held'[c2] = held[c2]
      <4>1. CASE held' # held /\ Reserve(m)
        BY <1>0, <2>2, <4>1 DEF Reserve, AdmissionTypes, AdmissionTypeOK
      <4>2. CASE Release(m)
        <5>1. CASE c2 = c
          BY <1>0, <3>2, <4>2, <5>1 DEF Release, Blocked
        <5>2. CASE c2 # c
          BY <1>0, <4>2, <5>2 DEF Release, AdmissionTypes, AdmissionTypeOK
        <5> QED BY <5>1, <5>2
      <4> QED BY <4>1, <4>2 DEF StoreApplies, StoreLoses
    <3> QED BY <1>1, <1>3, <3>2, <3>3 DEF Blocked
  <2> QED BY <2>1, <2>2
<1> QED BY <1>5, <1>6, <1>7, <1>11, <1>12 DEF SlotInv

LEMMA GateStepSlots ==
  ASSUME AdmissionTypes, SlotInv, NEW q \in Requests, Gate(q)
  PROVE  SlotInv'
<1> DEFINE c == call[q]
           KeepsHistory ==
             \A c2 \in Challenges :
               \/ consulted'[c2] = consulted[c2]
               \/ /\ call[q].stage = "verifying" /\ c2 = call[q].presents
                  /\ consulted[c2] = "asked" /\ consulted'[c2] = "settled"
<1>1. \A m \in sent : m.owner = q =>
        c.stage = "failed" \/ (c.stage \in {"reserving", "releasing"} /\ c.answer = None)
  BY DEF SlotInv, SentOnce, Awaits
<1>2. UNCHANGED challenge => OnlyIssues
  BY DEF OnlyIssues
<1>3. UNCHANGED consulted => KeepsHistory
  OBVIOUS
<1>4. CASE Arrive(q)
  <2>1. \A c2 \in Challenges \ Unissued : challenge[c2] # NotIssued
    BY DEF Unissued
  <2>2. PICK r : /\ Becomes(q, r) /\ r.stage \in {"reading", "admitted"} /\ r.answer = None
                 /\ r.presents \in (Challenges \ Unissued) \cup {None}
    BY <1>4, ArriveEffect
  <2>3. call[q].stage = "new" /\ UNCHANGED <<clock, challenge, held, sent, consulted>>
    BY <1>4 DEF Arrive, replayVars
  <2>4. r.presents # None => challenge[r.presents] # NotIssued
    BY <2>1, <2>2
  <2>5. \A m \in sent : m.owner # q
    BY <1>1, <2>3
  <2> QED BY <1>2, <1>3, <2>2, <2>3, <2>4, <2>5, QuietStep
<1>5. CASE ReadQuota(q)
  <2>1. c.presents # None => challenge[c.presents] # NotIssued
    BY DEF SlotInv, IssuedFirst
  <2>2. c.answer = None
    BY <1>5 DEF SlotInv, SentOnce, ReadQuota
  <2> QED BY <1>1, <1>2, <1>3, <1>5, <2>1, <2>2, ReadQuotaEffect, QuietStep DEF ReadQuota, replayVars
<1>6. CASE ReadPrice(q)
  <2>1. CASE Redeemable(c.presents, Price(q))
    BY <1>6, <2>1, ReserveStep
  <2>2. CASE ~Redeemable(c.presents, Price(q))
    <3>1. Price(q) \in Nat \cup {Unpriced} /\ c.home \in Replicas
      BY <1>6, CallTypes, PriceType DEF ReadPrice, Placed, AdmissionTypes
    <3> QED BY <1>1, <1>3, <1>6, <2>2, <3>1, CallTypes, VerdictEffect, QuietStep DEF ReadPrice
  <2> QED BY <2>1, <2>2
<1>7. CASE Consult(q)
  BY <1>7, ConsultStep
<1>8. CASE AlreadyHeld(q) \/ Released(q)
  <2>1. c.home \in Replicas /\ Verdict(q, c.quota, c.amount)
    BY <1>8, CallTypes DEF AlreadyHeld, Released, Placed
  <2>2. \A m \in sent : m.owner # q
    BY <1>1, <1>8 DEF AlreadyHeld, Released
  <2> QED BY <1>3, <1>8, <2>1, <2>2, CallTypes, VerdictEffect, QuietStep
          DEF AlreadyHeld, Released, replayVars
<1>9. CASE Settled(q)
  <2>1. c.home \in Replicas /\ c.presents \in Challenges /\ Admit(q)
    BY <1>9, CallTypes DEF Settled, Placed
  <2>2. consulted[c.presents] = "asked"
    BY <1>9 DEF Settled, SlotInv, AskedOnce
  <2>3. KeepsHistory
    BY <1>9, <2>1, <2>2 DEF Settled, AdmissionTypes, AdmissionTypeOK
  <2> HIDE DEF KeepsHistory
  <2>4. UNCHANGED <<clock, held, sent, challenge>> /\ \A m \in sent : m.owner # q
    BY <1>1, <1>9 DEF Settled, Admit, replayVars
  <2>5. PICK r : Becomes(q, r) /\ r.stage = "admitted" /\ r.presents = None
    BY <2>1, AdmitEffect
  <2> USE DEF KeepsHistory
  <2> QED BY <1>2, <2>3, <2>4, <2>5, QuietStep
<1>10. CASE NotSettled(q)
  BY <1>10, NotSettledStep
<1>11. CASE Ambiguous(q) \/ Unavailable(q) \/ Cancelled(q)
  BY <1>2, <1>3, <1>11, AnswerEffect, QuietStep DEF Ambiguous, Unavailable, Cancelled, replayVars
<1>12. CASE Meter(q)
  <2>1. c.presents # None => challenge[c.presents] # NotIssued
    BY DEF SlotInv, IssuedFirst
  <2> QED BY <1>1, <1>2, <1>3, <1>12, <2>1, MeterEffect, QuietStep DEF Meter, replayVars
<1> QED BY <1>4, <1>5, <1>6, <1>7, <1>8, <1>9, <1>10, <1>11, <1>12 DEF Gate

LEMMA SlotStep == AdmissionTypes /\ SlotInv /\ [AdmissionNext]_admissionVars => SlotInv'
<1> SUFFICES ASSUME AdmissionTypes, SlotInv, [AdmissionNext]_admissionVars PROVE SlotInv'
  OBVIOUS
<1>1. CASE UNCHANGED admissionVars \/ Tick \/ PlaneChanges
  BY <1>1, SameSlots DEF admissionVars, Tick, PlaneChanges, replayVars
<1>2. ASSUME NEW p \in Replicas, FetchSnapshot(p) \/ ApplySnapshot(p) \/ FetchFails(p)
      PROVE  SlotInv'
  BY <1>2, SameSlots DEF FetchSnapshot, ApplySnapshot, FetchFails, replayVars
<1> QED BY <1>1, <1>2, StoreStep, GateStepSlots DEF AdmissionNext

\* Who asks was granted the slot, which nobody has who was asked for a spent challenge.
LEMMA AskedOfTheUnspent ==
  ASSUME AdmissionTypes, SlotInv, [AdmissionNext]_admissionVars,
         NEW q \in Requests, call[q].stage # "verifying", call'[q].stage = "verifying"
  PROVE  consulted[call[q].presents] \in {"never", "refused"}
<1>1. call \in [Requests -> Calls]
  BY DEF AdmissionTypes, AdmissionTypeOK
<1>2. ASSUME NEW m \in sent, StoreApplies(m) \/ StoreLoses(m) PROVE FALSE
  BY <1>2, StoreStepCalls
<1>3. PICK q2 \in Requests : Gate(q2)
  BY <1>2 DEF AdmissionNext, admissionVars, Tick, PlaneChanges, FetchSnapshot, ApplySnapshot,
              FetchFails, replayVars
<1>4. Consult(q)
  <2>1. PICK r : /\ Becomes(q2, r)
                 /\ r.stage = "served" => Meter(q2)
                 /\ r.stage = "verifying" => Consult(q2)
    BY <1>3, GateStages
  <2> QED BY <1>1, <2>1 DEF Becomes
<1>5. call[q].presents \in Challenges /\ Granted(q, call[q].presents)
  BY <1>4, CallTypes DEF Consult, Placed, Granted
<1>6. ~Spent(call[q].presents)
  BY <1>5 DEF SlotInv, GrantedOnce
<1> QED BY <1>5, <1>6 DEF Spent, AdmissionTypes, AdmissionTypeOK

(***************************************************************************)
(* The facilitator is asked about a challenge once, unless it refused it:  *)
(* Payments::verify with any number of sidecars, requests and challenges,  *)
(* as long as the store answers within a challenge's lifetime.             *)
(***************************************************************************)
THEOREM PaymentSettlesOnce == AdmissionSpec => SettlesOnce
<1>1. AdmissionTypes /\ SlotInv /\ [AdmissionNext]_admissionVars
        => [\A q \in Requests :
              call[q].stage # "verifying" /\ call'[q].stage = "verifying"
                => consulted[call[q].presents] \in {"never", "refused"}]_admissionVars
  BY AskedOfTheUnspent
<1> QED BY <1>1, InitSlots, SlotStep, AdmissionTypesHold, PTL DEF AdmissionSpec, SettlesOnce
-------------------------------------------------------------------------------
(***************************************************************************)
(* Owners.  Who owns a slot still tries the challenge, has failed, or its  *)
(* payment has settled: no request goes on to its verdict with a slot that *)
(* the facilitator refused to fill.                                        *)
(***************************************************************************)
Accounts(q, c) ==
  \/ consulted[c] = "settled"
  \/ call[q].stage = "failed"
  \/ /\ call[q].presents = c
     /\ \/ call[q].stage = "reserving" /\ call[q].answer \in {"ok", "error"}
        \/ call[q].stage = "verifying"
        \/ call[q].stage = "releasing" /\ call[q].answer \in {None, "error"}

OwnersAccount == \A c \in Challenges : held[c].owner # None => Accounts(held[c].owner, c)

\* One request moves, the slots and other challenges do not.
LEMMA OwnerMoves ==
  ASSUME AdmissionTypes, OwnersAccount, NEW q \in Requests, NEW r, Becomes(q, r),
         UNCHANGED held,
         \A c \in Challenges : consulted[c] = "settled" => consulted'[c] = "settled",
         \A c \in Challenges : Accounts(q, c) => Accounts(q, c)'
  PROVE  OwnersAccount'
<1>1. \A q2 \in Requests : q2 # q => call'[q2] = call[q2]
  BY DEF Becomes, AdmissionTypes, AdmissionTypeOK
<1> SUFFICES ASSUME NEW c \in Challenges, held[c].owner # None
             PROVE  Accounts(held[c].owner, c)'
  BY DEF OwnersAccount
<1>2. held[c].owner \in Requests
  BY DEF AdmissionTypes, AdmissionTypeOK
<1>3. Accounts(held[c].owner, c)
  BY DEF OwnersAccount
<1>4. PICK o \in Requests : o = held[c].owner /\ o = held'[c].owner
  BY <1>2
<1>5. Accounts(o, c)'
  <2>1. CASE o = q
    BY <1>3, <1>4, <2>1
  <2>2. CASE o # q
    BY <1>1, <1>3, <1>4, <2>2 DEF Accounts
  <2> QED BY <2>1, <2>2
<1> QED BY <1>4, <1>5

LEMMA GateStepOwners ==
  ASSUME AdmissionTypes, SlotInv, OwnersAccount, NEW q \in Requests, Gate(q)
  PROVE  OwnersAccount'
<1>1. PICK r : /\ Becomes(q, r)
               /\ r.stage = "served" => Meter(q)
               /\ r.stage = "verifying" => Consult(q)
  BY GateStages
<1>2. call'[q] = r
  BY <1>1 DEF Becomes, AdmissionTypes, AdmissionTypeOK
<1>3. UNCHANGED held
  BY DEF Gate, Arrive, ReadQuota, ReadPrice, Consult, AlreadyHeld, Settled, NotSettled,
         Ambiguous, Released, Unavailable, Cancelled, Meter, replayVars
\* A request that owns at most slots of settled payments.
<1>4. CASE Arrive(q) \/ ReadQuota(q) \/ ReadPrice(q) \/ AlreadyHeld(q) \/ Released(q) \/ Meter(q)
  <2>1. UNCHANGED consulted
    BY <1>4 DEF Arrive, ReadQuota, ReadPrice, AlreadyHeld, Released, Meter
  <2>2. \A c \in Challenges : Accounts(q, c) => consulted[c] = "settled"
    BY <1>4 DEF Accounts, Arrive, ReadQuota, ReadPrice, AlreadyHeld, Released, Meter
  <2>3. \A c \in Challenges : Accounts(q, c) => Accounts(q, c)'
    BY <2>1, <2>2 DEF Accounts
  <2> QED BY <1>1, <1>3, <2>1, <2>3, OwnerMoves
<1>5. CASE Ambiguous(q) \/ Unavailable(q) \/ Cancelled(q)
  <2>1. UNCHANGED consulted
    BY <1>5 DEF Ambiguous, Unavailable, Cancelled
  <2>2. call'[q].stage = "failed"
    <3>1. Answer(q, "failed")
      BY <1>5 DEF Ambiguous, Unavailable, Cancelled
    <3>2. PICK s : Becomes(q, s) /\ s.stage = "failed" /\ s.presents = None
      BY <3>1, AnswerEffect
    <3> QED BY <3>2 DEF Becomes, AdmissionTypes, AdmissionTypeOK
  <2>3. \A c \in Challenges : Accounts(q, c) => Accounts(q, c)'
    BY <2>2 DEF Accounts
  <2> QED BY <1>1, <1>3, <2>1, <2>3, OwnerMoves
<1>6. CASE Consult(q) \/ Settled(q) \/ NotSettled(q)
  <2>1. PICK d : d = call[q].presents /\ d \in Challenges
    BY <1>6, CallTypes DEF Consult, Settled, NotSettled, Placed
  <2>2. /\ \A c \in Challenges : c # d => consulted'[c] = consulted[c]
        /\ consulted'[d] = IF Consult(q) THEN "asked" ELSE IF Settled(q) THEN "settled" ELSE "refused"
    BY <1>6, <2>1 DEF Consult, Settled, NotSettled, AdmissionTypes, AdmissionTypeOK
  <2>3. consulted[d] # "settled"
    BY <1>6, <2>1 DEF Consult, Settled, NotSettled, SlotInv, GrantedOnce, AskedOnce, Granted, Spent
  <2>4. \A c \in Challenges : consulted[c] = "settled" => consulted'[c] = "settled"
    BY <2>2, <2>3
  <2>5. \A c \in Challenges : Accounts(q, c) => c = d \/ consulted[c] = "settled"
    BY <1>6, <2>1 DEF Accounts, Consult, Settled, NotSettled
  <2>6. Accounts(q, d)'
    <3>1. CASE Settled(q)
      <4>1. consulted'[d] = "settled"
        BY <2>2, <3>1 DEF Settled, Consult
      <4> QED BY <2>1, <4>1 DEF Accounts
    <3>2. CASE Consult(q)
      <4>1. PICK s : Becomes(q, s) /\ s.stage = "verifying" /\ s.presents = call[q].presents
        BY <3>2, ConsultEffect
      <4>2. call'[q].stage = "verifying" /\ call'[q].presents = d
        BY <2>1, <4>1 DEF Becomes, AdmissionTypes, AdmissionTypeOK
      <4> QED BY <4>2 DEF Accounts
    <3>3. CASE NotSettled(q)
      <4>1. PICK s : /\ Becomes(q, s) /\ s.stage = "releasing" /\ s.presents = call[q].presents
                     /\ s.answer = None
        BY <3>3, NotSettledEffect
      <4>2. call'[q].stage = "releasing" /\ call'[q].presents = d /\ call'[q].answer = None
        BY <2>1, <4>1 DEF Becomes, AdmissionTypes, AdmissionTypeOK
      <4> QED BY <4>2 DEF Accounts
    <3> QED BY <1>6, <3>1, <3>2, <3>3
  <2>7. \A c \in Challenges : Accounts(q, c) => Accounts(q, c)'
    <3> SUFFICES ASSUME NEW c \in Challenges, Accounts(q, c) PROVE Accounts(q, c)'
      OBVIOUS
    <3>1. CASE c = d
      BY <2>6, <3>1
    <3>2. CASE consulted[c] = "settled"
      BY <2>4, <3>2 DEF Accounts
    <3> QED BY <2>5, <3>1, <3>2
  <2> QED BY <1>1, <1>3, <2>4, <2>7, OwnerMoves
<1> QED BY <1>4, <1>5, <1>6 DEF Gate

\* A reservation that takes effect makes its sender the owner, who hears of it or of an error.
LEMMA StoreStepOwners ==
  ASSUME AdmissionTypes, SlotInv, OwnersAccount, NEW m \in sent, StoreApplies(m) \/ StoreLoses(m)
  PROVE  OwnersAccount'
<1>0. PICK o, d : o = m.owner /\ d = m.challenge
  OBVIOUS
<1>1. m \in Operations /\ o \in Requests /\ d \in Challenges /\ UNCHANGED consulted
  BY <1>0 DEF AdmissionTypes, AdmissionTypeOK, Operations, StoreApplies, StoreLoses
<1>2. \A q \in Requests :
        /\ call'[q].stage = call[q].stage /\ call'[q].presents = call[q].presents
        /\ (q # o => call'[q] = call[q])
  BY <1>0, StoreStepCalls
<1>3. Awaits(o, m) \/ call[o].stage = "failed"
  BY <1>0 DEF SlotInv, SentOnce
<1>4. Awaits(o, m) => /\ call'[o].answer = "error" \/ (StoreApplies(m) /\ call'[o].answer = Outcome(m))
  <2> SUFFICES ASSUME Awaits(o, m)
               PROVE  call'[o].answer = "error" \/ (StoreApplies(m) /\ call'[o].answer = Outcome(m))
    OBVIOUS
  <2>1. call[o].stage \in {"reserving", "releasing"}
    BY DEF Awaits
  <2>2. ASSUME NEW a, call' = [call EXCEPT ![o].answer = a] PROVE call'[o].answer = a
    BY <1>1, <2>2, CallTypes DEF Calls
  <2> QED BY <1>0, <2>1, <2>2 DEF StoreApplies, StoreLoses
<1> SUFFICES ASSUME NEW c \in Challenges, held'[c].owner # None
             PROVE  Accounts(held[c].owner, c)'
  BY DEF OwnersAccount
<1>5. CASE held'[c] = held[c] /\ (held[c].owner # o \/ m.op = "reserve" \/ StoreLoses(m) \/ c # d)
  <2>1. PICK q \in Requests : q = held[c].owner /\ q = held'[c].owner
    BY <1>5 DEF AdmissionTypes, AdmissionTypeOK
  <2>2. Accounts(q, c)
    BY <1>5, <2>1 DEF OwnersAccount
  <2>3. CASE q # o \/ call[o].stage = "failed" \/ consulted[c] = "settled"
    <3>1. Accounts(q, c)'
      BY <1>1, <1>2, <2>2, <2>3 DEF Accounts
    <3> QED BY <2>1, <3>1
  <2>4. CASE q = o /\ call[o].stage # "failed" /\ consulted[c] # "settled"
    <3>1. Awaits(o, m) /\ c = d /\ m.op = "release" /\ call[o].stage = "releasing"
      BY <1>0, <1>1, <1>3, <2>2, <2>4 DEF Accounts, Awaits, Operations
    <3>2. StoreLoses(m)
      BY <1>5, <2>1, <2>4, <3>1
    <3>3. call'[o].answer = "error" \/ call'[o].answer = "ok"
      BY <1>4, <3>1 DEF Outcome
    <3>4. call'[o].answer = "error"
      <4>1. call' = [call EXCEPT ![o].answer = "error"]
        BY <1>0, <3>1, <3>2 DEF StoreLoses
      <4> QED BY <1>1, <4>1, CallTypes DEF Calls
    <3>5. Accounts(o, c)'
      BY <1>0, <1>1, <1>2, <3>1, <3>4 DEF Accounts, Awaits
    <3> QED BY <2>1, <2>4, <3>5
  <2> QED BY <2>3, <2>4
<1>6. CASE held'[c] # held[c]
  <2>1. StoreApplies(m) /\ Reserve(m) /\ c = d /\ held'[c].owner = o /\ ~Held(d)
    BY <1>0, <1>1, <1>6 DEF StoreApplies, StoreLoses, Reserve, Release, NotHeld, AdmissionTypes,
                            AdmissionTypeOK
  <2>2. Awaits(o, m) => call'[o].answer \in {"ok", "error"}
    BY <1>0, <1>4, <2>1 DEF Outcome
  <2>3. Accounts(o, c)'
    BY <1>0, <1>1, <1>2, <1>3, <2>1, <2>2 DEF Accounts, Awaits, Reserve
  <2> QED BY <2>1, <2>3
<1>7. CASE held'[c] = held[c] /\ held[c].owner = o /\ m.op = "release" /\ ~StoreLoses(m) /\ c = d
  <2>1. Release(m)
    BY <1>7 DEF StoreApplies, Reserve
  <2> QED BY <1>0, <1>1, <1>7, <2>1 DEF Release, NotHeld, AdmissionTypes, AdmissionTypeOK
<1>8. m.op = "reserve" \/ m.op = "release"
  BY <1>1 DEF Operations
<1> QED BY <1>5, <1>6, <1>7, <1>8

LEMMA OwnerStep ==
  AdmissionTypes /\ SlotInv /\ OwnersAccount /\ [AdmissionNext]_admissionVars => OwnersAccount'
<1> SUFFICES ASSUME AdmissionTypes, SlotInv, OwnersAccount, [AdmissionNext]_admissionVars
             PROVE  OwnersAccount'
  OBVIOUS
<1>1. ASSUME UNCHANGED <<held, call, consulted>> PROVE OwnersAccount'
  BY <1>1 DEF OwnersAccount, Accounts
<1>2. CASE UNCHANGED admissionVars \/ Tick \/ PlaneChanges
  BY <1>1, <1>2 DEF admissionVars, Tick, PlaneChanges, replayVars
<1>3. ASSUME NEW p \in Replicas, FetchSnapshot(p) \/ ApplySnapshot(p) \/ FetchFails(p)
      PROVE  OwnersAccount'
  BY <1>1, <1>3 DEF FetchSnapshot, ApplySnapshot, FetchFails, replayVars
<1> QED BY <1>2, <1>3, StoreStepOwners, GateStepOwners DEF AdmissionNext

(***************************************************************************)
(* A refused proof does not burn its slot: only a request that is still at *)
(* it, or that ended without a verdict, can hold it.  Payments::verify for *)
(* any sidecars, requests, lost and late operations of the store.          *)
(***************************************************************************)
THEOREM RefusalsReleaseTheirSlot == AdmissionSpec => []RefusedProofsAreReleased
<1>1. AdmissionInit => OwnersAccount
  BY DEF AdmissionInit, OwnersAccount, NotHeld
<1>2. AdmissionTypes /\ SlotInv /\ OwnersAccount => RefusedProofsAreReleased
  <2> SUFFICES ASSUME AdmissionTypes, SlotInv, OwnersAccount,
                      NEW c \in Challenges, Held(c), consulted[c] = "refused"
               PROVE  call[held[c].owner].stage \in {"reserving", "releasing", "failed"}
    BY DEF RefusedProofsAreReleased
  <2>1. held[c].owner \in Requests /\ Accounts(held[c].owner, c)
    BY DEF Held, OwnersAccount, AdmissionTypes, AdmissionTypeOK
  <2> QED BY <2>1 DEF Accounts, SlotInv, AskedOnce
<1> QED BY <1>1, <1>2, InitSlots, SlotStep, OwnerStep, AdmissionTypesHold, PTL DEF AdmissionSpec
===============================================================================
