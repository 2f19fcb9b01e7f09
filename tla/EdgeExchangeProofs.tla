--------------------------- MODULE EdgeExchangeProofs ---------------------------
(***************************************************************************)
(* Proofs about one request on its way through the sidecar, for any        *)
(* configurations, requests, keys, prices, limits and numbers of           *)
(* challenges.                                                             *)
(*                                                                         *)
(* Four invariants.  StartInv: what serves was accepted, and what the      *)
(* cache trusts the plane has said.  WayInv: which layers a request has    *)
(* passed, and what they have made of it.  OwnInv: whose call it is.       *)
(* PaidInv: the ledger is a book of genuine challenges, and a request that *)
(* is verified, or went on over its cap, has its entry there.              *)
(***************************************************************************)
EXTENDS EdgeExchange, TLAPS

Beyond == {"metering", "draining", "reading", "forwarded"}
Paying == {"reserving", "consulting", "releasing"}
Stages == {"idle", "collecting", "answered"} \cup Beyond \cup Paying

StartInv ==
  /\ config \in Configs
  /\ process \in {"starting", "serving", "refused"}
  /\ process = "serving" => Valid(config) /\ Builds(config)
  /\ cache.fresh => cache.entries \in Snapshots

Fields ==
  {"stage", "request", "presents", "buffered", "tenant", "call", "quota", "amount", "problem",
   "paid", "executed", "answer"}

PathInv ==
  /\ DOMAIN exchange = Fields
  /\ Stage \in Stages
  /\ Stage = "idle" => exchange = Idle
  /\ Stage # "idle" => Request \in Requests
  /\ Stage \notin {"idle", "answered"} => ~Nominates(Request)
  /\ Stage # "answered" => exchange.answer = None
  /\ Stage \in Beyond => exchange.presents = <<>>
  /\ Stage = "collecting" => ~exchange.buffered /\ config.control_plane # Absent
  /\ Stage \in Paying => exchange.buffered
  /\ exchange.buffered =>
       /\ Resolve(Request) # Refused
       /\ Request.body.size <= GateLimit(config)
       /\ config.control_plane # Absent
  /\ Stage = "forwarded" => exchange.call = Resolve(Request) /\ exchange.call # Refused
  /\ exchange.executed # None => Stage \in {"forwarded", "answered"}
  /\ exchange.paid # None => exchange.buffered /\ Stage \in Beyond \cup {"answered"}

NonceOf(l) == l.challenge.bound.opaque.nonce

\* An entry of the ledger is a challenge this sidecar issued; settled, it stays reserved.
Genuine(l) ==
  /\ DOMAIN l = {"challenge", "tenant", "call", "body", "amount", "at", "settled"}
  /\ l.challenge = Challenge(Issuer, l.amount, l.tenant, l.call, l.body,
                             Later(Start, l.at * TickSeconds), NonceOf(l))
  /\ l.call \in Calls
  /\ l.settled \in {0, 1}
  /\ l.settled = 1 => l.challenge.id \in reserved

Book ==
  /\ \A l \in ledger : Genuine(l)
  /\ \A l, m \in ledger : NonceOf(l) = NonceOf(m) => l = m

Matches(l, credential, e) ==
  /\ l.challenge = credential
  /\ l.tenant = e.tenant /\ l.call = e.call
  /\ l.body = e.request.body /\ l.amount = e.amount

\* What the gate read of the plane and of the request, and what it made of them.
Quoted(e) ==
  e.quota # Absent =>
    /\ e.buffered
    /\ e.call \in Calls /\ e.call = Resolve(e.request)
    /\ e.tenant = e.quota.tenant
    /\ e.amount = PriceFor(e.quota, e.call)
    /\ \E s \in Snapshots :
         PresentedKey(e.request) \in DOMAIN s /\ e.quota = s[PresentedKey(e.request)]

PaymentInv ==
  /\ Stage \in Paying =>
       /\ exchange.amount # Unpriced /\ exchange.quota # Absent
       /\ \E l \in ledger :
            /\ Matches(l, Credential, exchange)
            /\ Stage # "reserving" => l.settled = 0
            /\ Stage = "consulting" => l.challenge.id \in reserved
  /\ (Stage \in Beyond \/ exchange.executed # None)
       /\ exchange.quota # Absent /\ Overdrawn(exchange.quota) =>
       /\ exchange.amount # Unpriced
       /\ \E l \in ledger : Matches(l, exchange.paid, exchange) /\ l.settled = 1

PaidInv == Book /\ exchange.presents \in Presented /\ Quoted(exchange) /\ PaymentInv

-------------------------------------------------------------------------------
(***************************************************************************)
(* What a step makes of the exchange.                                      *)
(***************************************************************************)
Kept(e, names) == \A f \in Fields \ names : exchange'[f] = e[f]

LEMMA AnswerFields ==
  ASSUME DOMAIN exchange = Fields, NEW status, Answer(status)
  PROVE  /\ DOMAIN exchange' = Fields /\ Kept(exchange, {"stage", "answer"})
         /\ exchange'.stage = "answered" /\ exchange'.answer = status
BY DEF Answer, Fields, Kept

LEMMA GoesFields ==
  ASSUME DOMAIN exchange = Fields, NEW stage, Goes(stage)
  PROVE  /\ DOMAIN exchange' = Fields /\ Kept(exchange, {"stage"})
         /\ exchange'.stage = stage
BY DEF Goes, Fields, Kept

\* What is read of the request does not change.
LEMMA SameReadings ==
  ASSUME config' = config, exchange'.request = exchange.request
  PROVE  /\ Resolve(Request)' = Resolve(Request)
         /\ Nominates(Request)' = Nominates(Request)
         /\ GateLimit(config)' = GateLimit(config)
         /\ PresentedKey(Request)' = PresentedKey(Request)
BY DEF Request, Resolve, ClassifyHeaders, Nominates, GateLimit, PresentedKey

\* Quota decides: the call goes on, or it is refused, with a challenge where that can be paid.
LEMMA ByQuotaFields ==
  ASSUME NEW e, DOMAIN e = Fields, NEW problem, ByQuota(e, problem)
  PROVE  /\ DOMAIN exchange' = Fields
         /\ Kept(e, {"stage", "presents", "problem", "answer"})
         /\ \/ /\ exchange'.stage = "metering" /\ exchange'.presents = <<>>
               /\ exchange'.answer = e.answer
               /\ ~OverCap(e) /\ ledger' = ledger
            \/ /\ exchange'.stage = "answered" /\ exchange'.presents = e.presents
               /\ exchange'.answer \in {"402", "429"}
               /\ \/ ledger' = ledger
                  \/ OverCap(e) /\ TakesPayments(config) /\ e.amount # Unpriced /\ Offers(e)
<1>1. CASE ~OverCap(e) /\ exchange' = [[e EXCEPT !.problem = problem] EXCEPT !.stage = "metering", !.presents = <<>>]
            /\ ledger' = ledger
  BY <1>1 DEF Fields, Kept
<1>2. CASE /\ OverCap(e) /\ TakesPayments(config) /\ e.amount # Unpriced
           /\ exchange' = [[e EXCEPT !.problem = problem] EXCEPT !.stage = "answered", !.answer = "402"]
           /\ Offers(e)
  BY <1>2 DEF Fields, Kept
<1>3. CASE /\ exchange' = [[e EXCEPT !.problem = problem] EXCEPT !.stage = "answered", !.answer = "429"]
           /\ ledger' = ledger
  BY <1>3 DEF Fields, Kept
<1> QED BY <1>1, <1>2, <1>3 DEF ByQuota

-------------------------------------------------------------------------------
(***************************************************************************)
(* Configuration and cache.                                                *)
(***************************************************************************)
LEMMA StartStep ==
  ASSUME StartInv, [ExchangeNext]_exchangeVars
  PROVE  StartInv' /\ config' = config
<1>1. config' = config
  BY DEF ExchangeNext, exchangeVars, Serves, FailsToStart, RefreshApplies, GoesStale, Tick, Receive,
     BodyTooLarge, BodyBreaks, BodyDeadline, GateReads, ReserveAnswers, StoreFails, Consults,
     FacilitatorTimesOut, ReleaseAnswers, MeterChecks, Drained, MeterReads, OriginExecutes,
     OriginAnswers, UpstreamFails, HangsUp, Done
<1>2. CASE Serves \/ FailsToStart \/ RefreshApplies \/ GoesStale \/ Tick
  BY <1>1, <1>2 DEF StartInv, Serves, FailsToStart, RefreshApplies, GoesStale, Tick, Cold
<1>3. CASE ~(Serves \/ FailsToStart \/ RefreshApplies \/ GoesStale \/ Tick)
  <2>1. UNCHANGED <<process, cache>>
    BY <1>3 DEF ExchangeNext, exchangeVars, Receive,
       BodyTooLarge, BodyBreaks, BodyDeadline, GateReads, ReserveAnswers, StoreFails, Consults,
       FacilitatorTimesOut, ReleaseAnswers, MeterChecks, Drained, MeterReads, OriginExecutes,
       OriginAnswers, UpstreamFails, HangsUp, Done
  <2> QED BY <1>1, <2>1 DEF StartInv
<1> QED BY <1>1, <1>2, <1>3

LEMMA StartInit == ExchangeInit => StartInv
BY DEF ExchangeInit, StartInv, Cold

\* No two tenants share a key, so the directory has each of them.
LEMMA TenantsKnown ==
  ASSUME NEW c, c.tenants \in Seq(Range(c.tenants)), TenantsResolve(c), NEW i \in DOMAIN c.tenants
  PROVE  Directory(c)[ResolveKey(c.tenants[i])] = c.tenants[i].id
<1> DEFINE key == ResolveKey(c.tenants[i])
           holders == {j \in DOMAIN c.tenants : ResolveKey(c.tenants[j]) = key}
<1>1. DOMAIN c.tenants = 1..Len(c.tenants) /\ Len(c.tenants) \in Nat
  OBVIOUS
<1>2. \A j \in DOMAIN c.tenants : ResolveKey(c.tenants[j]) = key => j = i
  <2> SUFFICES ASSUME NEW j \in DOMAIN c.tenants, ResolveKey(c.tenants[j]) = key, j # i
               PROVE  FALSE
    OBVIOUS
  <2>1. j \in 1..(i - 1) \/ i \in 1..(j - 1)
    BY <1>1
  <2>2. \A m \in DOMAIN c.tenants : \A k \in 1..(m - 1) :
          ResolveKey(c.tenants[m]) # ResolveKey(c.tenants[k])
    BY DEF TenantsResolve
  <2> QED BY <2>1, <2>2
<1>3. holders = {i}
  BY <1>2
<1>4. (CHOOSE j \in holders : \A k \in holders : k <= j) = i
  BY <1>1, <1>3
<1>5. key \in {ResolveKey(t) : t \in Range(c.tenants)}
  BY DEF Range
<1> QED BY <1>4, <1>5 DEF Directory

-------------------------------------------------------------------------------
(***************************************************************************)
(* The way of an exchange: which layers it has passed, and what they have  *)
(* made of it.  Whatever was priced at the gate was read there, within the *)
(* meter's own limit and with the meter's own eyes: this is why the meter  *)
(* has nothing left to refuse of a call that has been paid for.            *)
(***************************************************************************)
WayInv == PathInv /\ RefusedCallsStopHere

LEMMA SameLimits ==
  ASSUME Stage \in {"collecting", "reading"}
  PROVE  BodyLimit = GateLimit(config)
BY DEF BodyLimit, GateLimit, MeterLimit

\* An answer ends the way.  A refusal must come before the origin, and before the payment.
LEMMA WayAnswers ==
  ASSUME WayInv, config' = config, NEW status, Answer(status), Stage # "idle",
         \/ status \notin Refusals
         \/ exchange.executed = None /\ (exchange.paid # None => status \in {"401", "429"})
  PROVE  WayInv'
<1>1. /\ DOMAIN exchange' = Fields /\ Kept(exchange, {"stage", "answer"})
      /\ exchange'.stage = "answered" /\ exchange'.answer = status
  BY AnswerFields DEF WayInv, PathInv
<1>2. Resolve(Request)' = Resolve(Request) /\ GateLimit(config)' = GateLimit(config)
  BY <1>1, SameReadings DEF Kept, Fields
<1>3. PathInv'
  BY <1>1, <1>2 DEF WayInv, PathInv, Kept, Fields, Stages, Beyond, Paying, Stage, Request
<1>4. RefusedCallsStopHere'
  BY <1>1 DEF RefusedCallsStopHere, Kept, Fields
<1> QED BY <1>3, <1>4 DEF WayInv

\* Quota decides over an exchange that has been read and appraised.
LEMMA WayByQuota ==
  ASSUME WayInv, config' = config, NEW e, DOMAIN e = Fields, NEW problem, ByQuota(e, problem),
         e.request = exchange.request, ~Nominates(Request), Request \in Requests,
         e.answer = None, e.paid = None, e.executed = None, e.buffered = TRUE,
         Resolve(Request) # Refused, Request.body.size <= GateLimit(config),
         config.control_plane # Absent
  PROVE  WayInv'
<1>1. /\ DOMAIN exchange' = Fields
      /\ Kept(e, {"stage", "presents", "problem", "answer"})
      /\ \/ exchange'.stage = "metering" /\ exchange'.presents = <<>> /\ exchange'.answer = e.answer
         \/ exchange'.stage = "answered" /\ exchange'.answer \in {"402", "429"}
  BY ByQuotaFields
<1>2. /\ Resolve(Request)' = Resolve(Request) /\ GateLimit(config)' = GateLimit(config)
      /\ Nominates(Request)' = Nominates(Request)
  BY <1>1, SameReadings DEF Kept, Fields
<1>3. /\ exchange'.request = Request /\ exchange'.paid = None /\ exchange'.executed = None
      /\ exchange'.buffered = TRUE
  BY <1>1 DEF Kept, Fields, Request
<1>4. PathInv'
  BY <1>1, <1>2, <1>3 DEF PathInv, Fields, Stages, Beyond, Paying, Stage, Request
<1>5. RefusedCallsStopHere'
  BY <1>3 DEF RefusedCallsStopHere
<1> QED BY <1>4, <1>5 DEF WayInv

LEMMA WayReceives ==
  ASSUME WayInv, config' = config, NEW r \in Requests, NEW presents, Receive(r, presents)
  PROVE  WayInv'
<1>1. \/ \E status : exchange' = [Idle EXCEPT !.stage = "answered", !.request = r, !.answer = status]
      \/ /\ ~Nominates(r) /\ Gated(r)
         /\ exchange' = [Idle EXCEPT !.stage = "collecting", !.request = r, !.presents = presents]
      \/ /\ ~Nominates(r)
         /\ exchange' = [Idle EXCEPT !.stage = "metering", !.request = r]
  BY DEF Receive
<1>2. /\ DOMAIN exchange' = Fields /\ exchange'.request = r
      /\ exchange'.executed = None /\ exchange'.paid = None /\ exchange'.buffered = FALSE
  BY <1>1 DEF Idle, Fields
<1>3. \/ exchange'.stage = "answered"
      \/ /\ exchange'.stage = "collecting" /\ exchange'.answer = None
         /\ ~Nominates(r) /\ Gated(r)
      \/ /\ exchange'.stage = "metering" /\ exchange'.answer = None /\ exchange'.presents = <<>>
         /\ ~Nominates(r)
  BY <1>1 DEF Idle
<1>4. Gated(r) => config.control_plane # Absent
  BY DEF Gated, EnforcesQuota
<1>5. Nominates(r) = Nominates(Request)'
  BY <1>2 DEF Nominates, Request
<1>6. PathInv'
  BY <1>2, <1>3, <1>4, <1>5 DEF PathInv, Stages, Beyond, Paying, Stage, Request
<1>7. RefusedCallsStopHere'
  BY <1>2 DEF RefusedCallsStopHere
<1> QED BY <1>6, <1>7 DEF WayInv

LEMMA WayGate ==
  ASSUME WayInv, config' = config, GateReads
  PROVE  WayInv'
<1>1. /\ Stage = "collecting" /\ Request.body.size <= GateLimit(config)
      /\ DOMAIN exchange = Fields /\ Request \in Requests /\ ~Nominates(Request)
      /\ exchange.answer = None /\ exchange.executed = None /\ exchange.paid = None
      /\ config.control_plane # Absent
  BY SameLimits DEF GateReads, WayInv, PathInv, Beyond
<1>2. CASE Answer("400")
  BY <1>1, <1>2, WayAnswers
<1>3. CASE /\ Resolve(Request) # Refused
           /\ exchange' = [exchange EXCEPT !.stage = "metering", !.buffered = TRUE, !.presents = <<>>]
  <2>1. /\ DOMAIN exchange' = Fields /\ Kept(exchange, {"stage", "buffered", "presents"})
        /\ exchange'.stage = "metering" /\ exchange'.buffered = TRUE /\ exchange'.presents = <<>>
    BY <1>1, <1>3 DEF Kept, Fields
  <2>2. /\ Resolve(Request)' = Resolve(Request) /\ GateLimit(config)' = GateLimit(config)
        /\ Nominates(Request)' = Nominates(Request)
    BY <2>1, SameReadings DEF Kept, Fields
  <2>3. /\ exchange'.request = Request /\ exchange'.paid = None /\ exchange'.executed = None
        /\ exchange'.answer = None
    BY <1>1, <2>1 DEF Kept, Fields, Request
  <2> QED BY <1>1, <1>3, <2>1, <2>2, <2>3
          DEF WayInv, PathInv, RefusedCallsStopHere, Stages, Beyond, Paying, Stage, Request
<1>4. CASE Resolve(Request) # Refused /\ Decides(Appraised(Resolve(Request)))
  <2> DEFINE e == Appraised(Resolve(Request))
  <2>1. e = Appraised(Resolve(Request))
    OBVIOUS
  <2> HIDE DEF e
  <2>2. /\ DOMAIN e = Fields /\ e.request = exchange.request /\ e.answer = None /\ e.paid = None
        /\ e.executed = None /\ e.buffered = TRUE
    BY <1>1, <2>1 DEF Appraised, Fields
  <2>3. CASE \E problem : ByQuota(e, problem)
    BY <1>1, <1>4, <2>2, <2>3, WayByQuota
  <2>4. CASE exchange' = [e EXCEPT !.stage = "reserving"]
    <3>1. /\ DOMAIN exchange' = Fields /\ Kept(e, {"stage"}) /\ exchange'.stage = "reserving"
      BY <2>2, <2>4 DEF Kept, Fields
    <3>2. /\ exchange'.request = Request /\ exchange'.paid = None /\ exchange'.executed = None
          /\ exchange'.answer = None /\ exchange'.buffered = TRUE
      BY <2>2, <3>1 DEF Kept, Fields, Request
    <3>3. /\ Resolve(Request)' = Resolve(Request) /\ GateLimit(config)' = GateLimit(config)
          /\ Nominates(Request)' = Nominates(Request)
      BY <3>2, SameReadings DEF Request
    <3> QED BY <1>1, <1>4, <3>1, <3>2, <3>3
            DEF WayInv, PathInv, RefusedCallsStopHere, Stages, Beyond, Paying, Stage, Request
  <2> QED BY <1>4, <2>1, <2>3, <2>4 DEF Decides
<1> QED BY <1>2, <1>3, <1>4 DEF GateReads


\* The steps that leave the way as it is, but for stage and what the names say.
LEMMA WayMoves ==
  ASSUME WayInv, config' = config, Stage \notin {"idle", "answered"},
         DOMAIN exchange' = Fields, exchange'.request = exchange.request,
         exchange'.buffered = exchange.buffered, exchange'.answer = exchange.answer,
         exchange'.stage \in Stages \ {"idle", "answered", "collecting"},
         exchange'.stage \in Beyond => exchange'.presents = <<>>,
         exchange'.stage \in Paying => exchange.buffered,
         exchange'.stage = "forwarded" =>
           exchange'.call = Resolve(Request) /\ exchange'.call # Refused,
         exchange'.executed # None => exchange'.stage = "forwarded",
         exchange'.paid # None => exchange.buffered /\ exchange'.stage \in Beyond
  PROVE  WayInv'
<1>1. /\ Resolve(Request)' = Resolve(Request) /\ GateLimit(config)' = GateLimit(config)
      /\ Nominates(Request)' = Nominates(Request)
  BY SameReadings
<1>2. exchange.answer = None
  BY DEF WayInv, PathInv
<1>3. PathInv'
  BY <1>1, <1>2 DEF WayInv, PathInv, Stage, Request
<1>4. RefusedCallsStopHere'
  BY <1>2, ExchangeAssumption DEF RefusedCallsStopHere
<1> QED BY <1>3, <1>4 DEF WayInv

LEMMA WayPays ==
  ASSUME WayInv, config' = config, ReserveAnswers \/ Consults \/ ReleaseAnswers \/ StoreFails
  PROVE  WayInv'
<1>1. /\ Stage \in Paying /\ DOMAIN exchange = Fields /\ exchange.buffered = TRUE
      /\ exchange.paid = None /\ exchange.executed = None /\ exchange.answer = None
      /\ Resolve(Request) # Refused /\ Request.body.size <= GateLimit(config)
      /\ Request \in Requests /\ ~Nominates(Request) /\ config.control_plane # Absent
      /\ exchange.buffered \in BOOLEAN
  BY DEF ReserveAnswers, Consults, ReleaseAnswers, StoreFails, WayInv, PathInv, Beyond, Paying
<1>2. CASE \E problem : ByQuota(exchange, problem)
  BY <1>1, <1>2, WayByQuota DEF Request
<1>3. CASE Answer("503")
  BY <1>1, <1>3, WayAnswers DEF Paying
<1>4. CASE Goes("consulting")
  <2>1. /\ DOMAIN exchange' = Fields /\ exchange'.stage = "consulting"
        /\ Kept(exchange, {"stage"})
    BY <1>1, <1>4, GoesFields
  <2> QED BY <1>1, <2>1, WayMoves DEF Kept, Fields, Stages, Beyond, Paying
<1>5. CASE exchange' = [exchange EXCEPT !.stage = "metering", !.presents = <<>>, !.paid = Credential]
  <2>1. /\ DOMAIN exchange' = Fields /\ exchange'.stage = "metering" /\ exchange'.presents = <<>>
        /\ Kept(exchange, {"stage", "presents", "paid"})
    BY <1>1, <1>5 DEF Kept, Fields
  <2> QED BY <1>1, <2>1, WayMoves DEF Kept, Fields, Stages, Beyond, Paying
<1>6. ASSUME NEW problem,
             exchange' = [exchange EXCEPT !.stage = "releasing", !.problem = problem]
      PROVE  WayInv'
  <2>1. /\ DOMAIN exchange' = Fields /\ exchange'.stage = "releasing"
        /\ Kept(exchange, {"stage", "problem"})
    BY <1>1, <1>6 DEF Kept, Fields
  <2> QED BY <1>1, <2>1, WayMoves DEF Kept, Fields, Stages, Beyond, Paying
<1> QED BY <1>2, <1>3, <1>4, <1>5, <1>6 DEF ReserveAnswers, Consults, ReleaseAnswers, StoreFails

\* The meter finds nothing to refuse in what the gate has read, but the key.
LEMMA WayMeters ==
  ASSUME StartInv, WayInv, config' = config, MeterChecks \/ Drained \/ MeterReads
  PROVE  WayInv'
<1>1. /\ Stage \in {"metering", "draining", "reading"} /\ DOMAIN exchange = Fields
      /\ exchange.executed = None /\ exchange.presents = <<>>
      /\ exchange.paid # None => exchange.buffered
      /\ exchange.buffered =>
           Resolve(Request) # Refused /\ Request.body.size <= GateLimit(config)
  BY DEF MeterChecks, Drained, MeterReads, WayInv, PathInv, Beyond
<1>2. ASSUME NEW status, Answer(status), exchange.paid # None => status \in {"401", "429"}
      PROVE  WayInv'
  BY <1>1, <1>2, WayAnswers
<1>3. CASE MeterChecks
  <2>1. ClassifyHeaders(Request) = Refused => Resolve(Request) = Refused
    BY ExchangeAssumption DEF Resolve
  <2>2. CASE ClassifyHeaders(Request) = Refused /\ Answer("400")
    BY <1>1, <1>2, <2>1, <2>2
  <2>3. CASE \E status \in Unauthorized : Answer(status)
    BY <1>2, <2>3 DEF Unauthorized
  <2>4. ASSUME NEW tenant, exchange' = [exchange EXCEPT !.stage = "draining", !.tenant = tenant]
        PROVE  WayInv'
    <3>1. /\ DOMAIN exchange' = Fields /\ exchange'.stage = "draining"
          /\ Kept(exchange, {"stage", "tenant"})
      BY <1>1, <2>4 DEF Kept, Fields
    <3> QED BY <1>1, <3>1, WayMoves DEF Kept, Fields, Stages, Beyond, Paying
  <2> QED BY <1>3, <2>2, <2>3, <2>4 DEF MeterChecks
<1>4. CASE Drained
  <2>1. /\ DOMAIN exchange' = Fields /\ exchange'.stage = "reading"
        /\ Kept(exchange, {"stage"})
    BY <1>1, <1>4, GoesFields DEF Drained
  <2> QED BY <1>1, <2>1, WayMoves DEF Kept, Fields, Stages, Beyond, Paying
<1>5. CASE MeterReads
  <2>1. Stage = "reading" /\ BodyLimit = GateLimit(config)
    BY <1>5, SameLimits DEF MeterReads
  <2>2. CASE Request.body.size > BodyLimit /\ Answer("413")
    <3>1. ~exchange.buffered
      <4>1. Request.body.size \in Nat /\ GateLimit(config) \in Nat
        BY <1>1, ExchangeAssumption
           DEF WayInv, PathInv, StartInv, GateLimit, OrDefault, DefaultMaxBody
      <4> QED BY <1>1, <2>1, <2>2, <4>1
    <3> QED BY <1>1, <1>2, <2>2, <3>1
  <2>3. CASE Resolve(Request) = Refused /\ Answer("400")
    BY <1>1, <1>2, <2>3
  <2>4. CASE Resolve(Request) # Refused
             /\ exchange' = [exchange EXCEPT !.stage = "forwarded", !.call = Resolve(Request)]
    <3>1. /\ DOMAIN exchange' = Fields /\ exchange'.stage = "forwarded"
          /\ exchange'.call = Resolve(Request) /\ Kept(exchange, {"stage", "call"})
      BY <1>1, <2>4 DEF Kept, Fields
    <3> QED BY <1>1, <2>4, <3>1, WayMoves DEF Kept, Fields, Stages, Beyond, Paying
  <2> QED BY <1>5, <2>2, <2>3, <2>4 DEF MeterReads
<1> QED BY <1>3, <1>4, <1>5

LEMMA WayStep ==
  ASSUME StartInv, WayInv, [ExchangeNext]_exchangeVars
  PROVE  WayInv'
<1>1. config' = config
  BY StartStep
<1>2. ASSUME UNCHANGED exchange PROVE WayInv'
  <2>1. /\ Resolve(Request)' = Resolve(Request) /\ GateLimit(config)' = GateLimit(config)
        /\ Nominates(Request)' = Nominates(Request)
    BY <1>1, <1>2, SameReadings
  <2> QED BY <1>1, <1>2, <2>1 DEF WayInv, PathInv, RefusedCallsStopHere, Stage, Request, Idle
<1>3. CASE BodyTooLarge \/ BodyBreaks \/ BodyDeadline \/ FacilitatorTimesOut
  <2>1. /\ Stage # "idle" /\ exchange.executed = None /\ exchange.paid = None
        /\ \E status : Answer(status)
    BY <1>3 DEF BodyTooLarge, BodyBreaks, BodyDeadline, FacilitatorTimesOut, AwaitsBody, WayInv,
                PathInv, Beyond, Paying
  <2> QED BY <1>1, <2>1, WayAnswers
<1>4. CASE OriginAnswers \/ UpstreamFails \/ HangsUp
  <2>1. Stage # "idle" /\ \E status : Answer(status) /\ status \notin Refusals
    BY <1>4 DEF OriginAnswers, UpstreamFails, HangsUp, Refusals
  <2> QED BY <1>1, <2>1, WayAnswers
<1>5. CASE OriginExecutes
  <2>1. /\ Stage = "forwarded" /\ DOMAIN exchange = Fields
        /\ exchange.call = Resolve(Request) /\ exchange.call # Refused
        /\ exchange.presents = <<>>
        /\ exchange.paid # None => exchange.buffered
    BY <1>5 DEF OriginExecutes, WayInv, PathInv, Beyond
  <2>2. DOMAIN exchange' = Fields /\ Kept(exchange, {"executed"})
    BY <1>5, <2>1 DEF OriginExecutes, Kept, Fields
  <2>3. exchange'.stage = "forwarded"
    BY <2>1, <2>2 DEF Kept, Fields, Stage
  <2> QED BY <1>1, <2>1, <2>2, <2>3, WayMoves DEF Kept, Fields, Stages, Beyond, Paying
<1>6. CASE Done
  BY <1>6, ExchangeAssumption DEF Done, WayInv, PathInv, RefusedCallsStopHere, Idle, Fields, Stages,
          Beyond, Paying, Stage
<1>7. CASE Serves \/ FailsToStart \/ RefreshApplies \/ GoesStale \/ Tick \/ UNCHANGED exchangeVars
  BY <1>2, <1>7 DEF Serves, FailsToStart, RefreshApplies, GoesStale, Tick, exchangeVars
<1> QED BY <1>1, <1>3, <1>4, <1>5, <1>6, <1>7, WayReceives, WayGate, WayPays, WayMeters
        DEF ExchangeNext

LEMMA WayInit == ExchangeInit => WayInv
BY ExchangeAssumption DEF ExchangeInit, WayInv, PathInv, RefusedCallsStopHere, Idle, Fields, Stages, Beyond,
   Paying, Stage

LEMMA WayAlways == ExchangeSpec => [](StartInv /\ WayInv)
BY StartInit, StartStep, WayInit, WayStep, PTL DEF ExchangeSpec

(***************************************************************************)
(* What the sidecar refuses, the origin never executed; and a call that    *)
(* has been paid for is refused only when its key is no longer known       *)
(* (AdmissionService::call, MeterService::call, TransportLayer).           *)
(***************************************************************************)
THEOREM RefusalsStopCalls == ExchangeSpec => []RefusedCallsStopHere
BY WayAlways, PTL DEF WayInv

-------------------------------------------------------------------------------
(***************************************************************************)
(* The tenant a call is charged to.                                        *)
(***************************************************************************)
Metered == {"draining", "reading", "forwarded"}

\* Past the meter's check, the tenant is who the directory knows the key as.
OwnInv ==
  /\ Stage # "idle" => process = "serving"
  /\ config.control_plane = Absent /\ (Stage \in Metered \/ exchange.executed # None) =>
       /\ PresentedKey(Request) \in DOMAIN Directory(config)
       /\ exchange.tenant = Directory(config)[PresentedKey(Request)]

LEMMA OwnServes ==
  ASSUME OwnInv, [ExchangeNext]_exchangeVars
  PROVE  Stage' # "idle" => process' = "serving"
<1>1. CASE Serves \/ FailsToStart \/ RefreshApplies \/ GoesStale \/ Tick
  BY <1>1 DEF OwnInv, Serves, FailsToStart, RefreshApplies, GoesStale, Tick, Stage
<1>2. CASE \E r \in Requests : \E presents \in Presented : Receive(r, presents)
  BY <1>2 DEF Receive
<1>3. CASE UNCHANGED exchangeVars
  BY <1>3 DEF OwnInv, exchangeVars, Stage
<1>4. CASE BodyTooLarge \/ BodyBreaks \/ BodyDeadline \/ GateReads \/ ReserveAnswers \/ StoreFails
             \/ Consults \/ FacilitatorTimesOut \/ ReleaseAnswers \/ MeterChecks \/ Drained
             \/ MeterReads \/ OriginExecutes \/ OriginAnswers \/ UpstreamFails \/ HangsUp \/ Done
  <2>1. process' = process /\ Stage # "idle"
    BY <1>4 DEF BodyTooLarge, BodyBreaks, BodyDeadline, AwaitsBody, GateReads, ReserveAnswers,
       StoreFails, Consults, FacilitatorTimesOut, ReleaseAnswers, MeterChecks, Drained, MeterReads,
       OriginExecutes, OriginAnswers, UpstreamFails, HangsUp, Done
  <2> QED BY <2>1 DEF OwnInv
<1> QED BY <1>1, <1>2, <1>3, <1>4 DEF ExchangeNext

LEMMA OwnStep ==
  ASSUME StartInv, WayInv, OwnInv, [ExchangeNext]_exchangeVars
  PROVE  OwnInv'
<1>1. config' = config /\ DOMAIN exchange = Fields
  BY StartStep DEF WayInv, PathInv
<1> SUFFICES ASSUME config.control_plane = Absent, Stage' \in Metered \/ exchange'.executed # None
             PROVE  /\ PresentedKey(Request)' \in DOMAIN Directory(config)
                    /\ exchange'.tenant = Directory(config)[PresentedKey(Request)']
  <2>1. Directory(config)' = Directory(config)
    BY <1>1 DEF Directory
  <2> QED BY <1>1, <2>1, OwnServes DEF OwnInv
<1>2. Stage \notin {"collecting"} \cup Paying
  BY DEF WayInv, PathInv
<1>3. exchange.executed # None => Stage \in Metered \cup {"answered"}
  BY DEF WayInv, PathInv, Metered
<1>4. ASSUME Kept(exchange, {"stage", "answer", "call", "executed"}),
             Stage \in Metered \/ exchange.executed # None
      PROVE  /\ PresentedKey(Request)' \in DOMAIN Directory(config)
             /\ exchange'.tenant = Directory(config)[PresentedKey(Request)']
  BY <1>1, <1>4 DEF OwnInv, Kept, Fields, PresentedKey, Request
<1>5. ASSUME NEW status, Answer(status)
      PROVE  /\ PresentedKey(Request)' \in DOMAIN Directory(config)
             /\ exchange'.tenant = Directory(config)[PresentedKey(Request)']
  <2>1. Kept(exchange, {"stage", "answer"}) /\ Stage' = "answered"
    BY <1>1, <1>5, AnswerFields DEF Stage
  <2>2. exchange.executed # None
    BY <2>1 DEF Kept, Fields, Metered
  <2> QED BY <1>4, <2>1, <2>2 DEF Kept
<1>6. CASE exchange' = exchange
  BY <1>4, <1>6 DEF Kept, Stage
<1>7. CASE \E r \in Requests : \E presents \in Presented : Receive(r, presents)
  BY <1>7 DEF Receive, Idle, Stage, Metered
<1>8. CASE MeterChecks
  <2>1. CASE \E status : Answer(status)
    BY <1>5, <2>1
  <2>2. CASE /\ exchange' = [exchange EXCEPT !.stage = "draining",
                                             !.tenant = Authenticate(PresentedKey(Request))]
             /\ Authenticate(PresentedKey(Request)) # Absent
    <3>1. /\ exchange'.request = exchange.request
          /\ exchange'.tenant = Authenticate(PresentedKey(Request))
      BY <1>1, <2>2 DEF Fields
    <3>2. PresentedKey(Request)' = PresentedKey(Request)
      BY <3>1 DEF PresentedKey, Request
    <3> QED BY <2>2, <3>1, <3>2 DEF Authenticate
  <2> QED BY <1>8, <2>1, <2>2 DEF MeterChecks
<1>9. CASE Drained
  <2>1. Kept(exchange, {"stage"}) /\ Stage \in Metered
    BY <1>1, <1>9, GoesFields DEF Drained, Metered
  <2> QED BY <1>4, <2>1 DEF Kept
<1>10. CASE MeterReads
  <2>1. CASE exchange' = [exchange EXCEPT !.stage = "forwarded", !.call = Resolve(Request)]
    <3>1. Kept(exchange, {"stage", "call"}) /\ Stage \in Metered
      BY <1>1, <1>10, <2>1 DEF MeterReads, Metered, Kept, Fields
    <3> QED BY <1>4, <3>1 DEF Kept
  <2> QED BY <1>5, <1>10, <2>1 DEF MeterReads
<1>11. CASE OriginExecutes
  <2>1. Kept(exchange, {"executed"}) /\ Stage \in Metered
    BY <1>1, <1>11 DEF OriginExecutes, Metered, Kept, Fields
  <2> QED BY <1>4, <2>1 DEF Kept
<1>12. CASE Done
  BY <1>12 DEF Done, Idle, Stage, Metered
<1>13. CASE BodyTooLarge \/ BodyBreaks \/ BodyDeadline \/ OriginAnswers \/ UpstreamFails \/ HangsUp
  BY <1>5, <1>13 DEF BodyTooLarge, BodyBreaks, BodyDeadline, OriginAnswers, UpstreamFails, HangsUp
<1>14. CASE GateReads \/ ReserveAnswers \/ StoreFails \/ Consults \/ FacilitatorTimesOut
              \/ ReleaseAnswers
  BY <1>2, <1>14 DEF GateReads, ReserveAnswers, StoreFails, Consults, FacilitatorTimesOut,
     ReleaseAnswers, Paying
<1>15. CASE Serves \/ FailsToStart \/ RefreshApplies \/ GoesStale \/ Tick \/ UNCHANGED exchangeVars
  BY <1>6, <1>15 DEF Serves, FailsToStart, RefreshApplies, GoesStale, Tick, exchangeVars
<1> QED BY <1>7, <1>8, <1>9, <1>10, <1>11, <1>12, <1>13, <1>14, <1>15 DEF ExchangeNext

LEMMA OwnInit == ExchangeInit => OwnInv
BY DEF ExchangeInit, OwnInv, Idle, Stage, Metered

(***************************************************************************)
(* Whatever entries a static configuration has, and wherever each has its  *)
(* key from: a call is executed in the name of all that hold its key, who  *)
(* are one tenant (resolve_tenants, InMemoryTenantStore::authenticate).    *)
(***************************************************************************)
THEOREM CallsHaveOneOwner == ExchangeSpec => []TenantsPayForTheirOwnCalls
<1>1. StartInv /\ WayInv /\ OwnInv => TenantsPayForTheirOwnCalls
  <2> DEFINE key == PresentedKey(Request)
             holders == {t \in Range(config.tenants) : ResolveKey(t) = key}
  <2> SUFFICES ASSUME StartInv, WayInv, OwnInv,
                      exchange.executed # None, config.control_plane = Absent
               PROVE  {t.id : t \in holders} = {exchange.tenant}
    BY DEF TenantsPayForTheirOwnCalls
  <2>1. key \in DOMAIN Directory(config) /\ exchange.tenant = Directory(config)[key]
    BY DEF OwnInv
  <2>2. process = "serving"
    BY DEF WayInv, PathInv, OwnInv
  <2>3. TenantsResolve(config) /\ config.tenants \in Seq(Range(config.tenants))
    BY <2>2, ExchangeAssumption DEF StartInv, Builds, TenantSourceBuilds
  <2>4. PICK holder \in Range(config.tenants) : ResolveKey(holder) = key
    BY <2>1 DEF Directory
  <2>5. ASSUME NEW t \in holders PROVE t.id = exchange.tenant
    <3>1. PICK i \in DOMAIN config.tenants : config.tenants[i] = t
      BY DEF Range
    <3>2. Directory(config)[ResolveKey(config.tenants[i])] = config.tenants[i].id
      BY <2>3, TenantsKnown
    <3> QED BY <2>1, <3>1, <3>2
  <2> QED BY <2>4, <2>5
<1>2. StartInv /\ WayInv /\ OwnInv /\ [ExchangeNext]_exchangeVars => OwnInv'
  BY OwnStep
<1> QED BY <1>1, <1>2, OwnInit, WayAlways, PTL DEF ExchangeSpec

-------------------------------------------------------------------------------
(***************************************************************************)
(* What the origin executes.  It reads the body; the meter read the        *)
(* headers when the declared revision obliges an origin to compare them    *)
(* with the body, and no header it compares can have been taken away.      *)
(***************************************************************************)
\* A name that a header spells, literally or encoded, is read as that name.
LEMMA MirrorsAreRead ==
  ASSUME NEW header \in HeaderCalls, NEW call \in Calls, Mirrors(header, call)
  PROVE  ProtocolHeaders(header) \in {call, Refused}
<1>1. /\ header = [method |-> header.method, name |-> header.name]
      /\ call = [method |-> call.method, name |-> call.name]
      /\ call.name \in Names \cup {NoName}
      /\ header.name \in Names \cup {NoName, Garbled} \cup [encoded : Names \cup {Garbled}]
  BY DEF HeaderCalls, Calls
<1>2. header.method = call.method /\ DecodedName(header.name) = call.name
  <2>1. CASE header = call
    BY <1>1, <2>1, ExchangeAssumption DEF DecodedName
  <2>2. CASE header = [call EXCEPT !.name = Sentinel(call.name)]
    <3>1. header.method = call.method /\ header.name = [encoded |-> call.name]
      BY <1>1, <2>2 DEF Sentinel
    <3>2. header.name \in [encoded : Names \cup {Garbled}]
      <4> DEFINE literal == Names \cup {NoName, Garbled}
      <4>1. literal \cap [encoded : literal] = {}
        BY ExchangeAssumption
      <4>2. [encoded |-> call.name] \in [encoded : literal]
        BY <1>1
      <4>3. header.name \notin literal
        BY <3>1, <4>1, <4>2
      <4> QED BY <1>1, <4>3
    <3> QED BY <3>1, <3>2 DEF DecodedName
  <2> QED BY <2>1, <2>2 DEF Mirrors
<1>3. [header EXCEPT !.name = DecodedName(header.name)] = call
  BY <1>1, <1>2
<1> QED BY <1>3 DEF ProtocolHeaders

LEMMA PricedIsMade ==
  ASSUME NEW r \in Requests, ~Nominates(r), Resolve(r) # Refused,
         r.revision = "validated" => r.body.kind = "call" /\ Mirrors(r.header, r.body.call)
  PROVE  Resolve(r) = Makes(r.body)
<1>1. r.header \in HeaderCalls /\ r.body.call \in Calls
  BY ExchangeAssumption
<1>2. FromBody \notin Calls /\ FromBody # Refused
  BY ExchangeAssumption
<1>3. CASE r.revision = "validated"
  <2>1. ClassifyHeaders(r) \in {r.body.call, Refused} /\ Makes(r.body) = r.body.call
    BY <1>1, <1>3, MirrorsAreRead DEF ClassifyHeaders, Makes
  <2>2. ClassifyHeaders(r) # FromBody
    BY <1>1, <1>2, <2>1
  <2> QED BY <2>1, <2>2 DEF Resolve
<1>4. CASE r.revision # "validated"
  <2>1. ClassifyHeaders(r) \in {FromBody, Refused}
    BY <1>4 DEF ClassifyHeaders
  <2>2. ClassifyHeaders(r) = FromBody
    BY <1>2, <2>1 DEF Resolve
  <2>3. CASE r.http = "GET"
    BY <2>2, <2>3 DEF Resolve, Makes
  <2>4. CASE r.http # "GET"
    BY <2>2, <2>4 DEF Resolve, Makes
  <2> QED BY <2>3, <2>4
<1> QED BY <1>3, <1>4

LEMMA OnlyTheOriginExecutes ==
  ASSUME WayInv, [ExchangeNext]_exchangeVars, ~OriginExecutes
  PROVE  exchange'.executed \in {exchange.executed, None}
<1>1. DOMAIN exchange = Fields
  BY DEF WayInv, PathInv
<1>2. ASSUME NEW status, Answer(status) PROVE exchange'.executed = exchange.executed
  BY <1>1, <1>2, AnswerFields DEF Kept, Fields
<1>3. ASSUME NEW stage, Goes(stage) PROVE exchange'.executed = exchange.executed
  BY <1>1, <1>3, GoesFields DEF Kept, Fields
<1>4. ASSUME NEW e, DOMAIN e = Fields, NEW problem, ByQuota(e, problem)
      PROVE  exchange'.executed = e.executed
  BY <1>4, ByQuotaFields DEF Kept, Fields
<1>5. ASSUME NEW r, NEW presents, Receive(r, presents) PROVE exchange'.executed = None
  BY <1>5 DEF Receive, Idle
<1>6. CASE GateReads
  <2>1. ASSUME NEW call, Decides(Appraised(call)) PROVE exchange'.executed = exchange.executed
    <3> DEFINE e == Appraised(call)
    <3>1. DOMAIN e = Fields /\ e.executed = exchange.executed
      BY <1>1 DEF Appraised, Fields
    <3>2. exchange' = [e EXCEPT !.stage = "reserving"] \/ \E problem : ByQuota(e, problem)
      BY <2>1 DEF Decides
    <3> HIDE DEF e
    <3> QED BY <1>4, <3>1, <3>2 DEF Fields
  <2> QED BY <1>1, <1>2, <1>6, <2>1 DEF GateReads, Fields
<1>7. CASE ReserveAnswers \/ StoreFails \/ Consults \/ FacilitatorTimesOut \/ ReleaseAnswers
  BY <1>1, <1>2, <1>3, <1>4, <1>7
     DEF ReserveAnswers, StoreFails, Consults, FacilitatorTimesOut, ReleaseAnswers, Fields
<1>8. CASE MeterChecks \/ Drained \/ MeterReads
  BY <1>1, <1>2, <1>3, <1>8 DEF MeterChecks, Drained, MeterReads, Fields
<1>9. CASE BodyTooLarge \/ BodyBreaks \/ BodyDeadline \/ OriginAnswers \/ UpstreamFails \/ HangsUp
  BY <1>2, <1>9 DEF BodyTooLarge, BodyBreaks, BodyDeadline, OriginAnswers, UpstreamFails, HangsUp
<1>10. CASE Done \/ Serves \/ FailsToStart \/ RefreshApplies \/ GoesStale \/ Tick \/ UNCHANGED exchangeVars
  BY <1>10 DEF Done, Idle, Serves, FailsToStart, RefreshApplies, GoesStale, Tick, exchangeVars
<1> QED BY <1>5, <1>6, <1>7, <1>8, <1>9, <1>10 DEF ExchangeNext

LEMMA OriginStep ==
  ASSUME StartInv, WayInv, OriginSeesThePricedCall, [ExchangeNext]_exchangeVars
  PROVE  OriginSeesThePricedCall'
<1>1. config' = config
  BY StartStep
<1>2. ASSUME exchange'.executed = exchange.executed, exchange'.call = exchange.call
      PROVE  OriginSeesThePricedCall'
  BY <1>1, <1>2 DEF OriginSeesThePricedCall
<1>3. ASSUME exchange'.executed = None PROVE OriginSeesThePricedCall'
  BY <1>3 DEF OriginSeesThePricedCall
<1>4. CASE OriginExecutes
  <2> DEFINE made == [call |-> Makes(Request.body), key |-> ForwardsKey,
                      credential |-> exchange.presents # <<>>]
  <2>1. /\ Stage = "forwarded" /\ ~OriginRejects /\ DOMAIN exchange = Fields
        /\ Request \in Requests /\ ~Nominates(Request) /\ exchange.presents = <<>>
        /\ exchange.call = Resolve(Request) /\ Resolve(Request) # Refused
        /\ exchange' = [exchange EXCEPT !.executed = made]
    BY <1>4 DEF OriginExecutes, WayInv, PathInv, Beyond
  <2>2. Metadata \cap Request.nominates = {}
    BY <2>1 DEF Nominates, Protected
  <2>3. Request.revision = "validated" =>
          Request.body.kind = "call" /\ Mirrors(Request.header, Request.body.call)
    BY <2>1, <2>2 DEF OriginRejects, Sees, Metadata
  <2>4. Makes(Request.body) = exchange.call
    BY <2>1, <2>3, PricedIsMade
  <2>5. /\ exchange'.executed = made /\ exchange'.call = exchange.call
        /\ made.call = exchange.call /\ made.key = config.edge.credential_forwarding
        /\ made.credential = FALSE
    BY <2>1, <2>4 DEF Fields, ForwardsKey
  <2> QED BY <1>1, <2>5 DEF OriginSeesThePricedCall
<1>5. ASSUME NEW status, Answer(status) PROVE OriginSeesThePricedCall'
  BY <1>2, <1>5, AnswerFields DEF WayInv, PathInv, Kept, Fields
<1>6. CASE Stage \notin {"forwarded", "answered"}
  <2>1. exchange.executed = None
    BY <1>6 DEF WayInv, PathInv
  <2> QED BY <1>3, <1>6, <2>1, OnlyTheOriginExecutes DEF OriginExecutes
<1>7. CASE Stage = "forwarded" /\ ~OriginExecutes
  <2>1. UNCHANGED exchange \/ \E status : Answer(status)
    BY <1>7 DEF ExchangeNext, exchangeVars, Serves, FailsToStart, RefreshApplies, GoesStale, Tick, Receive,
       BodyTooLarge, BodyBreaks, BodyDeadline, AwaitsBody, GateReads, ReserveAnswers, StoreFails,
       Consults, FacilitatorTimesOut, ReleaseAnswers, MeterChecks, Drained, MeterReads,
       OriginAnswers, UpstreamFails, HangsUp, Done
  <2> QED BY <1>2, <1>5, <2>1
<1>8. CASE Stage = "answered"
  <2>1. UNCHANGED exchange \/ exchange' = Idle
    BY <1>8 DEF ExchangeNext, exchangeVars, Serves, FailsToStart, RefreshApplies, GoesStale, Tick, Receive,
       BodyTooLarge, BodyBreaks, BodyDeadline, AwaitsBody, GateReads, ReserveAnswers, StoreFails,
       Consults, FacilitatorTimesOut, ReleaseAnswers, MeterChecks, Drained, MeterReads,
       OriginExecutes, OriginAnswers, UpstreamFails, HangsUp, Done
  <2> QED BY <1>2, <1>3, <2>1 DEF Idle
<1> QED BY <1>4, <1>6, <1>7, <1>8

(***************************************************************************)
(* The origin executes the call the meter has classified, however the      *)
(* request described it, and gets no credential to see that it should not  *)
(* (TransportLayer, MeterService::call, strip_hop_by_hop).                 *)
(***************************************************************************)
THEOREM OriginExecutesWhatIsPriced == ExchangeSpec => []OriginSeesThePricedCall
<1>1. ExchangeInit => OriginSeesThePricedCall
  BY DEF ExchangeInit, OriginSeesThePricedCall, Idle
<1>2. StartInv /\ WayInv /\ OriginSeesThePricedCall /\ [ExchangeNext]_exchangeVars
        => OriginSeesThePricedCall'
  BY OriginStep
<1> QED BY <1>1, <1>2, WayAlways, PTL DEF ExchangeSpec

-------------------------------------------------------------------------------
(***************************************************************************)
(* Money.  A credential that passes is one of the ledger's challenges, for *)
(* the tenant, call, body and price at hand: its identifier is a MAC over  *)
(* everything it was issued for.                                           *)
(***************************************************************************)
Bound(c) ==
  [realm |-> c.realm, method |-> c.method, intent |-> c.intent, request |-> c.request,
   header |-> c.header, expires |-> c.expires, digest |-> c.digest, opaque |-> c.opaque]

LEMMA EntryShape ==
  ASSUME Book, NEW l \in ledger
  PROVE  /\ l.challenge = [bound |-> l.challenge.bound, id |-> l.challenge.id]
         /\ l.challenge.bound = Bound(l.challenge.bound)
         /\ l.challenge.bound.request = [amount |-> l.amount, currency |-> Issuer.currency,
                                         recipient |-> Issuer.recipient]
         /\ l.challenge.bound.digest = ContentDigest(l.body)
         /\ l.challenge.bound.opaque.tenant = TenantBinding(Issuer, l.tenant)
         /\ l.challenge.bound.opaque.method = l.call.method
         /\ l.challenge.bound.opaque.name = l.call.name
         /\ l.challenge.id = Mac(Issuer.secret, Binding(l.challenge.bound))
         /\ l.call \in Calls
<1> DEFINE p == Issuer
           now == Later(Start, l.at * TickSeconds)
           nonce == NonceOf(l)
<1>1. /\ l.challenge = Challenge(p, l.amount, l.tenant, l.call, l.body, now, nonce)
      /\ l.call \in Calls
  BY DEF Book, Genuine
<1> HIDE DEF p, now, nonce
<1>2. /\ l.challenge = [bound |-> l.challenge.bound, id |-> l.challenge.id]
      /\ l.challenge.bound = Bound(l.challenge.bound)
      /\ l.challenge.bound.request = [amount |-> l.amount, currency |-> p.currency,
                                      recipient |-> p.recipient]
      /\ l.challenge.bound.digest = ContentDigest(l.body)
      /\ l.challenge.bound.opaque.tenant = TenantBinding(p, l.tenant)
      /\ l.challenge.bound.opaque.method = l.call.method
      /\ l.challenge.bound.opaque.name = l.call.name
      /\ l.challenge.id = Mac(p.secret, Binding(l.challenge.bound))
  BY <1>1 DEF Challenge, WithId, PaymentRequest, PricedIdentity, Bound
<1> QED BY <1>1, <1>2 DEF p

LEMMA MacsDiffer ==
  ASSUME NEW s, NEW t, NEW x, NEW y, Mac(s, x) = Mac(t, y)
  PROVE  s = t /\ x = y
<1> DEFINE a == <<s, x>>
           b == <<t, y>>
<1>1. [mac_of |-> a].mac_of = [mac_of |-> b].mac_of
  BY DEF Mac
<1>2. a = b
  BY <1>1
<1> QED BY <1>2

LEMMA BindingsDiffer ==
  ASSUME NEW c, NEW d, Binding(c) = Binding(d)
  PROVE  c.request = d.request /\ c.opaque = d.opaque
<1>1. \A x : Binding(x)[4] = x.request /\ Binding(x)[7] = x.opaque
  BY DEF Binding
<1> QED BY <1>1

LEMMA IdsDiffer ==
  ASSUME Book, NEW l \in ledger, NEW m \in ledger, l.challenge.id = m.challenge.id
  PROVE  l = m
<1>1. /\ l.challenge.id = Mac(Issuer.secret, Binding(l.challenge.bound))
      /\ m.challenge.id = Mac(Issuer.secret, Binding(m.challenge.bound))
  BY EntryShape
<1>2. Binding(l.challenge.bound) = Binding(m.challenge.bound)
  <2>1. Mac(Issuer.secret, Binding(l.challenge.bound)) = Mac(Issuer.secret, Binding(m.challenge.bound))
    BY <1>1
  <2> QED BY <2>1, MacsDiffer
<1>3. NonceOf(l) = NonceOf(m)
  BY <1>2, BindingsDiffer DEF NonceOf
<1> QED BY <1>3 DEF Book

\* An altered challenge does not match its identifier.
LEMMA TamperingShows ==
  ASSUME Book, NEW l \in ledger, BindingIsValid(Altered(l.challenge), Issuer.secret)
  PROVE  Altered(l.challenge) = l.challenge
<1> DEFINE c == l.challenge
           request == c.bound.request
           altered == [request EXCEPT !.amount = 0]
<1>1. /\ c = [bound |-> c.bound, id |-> c.id]
      /\ c.bound = Bound(c.bound)
      /\ request = [amount |-> l.amount, currency |-> Issuer.currency,
                    recipient |-> Issuer.recipient]
      /\ c.id = Mac(Issuer.secret, Binding(c.bound))
  BY EntryShape
<1> HIDE DEF c
<1>2. /\ BindingIsValid(Altered(c), Issuer.secret)
      /\ Altered(c) = [c EXCEPT !.bound = [c.bound EXCEPT !.request = altered]]
      /\ Altered(c).id = c.id
      /\ Altered(c).bound.request = altered
  BY <1>1 DEF Altered, Bound, c
<1>3. Binding(c.bound) = Binding(Altered(c).bound)
  <2>1. Mac(Issuer.secret, Binding(c.bound)) = Mac(Issuer.secret, Binding(Altered(c).bound))
    BY <1>1, <1>2 DEF BindingIsValid
  <2> QED BY <2>1, MacsDiffer
<1>4. altered = request
  BY <1>2, <1>3, BindingsDiffer
<1>5. [c.bound EXCEPT !.request = request] = c.bound
  BY <1>1 DEF Bound
<1>6. [c EXCEPT !.bound = c.bound] = c
  BY <1>1
<1> QED BY <1>2, <1>4, <1>5, <1>6 DEF c

LEMMA LeastOfSeven ==
  ASSUME NEW S \in SUBSET (1..7), S # {}
  PROVE  (CHOOSE i \in S : \A j \in S : i <= j) \in S
<1>1. \E i \in S : \A j \in S : i <= j
  <2>1. \A i \in S : i \in Nat
    OBVIOUS
  <2>2. CASE 1 \in S
    BY <2>1, <2>2
  <2>3. CASE 1 \notin S /\ 2 \in S
    BY <2>1, <2>3
  <2>4. CASE S \cap {1, 2} = {} /\ 3 \in S
    BY <2>1, <2>4
  <2>5. CASE S \cap {1, 2, 3} = {} /\ 4 \in S
    BY <2>1, <2>5
  <2>6. CASE S \cap {1, 2, 3, 4} = {} /\ 5 \in S
    BY <2>1, <2>6
  <2>7. CASE S \cap {1, 2, 3, 4, 5} = {}
    <3>0. \A i \in S : i = 6 \/ i = 7
      BY <2>7
    <3>1. S \subseteq {6, 7} /\ (6 \in S \/ 7 \in S)
      BY <3>0
    <3>2. CASE 6 \in S
      BY <2>1, <3>1, <3>2
    <3>3. CASE 6 \notin S
      BY <2>1, <3>1, <3>3
    <3> QED BY <3>2, <3>3
  <2> QED BY <2>2, <2>3, <2>4, <2>5, <2>6, <2>7
<1> QED BY <1>1

\* No check that fails is called passed.
LEMMA AllChecksPass ==
  ASSUME NEW p, NEW c, NEW tenant, NEW body, NEW call, NEW amount, NEW now,
         LocalError(p, c, tenant, body, call, amount, now) = Passed
  PROVE  /\ BindingIsValid(c, p.secret)
         /\ c.bound.digest = ContentDigest(body)
         /\ SameIdentity(p, c, tenant, call)
         /\ c.bound.request.amount = amount
<1> DEFINE checks == Checks(p, c, tenant, body, call, amount, now)
           failing == {i \in DOMAIN checks : ~checks[i][1]}
<1>1. /\ DOMAIN checks = 1..7
      /\ \A i \in 1..7 : checks[i][2] # Passed
      /\ checks[1][1] = BindingIsValid(c, p.secret)
      /\ checks[5][1] = (c.bound.digest = ContentDigest(body))
      /\ checks[6][1] = SameIdentity(p, c, tenant, call)
      /\ checks[7][1] = (c.bound.request.amount = amount)
  BY DEF Checks, Passed
<1>2. failing \in SUBSET (1..7)
  BY <1>1
<1>3. ASSUME failing # {} PROVE FALSE
  <2> DEFINE first == CHOOSE i \in failing : \A j \in failing : i <= j
  <2>1. first \in 1..7
    BY <1>2, <1>3, LeastOfSeven
  <2>2. LocalError(p, c, tenant, body, call, amount, now) = checks[first][2]
    BY <1>3 DEF LocalError
  <2> QED BY <1>1, <2>1, <2>2
<1>4. checks[1][1] /\ checks[5][1] /\ checks[6][1] /\ checks[7][1]
  <2>1. 1 \in 1..7 /\ 5 \in 1..7 /\ 6 \in 1..7 /\ 7 \in 1..7
    OBVIOUS
  <2> HIDE DEF checks
  <2> QED BY <1>1, <1>3, <2>1, Zenon
<1> HIDE DEF checks
<1> QED BY <1>1, <1>4, Zenon

LEMMA CredentialsMatch ==
  ASSUME Book, NEW e, e.presents \in Presented, e.presents # <<>>, e.call \in Calls,
         CredentialError(e) = Passed
  PROVE  \E l \in ledger : Matches(l, e.presents[1], e)
<1> DEFINE c == e.presents[1]
<1>1. c \in Presentable
  <2>1. Junk \in Presentable
    BY DEF Presentable
  <2>2. e.presents \in {<<d>> : d \in Presentable} \cup {<<Junk, Junk>>}
    BY DEF Presented
  <2> QED BY <2>1, <2>2
<1>2. c # Junk /\ LocalError(Issuer, c, e.tenant, e.request.body, e.call, e.amount, Now) = Passed
  BY DEF CredentialError, Passed
<1>3. /\ BindingIsValid(c, Issuer.secret)
      /\ c.bound.digest = ContentDigest(e.request.body)
      /\ SameIdentity(Issuer, c, e.tenant, e.call)
      /\ c.bound.request.amount = e.amount
  BY <1>2, AllChecksPass
<1>4. PICK l \in ledger : c \in {l.challenge, Altered(l.challenge)}
  <2>1. c \in UNION {{l.challenge, Altered(l.challenge)} : l \in ledger}
    BY <1>1, <1>2 DEF Presentable
  <2> QED BY <2>1
<1>5. c = l.challenge
  BY <1>3, <1>4, TamperingShows
<1>6. /\ c.bound.request.amount = l.amount
      /\ c.bound.digest = ContentDigest(l.body)
      /\ c.bound.opaque.tenant = TenantBinding(Issuer, l.tenant)
      /\ c.bound.opaque.method = l.call.method /\ c.bound.opaque.name = l.call.name
      /\ l.call \in Calls
  <2>1. /\ l.challenge.bound.request = [amount |-> l.amount, currency |-> Issuer.currency,
                                        recipient |-> Issuer.recipient]
        /\ l.challenge.bound.digest = ContentDigest(l.body)
        /\ l.challenge.bound.opaque.tenant = TenantBinding(Issuer, l.tenant)
        /\ l.challenge.bound.opaque.method = l.call.method
        /\ l.challenge.bound.opaque.name = l.call.name
        /\ l.call \in Calls
    BY EntryShape
  <2> HIDE DEF c
  <2> QED BY <1>5, <2>1
<1>7. l.amount = e.amount
  BY <1>3, <1>6
<1>8. l.body = e.request.body
  <2>1. [digest_of |-> l.body].digest_of = [digest_of |-> e.request.body].digest_of
    BY <1>3, <1>6 DEF ContentDigest
  <2> QED BY <2>1
<1>9. l.tenant = e.tenant
  <2> DEFINE a == <<"mcp-usage-tenant-v1", l.tenant>>
             b == <<"mcp-usage-tenant-v1", e.tenant>>
  <2>1. a = b
    BY <1>3, <1>6, MacsDiffer DEF SameIdentity, TenantBinding
  <2> QED BY <2>1
<1>10. l.call = e.call
  <2>1. l.call.method = e.call.method /\ l.call.name = e.call.name
    BY <1>3, <1>6 DEF SameIdentity
  <2> QED BY <1>6, <2>1 DEF Calls
<1> QED BY <1>5, <1>7, <1>8, <1>9, <1>10 DEF Matches

-------------------------------------------------------------------------------
(***************************************************************************)
(* What steps do to the ledger: an entry appears with a nonce of its own,  *)
(* or is settled, or stays as it is.                                       *)
(***************************************************************************)
LEMMA IssuedIsGenuine ==
  ASSUME NEW e, e.call \in Calls, NEW nonce, NEW l, l = Issued(e, nonce)
  PROVE  Genuine(l) /\ NonceOf(l) = nonce /\ l.settled = 0
<1>1. /\ DOMAIN l = {"challenge", "tenant", "call", "body", "amount", "at", "settled"}
      /\ l.challenge = Challenge(Issuer, l.amount, l.tenant, l.call, l.body,
                                 Later(Start, l.at * TickSeconds), nonce)
      /\ l.call = e.call /\ l.settled = 0
  BY DEF Issued, Now
<1>2. NonceOf(l) = nonce
  <2> DEFINE p == Issuer
             now == Later(Start, l.at * TickSeconds)
  <2>1. l.challenge = Challenge(p, l.amount, l.tenant, l.call, l.body, now, nonce)
    BY <1>1
  <2> HIDE DEF p, now
  <2> QED BY <2>1 DEF NonceOf, Challenge, WithId, PricedIdentity
<1> QED BY <1>1, <1>2 DEF Genuine

\* An entry stays what it is while its reservation lasts.
LEMMA StaysGenuine ==
  ASSUME config' = config, NEW l, Genuine(l), l.settled = 1 => l.challenge.id \in reserved'
  PROVE  Genuine(l)'
<1>1. Issuer' = Issuer
  BY DEF Issuer
<1> QED BY <1>1 DEF Genuine

LEMMA BookKept ==
  ASSUME Book, config' = config,
         \A l \in ledger : l.settled = 1 => l.challenge.id \in reserved',
         ledger' = ledger \/ \E e : Offers(e) /\ e.call \in Calls
  PROVE  Book' /\ ledger \subseteq ledger'
<1>1. \A l \in ledger : Genuine(l)'
  BY StaysGenuine DEF Book
<1>2. CASE ledger' = ledger
  BY <1>1, <1>2 DEF Book
<1>3. CASE ledger' # ledger
  <2>1. PICK e : Offers(e) /\ e.call \in Calls
    BY <1>3
  <2>2. PICK nonce, new : /\ \A l \in ledger : NonceOf(l) # nonce
                          /\ new = Issued(e, nonce) /\ ledger' = ledger \cup {new}
    BY <1>3, <2>1 DEF Offers, NonceOf
  <2>3. Genuine(new) /\ NonceOf(new) = nonce /\ new.settled = 0
    BY <2>1, <2>2, IssuedIsGenuine
  <2>4. Genuine(new)'
    BY <2>3, StaysGenuine
  <2> QED BY <1>1, <2>2, <2>3, <2>4 DEF Book
<1> QED BY <1>2, <1>3

LEMMA BookSettles ==
  ASSUME Book, config' = config, reserved' = reserved,
         NEW l \in ledger, l.settled = 0, l.challenge.id \in reserved,
         NEW m, m = [l EXCEPT !.settled = 1], ledger' = (ledger \ {l}) \cup {m}
  PROVE  /\ Book'
         /\ m \in ledger' /\ m.settled = 1
         /\ m.challenge = l.challenge /\ m.tenant = l.tenant /\ m.call = l.call
         /\ m.body = l.body /\ m.amount = l.amount
<1>1. /\ DOMAIN l = {"challenge", "tenant", "call", "body", "amount", "at", "settled"}
      /\ Genuine(l)
  BY DEF Book, Genuine
<1>2. /\ DOMAIN m = DOMAIN l /\ m.settled = 1
      /\ m.challenge = l.challenge /\ m.tenant = l.tenant /\ m.call = l.call
      /\ m.body = l.body /\ m.amount = l.amount /\ m.at = l.at
  BY <1>1
<1>3. NonceOf(m) = NonceOf(l)
  BY <1>2 DEF NonceOf
<1>4. Genuine(m)
  BY <1>1, <1>2, <1>3 DEF Genuine
<1>5. \A k \in ledger' : Genuine(k)'
  BY <1>2, <1>4, StaysGenuine DEF Book, Genuine
<1>6. \A j, k \in ledger' : NonceOf(j) = NonceOf(k) => j = k
  BY <1>3 DEF Book
<1> QED BY <1>2, <1>5, <1>6 DEF Book

\* Whoever still holds an echo of a challenge can present it.
LEMMA StillPresented ==
  ASSUME \A l \in ledger : \E m \in ledger' : m.challenge = l.challenge, NEW p \in Presented
  PROVE  p \in Presented'
<1>1. \A c \in Presentable : c \in Presentable'
  <2> SUFFICES ASSUME NEW c \in Presentable PROVE c \in Presentable'
    OBVIOUS
  <2>1. CASE c = Junk
    BY <2>1 DEF Presentable
  <2>2. CASE c # Junk
    <3>1. PICK l \in ledger : c \in {l.challenge, Altered(l.challenge)}
      BY <2>2 DEF Presentable
    <3>2. PICK m \in ledger' : m.challenge = l.challenge
      OBVIOUS
    <3> QED BY <3>1, <3>2 DEF Presentable
  <2> QED BY <2>1, <2>2
<1> QED BY <1>1 DEF Presented

\* The credential names its entry.
LEMMA EntryFound ==
  ASSUME Book, NEW l \in ledger, l.challenge = Credential
  PROVE  Entry = l
<1>1. Entry \in ledger /\ Entry.challenge = Credential
  BY DEF Entry
<1>2. NonceOf(Entry) = NonceOf(l)
  BY <1>1 DEF NonceOf
<1> QED BY <1>1, <1>2 DEF Book

\* Letting go of a reservation that was not settled unsettles nothing.
LEMMA OthersStayReserved ==
  ASSUME Book, NEW l \in ledger, l.settled = 0,
         reserved \ {l.challenge.id} \subseteq reserved'
  PROVE  \A m \in ledger : m.settled = 1 => m.challenge.id \in reserved'
<1> SUFFICES ASSUME NEW m \in ledger, m.settled = 1 PROVE m.challenge.id \in reserved'
  OBVIOUS
<1>1. m.challenge.id # l.challenge.id
  BY IdsDiffer
<1> QED BY <1>1 DEF Book, Genuine
-------------------------------------------------------------------------------
(***************************************************************************)
(* What the gate found out stays so; and over quota means over a limit.    *)
(***************************************************************************)
LEMMA SameQuote ==
  ASSUME config' = config, NEW e, Quoted(e), exchange'.quota = e.quota,
         e.quota # Absent =>
           /\ exchange'.buffered = e.buffered /\ exchange'.request = e.request
           /\ exchange'.tenant = e.tenant /\ exchange'.call = e.call
           /\ exchange'.amount = e.amount
  PROVE  Quoted(exchange)'
<1>1. \A r : Resolve(r)' = Resolve(r)
  BY DEF Resolve, ClassifyHeaders
<1> QED BY <1>1 DEF Quoted

LEMMA OverdrawnIsOver ==
  ASSUME NEW e, Quoted(e), e.quota # Absent, Overdrawn(e.quota)
  PROVE  OverCap(e)
<1> DEFINE q == e.quota
<1>1. /\ q.unit_price_micros \in Nat
      /\ q.committed.units \in Nat /\ q.committed.spend_micros \in Nat
  BY PlaneAssumption DEF Quoted
<1>2. /\ Granted(q.committed, 0, q.unit_price_micros).units = q.committed.units
      /\ Granted(q.committed, 0, q.unit_price_micros).spend_micros = q.committed.spend_micros
  BY <1>1 DEF Granted
<1> HIDE DEF q
<1>3. AssessLimits(q.committed, 0, q.unit_price_micros, q.limits) # "allowed"
  BY <1>2 DEF AssessLimits, IsOver, Overdrawn, q
<1> QED BY <1>3 DEF OverCap, q

\* Rounding up never sells a call for less than it costs.
LEMMA RoundingCovers ==
  ASSUME NEW n \in Nat
  PROVE  ((n + MicrosPerMinor - 1) \div MicrosPerMinor) * MicrosPerMinor >= n
BY DEF MicrosPerMinor

LEMMA PriceCovers ==
  ASSUME NEW e, Quoted(e), e.quota # Absent, e.amount # Unpriced
  PROVE  e.amount * MicrosPerMinor
           >= UnitsFor(e.quota.prices, e.call) * e.quota.unit_price_micros
<1> DEFINE q == e.quota
           units == UnitsFor(q.prices, e.call)
           cost == units * q.unit_price_micros
<1>1. /\ q.unit_price_micros \in Nat /\ q.prices.default_units \in Nat
      /\ Range(q.prices.names) \subseteq Nat /\ Range(q.prices.methods) \subseteq Nat
  BY PlaneAssumption DEF Quoted
<1>2. units \in Nat
  BY <1>1 DEF UnitsFor, Range
<1> HIDE DEF units
<1>3. cost \in Nat
  BY <1>1, <1>2
<1>4. e.amount = (cost + MicrosPerMinor - 1) \div MicrosPerMinor
  BY DEF Quoted, PriceFor, MinorUnits, units
<1> HIDE DEF cost
<1>5. e.amount * MicrosPerMinor >= cost
  BY <1>3, <1>4, RoundingCovers
<1> QED BY <1>5 DEF cost, units

-------------------------------------------------------------------------------
(***************************************************************************)
(* How the exchange moves on, and what it has been paid with.              *)
(***************************************************************************)
\* Steps that neither start, end nor need a verification.
LEMMA Onward ==
  ASSUME PaidInv, Book', config' = config, ledger \subseteq ledger',
         exchange'.presents \in {exchange.presents, <<>>},
         exchange'.quota = exchange.quota,
         exchange.quota # Absent =>
           /\ exchange'.buffered = exchange.buffered /\ exchange'.request = exchange.request
           /\ exchange'.tenant = exchange.tenant /\ exchange'.call = exchange.call
           /\ exchange'.amount = exchange.amount /\ exchange'.paid = exchange.paid,
         Stage' \notin Paying,
         exchange.quota # Absent =>
           (Stage' \in Beyond \/ exchange'.executed # None =>
              Stage \in Beyond \/ exchange.executed # None)
  PROVE  PaidInv'
<1>1. exchange'.presents \in Presented'
  <2>1. exchange'.presents \in Presented
    BY DEF PaidInv, Presented
  <2> QED BY <2>1, StillPresented
<1>2. Quoted(exchange)'
  BY SameQuote DEF PaidInv
<1>3. PaymentInv'
  <2>1. CASE exchange.quota = Absent
    BY <2>1 DEF PaymentInv
  <2>2. CASE exchange.quota # Absent
    BY <2>2 DEF PaidInv, PaymentInv, Matches, Overdrawn
  <2> QED BY <2>1, <2>2
<1> QED BY <1>1, <1>2, <1>3 DEF PaidInv

LEMMA AnswerPays ==
  ASSUME PaidInv, DOMAIN exchange = Fields, Book', config' = config, ledger \subseteq ledger',
         NEW status, Answer(status)
  PROVE  PaidInv'
<1>1. Stage' = "answered" /\ Kept(exchange, {"stage", "answer"})
  BY AnswerFields DEF Stage
<1> QED BY <1>1, Onward DEF Kept, Fields, Beyond, Paying

\* Quota decides over an exchange that has not been executed.
LEMMA ByQuotaPays ==
  ASSUME Book, config' = config,
         NEW e, DOMAIN e = Fields, e.presents \in Presented, Quoted(e), e.executed = None,
         \A l \in ledger : l.settled = 1 => l.challenge.id \in reserved',
         NEW problem, ByQuota(e, problem)
  PROVE  PaidInv'
<1>1. e.quota # Absent => e.call \in Calls
  BY DEF Quoted
<1>2. /\ Kept(e, {"stage", "presents", "problem", "answer"})
      /\ \/ Stage' = "metering" /\ exchange'.presents = <<>> /\ ~OverCap(e) /\ ledger' = ledger
         \/ /\ Stage' = "answered" /\ exchange'.presents = e.presents
            /\ ledger' = ledger \/ (Offers(e) /\ OverCap(e))
  BY ByQuotaFields DEF Stage
<1>3. Book' /\ ledger \subseteq ledger'
  <2>1. ledger' = ledger \/ (Offers(e) /\ e.call \in Calls)
    BY <1>1, <1>2 DEF OverCap
  <2> QED BY <2>1, BookKept
<1>4. exchange'.presents \in Presented'
  <2>1. exchange'.presents \in Presented
    BY <1>2 DEF Presented
  <2> QED BY <1>3, <2>1, StillPresented
<1>5. /\ exchange'.quota = e.quota /\ exchange'.buffered = e.buffered
      /\ exchange'.request = e.request /\ exchange'.tenant = e.tenant
      /\ exchange'.call = e.call /\ exchange'.amount = e.amount
      /\ exchange'.executed = None
  BY <1>2 DEF Kept, Fields
<1>6. Quoted(exchange)'
  BY <1>5, SameQuote
<1>7. PaymentInv'
  <2>1. Stage' \notin Paying
    BY <1>2 DEF Paying
  <2>2. ~(Stage' \in Beyond /\ exchange'.quota # Absent /\ Overdrawn(exchange'.quota))
    BY <1>2, <1>5, OverdrawnIsOver DEF Beyond
  <2> QED BY <1>5, <2>1, <2>2 DEF PaymentInv, Overdrawn
<1> QED BY <1>3, <1>4, <1>6, <1>7 DEF PaidInv

LEMMA ResolvesToCalls ==
  ASSUME NEW r \in Requests
  PROVE  Resolve(r) \in Calls \cup {Refused, Transport}
<1>1. r.header \in HeaderCalls /\ r.body.call \in Calls
  BY ExchangeAssumption
<1>2. ProtocolHeaders(r.header) \in Calls \cup {Refused}
  <2> DEFINE name == DecodedName(r.header.name)
             call == [r.header EXCEPT !.name = name]
  <2>1. /\ r.header.method \in STRING
        /\ r.header.name \in Names \cup {NoName, Garbled} \cup [encoded : Names \cup {Garbled}]
        /\ call = [method |-> r.header.method, name |-> name]
    BY <1>1 DEF HeaderCalls
  <2>2. name \in Names \cup {NoName, Garbled}
    BY <2>1 DEF DecodedName
  <2> HIDE DEF name
  <2>3. name # Garbled => call \in Calls
    BY <2>1, <2>2 DEF Calls
  <2>4. call.name = name
    BY <2>1
  <2> QED BY <2>3, <2>4 DEF ProtocolHeaders, name
<1>3. ClassifyHeaders(r) \in Calls \cup {Refused, FromBody}
  BY <1>2 DEF ClassifyHeaders
<1> QED BY <1>1, <1>3 DEF Resolve

\* The gate asks for a reservation only with a credential that passed every check of its own.
LEMMA GatePays ==
  ASSUME StartInv, WayInv, PaidInv, GateReads
  PROVE  PaidInv'
<1>1. /\ DOMAIN exchange = Fields /\ Stage = "collecting" /\ config' = config /\ reserved' = reserved
      /\ exchange.executed = None /\ exchange.quota = Absent /\ exchange.presents \in Presented
      /\ Book
  BY DEF GateReads, WayInv, PathInv, PaidInv, Quoted, Beyond
<1>2. \A l \in ledger : l.settled = 1 => l.challenge.id \in reserved'
  BY <1>1 DEF Book, Genuine
<1>3. ASSUME ledger' = ledger, NEW status, Answer(status) PROVE PaidInv'
  BY <1>1, <1>2, <1>3, BookKept, AnswerPays
<1>4. ASSUME ledger' = ledger,
             exchange' = [exchange EXCEPT !.stage = "metering", !.buffered = TRUE, !.presents = <<>>]
      PROVE  PaidInv'
  <2>1. /\ Stage' = "metering" /\ exchange'.presents = <<>> /\ exchange'.quota = exchange.quota
    BY <1>1, <1>4 DEF Fields, Stage
  <2>2. Book'
    BY <1>1, <1>2, <1>4, BookKept
  <2> QED BY <1>1, <1>4, <2>1, <2>2, Onward DEF Paying
<1>5. ASSUME NEW call, call = Resolve(Request), call \in Calls, Decides(Appraised(call))
      PROVE  PaidInv'
  <2>1. PICK e : e = Appraised(call)
    OBVIOUS
  <2>2. /\ DOMAIN e = Fields /\ e.presents = exchange.presents /\ e.executed = None
        /\ e.request = Request /\ e.call = call /\ e.buffered = TRUE
        /\ e.quota = QuotaFor(PresentedKey(Request))
        /\ e.quota # Absent => e.tenant = e.quota.tenant /\ e.amount = PriceFor(e.quota, call)
        /\ e.quota = Absent => e.amount = Unpriced
    BY <1>1, <2>1 DEF Appraised, Fields, Request
  <2>3. Quoted(e)
    BY <1>5, <2>2 DEF Quoted, QuotaFor, StartInv
  <2>4. ASSUME NEW problem, ByQuota(e, problem) PROVE PaidInv'
    BY <1>1, <1>2, <2>2, <2>3, <2>4, ByQuotaPays
  <2>5. ASSUME e.presents # <<>>, e.amount # Unpriced, CredentialError(e) = Passed,
               exchange' = [e EXCEPT !.stage = "reserving"], ledger' = ledger
        PROVE  PaidInv'
    <3>1. PICK l \in ledger : Matches(l, e.presents[1], e)
      BY <1>1, <1>5, <2>2, <2>5, CredentialsMatch
    <3>2. /\ Stage' = "reserving" /\ exchange'.presents = e.presents /\ exchange'.quota = e.quota
          /\ exchange'.buffered = e.buffered /\ exchange'.request = e.request
          /\ exchange'.tenant = e.tenant /\ exchange'.call = e.call /\ exchange'.amount = e.amount
          /\ exchange'.executed = None
      BY <2>2, <2>5 DEF Stage, Fields
    <3>3. Book' /\ ledger' = ledger
      BY <1>1, <1>2, <2>5, BookKept
    <3>4. exchange'.presents \in Presented'
      BY <1>1, <2>2, <3>2, <3>3, StillPresented
    <3>5. Quoted(exchange)'
      BY <1>1, <2>3, <3>2, SameQuote
    <3>6. Matches(l, Credential', exchange')
      BY <3>1, <3>2 DEF Matches, Credential
    <3>7. PaymentInv'
      BY <2>2, <2>5, <3>2, <3>3, <3>6 DEF PaymentInv, Beyond, Matches
    <3> QED BY <3>3, <3>4, <3>5, <3>7 DEF PaidInv
  <2>6. Decides(e)
    BY <1>5, <2>1
  <2> QED BY <2>4, <2>5, <2>6 DEF Decides
<1>6. Request \in Requests
  BY <1>1 DEF WayInv, PathInv
<1>7. Resolve(Request) \notin {Refused, Transport} /\ Resolve(Request).method \in Priced
        => Resolve(Request) \in Calls
  BY <1>6, ResolvesToCalls
<1> QED BY <1>3, <1>4, <1>5, <1>7 DEF GateReads

\* A reservation is asked for, used once, and let go of only if it was not settled.
LEMMA VerificationPays ==
  ASSUME StartInv, WayInv, PaidInv, config' = config,
         \/ ReserveAnswers \/ StoreFails \/ Consults \/ FacilitatorTimesOut \/ ReleaseAnswers
  PROVE  PaidInv'
<1>1. /\ Stage \in Paying /\ DOMAIN exchange = Fields /\ exchange.executed = None
      /\ Book /\ Quoted(exchange) /\ exchange.presents \in Presented
      /\ exchange.amount # Unpriced /\ exchange.quota # Absent
  BY DEF ReserveAnswers, StoreFails, Consults, FacilitatorTimesOut, ReleaseAnswers, Paying, Beyond,
     PaidInv, PaymentInv, WayInv, PathInv
<1>2. PICK l \in ledger : /\ Matches(l, Credential, exchange)
                          /\ Stage # "reserving" => l.settled = 0
                          /\ Stage = "consulting" => l.challenge.id \in reserved
  BY <1>1 DEF PaidInv, PaymentInv
<1>3. /\ l.challenge = Credential
      /\ \A m \in ledger : m.settled = 1 => m.challenge.id \in reserved
  BY <1>1, <1>2 DEF Matches, Book, Genuine
<1>4. ASSUME \A m \in ledger : m.settled = 1 => m.challenge.id \in reserved',
             ledger' = ledger, NEW status, Answer(status)
      PROVE  PaidInv'
  BY <1>1, <1>4, BookKept, AnswerPays
<1>5. ASSUME \A m \in ledger : m.settled = 1 => m.challenge.id \in reserved',
             NEW problem, ByQuota(exchange, problem)
      PROVE  PaidInv'
  BY <1>1, <1>5, ByQuotaPays
<1>6. ASSUME ledger' = ledger, \A m \in ledger : m.settled = 1 => m.challenge.id \in reserved',
             exchange'.presents = exchange.presents,
             Kept(exchange, {"stage", "problem"}), Stage' \in {"consulting", "releasing"},
             l.settled = 0, Stage' = "consulting" => l.challenge.id \in reserved'
      PROVE  PaidInv'
  <2>1. Book'
    BY <1>1, <1>6, BookKept
  <2>2. /\ exchange'.quota = exchange.quota /\ exchange'.buffered = exchange.buffered
        /\ exchange'.request = exchange.request /\ exchange'.tenant = exchange.tenant
        /\ exchange'.call = exchange.call /\ exchange'.amount = exchange.amount
        /\ exchange'.executed = None
    BY <1>1, <1>6 DEF Kept, Fields
  <2>3. exchange'.presents \in Presented'
    BY <1>1, <1>6, StillPresented
  <2>4. Quoted(exchange)'
    BY <1>1, <2>2, SameQuote
  <2>5. Matches(l, Credential', exchange')
    BY <1>2, <1>6, <2>2 DEF Matches, Credential
  <2>6. PaymentInv'
    BY <1>1, <1>6, <2>2, <2>5 DEF PaymentInv, Beyond, Matches
  <2> QED BY <2>1, <2>3, <2>4, <2>6 DEF PaidInv
<1>7. CASE ReserveAnswers
  <2>1. CASE /\ Credential.id \notin reserved /\ reserved' = reserved \cup {Credential.id}
             /\ Goes("consulting") /\ ledger' = ledger
    <3>1. l.settled = 0
      BY <1>1, <1>3, <2>1 DEF Book, Genuine
    <3>2. Kept(exchange, {"stage"}) /\ Stage' = "consulting"
      BY <1>1, <2>1, GoesFields DEF Stage
    <3> QED BY <1>3, <1>6, <2>1, <3>1, <3>2 DEF Kept, Fields
  <2>2. CASE ByQuota(exchange, "VerificationFailed") /\ reserved' = reserved
    BY <1>3, <1>5, <2>2
  <2> QED BY <1>7, <2>1, <2>2 DEF ReserveAnswers
<1>8. CASE StoreFails
  <2>1. CASE Stage = "releasing" /\ reserved' \in {reserved, reserved \ {Credential.id}}
    <3>1. \A m \in ledger : m.settled = 1 => m.challenge.id \in reserved'
      BY <1>1, <1>2, <1>3, <2>1, OthersStayReserved
    <3> QED BY <1>4, <1>8, <3>1 DEF StoreFails
  <2>2. CASE Stage = "reserving" /\ reserved' \in {reserved, reserved \cup {Credential.id}}
    BY <1>3, <1>4, <1>8, <2>2 DEF StoreFails
  <2> QED BY <1>8, <2>1, <2>2 DEF StoreFails
<1>9. CASE Consults
  <2>1. Stage = "consulting" /\ reserved' = reserved /\ l.settled = 0 /\ l.challenge.id \in reserved
    BY <1>2, <1>9 DEF Consults
  <2>2. CASE /\ exchange' = [exchange EXCEPT !.stage = "metering", !.presents = <<>>, !.paid = Credential]
             /\ ledger' = (ledger \ {Entry}) \cup {[Entry EXCEPT !.settled = @ + 1]}
    <3>1. Entry = l
      BY <1>1, <1>3, EntryFound
    <3>2. PICK m : m = [l EXCEPT !.settled = 1]
      OBVIOUS
    <3>3. ledger' = (ledger \ {l}) \cup {m}
      BY <2>1, <2>2, <3>1, <3>2
    <3>4. /\ Book' /\ m \in ledger' /\ m.settled = 1
          /\ m.challenge = l.challenge /\ m.tenant = l.tenant /\ m.call = l.call
          /\ m.body = l.body /\ m.amount = l.amount
      BY <1>1, <2>1, <3>2, <3>3, BookSettles
    <3>5. /\ exchange'.quota = exchange.quota /\ exchange'.buffered = exchange.buffered
          /\ exchange'.request = exchange.request /\ exchange'.tenant = exchange.tenant
          /\ exchange'.call = exchange.call /\ exchange'.amount = exchange.amount
          /\ exchange'.paid = Credential /\ exchange'.presents = <<>> /\ Stage' = "metering"
      BY <1>1, <2>2 DEF Fields, Stage
    <3>6. exchange'.presents \in Presented'
      BY <3>5 DEF Presented
    <3>7. Quoted(exchange)'
      BY <1>1, <3>5, SameQuote
    <3>8. Matches(m, exchange'.paid, exchange')
      BY <1>2, <3>4, <3>5 DEF Matches
    <3>9. PaymentInv'
      BY <1>1, <3>4, <3>5, <3>8 DEF PaymentInv, Paying, Matches
    <3> QED BY <3>4, <3>6, <3>7, <3>9 DEF PaidInv
  <2>3. ASSUME NEW problem, exchange' = [exchange EXCEPT !.stage = "releasing", !.problem = problem],
               ledger' = ledger
        PROVE  PaidInv'
    <3>1. Kept(exchange, {"stage", "problem"}) /\ Stage' = "releasing"
      BY <1>1, <2>3 DEF Kept, Fields, Stage
    <3> QED BY <1>3, <1>6, <2>1, <2>3, <3>1 DEF Kept, Fields
  <2>4. CASE Answer("503") /\ ledger' = ledger
    BY <1>3, <1>4, <2>1, <2>4
  <2> QED BY <1>9, <2>2, <2>3, <2>4 DEF Consults
<1>10. CASE FacilitatorTimesOut
  BY <1>3, <1>4, <1>10 DEF FacilitatorTimesOut
<1>11. CASE ReleaseAnswers
  <2>1. \A m \in ledger : m.settled = 1 => m.challenge.id \in reserved'
    BY <1>1, <1>2, <1>3, <1>11, OthersStayReserved DEF ReleaseAnswers
  <2> QED BY <1>5, <1>11, <2>1 DEF ReleaseAnswers
<1> QED BY <1>7, <1>8, <1>9, <1>10, <1>11

\* The meter asks for the tenant and reads the call once more, and finds what the gate found.
LEMMA MeterPays ==
  ASSUME StartInv, WayInv, PaidInv, config' = config, MeterChecks \/ Drained \/ MeterReads
  PROVE  PaidInv'
<1>1. /\ DOMAIN exchange = Fields /\ ledger' = ledger /\ reserved' = reserved /\ Stage \in Beyond
      /\ Book /\ Quoted(exchange)
  BY DEF MeterChecks, Drained, MeterReads, WayInv, PathInv, PaidInv, Beyond
<1>2. Book'
  BY <1>1, BookKept DEF Book, Genuine
<1>3. ASSUME NEW status, Answer(status) PROVE PaidInv'
  BY <1>1, <1>2, <1>3, AnswerPays
<1>4. CASE exchange' = [exchange EXCEPT !.stage = "draining", !.tenant = Authenticate(PresentedKey(Request))]
           /\ Authenticate(PresentedKey(Request)) # Absent
  <2>1. exchange.quota # Absent => Authenticate(PresentedKey(Request)) = exchange.tenant
    <3> SUFFICES ASSUME exchange.quota # Absent
                 PROVE  Authenticate(PresentedKey(Request)) = exchange.tenant
      OBVIOUS
    <3>1. config.control_plane # Absent
      BY <1>1 DEF Quoted, WayInv, PathInv
    <3>2. /\ cache.fresh /\ PresentedKey(Request) \in DOMAIN cache.entries
          /\ Authenticate(PresentedKey(Request)) = cache.entries[PresentedKey(Request)].tenant
      BY <1>4, <3>1 DEF Authenticate
    <3>3. cache.entries \in Snapshots
      BY <3>2 DEF StartInv
    <3>4. PICK s \in Snapshots : /\ PresentedKey(Request) \in DOMAIN s
                                 /\ exchange.quota = s[PresentedKey(Request)]
      BY <1>1 DEF Quoted, Request
    <3>5. exchange.tenant = s[PresentedKey(Request)].tenant
      BY <1>1, <3>4 DEF Quoted
    <3> QED BY <3>2, <3>3, <3>4, <3>5, PlaneAssumption
  <2>2. /\ exchange'.presents = exchange.presents /\ exchange'.quota = exchange.quota
        /\ exchange'.buffered = exchange.buffered /\ exchange'.request = exchange.request
        /\ exchange'.call = exchange.call /\ exchange'.amount = exchange.amount
        /\ exchange'.paid = exchange.paid /\ Stage' = "draining"
        /\ exchange'.tenant = Authenticate(PresentedKey(Request))
    BY <1>1, <1>4 DEF Fields, Stage
  <2> QED BY <1>1, <1>2, <2>1, <2>2, Onward DEF Paying
<1>5. CASE Goes("reading")
  <2>1. Kept(exchange, {"stage"}) /\ Stage' = "reading"
    BY <1>1, <1>5, GoesFields DEF Stage
  <2> QED BY <1>1, <1>2, <2>1, Onward DEF Kept, Fields, Paying
<1>6. CASE exchange' = [exchange EXCEPT !.stage = "forwarded", !.call = Resolve(Request)]
  <2>1. exchange.quota # Absent => exchange.call = Resolve(Request)
    BY <1>1 DEF Quoted, Request
  <2>2. /\ exchange'.presents = exchange.presents /\ exchange'.quota = exchange.quota
        /\ exchange'.buffered = exchange.buffered /\ exchange'.request = exchange.request
        /\ exchange'.call = Resolve(Request) /\ exchange'.amount = exchange.amount
        /\ exchange'.paid = exchange.paid /\ Stage' = "forwarded"
        /\ exchange'.tenant = exchange.tenant
    BY <1>1, <1>6 DEF Fields, Stage
  <2> QED BY <1>1, <1>2, <2>1, <2>2, Onward DEF Paying
<1> QED BY <1>3, <1>4, <1>5, <1>6 DEF MeterChecks, Drained, MeterReads

LEMMA PaidStep ==
  ASSUME StartInv, WayInv, PaidInv, [ExchangeNext]_exchangeVars
  PROVE  PaidInv'
<1>1. config' = config /\ DOMAIN exchange = Fields /\ Book
  BY StartStep DEF WayInv, PathInv, PaidInv
<1>2. CASE GateReads
  BY <1>2, GatePays
<1>3. CASE ReserveAnswers \/ StoreFails \/ Consults \/ FacilitatorTimesOut \/ ReleaseAnswers
  BY <1>1, <1>3, VerificationPays
<1>4. CASE MeterChecks \/ Drained \/ MeterReads
  BY <1>1, <1>4, MeterPays
<1>5. CASE ~(GateReads \/ ReserveAnswers \/ StoreFails \/ Consults \/ FacilitatorTimesOut
               \/ ReleaseAnswers \/ MeterChecks \/ Drained \/ MeterReads)
  <2>1. ledger' = ledger /\ reserved' = reserved
    BY <1>5 DEF ExchangeNext, exchangeVars, Serves, FailsToStart, RefreshApplies, GoesStale, Tick,
       Receive, BodyTooLarge, BodyBreaks, BodyDeadline, OriginExecutes, OriginAnswers,
       UpstreamFails, HangsUp, Done
  <2>2. Book'
    BY <1>1, <2>1, BookKept DEF Book, Genuine
  <2>3. CASE \E status : Answer(status)
    BY <1>1, <2>1, <2>2, <2>3, AnswerPays
  <2>4. CASE exchange' = exchange
    <3>1. exchange'.presents \in Presented'
      BY <2>1, <2>4, StillPresented DEF PaidInv
    <3>2. Quoted(exchange)'
      BY <1>1, <2>4, SameQuote DEF PaidInv
    <3>3. PaymentInv'
      BY <2>1, <2>4 DEF PaidInv, PaymentInv, Matches, Stage, Credential, Overdrawn
    <3> QED BY <2>2, <3>1, <3>2, <3>3 DEF PaidInv
  <2>5. ASSUME exchange'.quota = Absent, exchange'.presents \in Presented, Stage' \notin Paying
        PROVE  PaidInv'
    BY <2>1, <2>2, <2>5, StillPresented DEF PaidInv, Quoted, PaymentInv
  <2>6. CASE OriginExecutes
    <3>1. /\ Stage = "forwarded" /\ Stage' = "forwarded"
          /\ exchange'.presents = exchange.presents /\ exchange'.quota = exchange.quota
          /\ exchange'.buffered = exchange.buffered /\ exchange'.request = exchange.request
          /\ exchange'.call = exchange.call /\ exchange'.amount = exchange.amount
          /\ exchange'.paid = exchange.paid /\ exchange'.tenant = exchange.tenant
      BY <1>1, <2>6 DEF OriginExecutes, Fields, Stage
    <3> QED BY <1>1, <2>1, <2>2, <3>1, Onward DEF Paying, Beyond
  <2>7. CASE Done
    BY <2>5, <2>7 DEF Done, Idle, Stage, Paying, Presented
  <2>8. ASSUME NEW r \in Requests, NEW presents \in Presented, Receive(r, presents) PROVE PaidInv'
    <3>1. /\ exchange'.quota = Absent /\ exchange'.presents \in {<<>>, presents}
          /\ Stage' \in {"answered", "collecting", "metering"}
      BY <2>8 DEF Receive, Idle, Stage
    <3> QED BY <2>5, <3>1 DEF Paying, Presented
  <2> QED BY <1>5, <2>3, <2>4, <2>6, <2>7, <2>8
          DEF ExchangeNext, exchangeVars, Serves, FailsToStart, RefreshApplies, GoesStale, Tick,
          BodyTooLarge, BodyBreaks, BodyDeadline, OriginAnswers, UpstreamFails, HangsUp
<1> QED BY <1>2, <1>3, <1>4, <1>5

LEMMA PaidInit == ExchangeInit => PaidInv
BY DEF ExchangeInit, Idle, PaidInv, Book, Quoted, PaymentInv, Presented, Stage, Paying

(***************************************************************************)
(* What a tenant over its quota or its cap has executed was paid for, with *)
(* a payment for this very call that covers it and pays for no other       *)
(* (AdmissionService::decide, Payments::verify, minor_units).              *)
(***************************************************************************)
THEOREM NothingOverCapIsFree == ExchangeSpec => []OverCapCallsArePaid
<1>1. PaidInv => OverCapCallsArePaid
  <2> SUFFICES ASSUME PaidInv, exchange.executed # None, exchange.quota # Absent,
                      Overdrawn(exchange.quota)
               PROVE  \E l \in ledger :
                        /\ l.challenge = exchange.paid /\ l.settled = 1
                        /\ l.tenant = exchange.tenant /\ l.call = exchange.call
                        /\ l.body = exchange.request.body /\ l.amount = exchange.amount
                        /\ l.amount * MicrosPerMinor
                             >= UnitsFor(exchange.quota.prices, exchange.call)
                                  * exchange.quota.unit_price_micros
    BY DEF OverCapCallsArePaid
  <2>1. /\ exchange.amount # Unpriced /\ Quoted(exchange)
        /\ \E l \in ledger : Matches(l, exchange.paid, exchange) /\ l.settled = 1
    BY DEF PaidInv, PaymentInv
  <2>2. exchange.amount * MicrosPerMinor
          >= UnitsFor(exchange.quota.prices, exchange.call) * exchange.quota.unit_price_micros
    BY <2>1, PriceCovers
  <2> QED BY <2>1, <2>2 DEF Matches
<1>2. StartInv /\ WayInv /\ PaidInv /\ [ExchangeNext]_exchangeVars => PaidInv'
  BY PaidStep
<1> QED BY <1>1, <1>2, PaidInit, WayAlways, PTL DEF ExchangeSpec

=================================================================================
