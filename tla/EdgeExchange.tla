------------------------------ MODULE EdgeExchange ------------------------------
(***************************************************************************)
(* One request on its way through the sidecar, layer by layer: transport   *)
(* checks, admission gate, meter, proxy, and the origin behind them; from  *)
(* the configuration the process starts with to the answer.  Every layer   *)
(* reads the headers for itself, so what one has decided another may see   *)
(* differently.                                                            *)
(*                                                                         *)
(* A connection serves one exchange at a time, and this is one connection; *)
(* the tenant cache changes under it.  Requests that race for a            *)
(* reservation, its end, and the two reads behind a price are              *)
(* PaidAdmission's; here a reservation outlives the behaviour.  Answers    *)
(* from the response cache never reach the proxy and are left out, as is   *)
(* what the meter makes of an answer (MeterService).                       *)
(***************************************************************************)
EXTENDS SidecarConfig, PaymentScheme, ChargeDecision, FiniteSets

CONSTANTS
  Configs,      \* what a sidecar may be started with
  Requests,     \* what clients send, but for payment credentials
  Snapshots,    \* what the plane may say: key -> [tenant, prices, unit price, limits, committed]
  MaxWord,      \* the largest number a u64 holds
  Unpriced,     \* the price of a call whose price cannot be represented
  Nonces,       \* bound: challenges issued in one behaviour
  Garbled,      \* a header, or an encoded name, that cannot be read
  Names,        \* of tools, as they may be encoded in a header
  Junk,         \* a payment credential that cannot be read
  FromBody,     \* the body has to say what the call is
  Transport,    \* traffic that is no call
  Start,        \* the instant of tick 0
  TickSeconds,
  MaxTicks,     \* bound: ticks in one behaviour
  None

\* Calls as a body makes them, and as headers name them.
Calls == [method : STRING, name : Names \cup {NoName}]
HeaderCalls ==
  [method : STRING, name : Names \cup {NoName, Garbled} \cup [encoded : Names \cup {Garbled}]]

Refusals == {"400", "401", "402", "403", "408", "413", "429", "503"}

\* A name that looks encoded and is not is left out.
ASSUME ExchangeAssumption ==
  /\ \A r \in Requests :
       /\ r.http \in {"POST", "GET"} /\ r.body.size \in Nat
       /\ r.header \in HeaderCalls /\ r.body.call \in Calls
  /\ TickSeconds \in Nat /\ MaxTicks \in Nat /\ MaxWord \in Nat
  /\ \A c \in Configs :
       /\ c.tenants \in Seq(Range(c.tenants))
       /\ c.edge.max_request_body_bytes \in Nat \cup {Absent}
  /\ Garbled \notin Names \cup {NoName}
  /\ LET literal == Names \cup {NoName, Garbled} IN literal \cap [encoded : literal] = {}
  /\ Refused # FromBody /\ Transport \notin {Refused, FromBody}
  /\ \A symbol \in {Refused, FromBody, Transport} : symbol \notin Calls
  /\ None \notin Refusals

\* What the plane says: amounts are numbers, and a key is one tenant's for good.
ASSUME PlaneAssumption ==
  \A s \in Snapshots : \A key \in DOMAIN s :
    /\ s[key] # Absent
    /\ s[key].unit_price_micros \in Nat
    /\ s[key].committed \in [units : Nat, spend_micros : Nat]
    /\ s[key].prices.default_units \in Nat
    /\ Range(s[key].prices.names) \subseteq Nat /\ Range(s[key].prices.methods) \subseteq Nat
    /\ \A t \in Snapshots : key \in DOMAIN t => t[key].tenant = s[key].tenant

INSTANCE Limits

VARIABLES
  config,
  process,   \* of the sidecar: starting, serving, or refused
  ticks,
  cache,     \* ControlPlaneTenantStore: entries, and whether they may still be trusted
  exchange,  \* how far the exchange is, and what has been found out about it
  reserved,  \* challenges reserved in the replay store
  ledger     \* history: challenges issued: for what, when, and how often settled

exchangeVars == <<config, process, ticks, cache, exchange, reserved, ledger>>

Cold == [entries |-> <<>>, fresh |-> FALSE]

Idle ==
  [stage |-> "idle", request |-> None, presents |-> <<>>, buffered |-> FALSE, tenant |-> Absent,
   call |-> None, quota |-> Absent, amount |-> Unpriced, problem |-> None, paid |-> None,
   executed |-> None, answer |-> None]

ExchangeInit ==
  /\ config \in Configs
  /\ process = "starting"
  /\ ticks = 0
  /\ cache = Cold
  /\ exchange = Idle
  /\ reserved = {}
  /\ ledger = {}

Stage == exchange.stage
Request == exchange.request

Goes(stage) == exchange' = [exchange EXCEPT !.stage = stage]

Answer(status) == exchange' = [exchange EXCEPT !.stage = "answered", !.answer = status]
-------------------------------------------------------------------------------
(***************************************************************************)
(* Startup.  Redis or the port may be out of reach; a plane that is leaves *)
(* the cache cold.                                                         *)
(***************************************************************************)
Serves ==
  /\ process = "starting" /\ Valid(config) /\ Builds(config)
  /\ process' = "serving"
  /\ \/ cache' = Cold
     \/ /\ config.control_plane # Absent
        /\ \E s \in Snapshots : cache' = [entries |-> s, fresh |-> TRUE]
  /\ UNCHANGED <<config, ticks, exchange, reserved, ledger>>

FailsToStart ==
  /\ process = "starting"
  /\ process' = "refused"
  /\ UNCHANGED <<config, ticks, cache, exchange, reserved, ledger>>

RefreshApplies ==
  /\ process = "serving" /\ Refreshes(config)
  /\ \E s \in Snapshots : cache' = [entries |-> s, fresh |-> TRUE]
  /\ UNCHANGED <<config, process, ticks, exchange, reserved, ledger>>

\* max_stale passes without a snapshot: authenticate() and quota_for() answer nobody, and
\* tenant_for(), which goes on answering, is asked after quota_for() only.
GoesStale ==
  /\ cache.fresh
  /\ cache' = Cold
  /\ UNCHANGED <<config, process, ticks, exchange, reserved, ledger>>

Tick ==
  /\ process = "serving" /\ ticks < MaxTicks
  /\ ticks' = ticks + 1
  /\ UNCHANGED <<config, process, cache, exchange, reserved, ledger>>

Now == Later(Start, ticks * TickSeconds)
-------------------------------------------------------------------------------
(***************************************************************************)
(* What each layer reads of a request.                                     *)
(***************************************************************************)
OriginAllowed(r) ==
  \/ r.origins = <<>>
  \/ Len(r.origins) = 1 /\ r.origins[1] \in config.edge.allowed_origins

Metadata == {"mcp-protocol-version", "mcp-method", "mcp-name"}

ProtectedButMetadata ==
  {"authorization", "x-api-key", "origin", "host", "content-length", "content-type",
   "payment-authorization"}

\* Headers a Connection header may not take away: the layers above the proxy have used them.
Protected ==
  {"authorization", "x-api-key", "origin", "host", "content-length", "content-type"}
    \cup Metadata \cup {"payment-authorization"}

Nominates(r) == r.nominates \cap (Protected \cup {Garbled}) # {}

\* decode(): a name between the sentinel's markers is encoded, any other is literal.
Sentinel(name) == [encoded |-> name]

DecodedName(raw) == IF raw \in [encoded : Names \cup {Garbled}] THEN raw.encoded ELSE raw

\* classify_protocol_headers().
ProtocolHeaders(header) ==
  LET call == [header EXCEPT !.name = DecodedName(header.name)] IN
  IF call.name # Garbled /\ Nameable(call) THEN call ELSE Refused

ClassifyHeaders(r) ==
  CASE r.revision = "malformed" -> Refused
    [] r.revision = "validated" -> ProtocolHeaders(r.header)
    [] OTHER -> IF config.edge.strict_protocol_version THEN Refused ELSE FromBody

\* Classification::resolve(), given the body.  DELETE is handled as GET is.
Resolve(r) ==
  CASE ClassifyHeaders(r) # FromBody -> ClassifyHeaders(r)
    [] ClassifyHeaders(r) = FromBody /\ r.http = "GET" ->
         IF r.body.kind = "empty" THEN Transport ELSE Refused
    [] ClassifyHeaders(r) = FromBody /\ r.http # "GET" ->
         CASE r.body.kind \in {"response", "notification"} -> Transport
           [] r.body.kind = "call" /\ Nameable(r.body.call) -> r.body.call
           [] OTHER -> Refused

\* extract_api_key(): exactly one, in one of two headers.
PresentedKey(r) == IF Len(r.keys) = 1 THEN r.keys[1] ELSE Absent

\* authenticate() of the store in use.
Authenticate(key) ==
  IF config.control_plane = Absent
  THEN IF key \in DOMAIN Directory(config) THEN Directory(config)[key] ELSE Absent
  ELSE IF cache.fresh /\ key \in DOMAIN cache.entries THEN cache.entries[key].tenant ELSE Absent

QuotaFor(key) ==
  IF cache.fresh /\ key \in DOMAIN cache.entries THEN cache.entries[key] ELSE Absent
-------------------------------------------------------------------------------
(***************************************************************************)
(* The transport layer, and the gate up to the body.  A request the gate   *)
(* has no business with goes to the meter without its payment credential.  *)
(***************************************************************************)
\* Credentials a client can present: echoes of what it was given, true or altered, and junk.
Altered(c) == [c EXCEPT !.bound.request.amount = 0]
Presentable == {Junk} \cup UNION {{l.challenge, Altered(l.challenge)} : l \in ledger}
Presented == {<<>>} \cup {<<c>> : c \in Presentable} \cup {<<Junk, Junk>>}

Gated(r) ==
  /\ ClassifyHeaders(r) # Refused
  /\ EnforcesQuota(config) /\ Authenticate(PresentedKey(r)) # Absent

Receive(r, presents) ==
  /\ process = "serving" /\ Stage = "idle"
  /\ exchange' =
       IF ~OriginAllowed(r) THEN [Idle EXCEPT !.stage = "answered", !.request = r, !.answer = "403"]
       ELSE IF Nominates(r)
       THEN [Idle EXCEPT !.stage = "answered", !.request = r, !.answer = "400"]
       ELSE IF Gated(r)
       THEN [Idle EXCEPT !.stage = "collecting", !.request = r, !.presents = presents]
       ELSE [Idle EXCEPT !.stage = "metering", !.request = r]
  /\ UNCHANGED <<config, process, ticks, cache, reserved, ledger>>

\* Where the body is awaited: in the gate, or else in the meter.
AwaitsBody ==
  \/ Stage = "collecting"
  \/ Stage = "reading" /\ ~exchange.buffered

BodyLimit == IF Stage = "collecting" THEN GateLimit(config) ELSE MeterLimit(config)

BodyTooLarge ==
  /\ AwaitsBody /\ Request.body.arrives # "stalled" /\ Request.body.size > BodyLimit
  /\ Answer("413")
  /\ UNCHANGED <<config, process, ticks, cache, reserved, ledger>>

BodyBreaks ==
  /\ AwaitsBody /\ Request.body.arrives = "broken"
  /\ Answer("400")
  /\ UNCHANGED <<config, process, ticks, cache, reserved, ledger>>

BodyDeadlineOnFrame ==
  /\ AwaitsBody /\ Request.body.arrives # "stalled"
  /\ Answer("408")
  /\ UNCHANGED <<config, process, ticks, cache, reserved, ledger>>

\* DeadlineBody: the timer started when the request came in.  Whoever reads the body fails, and
\* the transport layer says why.
BodyDeadline ==
  /\ AwaitsBody
  /\ Answer("408")
  /\ UNCHANGED <<config, process, ticks, cache, reserved, ledger>>
-------------------------------------------------------------------------------
(***************************************************************************)
(* decide().                                                               *)
(***************************************************************************)
Issuer ==
  Payments(Secret(config.mpp.secret_env), config.mpp.realm, config.mpp.method, config.mpp.intent,
           config.mpp.currency, config.mpp.recipient, config.mpp.challenge_ttl_seconds)

Issued(e, nonce) ==
  [challenge |-> Challenge(Issuer, e.amount, e.tenant, e.call, e.request.body, Now, nonce),
   tenant |-> e.tenant, call |-> e.call, body |-> e.request.body, amount |-> e.amount,
   at |-> ticks, settled |-> 0]

\* A fresh challenge, as long as the bound on them lasts.
Offers(e) ==
  LET free == Nonces \ {l.challenge.bound.opaque.nonce : l \in ledger} IN
  IF free = {} THEN UNCHANGED ledger
  ELSE \E nonce \in free : ledger' = ledger \cup {Issued(e, nonce)}

\* What is committed is assessed as it stands: the call itself is not yet counted.
OverCap(e) ==
  /\ e.quota # Absent
  /\ AssessLimits(e.quota.committed, 0, e.quota.unit_price_micros, e.quota.limits) # "allowed"

\* price_for(): by the tenant's own price book.
PriceFor(quota, call) ==
  MinorUnits(UnitsFor(quota.prices, call), quota.unit_price_micros, Unpriced)

\* Quota decides over the exchange as it is now known, its credential failing with problem.
ByQuota(e, problem) ==
  LET found == [e EXCEPT !.problem = problem] IN
  \/ /\ ~OverCap(e)
     /\ exchange' = [found EXCEPT !.stage = "metering", !.presents = <<>>]
     /\ UNCHANGED ledger
  \/ /\ OverCap(e) /\ TakesPayments(config) /\ e.amount # Unpriced
     /\ exchange' = [found EXCEPT !.stage = "answered", !.answer = "402"]
     /\ Offers(e)
  \/ /\ OverCap(e) /\ ~(TakesPayments(config) /\ e.amount # Unpriced)
     /\ exchange' = [found EXCEPT !.stage = "answered", !.answer = "429"]
     /\ UNCHANGED ledger

\* The exchange once its call is known: whose it is, the tenant's quota, and its price.
Appraised(call) ==
  LET q == QuotaFor(PresentedKey(Request)) IN
  [exchange EXCEPT !.buffered = TRUE, !.call = call, !.quota = q,
     !.tenant = IF q = Absent THEN Absent ELSE q.tenant,
     !.amount = IF q = Absent THEN Unpriced ELSE PriceFor(q, call)]

CredentialError(e) ==
  IF e.presents[1] = Junk THEN "Malformed"
  ELSE LocalError(Issuer, e.presents[1], e.tenant, e.request.body, e.call, e.amount, Now)

Decides(e) ==
  IF e.presents = <<>> \/ ~TakesPayments(config) \/ e.amount = Unpriced
  THEN ByQuota(e, None)
  ELSE IF CredentialError(e) = Passed
  THEN exchange' = [e EXCEPT !.stage = "reserving"] /\ UNCHANGED ledger
  ELSE ByQuota(e, CredentialError(e))

GateReads ==
  /\ Stage = "collecting" /\ Request.body.arrives = "whole" /\ Request.body.size <= BodyLimit
  /\ LET call == Resolve(Request) IN
       \/ /\ call = Refused \/ Len(exchange.presents) > 1
          /\ Answer("400") /\ UNCHANGED ledger
       \/ /\ call # Refused /\ Len(exchange.presents) <= 1
          /\ IF call = Transport THEN TRUE ELSE call.method \notin Priced
          /\ exchange' = [exchange EXCEPT !.stage = "metering", !.buffered = TRUE,
                                          !.presents = <<>>]
          /\ UNCHANGED ledger
       \/ /\ call \notin {Refused, Transport} /\ Len(exchange.presents) <= 1
          /\ call.method \in Priced
          /\ Decides(Appraised(call))
  /\ UNCHANGED <<config, process, ticks, cache, reserved>>

\* The credential under verification, and what the ledger has of it.
Credential == exchange.presents[1]
Entry == CHOOSE l \in ledger : l.challenge = Credential

ReserveAnswers ==
  /\ Stage = "reserving"
  /\ \/ /\ Credential.id \notin reserved
        /\ reserved' = reserved \cup {Credential.id}
        /\ Goes("consulting") /\ UNCHANGED ledger
     \/ /\ Credential.id \in reserved
        /\ ByQuota(exchange, "VerificationFailed") /\ UNCHANGED reserved
  /\ UNCHANGED <<config, process, ticks, cache>>

\* 503: the store's timeout passes, or it fails; what it was asked for may have been done.
StoreFails ==
  /\ \/ Stage = "reserving" /\ reserved' \in {reserved, reserved \cup {Credential.id}}
     \/ Stage = "releasing" /\ reserved' \in {reserved, reserved \ {Credential.id}}
  /\ Answer("503")
  /\ UNCHANGED <<config, process, ticks, cache, ledger>>

FacilitatorAnswers ==
  [usable : BOOLEAN, settled : BOOLEAN, reason : {"insufficient", "other"}, reference : BOOLEAN]

Consults ==
  /\ Stage = "consulting"
  /\ \E answer \in FacilitatorAnswers :
       \/ /\ VerdictOf(answer) = "settled"
          /\ exchange' = [exchange EXCEPT !.stage = "metering", !.presents = <<>>,
                                          !.paid = Credential]
          /\ ledger' = (ledger \ {Entry}) \cup {[Entry EXCEPT !.settled = @ + 1]}
       \/ /\ VerdictOf(answer) \in CertainlyNotSettled
          /\ exchange' = [exchange EXCEPT !.stage = "releasing", !.problem = VerdictOf(answer)]
          /\ UNCHANGED ledger
       \/ /\ VerdictOf(answer) = "Unavailable"
          /\ Answer("503") /\ UNCHANGED ledger
  /\ UNCHANGED <<config, process, ticks, cache, reserved>>

FacilitatorTimesOut ==
  /\ Stage = "consulting"
  /\ Answer("503")
  /\ UNCHANGED <<config, process, ticks, cache, reserved, ledger>>

ReleaseAnswers ==
  /\ Stage = "releasing"
  /\ reserved' = reserved \ {Credential.id}
  /\ ByQuota(exchange, exchange.problem)
  /\ UNCHANGED <<config, process, ticks, cache>>
-------------------------------------------------------------------------------
(***************************************************************************)
(* The meter: it classifies and authenticates the request once more, helps *)
(* with parked accounting, and reads the body if the gate has not.         *)
(***************************************************************************)
Unauthorized == {"401"} \cup (IF config.edge.auth_failure_limit = Absent THEN {} ELSE {"429"})

MeterChecks ==
  /\ Stage = "metering"
  /\ LET r == Request
         tenant == Authenticate(PresentedKey(r)) IN
       \/ ClassifyHeaders(r) = Refused /\ Answer("400")
       \/ /\ ClassifyHeaders(r) # Refused /\ tenant = Absent
          /\ \E status \in Unauthorized : Answer(status)
       \/ /\ ClassifyHeaders(r) # Refused /\ tenant # Absent
          /\ exchange' = [exchange EXCEPT !.stage = "draining", !.tenant = tenant]
  /\ UNCHANGED <<config, process, ticks, cache, reserved, ledger>>

Drained ==
  /\ Stage = "draining"
  /\ Goes("reading")
  /\ UNCHANGED <<config, process, ticks, cache, reserved, ledger>>

MeterReads ==
  /\ Stage = "reading"
  /\ exchange.buffered \/ Request.body.arrives = "whole"
  /\ LET call == Resolve(Request) IN
       IF Request.body.size > BodyLimit THEN Answer("413")
       ELSE IF call = Refused THEN Answer("400")
       ELSE exchange' = [exchange EXCEPT !.stage = "forwarded", !.call = call]
  /\ UNCHANGED <<config, process, ticks, cache, reserved, ledger>>
-------------------------------------------------------------------------------
(***************************************************************************)
(* The proxy, and the origin behind it.  What a Connection header          *)
(* nominates is hop-by-hop; the key goes no further unless the operator    *)
(* wants it to.  An origin that is told a revision which mirrors the call  *)
(* in headers compares them with the body, and executes the body.          *)
(***************************************************************************)
Sees(header) == header \notin Request.nominates

ForwardsKey == config.edge.credential_forwarding

Makes(body) == IF body.kind = "call" THEN body.call ELSE Transport

Mirrors(header, body) == header \in {body, [body EXCEPT !.name = Sentinel(body.name)]}

OriginRejects ==
  /\ Request.revision = "validated" /\ Sees("mcp-protocol-version")
  /\ \/ ~Sees("mcp-method") \/ ~Sees("mcp-name")
     \/ Request.body.kind # "call" \/ ~Mirrors(Request.header, Request.body.call)

OriginExecutes ==
  /\ Stage = "forwarded" /\ exchange.executed = None /\ ~OriginRejects
  /\ exchange' = [exchange EXCEPT !.executed =
       [call |-> Makes(Request.body), key |-> ForwardsKey, credential |-> exchange.presents # <<>>]]
  /\ UNCHANGED <<config, process, ticks, cache, reserved, ledger>>

\* A receipt says that the payment settled and that the resource was served.
OriginAnswers ==
  /\ Stage = "forwarded"
  /\ OriginRejects \/ exchange.executed # None
  /\ \/ Answer("error")
     \/ exchange.executed # None /\ Answer(IF exchange.paid = None THEN "ok" ELSE "receipt")
  /\ UNCHANGED <<config, process, ticks, cache, reserved, ledger>>

\* 502, or 504 when upstream.timeout_seconds have passed: the origin may have acted.
UpstreamFails ==
  /\ Stage = "forwarded"
  /\ \E status \in {"502", "504"} : Answer(status)
  /\ UNCHANGED <<config, process, ticks, cache, reserved, ledger>>
-------------------------------------------------------------------------------
\* The caller hangs up: the future is dropped where it waits.
HangsUp ==
  /\ Stage \in {"collecting", "reserving", "consulting", "releasing", "draining", "reading",
               "forwarded"}
  /\ Answer("gone")
  /\ UNCHANGED <<config, process, ticks, cache, reserved, ledger>>

Done ==
  /\ Stage = "answered"
  /\ exchange' = Idle
  /\ UNCHANGED <<config, process, ticks, cache, reserved, ledger>>

\* What the sidecar does by itself, whatever the others do or fail to do: timers, and steps that
\* wait for nobody.  A parked completion it drains ends by its own store's timeouts.
Alone ==
  \/ BodyDeadline \/ StoreFails \/ FacilitatorTimesOut \/ MeterChecks \/ Drained
  \/ UpstreamFails
  \/ exchange.buffered /\ MeterReads

ExchangeNext ==
  \/ Serves \/ FailsToStart \/ RefreshApplies \/ GoesStale \/ Tick
  \/ \E r \in Requests : \E presents \in Presented : Receive(r, presents)
  \/ BodyTooLarge \/ BodyBreaks \/ BodyDeadline \/ GateReads
  \/ ReserveAnswers \/ StoreFails \/ Consults \/ FacilitatorTimesOut \/ ReleaseAnswers
  \/ MeterChecks \/ Drained \/ MeterReads
  \/ OriginExecutes \/ OriginAnswers \/ UpstreamFails
  \/ HangsUp \/ Done

ExchangeSpec == ExchangeInit /\ [][ExchangeNext]_exchangeVars /\ WF_exchangeVars(Alone)
-------------------------------------------------------------------------------
(***************************************************************************)
(* A call is executed in the name of every entry of a static configuration *)
(* that its key is resolved from, in the file or in the environment: two   *)
(* tenants never share a key, and the later one does not get the calls of  *)
(* the earlier.  resolve_tenants, authenticate, MeterService.              *)
(***************************************************************************)
TenantsPayForTheirOwnCalls ==
  exchange.executed # None /\ config.control_plane = Absent =>
    LET holders == {t \in Range(config.tenants) : ResolveKey(t) = PresentedKey(Request)}
    IN {t.id : t \in holders} = {exchange.tenant}

(***************************************************************************)
(* What the origin executes is the call the meter classified, although the *)
(* origin reads other parts of the request, fewer headers of it, and after *)
(* two more layers; and it is handed neither a payment credential nor,     *)
(* unless forwarding is configured, the tenant's key.  TransportLayer,     *)
(* MeterService, strip_hop_by_hop.                                         *)
(***************************************************************************)
OriginSeesThePricedCall ==
  exchange.executed # None =>
    /\ exchange.executed.call = exchange.call
    /\ exchange.executed.key => config.edge.credential_forwarding
    /\ ~exchange.executed.credential

Overdrawn(quota) ==
  \/ quota.limits.max_units # Absent /\ quota.committed.units > quota.limits.max_units
  \/ /\ quota.limits.max_spend_micros # Absent
     /\ quota.committed.spend_micros > quota.limits.max_spend_micros

(***************************************************************************)
(* A call of a tenant that had used more than its quota, or spent more     *)
(* than its cap, when the gate looked is executed against a settled        *)
(* payment: of a challenge issued for this tenant, this call, this body    *)
(* and this price, which covers what the call costs, and that pays for no  *)
(* other call.  AdmissionService::decide, assess_limits, Payments::verify. *)
(***************************************************************************)
OverCapCallsArePaid ==
  exchange.executed # None /\ exchange.quota # Absent /\ Overdrawn(exchange.quota) =>
    \E l \in ledger :
      /\ l.challenge = exchange.paid /\ l.settled = 1
      /\ l.tenant = exchange.tenant /\ l.call = exchange.call
      /\ l.body = exchange.request.body /\ l.amount = exchange.amount
      /\ l.amount * MicrosPerMinor
           >= UnitsFor(exchange.quota.prices, exchange.call) * exchange.quota.unit_price_micros

(***************************************************************************)
(* "An unknown key, or a cache too stale to trust, yields no verdict here. *)
(* Both are the meter's business, and it will refuse them" (admission.rs): *)
(* a priced call that comes through decide() without a verdict is not      *)
(* executed.  A snapshot applied before the meter looks lets it in.        *)
(* AdmissionService::decide, ControlPlaneTenantStore::authenticate.        *)
(***************************************************************************)
CallsWithoutVerdictAreRefused ==
  exchange.executed # None /\ exchange.buffered =>
    \/ exchange.call = Transport
    \/ exchange.call.method \notin Priced
    \/ exchange.quota # Absent

(***************************************************************************)
(* What the sidecar refuses by itself, 408 included, the origin never      *)
(* executed; and a call that has been paid for is refused only if the      *)
(* meter, which looks again, no longer knows the key.                      *)
(***************************************************************************)
RefusedCallsStopHere ==
  exchange.answer \in Refusals =>
    /\ exchange.executed = None
    /\ exchange.paid # None => exchange.answer \in {"401", "429"}

Honourable(l) ==
  LET q == QuotaFor(PresentedKey(Request)) IN
  /\ exchange.presents = <<l.challenge>> /\ q # Absent
  /\ l.tenant = q.tenant /\ l.call = Resolve(Request) /\ l.body = Request.body
  /\ l.amount = PriceFor(q, l.call)
  /\ (ticks - l.at) * TickSeconds <= config.mpp.challenge_ttl_seconds

(***************************************************************************)
(* A challenge answered in time is not turned away: presented as it was    *)
(* issued, by its tenant, for the same call and body at the same price, no *)
(* more than its lifetime later, it passes every local check, whatever     *)
(* leap day or turn of the year lies between.  Payments::verify, Rfc3339.  *)
(***************************************************************************)
GoodPaymentIsHonoured ==
  [][Stage = "collecting" /\ (\E l \in ledger : Honourable(l))
       => exchange'.problem = None]_exchangeVars

(***************************************************************************)
(* Every request is answered, though its body stalls, the store or the     *)
(* facilitator says nothing, or the origin hangs.  Each await ends by a    *)
(* timer.                                                                  *)
(***************************************************************************)
EveryRequestIsAnswered ==
  Stage \notin {"idle", "answered"} ~> Stage = "answered"
===============================================================================
