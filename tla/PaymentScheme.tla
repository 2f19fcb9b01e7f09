----------------------------- MODULE PaymentScheme -----------------------------
(***************************************************************************)
(* The payment scheme of the sidecar (mpp.rs): the challenge it issues     *)
(* with a refusal, and what it checks of a credential that echoes one,     *)
(* before anybody else is asked.                                           *)
(*                                                                         *)
(* Encodings are left out: header parameters, base64, JSON.  HMAC and      *)
(* SHA-256 are taken for what the scheme relies on, that different inputs  *)
(* have different images.                                                  *)
(***************************************************************************)
EXTENDS Rfc3339

Mac(secret, input) == [mac_of |-> <<secret, input>>]

ContentDigest(body) == [digest_of |-> body]

\* Payments: what one issuer is configured with.
Payments(secret, realm, method, intent, currency, recipient, ttl) ==
  [secret |-> secret, realm |-> realm, method |-> method, intent |-> intent,
   currency |-> currency, recipient |-> recipient, ttl |-> ttl]

TenantBinding(p, tenant) == Mac(p.secret, <<"mcp-usage-tenant-v1", tenant>>)

PricedIdentity(p, tenant, call, nonce) ==
  [tenant |-> TenantBinding(p, tenant), method |-> call.method, name |-> call.name,
   nonce |-> nonce]

PaymentRequest(p, amount) ==
  [amount |-> amount, currency |-> p.currency, recipient |-> p.recipient]

\* The parameters a challenge's identifier is computed over.
Binding(c) ==
  <<c.realm, c.method, c.intent, c.request, c.expires, c.digest, c.opaque, c.header>>

WithId(secret, c) == [bound |-> c, id |-> Mac(secret, Binding(c))]

Challenge(p, amount, tenant, call, body, now, nonce) ==
  WithId(p.secret,
    [realm |-> p.realm, method |-> p.method, intent |-> p.intent,
     request |-> PaymentRequest(p, amount), header |-> "payment-authorization",
     expires |-> Plus(now, p.ttl), digest |-> ContentDigest(body),
     opaque |-> PricedIdentity(p, tenant, call, nonce)])

BindingIsValid(c, secret) == c.id = Mac(secret, Binding(c.bound))

SameCall(p, c, tenant, call) ==
  c.bound.opaque.method = call.method /\ c.bound.opaque.name = call.name

\* Issued for the call now made, by the tenant now calling.
SameIdentity(p, c, tenant, call) ==
  /\ c.bound.opaque.tenant = TenantBinding(p, tenant)
  /\ c.bound.opaque.method = call.method
  /\ c.bound.opaque.name = call.name

Expired(p, c, now) ==
  IsAfter(now, c.bound.expires) \/ Exceeds(c.bound.expires, Plus(now, p.ttl))

\* Payments::verify() up to the reservation, in its order: the error of the first check to fail.
Checks(p, c, tenant, body, call, amount, now) ==
  << <<BindingIsValid(c, p.secret), "InvalidChallenge">>,
     <<c.bound.realm = p.realm, "InvalidChallenge">>,
     <<c.bound.method = p.method, "MethodUnsupported">>,
     <<~Expired(p, c, now), "Expired">>,
     <<c.bound.digest = ContentDigest(body), "DigestMismatch">>,
     <<SameIdentity(p, c, tenant, call), "InvalidChallenge">>,
     <<c.bound.request.amount = amount, "Insufficient">> >>

Passed == "passed"

LocalError(p, c, tenant, body, call, amount, now) ==
  LET checks == Checks(p, c, tenant, body, call, amount, now)
      failing == {i \in DOMAIN checks : ~checks[i][1]}
  IN IF failing = {} THEN Passed
     ELSE checks[CHOOSE i \in failing : \A j \in failing : i <= j][2]

\* FacilitatorMethod::verify(): what its answer, or the lack of a usable one, is taken for.
Verdicts == {"settled", "NotSettled", "Insufficient", "Unavailable"}

CertainlyNotSettled == {"NotSettled", "Insufficient"}

\* A settlement without a reference could not be reconciled.
VerdictOf(answer) ==
  CASE ~answer.usable -> "Unavailable"
    [] answer.usable /\ ~answer.settled ->
         IF answer.reason = "insufficient" THEN "Insufficient" ELSE "NotSettled"
    [] OTHER -> IF answer.reference THEN "settled" ELSE "Unavailable"
===============================================================================
