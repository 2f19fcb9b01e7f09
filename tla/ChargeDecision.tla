---------------------------- MODULE ChargeDecision ----------------------------
(***************************************************************************)
(* What mcp-usage-core says of one exchange, as operators: which call a    *)
(* request makes, whether its result may be cached, and the units it owes. *)
(*                                                                         *)
(* A call is its method and its name (NoName where the method carries      *)
(* none).  A request is what the edge may read of it: the revision it      *)
(* declares, the call its headers name, the call its body makes, and       *)
(* whether it continues an earlier round trip.  Durable tasks, whose       *)
(* charge waits for a later poll, are TaskMetering's.                      *)
(***************************************************************************)
EXTENDS Naturals

CONSTANTS NoName, Refused, Free

Named == {"tools/call", "resources/read", "prompts/get"}

Discovery == {"server/discover", "tools/list", "prompts/list", "resources/list",
              "resources/templates/list"}

Cacheable == Discovery \cup {"resources/read"}

TaskDrive == {"tasks/get", "tasks/update", "tasks/cancel"}

\* delivers_priced_work: the three methods that carry a name.
Priced == Named

Revisions == {"validated", "earlier", "missing", "malformed"}

Results == {"complete", "input_required", "absent", "unknown", "error"}

Nameable(call) == call.method \in Named => call.name # NoName

(***************************************************************************)
(* The headers price the call when the declared revision obliges the       *)
(* origin to compare them with the body; else the body does, unless the    *)
(* edge serves modern clients only.                                        *)
(***************************************************************************)
Classified(request, strict) ==
  LET source == IF request.revision = "validated" THEN request.header ELSE request.body IN
  IF \/ request.revision = "malformed"
     \/ request.revision # "validated" /\ strict
     \/ ~Nameable(source)
  THEN Refused ELSE source

Legacy(request) == request.revision # "validated"

(***************************************************************************)
(* An answer is looked for in the cache, and kept there, only if the body  *)
(* makes the call that was classified and starts a round trip.             *)
(***************************************************************************)
MayBeCachedUnmatched(request, call) == call.method \in Cacheable /\ ~request.continuation

MayBeCached(request, call) ==
  /\ call.method \in Cacheable
  /\ ~request.continuation
  /\ request.body = call

\* Most specific first: the name, the method, the default.
UnitsFor(prices, call) ==
  CASE call.name \in DOMAIN prices.names -> prices.names[call.name]
    [] call.name \notin DOMAIN prices.names /\ call.method \in DOMAIN prices.methods
         -> prices.methods[call.method]
    [] OTHER -> prices.default_units

\* On the revisions before resultType a result is the delivered work.
WithLegacyDelivery(legacy, method, result) ==
  IF legacy /\ method \in Priced /\ result = "absent" THEN "complete" ELSE result

NeverBilled == Discovery \cup TaskDrive \cup {"subscriptions/listen"}

\* The units owed, or Free.
Decide(call, result, prices) ==
  IF result = "complete" /\ call.method \notin NeverBilled
  THEN UnitsFor(prices, call) ELSE Free
===============================================================================
