----------------------------- MODULE MeterService -----------------------------
(***************************************************************************)
(* The request path of the edge (mcp-usage-tower, layer.rs): MeterService  *)
(* checks the credential, answers from the cache or asks the origin, and,  *)
(* once the body has been delivered, decides the charge and keeps the      *)
(* answer.  Failed credentials draw on a budget shared by the whole edge.  *)
(*                                                                         *)
(* Exchanges run concurrently.  One that found no cached answer awaits the *)
(* origin, then its own body, so that answers come back in any order; two  *)
(* refused callers may both pass the budget's check before either counts.  *)
(*                                                                         *)
(* From the credential to the lookup nothing is read that another exchange *)
(* changes (the table of tenants is fixed), so that stretch, with its      *)
(* awaits of the request body and of parked accounting, is one step with   *)
(* the lookup.  Left out, for they leave no trace here: requests refused   *)
(* as malformed or too large, notifications and other transport traffic,   *)
(* which is forwarded and never observed.  Task answers and accounting     *)
(* that is parked are TaskMetering's.                                      *)
(***************************************************************************)
EXTENDS ResponseCache, ChargeDecision

CONSTANTS
  Exchanges,               \* requests in progress at a time
  Requests,                \* the requests clients send, with a valid credential
  Prices,                  \* credential -> its tenant's price book
  Hints,                   \* the [scope, ttl] an origin may put on a complete result
  StrictProtocolVersion,
  MaxFailures,             \* auth_failure_limit: failed credentials per Window
  Window,
  MaxTime,                 \* bound: the clock
  None

ASSUME ServiceAssumption ==
  /\ IsFiniteSet(Exchanges)
  /\ \A r \in Requests :
       r.credential \in Credentials /\ (r.body.method \in Cacheable => r.body \in Questions)
  /\ \A h \in Hints : h.ttl \in Nat
  /\ StrictProtocolVersion \in BOOLEAN
  /\ MaxFailures \in Nat /\ Window \in Nat \ {0} /\ MaxTime \in Nat

VARIABLES
  exchange,  \* its stage, its request, and the answer it carries
  failures,  \* FailureWindow: failures counted since started
  started,
  settled    \* history: the exchange last accounted for, what it delivered and the units it owes

serviceVars == <<now, entries, exchange, failures, started, settled>>

Never == MaxTime + 1

Idle == [stage |-> "idle", request |-> None, answer |-> None]

(***************************************************************************)
(* An answer: the call it is about, the credential it was made for, how it *)
(* reads, its hints, and (history) when it was first kept, or Never.       *)
(***************************************************************************)
NoHints == [scope |-> "none", ttl |-> 0]

Answer ==
  [about : {r.body : r \in Requests}, made_for : Credentials, result : Results,
   hints : Hints \cup {NoHints}, kept : 0..Never]

ServiceInit ==
  /\ CacheInit
  /\ now = 0
  /\ exchange = [e \in Exchanges |-> Idle]
  /\ failures = 0
  /\ started = 0
  /\ settled = None

Stage(e) == exchange[e].stage

Call(request) == Classified(request, StrictProtocolVersion)
-------------------------------------------------------------------------------
(***************************************************************************)
(* refuse_credential: the budget is consulted, then charged, under two     *)
(* locks.  A window that has passed is replaced on either occasion.        *)
(***************************************************************************)
WindowPassed == now - started >= Window
Failures == IF WindowPassed THEN 0 ELSE failures
Started == IF WindowPassed THEN now ELSE started

IsExhaustedLate == Failures > MaxFailures
IsExhausted == Failures >= MaxFailures

PresentBadCredential(e) ==
  /\ Stage(e) = "idle"
  /\ failures' = Failures /\ started' = Started
  /\ exchange' = IF IsExhausted THEN exchange
                 ELSE [exchange EXCEPT ![e] = [Idle EXCEPT !.stage = "refused"]]
  /\ settled' = None
  /\ UNCHANGED <<now, entries>>

RecordFailure(e) ==
  /\ Stage(e) = "refused"
  /\ failures' = Failures + 1 /\ started' = Started
  /\ exchange' = [exchange EXCEPT ![e] = Idle]
  /\ settled' = None
  /\ UNCHANGED <<now, entries>>
-------------------------------------------------------------------------------
(***************************************************************************)
(* MeterService::call with a valid credential.                             *)
(***************************************************************************)
Cached(r) ==
  IF MayBeCached(r, Call(r)) THEN Readable(r.body, r.credential) ELSE {}

AfterLookup(r) ==
  IF MayBeCached(r, Call(r)) THEN AfterGet(r.body, r.credential) ELSE entries

ServeFromCache(e, r) ==
  /\ Stage(e) = "idle"
  /\ Call(r) # Refused
  /\ \E key \in Cached(r) :
       exchange' = [exchange EXCEPT ![e] =
         [stage |-> "body", request |-> r, answer |-> entries[key].response]]
  /\ entries' = AfterLookup(r)
  /\ settled' = None
  /\ UNCHANGED <<now, failures, started>>

Forward(e, r) ==
  /\ Stage(e) = "idle"
  /\ Call(r) # Refused
  /\ Cached(r) = {}
  /\ exchange' = [exchange EXCEPT ![e] = [stage |-> "origin", request |-> r, answer |-> None]]
  /\ entries' = AfterLookup(r)
  /\ settled' = None
  /\ UNCHANGED <<now, failures, started>>

(***************************************************************************)
(* The origin.  It executes the body; where the revision obliges it to     *)
(* compare, headers that disagree are an error.  It asks for more input    *)
(* only on the methods that allow it, and only a complete result carries   *)
(* hints.                                                                  *)
(***************************************************************************)
Readings(r) ==
  IF ~Legacy(r) /\ r.header # r.body THEN {"error"}
  ELSE {"complete", "error"}
         \cup (IF Legacy(r) THEN {"absent"} ELSE {})
         \cup (IF r.body.method \in Named THEN {"input_required"} ELSE {})

HintsFor(r, result) ==
  {NoHints} \cup (IF result = "complete" /\ r.body.method \in Cacheable THEN Hints ELSE {})

OriginAnswers(e) ==
  LET r == exchange[e].request IN
  /\ Stage(e) = "origin"
  /\ \E result \in Readings(r) : \E h \in HintsFor(r, result) :
       exchange' = [exchange EXCEPT ![e] =
         [stage |-> "body", request |-> r,
          answer |-> [about |-> r.body, made_for |-> r.credential, result |-> result,
                      hints |-> h, kept |-> Never]]]
  /\ settled' = None
  /\ UNCHANGED <<now, entries, failures, started>>

\* The origin fails, or the caller goes away.
OriginFails(e) ==
  /\ Stage(e) = "origin"
  /\ exchange' = [exchange EXCEPT ![e] = Idle]
  /\ settled' = None
  /\ UNCHANGED <<now, entries, failures, started>>
-------------------------------------------------------------------------------
(***************************************************************************)
(* The end of the body: Completion::finish.  A hit carries no cache key,   *)
(* so it is accounted for and not kept again.                              *)
(***************************************************************************)
FromCache(e) == Stage(e) = "body" /\ exchange[e].answer.kept # Never

Owed(r, a) == Decide(Call(r), WithLegacyDelivery(Legacy(r), Call(r).method, a.result),
                     Prices[r.credential])

KeepsHitsToo(e) ==
  MayBeCached(exchange[e].request, Call(exchange[e].request))
    /\ exchange[e].answer.hints # NoHints

Keeps(e) ==
  /\ ~FromCache(e)
  /\ MayBeCached(exchange[e].request, Call(exchange[e].request))
  /\ exchange[e].answer.hints # NoHints

Finish(e) ==
  LET r == exchange[e].request
      a == exchange[e].answer
      first == IF a.kept = Never THEN now ELSE a.kept
  IN
  /\ Stage(e) = "body"
  /\ settled' = [request |-> r, about |-> a.about, result |-> a.result, units |-> Owed(r, a)]
  /\ IF Keeps(e)
     THEN Insert(r.body, r.credential, a.hints.scope, a.hints.ttl, [a EXCEPT !.kept = first])
     ELSE UNCHANGED entries
  /\ exchange' = [exchange EXCEPT ![e] = Idle]
  /\ UNCHANGED <<now, failures, started>>

\* The body was dropped early, outgrew the capture, or is not one the meter reads.
FinishUnrecognized(e) ==
  /\ Stage(e) = "body"
  /\ exchange' = [exchange EXCEPT ![e] = Idle]
  /\ settled' = None
  /\ UNCHANGED <<now, entries, failures, started>>

Tick ==
  /\ now < MaxTime
  /\ now' = now + 1
  /\ settled' = None
  /\ UNCHANGED <<entries, exchange, failures, started>>
-------------------------------------------------------------------------------
ServiceNext ==
  \/ \E e \in Exchanges :
       \/ PresentBadCredential(e) \/ RecordFailure(e)
       \/ \E r \in Requests : ServeFromCache(e, r) \/ Forward(e, r)
       \/ OriginAnswers(e) \/ OriginFails(e)
       \/ Finish(e) \/ FinishUnrecognized(e)
  \/ Tick

ServiceSpec == ServiceInit /\ [][ServiceNext]_serviceVars
-------------------------------------------------------------------------------
(***************************************************************************)
(* A response served from the cache answers the very call the caller's     *)
(* body makes, never a continuation, and was made for the caller's own     *)
(* credential unless the origin declared it public and the edge shares     *)
(* such answers ("Private cache entries are partitioned by the exact       *)
(* authorization context", README.md; ResponseCache::get and insert,       *)
(* inspect_whole_body), whatever order answers were inserted in.           *)
(***************************************************************************)
HitsAnswerTheirCaller ==
  \A e \in Exchanges : FromCache(e) =>
    LET r == exchange[e].request
        a == exchange[e].answer
    IN
    /\ a.about = r.body
    /\ ~r.continuation
    /\ a.made_for = r.credential \/ (a.hints.scope = "public" /\ SharePublic)

(***************************************************************************)
(* A response is served from the cache only within the lifetime the origin *)
(* gave it, capped by max_ttl, counted from the moment it was first kept:  *)
(* being served does not prolong it, for a hit's completion carries no     *)
(* cache key (MeterService::call).                                         *)
(***************************************************************************)
HitsAreFresh ==
  [][\A e \in Exchanges :
       (Stage(e) = "idle" /\ exchange'[e].stage = "body")
         => now < exchange'[e].answer.kept + Lifetime(exchange'[e].answer.hints.ttl)]_serviceVars

Delivered ==
  /\ settled.about.method \in Priced
  /\ \/ settled.result = "complete"
     \/ settled.result = "absent" /\ Legacy(settled.request)

CompletedLifecycle ==
  settled.result = "complete" /\ settled.about.method \notin Priced \cup NeverBilled

(***************************************************************************)
(* A caller owes its own tenant's price of the call whose answer was       *)
(* delivered, whether by the origin or from the cache, and nothing when    *)
(* none was: headers that name a cheaper call than the body buy nothing,   *)
(* and on an earlier revision, where no result says that it is one, those  *)
(* of lifecycle traffic are still free (Completion::finish, decide,        *)
(* with_legacy_delivery).  What a result costs that lifecycle traffic or   *)
(* an extension calls complete is LifecycleIsFree's.                       *)
(***************************************************************************)
ChargedForWhatWasDelivered ==
  settled # None /\ ~CompletedLifecycle =>
    settled.units =
      IF Delivered THEN UnitsFor(Prices[settled.request.credential], settled.about)
      ELSE Free

(***************************************************************************)
(* Lifecycle, discovery, task plumbing and extensions do not "deliver a    *)
(* priced result no matter what they answer with" (method.rs,              *)
(* delivers_priced_work): none of it is charged.  decide() asks for less.  *)
(***************************************************************************)
LifecycleIsFree ==
  settled # None /\ settled.about.method \notin Priced => settled.units = Free

PastTheCheck == {e \in Exchanges : Stage(e) = "refused"}

(***************************************************************************)
(* Within one window no more failed credentials are answered as such than  *)
(* max_failures, and those callers that passed the check before the last   *)
(* of them was counted: the check and the count are two critical sections  *)
(* (refuse_credential, AuthFailureLimit).                                  *)
(***************************************************************************)
GuessesAreBounded ==
  MaxFailures > 0 =>
    failures + Cardinality(PastTheCheck) <= MaxFailures + Cardinality(Exchanges) - 1
===============================================================================
