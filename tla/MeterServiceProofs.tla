-------------------------- MODULE MeterServiceProofs --------------------------
(***************************************************************************)
(* Theorems about MeterService, for any exchanges, requests, credentials,  *)
(* hints and limits.                                                       *)
(*                                                                         *)
(* What is known of an answer while it travels is known of the entry made  *)
(* from it: the key it landed under says whom it was made for and what the *)
(* origin declared.  That, carried by every exchange and every entry, is   *)
(* the inductive invariant.  What is evicted and what is owed have         *)
(* invariants of their own: TableInv and ChargeInv.                        *)
(***************************************************************************)
EXTENDS MeterService, FiniteSetTheorems, TLAPS

ClockInv == now \in 0..MaxTime

AnswerFields == {"about", "made_for", "result", "hints", "kept"}

\* An answer on its way: from the origin for its own caller, or from the cache.
CarriesItsAnswer(x) ==
  x.stage \in {"origin", "body"} =>
    /\ x.request \in Requests
    /\ x.stage = "body" =>
         /\ DOMAIN x.answer = AnswerFields
         /\ x.answer.about = x.request.body
         /\ x.answer.hints.ttl \in Nat
         /\ x.answer.kept = Never => x.answer.made_for = x.request.credential
         /\ x.answer.kept # Never =>
              /\ ~x.request.continuation
              /\ \/ x.answer.made_for = x.request.credential
                 \/ x.answer.hints.scope = "public" /\ SharePublic

ExchangeInv ==
  /\ exchange = [e \in Exchanges |-> exchange[e]]
  /\ \A e \in Exchanges : CarriesItsAnswer(exchange[e])

\* An entry under its key.
Belongs(key, entry) ==
  /\ DOMAIN entry.response = AnswerFields
  /\ entry.response.about = key.logical
  /\ key.owner = Shared => entry.response.hints.scope = "public" /\ SharePublic
  /\ key.owner # Shared => entry.response.made_for = key.owner
  /\ entry.response.kept \in 0..MaxTime
  /\ entry.response.hints.ttl \in Nat
  /\ entry.expires_at = entry.response.kept + Lifetime(entry.response.hints.ttl)

EntryInv == \A k \in Kept : Belongs(k, entries[k])

ServiceInv == ClockInv /\ ExchangeInv /\ EntryInv /\ OneRepresentation
-------------------------------------------------------------------------------
(***************************************************************************)
(* What a lookup does to the table: it only loses entries.                 *)
(***************************************************************************)
LEMMA GetOnlyDrops ==
  ASSUME NEW q, NEW c, entries' = AfterGet(q, c), EntryInv, OneRepresentation
  PROVE  EntryInv' /\ OneRepresentation'
<1>1. DOMAIN entries' \subseteq Kept /\ \A k \in DOMAIN entries' : entries'[k] = entries[k]
  BY DEF AfterGet, Restrict, Kept
<1>2. EntryInv'
  BY <1>1 DEF EntryInv, Kept, Belongs, Lifetime
<1>3. OneRepresentation'
  BY <1>1 DEF OneRepresentation, Kept, Public
<1> QED BY <1>2, <1>3

\* Whatever is left beside a new entry was there before and is not superseded.
LEMMA SurvivorsWereKept ==
  ASSUME NEW key, NEW rest \in Survivors(key)
  PROVE  rest \subseteq Kept \ Superseded(key)
BY DEF Survivors, Swept

(***************************************************************************)
(* What an insertion does to it.                                           *)
(***************************************************************************)
LEMMA InsertKeepsFaith ==
  ASSUME NEW q, NEW c \in Credentials, NEW scope, NEW ttl \in Nat, NEW response,
         Insert(q, c, scope, ttl, response),
         ClockInv, EntryInv, OneRepresentation,
         DOMAIN response = AnswerFields, response.about = q, response.made_for = c, response.kept = now,
         response.hints.ttl = ttl, response.hints.scope = scope
  PROVE  EntryInv' /\ OneRepresentation'
<1> DEFINE key == Landing(q, c, scope)
           entry == [response |-> response, inserted_at |-> now,
                     expires_at |-> now + Lifetime(ttl)]
<1>1. CASE UNCHANGED entries
  BY <1>1 DEF EntryInv, OneRepresentation, Kept, Belongs, Lifetime, Public
<1>2. CASE \E rest \in Survivors(key) :
             entries' = [k \in rest \cup {key} |-> IF k = key THEN entry ELSE entries[k]]
  <2>1. PICK rest \in Survivors(key) :
          entries' = [k \in rest \cup {key} |-> IF k = key THEN entry ELSE entries[k]]
    BY <1>2
  <2>2. /\ rest \subseteq Kept /\ rest \cap Superseded(key) = {}
        /\ DOMAIN entries' = rest \cup {key}
        /\ entries'[key] = entry
        /\ \A k \in rest : k # key => entries'[k] = entries[k]
    BY <2>1, SurvivorsWereKept
  <2>3. \/ key = Public(q) /\ scope = "public" /\ SharePublic
        \/ key = Private(q, c)
    BY DEF Landing
  <2>4. /\ Public(q).owner = Shared /\ Public(q).logical = q
        /\ Private(q, c).owner = c /\ Private(q, c).logical = q
        /\ c # Shared
    BY CacheAssumption DEF Public, Private
  <2>5. Belongs(key, entry)
    <3>1. /\ entry.response = response
          /\ entry.expires_at = now + Lifetime(ttl)
      OBVIOUS
    <3> QED BY <3>1, <2>3, <2>4 DEF Belongs, ClockInv
  <2>6. EntryInv'
    <3> SUFFICES ASSUME NEW k \in rest \cup {key} PROVE Belongs(k, entries'[k])
      BY <2>2 DEF EntryInv, Kept, Belongs, Lifetime
    <3>1. CASE k = key
      BY <3>1, <2>2, <2>5
    <3>2. CASE k # key
      BY <3>2, <2>2 DEF EntryInv
    <3> QED BY <3>1, <3>2
  <2>7. OneRepresentation'
    <3> SUFFICES ASSUME NEW k \in rest \cup {key}, k.owner # Shared
                 PROVE  Public(k.logical) \notin rest \cup {key}
      BY <2>2 DEF OneRepresentation, Kept, Public
    <3>1. CASE k = key
      <4>1. key = Private(q, c)
        BY <3>1, <2>3, <2>4
      <4>2. Public(q) \in Superseded(key)
        BY <4>1, <2>4 DEF Superseded
      <4> QED BY <3>1, <4>1, <4>2, <2>2, <2>4
    <3>2. CASE k \in rest
      <4>1. Public(k.logical) \notin rest
        BY <3>2, <2>2 DEF OneRepresentation
      <4>2. ASSUME Public(k.logical) = key PROVE FALSE
        <5>1. key.owner = Shared /\ key.logical = k.logical
          BY <4>2 DEF Public
        <5>2. k \in Superseded(key)
          BY <5>1, <3>2, <2>2 DEF Superseded
        <5> QED BY <5>2, <3>2, <2>2
      <4> QED BY <4>1, <4>2
    <3> QED BY <3>1, <3>2
  <2> QED BY <2>6, <2>7
<1> QED BY <1>1, <1>2 DEF Insert
-------------------------------------------------------------------------------
(***************************************************************************)
(* The invariant holds at first and is kept by every step.                 *)
(***************************************************************************)
LEMMA InitHolds == ServiceInit => ServiceInv
<1> SUFFICES ASSUME ServiceInit PROVE ServiceInv
  OBVIOUS
<1>1. Kept = {}
  BY DEF ServiceInit, CacheInit, Kept
<1>2. ClockInv
  BY ServiceAssumption DEF ServiceInit, ClockInv
<1>3. ExchangeInv
  BY DEF ServiceInit, ExchangeInv, CarriesItsAnswer, Idle
<1> QED BY <1>1, <1>2, <1>3 DEF ServiceInv, EntryInv, OneRepresentation

\* One exchange changes, to a value that carries its answer.
LEMMA OneExchangeMoves ==
  ASSUME ExchangeInv, NEW e \in Exchanges, NEW x, CarriesItsAnswer(x),
         exchange' = [exchange EXCEPT ![e] = x]
  PROVE  ExchangeInv'
<1>1. exchange' = [d \in Exchanges |-> IF d = e THEN x ELSE exchange[d]]
  BY DEF ExchangeInv
<1>2. \A d \in Exchanges : CarriesItsAnswer(exchange'[d])
  BY <1>1 DEF ExchangeInv
<1>3. exchange' = [d \in Exchanges |-> exchange'[d]]
  BY <1>1
<1> QED BY <1>2, <1>3 DEF ExchangeInv, CarriesItsAnswer

LEMMA IdleCarriesNothing == CarriesItsAnswer(Idle) /\ CarriesItsAnswer([Idle EXCEPT !.stage = "refused"])
BY DEF CarriesItsAnswer, Idle

\* The table is the same.
LEMMA TableUnchanged ==
  ASSUME EntryInv, OneRepresentation, UNCHANGED entries
  PROVE  EntryInv' /\ OneRepresentation'
BY DEF EntryInv, OneRepresentation, Kept, Belongs, Lifetime, Public

LEMMA LookupKeepsFaith ==
  ASSUME NEW r, EntryInv, OneRepresentation, entries' = AfterLookup(r)
  PROVE  EntryInv' /\ OneRepresentation'
BY GetOnlyDrops, TableUnchanged DEF AfterLookup

\* A hit was made for its caller or for everyone, and has not expired.
LEMMA HitIsForItsCaller ==
  ASSUME EntryInv, ClockInv, NEW r \in Requests, NEW key \in Cached(r)
  PROVE  /\ CarriesItsAnswer([stage |-> "body", request |-> r, answer |-> entries[key].response])
         /\ entries[key].expires_at > now
         /\ Belongs(key, entries[key])
<1>1. MayBeCached(r, Call(r)) /\ key \in Readable(r.body, r.credential)
  BY DEF Cached
<1>2. /\ key \in {Private(r.body, r.credential), Public(r.body)}
      /\ key \in Kept /\ entries[key].expires_at > now
  BY <1>1 DEF Readable, Live
<1>3. Belongs(key, entries[key])
  BY <1>2 DEF EntryInv
<1>4. /\ key.logical = r.body
      /\ key.owner = Shared \/ key.owner = r.credential
  BY <1>2 DEF Private, Public
<1>5. ~r.continuation
  BY <1>1 DEF MayBeCached
<1> DEFINE x == [stage |-> "body", request |-> r, answer |-> entries[key].response]
<1>6. /\ x.stage = "body" /\ x.request = r /\ x.answer = entries[key].response
  OBVIOUS
<1>7. /\ DOMAIN x.answer = AnswerFields
      /\ x.answer.kept # Never
      /\ x.answer.about = r.body
      /\ x.answer.hints.ttl \in Nat
      /\ \/ x.answer.made_for = r.credential
         \/ x.answer.hints.scope = "public" /\ SharePublic
  BY <1>3, <1>4, <1>6, ServiceAssumption DEF Belongs, Never
<1>8. CarriesItsAnswer(x)
  BY <1>5, <1>6, <1>7 DEF CarriesItsAnswer
<1> QED BY <1>2, <1>3, <1>8
-------------------------------------------------------------------------------
LEMMA StepHolds == ServiceInv /\ [ServiceNext]_serviceVars => ServiceInv'
<1> SUFFICES ASSUME ServiceInv, [ServiceNext]_serviceVars PROVE ServiceInv'
  OBVIOUS
<1> USE DEF ServiceInv
<1>1. CASE UNCHANGED serviceVars
  <2>1. ExchangeInv' /\ ClockInv'
    BY <1>1 DEF serviceVars, ExchangeInv, CarriesItsAnswer, ClockInv
  <2>2. UNCHANGED entries
    BY <1>1 DEF serviceVars
  <2> QED BY <2>1, <2>2, TableUnchanged
<1>2. ASSUME NEW e \in Exchanges, PresentBadCredential(e) PROVE ServiceInv'
  <2>1. UNCHANGED <<now, entries>>
    BY <1>2 DEF PresentBadCredential
  <2>2. ExchangeInv'
    <3>1. CASE UNCHANGED exchange
      BY <3>1 DEF ExchangeInv, CarriesItsAnswer
    <3>2. CASE exchange' = [exchange EXCEPT ![e] = [Idle EXCEPT !.stage = "refused"]]
      BY <3>2, OneExchangeMoves, IdleCarriesNothing
    <3> QED BY <1>2, <3>1, <3>2 DEF PresentBadCredential
  <2> QED BY <2>1, <2>2, TableUnchanged DEF ClockInv
<1>3. ASSUME NEW e \in Exchanges,
             RecordFailure(e) \/ OriginFails(e) \/ FinishUnrecognized(e)
      PROVE  ServiceInv'
  <2>1. UNCHANGED <<now, entries>> /\ exchange' = [exchange EXCEPT ![e] = Idle]
    BY <1>3 DEF RecordFailure, OriginFails, FinishUnrecognized
  <2>2. ExchangeInv'
    BY <2>1, OneExchangeMoves, IdleCarriesNothing
  <2> QED BY <2>1, <2>2, TableUnchanged DEF ClockInv
<1>4. ASSUME NEW e \in Exchanges, NEW r \in Requests, ServeFromCache(e, r) PROVE ServiceInv'
  <2>1. PICK key \in Cached(r) :
          exchange' = [exchange EXCEPT ![e] =
            [stage |-> "body", request |-> r, answer |-> entries[key].response]]
    BY <1>4 DEF ServeFromCache
  <2>2. entries' = AfterLookup(r) /\ now' = now
    BY <1>4 DEF ServeFromCache
  <2>3. ExchangeInv'
    BY <2>1, HitIsForItsCaller, OneExchangeMoves
  <2> QED BY <2>2, <2>3, LookupKeepsFaith DEF ClockInv
<1>5. ASSUME NEW e \in Exchanges, NEW r \in Requests, Forward(e, r) PROVE ServiceInv'
  <2>1. /\ entries' = AfterLookup(r) /\ now' = now
        /\ exchange' = [exchange EXCEPT ![e] =
                          [stage |-> "origin", request |-> r, answer |-> None]]
    BY <1>5 DEF Forward
  <2>2. CarriesItsAnswer([stage |-> "origin", request |-> r, answer |-> None])
    BY DEF CarriesItsAnswer
  <2>3. ExchangeInv'
    BY <2>1, <2>2, OneExchangeMoves
  <2> QED BY <2>1, <2>3, LookupKeepsFaith DEF ClockInv
<1>6. ASSUME NEW e \in Exchanges, OriginAnswers(e) PROVE ServiceInv'
  <2>1. exchange[e].request \in Requests
    BY <1>6 DEF OriginAnswers, Stage, ExchangeInv, CarriesItsAnswer
  <2>2. PICK result \in Readings(exchange[e].request) :
          \E h \in HintsFor(exchange[e].request, result) :
            exchange' = [exchange EXCEPT ![e] =
              [stage |-> "body", request |-> exchange[e].request,
               answer |-> [about |-> exchange[e].request.body,
                           made_for |-> exchange[e].request.credential,
                           result |-> result, hints |-> h, kept |-> Never]]]
    BY <1>6 DEF OriginAnswers
  <2>3. PICK h \in HintsFor(exchange[e].request, result) :
          exchange' = [exchange EXCEPT ![e] =
            [stage |-> "body", request |-> exchange[e].request,
             answer |-> [about |-> exchange[e].request.body,
                         made_for |-> exchange[e].request.credential,
                         result |-> result, hints |-> h, kept |-> Never]]]
    BY <2>2
  <2>4. h.ttl \in Nat
    BY <2>3, ServiceAssumption DEF HintsFor, NoHints
  <2>5. CarriesItsAnswer(
          [stage |-> "body", request |-> exchange[e].request,
           answer |-> [about |-> exchange[e].request.body,
                       made_for |-> exchange[e].request.credential,
                       result |-> result, hints |-> h, kept |-> Never]])
    BY <2>1, <2>4 DEF CarriesItsAnswer, AnswerFields
  <2>6. ExchangeInv'
    BY <2>3, <2>5, OneExchangeMoves
  <2>7. UNCHANGED <<now, entries>>
    BY <1>6 DEF OriginAnswers
  <2> QED BY <2>6, <2>7, TableUnchanged DEF ClockInv
<1>7. ASSUME NEW e \in Exchanges, Finish(e) PROVE ServiceInv'
  <2>1. now' = now /\ exchange' = [exchange EXCEPT ![e] = Idle]
    BY <1>7 DEF Finish
  <2>2. ExchangeInv'
    BY <2>1, OneExchangeMoves, IdleCarriesNothing
  <2>3. CASE ~Keeps(e)
    <3>1. UNCHANGED entries
      BY <1>7, <2>3 DEF Finish
    <3> QED BY <2>1, <2>2, <3>1, TableUnchanged DEF ClockInv
  <2>4. CASE Keeps(e)
    <3> DEFINE r == exchange[e].request
               a == exchange[e].answer
               kept == [a EXCEPT !.kept = now]
    <3>1. Stage(e) = "body" /\ a.kept = Never
      BY <1>7, <2>4 DEF Keeps, FromCache, Finish
    <3>2. /\ r \in Requests /\ a.about = r.body /\ a.made_for = r.credential
          /\ a.hints.ttl \in Nat /\ DOMAIN a = AnswerFields
      BY <3>1 DEF Stage, ExchangeInv, CarriesItsAnswer
    <3>3. Insert(r.body, r.credential, a.hints.scope, a.hints.ttl, kept)
      BY <1>7, <2>4, <3>1 DEF Finish
    <3>4. /\ DOMAIN kept = AnswerFields
          /\ kept.about = r.body /\ kept.made_for = r.credential /\ kept.kept = now
          /\ kept.hints = a.hints
      BY <3>2 DEF AnswerFields
    <3>5. r.credential \in Credentials
      BY <3>2, ServiceAssumption
    <3> HIDE DEF kept
    <3>6. EntryInv' /\ OneRepresentation'
      BY <3>2, <3>3, <3>4, <3>5, InsertKeepsFaith
    <3> QED BY <2>1, <2>2, <3>6 DEF ClockInv
  <2> QED BY <2>3, <2>4
<1>8. CASE Tick
  <2>1. UNCHANGED <<entries, exchange>> /\ now < MaxTime /\ now' = now + 1
    BY <1>8 DEF Tick
  <2>2. ExchangeInv' /\ ClockInv'
    BY <2>1, ServiceAssumption DEF ExchangeInv, CarriesItsAnswer, ClockInv
  <2> QED BY <2>1, <2>2, TableUnchanged
<1> QED
  BY <1>1, <1>2, <1>3, <1>4, <1>5, <1>6, <1>7, <1>8 DEF ServiceNext

LEMMA ServiceInvariant == ServiceSpec => []ServiceInv
BY InitHolds, StepHolds, PTL DEF ServiceSpec

(***************************************************************************)
(* A question is answered by the shared entry or by private ones, never    *)
(* both (ResponseCache::insert).                                           *)
(***************************************************************************)
THEOREM EitherSharedOrPrivate == ServiceSpec => []OneRepresentation
BY ServiceInvariant, PTL DEF ServiceInv

(***************************************************************************)
(* A hit is about the caller's own question and was made for the caller's  *)
(* credential, unless shared as public (ResponseCache::get, insert).       *)
(***************************************************************************)
THEOREM HitsAreTheCallers == ServiceSpec => []HitsAnswerTheirCaller
<1>1. ServiceInv => HitsAnswerTheirCaller
  BY DEF ServiceInv, ExchangeInv, CarriesItsAnswer, HitsAnswerTheirCaller, FromCache, Stage
<1> QED BY <1>1, ServiceInvariant, PTL

(***************************************************************************)
(* A hit is served within the lifetime counted from the moment its answer  *)
(* was first kept (MeterService::call, Completion::finish).                *)
(***************************************************************************)
THEOREM HitsAreServedInTime == ServiceSpec => HitsAreFresh
<1> DEFINE Fresh(a) == now < a.kept + Lifetime(a.hints.ttl)
<1>1. ASSUME ServiceInv, [ServiceNext]_serviceVars, NEW e \in Exchanges,
             Stage(e) = "idle", exchange'[e].stage = "body"
      PROVE  Fresh(exchange'[e].answer)
  <2>1. ASSUME NEW d \in Exchanges, NEW x, exchange' = [exchange EXCEPT ![d] = x],
               Stage(d) # "idle" \/ x.stage # "body"
        PROVE  FALSE
    BY <1>1, <2>1 DEF ServiceInv, ExchangeInv, Stage
  <2>2. exchange' # exchange
    BY <1>1 DEF Stage
  <2>3. PICK d \in Exchanges :
          \/ PresentBadCredential(d) \/ RecordFailure(d)
          \/ \E r \in Requests : ServeFromCache(d, r) \/ Forward(d, r)
          \/ OriginAnswers(d) \/ OriginFails(d)
          \/ Finish(d) \/ FinishUnrecognized(d)
    BY <1>1, <2>2 DEF ServiceNext, serviceVars, Tick
  <2>4. ~PresentBadCredential(d)
    <3> SUFFICES ASSUME PresentBadCredential(d) PROVE FALSE
      OBVIOUS
    <3>1. exchange' = [exchange EXCEPT ![d] = [Idle EXCEPT !.stage = "refused"]]
      BY <2>2 DEF PresentBadCredential
    <3>2. [Idle EXCEPT !.stage = "refused"].stage # "body"
      BY DEF Idle
    <3> QED BY <3>1, <3>2, <2>1
  <2>5. ~(RecordFailure(d) \/ OriginFails(d) \/ Finish(d) \/ FinishUnrecognized(d))
    <3>1. Idle.stage # "body"
      BY DEF Idle
    <3> QED BY <3>1, <2>1 DEF RecordFailure, OriginFails, Finish, FinishUnrecognized
  <2>6. ~OriginAnswers(d)
    <3> SUFFICES ASSUME OriginAnswers(d) PROVE FALSE
      OBVIOUS
    <3>1. Stage(d) # "idle" /\ \E x : exchange' = [exchange EXCEPT ![d] = x]
      BY DEF OriginAnswers
    <3> QED BY <3>1, <2>1
  <2>7. PICK r \in Requests : ServeFromCache(d, r) \/ Forward(d, r)
    BY <2>3, <2>4, <2>5, <2>6
  <2>8. ~Forward(d, r)
    <3> SUFFICES ASSUME Forward(d, r) PROVE FALSE
      OBVIOUS
    <3>1. exchange' = [exchange EXCEPT ![d] =
                        [stage |-> "origin", request |-> r, answer |-> None]]
      BY DEF Forward
    <3> QED BY <3>1, <2>1
  <2>9. PICK key \in Cached(r) :
          exchange' = [exchange EXCEPT ![d] =
            [stage |-> "body", request |-> r, answer |-> entries[key].response]]
    BY <2>7, <2>8 DEF ServeFromCache
  <2>10. d = e
    BY <2>9, <1>1 DEF ServiceInv, ExchangeInv, Stage
  <2>11. exchange'[e].answer = entries[key].response
    BY <1>1, <2>9, <2>10 DEF ServiceInv, ExchangeInv
  <2>12. Fresh(entries[key].response)
    <3>1. entries[key].expires_at > now /\ Belongs(key, entries[key])
      BY <1>1, HitIsForItsCaller DEF ServiceInv
    <3>2. /\ entries[key].expires_at
                = entries[key].response.kept + Lifetime(entries[key].response.hints.ttl)
          /\ entries[key].response.kept \in Nat
          /\ Lifetime(entries[key].response.hints.ttl) \in Nat
      BY <3>1, CacheAssumption DEF Belongs, Lifetime
    <3> QED BY <1>1, <3>1, <3>2 DEF ServiceInv, ClockInv
  <2> QED BY <2>11, <2>12
<1>2. ServiceInv /\ [ServiceNext]_serviceVars =>
        [\A e \in Exchanges :
           (Stage(e) = "idle" /\ exchange'[e].stage = "body")
             => Fresh(exchange'[e].answer)]_serviceVars
  BY <1>1
<1> QED BY <1>2, ServiceInvariant, PTL DEF ServiceSpec, HitsAreFresh
-------------------------------------------------------------------------------
(***************************************************************************)
(* The budget.  A caller passes the check only below the limit; then the   *)
(* callers past it, itself included, are at most all of them.  Counting a  *)
(* failure moves a caller from one side of the sum to the other.           *)
(***************************************************************************)
BudgetInv ==
  /\ exchange = [e \in Exchanges |-> exchange[e]]
  /\ failures \in Nat
  /\ GuessesAreBounded

LEMMA PastTheCheckIsFinite ==
  IsFiniteSet(PastTheCheck) /\ Cardinality(PastTheCheck) \in Nat
    /\ Cardinality(Exchanges) \in Nat /\ Cardinality(PastTheCheck) <= Cardinality(Exchanges)
<1>1. PastTheCheck \subseteq Exchanges /\ IsFiniteSet(Exchanges)
  BY ServiceAssumption DEF PastTheCheck
<1> QED BY <1>1, FS_Subset, FS_CardinalityType

LEMMA BudgetStep == BudgetInv /\ [ServiceNext]_serviceVars => BudgetInv'
<1> SUFFICES ASSUME BudgetInv, [ServiceNext]_serviceVars PROVE BudgetInv'
  OBVIOUS
<1>0. Failures \in Nat /\ Failures <= failures
  BY DEF Failures, BudgetInv
<1>1. ASSUME UNCHANGED failures, PastTheCheck' = PastTheCheck,
             exchange' = [e \in Exchanges |-> exchange'[e]]
      PROVE  BudgetInv'
  BY <1>1 DEF BudgetInv, GuessesAreBounded
<1>2. ASSUME NEW e \in Exchanges, NEW x, exchange' = [exchange EXCEPT ![e] = x],
             Stage(e) # "refused", x.stage # "refused", UNCHANGED failures
      PROVE  BudgetInv'
  <2>1. /\ exchange' = [d \in Exchanges |-> exchange'[d]]
        /\ exchange'[e] = x /\ \A d \in Exchanges : d # e => exchange'[d] = exchange[d]
    BY <1>2 DEF BudgetInv
  <2>2. PastTheCheck' = PastTheCheck
    BY <2>1, <1>2 DEF PastTheCheck, Stage
  <2> QED BY <1>1, <1>2, <2>1, <2>2
<1>3. CASE UNCHANGED serviceVars \/ Tick
  <2>1. UNCHANGED <<exchange, failures>>
    BY <1>3 DEF serviceVars, Tick
  <2>2. PastTheCheck' = PastTheCheck
    BY <2>1 DEF PastTheCheck, Stage
  <2> QED BY <2>1, <2>2, <1>1 DEF BudgetInv
<1>4. ASSUME NEW e \in Exchanges, PresentBadCredential(e) PROVE BudgetInv'
  <2>1. CASE IsExhausted
    <3>1. exchange' = exchange /\ failures' = Failures
      BY <1>4, <2>1 DEF PresentBadCredential
    <3>2. PastTheCheck' = PastTheCheck
      BY <3>1 DEF PastTheCheck, Stage
    <3> QED
      BY <1>0, <3>1, <3>2, PastTheCheckIsFinite, ServiceAssumption
      DEF BudgetInv, GuessesAreBounded
  <2>2. CASE ~IsExhausted
    <3>1. /\ exchange' = [exchange EXCEPT ![e] = [Idle EXCEPT !.stage = "refused"]]
          /\ failures' = Failures /\ Failures < MaxFailures
      BY <1>0, <1>4, <2>2, ServiceAssumption DEF PresentBadCredential, IsExhausted
    <3>2. exchange' = [d \in Exchanges |-> exchange'[d]]
      BY <3>1 DEF BudgetInv
    <3>3. PastTheCheck' \subseteq Exchanges /\ IsFiniteSet(Exchanges)
      BY ServiceAssumption DEF PastTheCheck
    <3>4. /\ Cardinality(PastTheCheck') \in Nat
          /\ Cardinality(PastTheCheck') <= Cardinality(Exchanges)
      BY <3>3, FS_Subset, FS_CardinalityType
    <3> QED
      BY <1>0, <3>1, <3>2, <3>4, PastTheCheckIsFinite, ServiceAssumption
      DEF BudgetInv, GuessesAreBounded
  <2> QED BY <2>1, <2>2
<1>5. ASSUME NEW e \in Exchanges, RecordFailure(e) PROVE BudgetInv'
  <2>1. /\ Stage(e) = "refused" /\ failures' = Failures + 1
        /\ exchange' = [exchange EXCEPT ![e] = Idle]
    BY <1>5 DEF RecordFailure
  <2>2. /\ exchange' = [d \in Exchanges |-> exchange'[d]]
        /\ exchange'[e] = Idle /\ \A d \in Exchanges : d # e => exchange'[d] = exchange[d]
    BY <2>1 DEF BudgetInv
  <2>3. PastTheCheck' = PastTheCheck \ {e} /\ e \in PastTheCheck
    BY <2>1, <2>2 DEF PastTheCheck, Stage, Idle
  <2>4. Cardinality(PastTheCheck') = Cardinality(PastTheCheck) - 1
    BY <2>3, PastTheCheckIsFinite, FS_RemoveElement
  <2> QED
    BY <1>0, <2>1, <2>2, <2>4, PastTheCheckIsFinite, ServiceAssumption
    DEF BudgetInv, GuessesAreBounded
<1>6. ASSUME NEW e \in Exchanges, NEW r \in Requests, ServeFromCache(e, r) PROVE BudgetInv'
  <2>1. PICK key \in Cached(r) :
          exchange' = [exchange EXCEPT ![e] =
            [stage |-> "body", request |-> r, answer |-> entries[key].response]]
    BY <1>6 DEF ServeFromCache
  <2>2. PICK x : x = [stage |-> "body", request |-> r, answer |-> entries[key].response]
    OBVIOUS
  <2>3. x.stage # "refused" /\ exchange' = [exchange EXCEPT ![e] = x]
    BY <2>1, <2>2
  <2>4. Stage(e) # "refused" /\ UNCHANGED failures
    BY <1>6 DEF ServeFromCache
  <2> QED BY <2>3, <2>4, <1>2
<1>7. ASSUME NEW e \in Exchanges, NEW r \in Requests, Forward(e, r) PROVE BudgetInv'
  <2>1. PICK x : x = [stage |-> "origin", request |-> r, answer |-> None]
    OBVIOUS
  <2>2. x.stage # "refused" /\ exchange' = [exchange EXCEPT ![e] = x]
    BY <1>7, <2>1 DEF Forward
  <2>3. Stage(e) # "refused" /\ UNCHANGED failures
    BY <1>7 DEF Forward
  <2> QED BY <2>2, <2>3, <1>2
<1>8. ASSUME NEW e \in Exchanges, OriginAnswers(e) PROVE BudgetInv'
  <2>1. PICK x : x.stage # "refused" /\ exchange' = [exchange EXCEPT ![e] = x]
    <3>1. \E a : exchange' = [exchange EXCEPT ![e] =
                    [stage |-> "body", request |-> exchange[e].request, answer |-> a]]
      BY <1>8 DEF OriginAnswers
    <3>2. PICK a : exchange' = [exchange EXCEPT ![e] =
                    [stage |-> "body", request |-> exchange[e].request, answer |-> a]]
      BY <3>1
    <3>3. PICK y : y = [stage |-> "body", request |-> exchange[e].request, answer |-> a]
      OBVIOUS
    <3>4. y.stage # "refused" /\ exchange' = [exchange EXCEPT ![e] = y]
      BY <3>2, <3>3
    <3> QED BY <3>4
  <2>2. Stage(e) # "refused" /\ UNCHANGED failures
    BY <1>8 DEF OriginAnswers
  <2> QED BY <2>1, <2>2, <1>2
<1>9. ASSUME NEW e \in Exchanges, OriginFails(e) \/ Finish(e) \/ FinishUnrecognized(e)
      PROVE  BudgetInv'
  <2>1. /\ Stage(e) # "refused" /\ failures' = failures
        /\ exchange' = [exchange EXCEPT ![e] = Idle]
    BY <1>9 DEF OriginFails, Finish, FinishUnrecognized
  <2>2. Idle.stage # "refused"
    BY DEF Idle
  <2> QED BY <2>1, <2>2, <1>2
<1> QED
  BY <1>3, <1>4, <1>5, <1>6, <1>7, <1>8, <1>9 DEF ServiceNext

(***************************************************************************)
(* In one window no more failed credentials are counted than the limit,    *)
(* and one for every other caller that was past the check                  *)
(* (refuse_credential, AuthFailureLimit).                                  *)
(***************************************************************************)
THEOREM FailuresAreBounded == ServiceSpec => []GuessesAreBounded
<1>1. ServiceInit => BudgetInv
  <2> SUFFICES ASSUME ServiceInit PROVE BudgetInv
    OBVIOUS
  <2>1. PastTheCheck = {}
    BY DEF ServiceInit, PastTheCheck, Stage, Idle
  <2>2. Cardinality(PastTheCheck) = 0
    BY <2>1, FS_EmptySet
  <2> QED
    BY <2>2, PastTheCheckIsFinite, ServiceAssumption
    DEF ServiceInit, BudgetInv, GuessesAreBounded
<1>2. BudgetInv => GuessesAreBounded
  BY DEF BudgetInv
<1> QED BY <1>1, <1>2, BudgetStep, PTL DEF ServiceSpec
-------------------------------------------------------------------------------
(***************************************************************************)
(* The table's bound, and what leaves it.  Where an insertion evicts, the  *)
(* entries that were neither swept nor superseded are as many as the table *)
(* may hold, so none was swept or superseded at all.                       *)
(***************************************************************************)
TableInv ==
  /\ IsFiniteSet(Kept) /\ Cardinality(Kept) <= MaxEntries
  /\ \A k \in Kept : entries[k].expires_at \in Nat

\* What an entry may leave the table for.
MayLeave(k) ==
  \/ Expired(k)
  \/ \E new \in DOMAIN entries' :
       new.logical = k.logical /\ (new.owner = Shared <=> k.owner # Shared)
  \/ /\ Cardinality(Kept) = MaxEntries
     /\ \A other \in Kept : Live(other)
     /\ k \in Oldest(Kept)

Justified ==
  /\ Cardinality(DOMAIN entries') <= MaxEntries
  /\ \A k \in Kept \ DOMAIN entries' : MayLeave(k)

LEMMA LookupJustified ==
  ASSUME NEW r, TableInv, entries' = AfterLookup(r)
  PROVE  TableInv' /\ Justified
<1>1. /\ DOMAIN entries' \subseteq Kept
      /\ \A k \in DOMAIN entries' : entries'[k] = entries[k]
      /\ \A k \in Kept \ DOMAIN entries' : Expired(k)
  BY DEF AfterLookup, AfterGet, Restrict, Kept
<1>2. IsFiniteSet(DOMAIN entries') /\ Cardinality(DOMAIN entries') <= Cardinality(Kept)
      /\ Cardinality(DOMAIN entries') \in Nat /\ Cardinality(Kept) \in Nat
  BY <1>1, FS_Subset, FS_CardinalityType DEF TableInv
<1>3. Cardinality(DOMAIN entries') <= MaxEntries
  BY <1>2, CacheAssumption DEF TableInv
<1>4. TableInv'
  BY <1>1, <1>2, <1>3 DEF TableInv, Kept
<1> QED BY <1>1, <1>3, <1>4 DEF Justified, MayLeave

LEMMA InsertJustified ==
  ASSUME NEW q, NEW c, NEW scope, NEW ttl \in Nat, NEW response,
         Insert(q, c, scope, ttl, response), TableInv, now \in Nat,
         c # Shared, entries' # entries
  PROVE  TableInv' /\ Justified
<1> DEFINE key == Landing(q, c, scope)
           rest0 == Swept \ Superseded(key)
           entry == [response |-> response, inserted_at |-> now,
                     expires_at |-> now + Lifetime(ttl)]
<1>0. Lifetime(ttl) \in Nat
  BY CacheAssumption DEF Lifetime
<1>1. PICK rest \in Survivors(key) :
        entries' = [k \in rest \cup {key} |-> IF k = key THEN entry ELSE entries[k]]
  BY DEF Insert, Kept
<1>2. /\ DOMAIN entries' = rest \cup {key} /\ rest \subseteq Kept
      /\ \A k \in rest \cup {key} : entries'[k] = IF k = key THEN entry ELSE entries[k]
  BY <1>1, SurvivorsWereKept
<1>3. Swept \subseteq Kept /\ rest0 \subseteq Kept
  BY DEF Swept
<1>4. /\ IsFiniteSet(rest0) /\ Cardinality(rest0) \in Nat /\ Cardinality(Kept) \in Nat
      /\ Cardinality(rest0) <= Cardinality(Kept)
  BY <1>3, FS_Subset, FS_CardinalityType DEF TableInv
<1>5. Cardinality(rest0) <= MaxEntries
  BY <1>4, CacheAssumption DEF TableInv
<1> DEFINE Room == IsFiniteSet(DOMAIN entries') /\ Cardinality(DOMAIN entries') <= MaxEntries
<1>7. Room
  <2>1. CASE key \in rest0
    <3>1. DOMAIN entries' = rest0
      BY <1>2, <2>1 DEF Survivors
    <3> QED BY <1>4, <1>5, <3>1
  <2>2. CASE key \notin rest0 /\ Cardinality(rest0) < MaxEntries
    <3>1. DOMAIN entries' = rest0 \cup {key}
      BY <1>2, <2>2 DEF Survivors
    <3>2. IsFiniteSet(rest0 \cup {key}) /\ Cardinality(rest0 \cup {key}) = Cardinality(rest0) + 1
      BY <1>4, <2>2, FS_AddElement
    <3> QED BY <1>4, <2>2, <3>1, <3>2, CacheAssumption
  <2>3. CASE key \notin rest0 /\ ~(Cardinality(rest0) < MaxEntries)
    <3>1. PICK victim \in Oldest(rest0) : rest = rest0 \ {victim}
      BY <1>1, <2>3 DEF Survivors
    <3>2. victim \in rest0
      BY <3>1 DEF Oldest
    <3>3. IsFiniteSet(rest) /\ Cardinality(rest) = Cardinality(rest0) - 1
      BY <1>4, <3>1, <3>2, FS_RemoveElement
    <3>4. IsFiniteSet(rest \cup {key}) /\ Cardinality(rest \cup {key}) = Cardinality(rest) + 1
      BY <2>3, <3>1, <3>3, FS_AddElement
    <3> QED BY <1>2, <1>4, <1>5, <3>3, <3>4, CacheAssumption
  <2> QED BY <2>1, <2>2, <2>3
<1>8. ASSUME NEW k \in Kept \ DOMAIN entries'
      PROVE  MayLeave(k)
  <2>1. CASE k \notin Swept
    <3>1. ~Live(k) /\ entries[k].expires_at \in Nat
      BY <2>1 DEF Swept, TableInv
    <3> QED BY <3>1 DEF Live, Expired, MayLeave
  <2>2. CASE k \in Superseded(key)
    <3>1. key \in DOMAIN entries' /\ (key.owner = Shared <=> key = Public(q))
          /\ key.logical = q /\ (key.owner # Shared => key.owner = c)
      BY <1>2 DEF Landing, Public, Private
    <3>2. k.logical = key.logical /\ (key.owner = Shared <=> k.owner # Shared)
      BY <2>2, <3>1 DEF Superseded, Public
    <3> QED BY <3>1, <3>2 DEF MayLeave
  <2>3. CASE k \in rest0
    <3>1. key \notin rest0 /\ ~(Cardinality(rest0) < MaxEntries)
      BY <1>2, <2>3 DEF Survivors
    <3>2. Cardinality(rest0) = MaxEntries /\ Cardinality(Kept) = MaxEntries
      BY <1>4, <3>1, CacheAssumption DEF TableInv
    <3>3. rest0 = Kept
      BY <1>3, <1>4, <3>2, FS_Subset DEF TableInv
    <3>4. Swept = {o \in Kept : Live(o)}
      BY <1>4, <3>2 DEF Swept
    <3>5. \A other \in Kept : Live(other)
      BY <1>3, <3>3, <3>4
    <3>6. PICK victim \in Oldest(rest0) : rest = rest0 \ {victim}
      BY <1>1, <3>1 DEF Survivors
    <3>7. k = victim
      BY <1>2, <2>3, <3>6
    <3> QED BY <3>2, <3>3, <3>5, <3>6, <3>7 DEF MayLeave
  <2> QED BY <2>1, <2>2, <2>3
<1>9. TableInv'
  <2>1. \A k \in DOMAIN entries' : entries'[k].expires_at \in Nat
    BY <1>0, <1>2 DEF TableInv
  <2> QED BY <1>7, <2>1 DEF TableInv, Kept
<1> QED BY <1>7, <1>8, <1>9 DEF Justified

LEMMA TableStep ==
  ASSUME ServiceInv, TableInv, [ServiceNext]_serviceVars
  PROVE  TableInv' /\ (entries' # entries => Justified)
<1>1. CASE UNCHANGED entries
  BY <1>1 DEF TableInv, Kept
<1>2. ASSUME NEW r, entries' = AfterLookup(r)
      PROVE  TableInv' /\ (entries' # entries => Justified)
  BY <1>2, LookupJustified
<1>3. ASSUME NEW e \in Exchanges, Finish(e), entries' # entries
      PROVE  TableInv' /\ (entries' # entries => Justified)
  <2> DEFINE r == exchange[e].request
             a == exchange[e].answer
  <2>1. PICK response : Insert(r.body, r.credential, a.hints.scope, a.hints.ttl, response)
    BY <1>3 DEF Finish
  <2>2. r \in Requests /\ a.hints.ttl \in Nat
    BY <1>3 DEF Finish, Stage, ServiceInv, ExchangeInv, CarriesItsAnswer
  <2>3. r.credential # Shared
    BY <2>2, ServiceAssumption, CacheAssumption
  <2>4. now \in Nat
    BY DEF ServiceInv, ClockInv
  <2> QED BY <1>3, <2>1, <2>2, <2>3, <2>4, InsertJustified
<1>4. \/ UNCHANGED entries
      \/ \E r : entries' = AfterLookup(r)
      \/ \E e \in Exchanges : Finish(e)
  BY DEF ServiceNext, serviceVars, PresentBadCredential, RecordFailure, ServeFromCache, Forward,
         OriginAnswers, OriginFails, FinishUnrecognized, Tick
<1> QED BY <1>1, <1>2, <1>3, <1>4

(***************************************************************************)
(* With any number of exchanges inserting in any order, no live entry      *)
(* leaves the cache but for a newer answer to its question, or as the      *)
(* oldest of a table full of live ones, and max_entries is never exceeded  *)
(* (ResponseCache::get, insert).                                           *)
(***************************************************************************)
THEOREM EvictionIsJustified == ServiceSpec => EvictsOnlyTheOldest
<1>1. ServiceInit => TableInv
  <2> SUFFICES ASSUME ServiceInit PROVE TableInv
    OBVIOUS
  <2>1. Kept = {}
    BY DEF ServiceInit, CacheInit, Kept
  <2> QED BY <2>1, FS_EmptySet, CacheAssumption DEF TableInv
<1>2. ServiceInv /\ TableInv /\ [ServiceNext]_serviceVars => TableInv'
  BY TableStep
<1>3. ServiceInv /\ TableInv /\ [ServiceNext]_serviceVars => [Justified]_entries
  BY TableStep
<1>4. Justified <=>
        /\ Cardinality(DOMAIN entries') <= MaxEntries
        /\ \A k \in Kept \ DOMAIN entries' :
             \/ Expired(k)
             \/ \E new \in DOMAIN entries' :
                  new.logical = k.logical /\ (new.owner = Shared <=> k.owner # Shared)
             \/ /\ Cardinality(Kept) = MaxEntries
                /\ \A other \in Kept : Live(other)
                /\ k \in Oldest(Kept)
  BY DEF Justified, MayLeave
<1> QED BY <1>1, <1>2, <1>3, <1>4, ServiceInvariant, PTL DEF ServiceSpec, EvictsOnlyTheOldest
-------------------------------------------------------------------------------
(***************************************************************************)
(* The charge.  The call that was classified is the one the body makes, or *)
(* the origin has answered with an error.                                  *)
(***************************************************************************)
PricedByItsBody(x) ==
  x.stage \in {"origin", "body"} =>
    /\ Call(x.request) # Refused
    /\ x.stage = "body" => Call(x.request) = x.request.body \/ x.answer.result = "error"

ChargeInv ==
  /\ \A e \in Exchanges : PricedByItsBody(exchange[e])
  /\ ChargedForWhatWasDelivered

LEMMA OnePricedExchange ==
  ASSUME ExchangeInv, \A e \in Exchanges : PricedByItsBody(exchange[e]),
         NEW e \in Exchanges, NEW x, PricedByItsBody(x), exchange' = [exchange EXCEPT ![e] = x]
  PROVE  \A d \in Exchanges : PricedByItsBody(exchange'[d])
<1>1. \A d \in Exchanges : exchange'[d] = IF d = e THEN x ELSE exchange[d]
  BY DEF ExchangeInv
<1> QED BY <1>1

LEMMA HonestUnlessError ==
  ASSUME NEW r, Call(r) # Refused, NEW result \in Readings(r)
  PROVE  Call(r) = r.body \/ result = "error"
BY DEF Call, Classified, Legacy, Readings

\* decide() of the classified call is the price of what was delivered.
LEMMA OwesThePriceOfTheBody ==
  ASSUME NEW r, NEW a, a.about = r.body, Call(r) = r.body \/ a.result = "error"
  PROVE  Owed(r, a) =
           IF \/ a.result = "complete" /\ a.about.method \notin NeverBilled
              \/ a.result = "absent" /\ Legacy(r) /\ a.about.method \in Priced
           THEN UnitsFor(Prices[r.credential], a.about) ELSE Free
<1>1. CASE a.result = "error"
  BY <1>1 DEF Owed, Decide, WithLegacyDelivery
<1>2. CASE Call(r) = r.body
  <2>1. \A m \in Priced : m \notin NeverBilled
    BY DEF Priced, Named, NeverBilled, Discovery, TaskDrive
  <2> QED BY <1>2, <2>1 DEF Owed, Decide, WithLegacyDelivery
<1> QED BY <1>1, <1>2

LEMMA ChargeStep ==
  ASSUME ServiceInv, ChargeInv, [ServiceNext]_serviceVars
  PROVE  ChargeInv'
<1> DEFINE Others == \A d \in Exchanges : PricedByItsBody(exchange'[d])
<1>0. ExchangeInv /\ PricedByItsBody(Idle) /\ PricedByItsBody([Idle EXCEPT !.stage = "refused"])
  BY DEF ServiceInv, PricedByItsBody, Idle
<1>1. ASSUME UNCHANGED exchange, settled' = None \/ UNCHANGED settled
      PROVE  ChargeInv'
  BY <1>1 DEF ChargeInv, PricedByItsBody, ChargedForWhatWasDelivered, Delivered, CompletedLifecycle
<1>2. ASSUME NEW e \in Exchanges, NEW x, PricedByItsBody(x), exchange' = [exchange EXCEPT ![e] = x],
             settled' = None
      PROVE  ChargeInv'
  <2>1. Others
    BY <1>0, <1>2, OnePricedExchange DEF ChargeInv
  <2> QED BY <1>2, <2>1 DEF ChargeInv, ChargedForWhatWasDelivered, PricedByItsBody
<1>3. ASSUME NEW e \in Exchanges, PresentBadCredential(e) PROVE ChargeInv'
  BY <1>0, <1>1, <1>2, <1>3 DEF PresentBadCredential
<1>4. ASSUME NEW e \in Exchanges, RecordFailure(e) \/ OriginFails(e) \/ FinishUnrecognized(e)
      PROVE  ChargeInv'
  BY <1>0, <1>2, <1>4 DEF RecordFailure, OriginFails, FinishUnrecognized
<1>5. ASSUME NEW e \in Exchanges, NEW r \in Requests, ServeFromCache(e, r) PROVE ChargeInv'
  <2>1. PICK key \in Cached(r) :
          exchange' = [exchange EXCEPT ![e] =
            [stage |-> "body", request |-> r, answer |-> entries[key].response]]
    BY <1>5 DEF ServeFromCache
  <2>2. Call(r) # Refused /\ Call(r) = r.body /\ settled' = None
    BY <1>5, <2>1 DEF ServeFromCache, Cached, MayBeCached
  <2>3. PricedByItsBody([stage |-> "body", request |-> r, answer |-> entries[key].response])
    BY <2>2 DEF PricedByItsBody
  <2> QED BY <1>2, <2>1, <2>2, <2>3
<1>6. ASSUME NEW e \in Exchanges, NEW r \in Requests, Forward(e, r) PROVE ChargeInv'
  <2>1. /\ exchange' = [exchange EXCEPT ![e] =
                          [stage |-> "origin", request |-> r, answer |-> None]]
        /\ Call(r) # Refused /\ settled' = None
    BY <1>6 DEF Forward
  <2>2. PricedByItsBody([stage |-> "origin", request |-> r, answer |-> None])
    BY <2>1 DEF PricedByItsBody
  <2> QED BY <1>2, <2>1, <2>2
<1>7. ASSUME NEW e \in Exchanges, OriginAnswers(e) PROVE ChargeInv'
  <2> DEFINE r == exchange[e].request
  <2>1. Call(r) # Refused /\ settled' = None
    BY <1>7 DEF OriginAnswers, Stage, ChargeInv, PricedByItsBody
  <2>2. PICK result \in Readings(r) :
          \E h \in HintsFor(r, result) :
            exchange' = [exchange EXCEPT ![e] =
              [stage |-> "body", request |-> r,
               answer |-> [about |-> r.body, made_for |-> r.credential,
                           result |-> result, hints |-> h, kept |-> Never]]]
    BY <1>7 DEF OriginAnswers
  <2>3. PICK h \in HintsFor(r, result) :
          exchange' = [exchange EXCEPT ![e] =
            [stage |-> "body", request |-> r,
             answer |-> [about |-> r.body, made_for |-> r.credential,
                         result |-> result, hints |-> h, kept |-> Never]]]
    BY <2>2
  <2>4. Call(r) = r.body \/ result = "error"
    BY <2>1, HonestUnlessError
  <2>5. PricedByItsBody(
          [stage |-> "body", request |-> r,
           answer |-> [about |-> r.body, made_for |-> r.credential,
                       result |-> result, hints |-> h, kept |-> Never]])
    BY <2>1, <2>4 DEF PricedByItsBody
  <2> QED BY <1>2, <2>1, <2>3, <2>5
<1>8. ASSUME NEW e \in Exchanges, Finish(e) PROVE ChargeInv'
  <2> DEFINE r == exchange[e].request
             a == exchange[e].answer
  <2>1. Stage(e) = "body" /\ exchange' = [exchange EXCEPT ![e] = Idle]
        /\ settled' = [request |-> r, about |-> a.about, result |-> a.result, units |-> Owed(r, a)]
    BY <1>8 DEF Finish
  <2>2. Others
    BY <1>0, <2>1, OnePricedExchange DEF ChargeInv
  <2>3. a.about = r.body /\ (Call(r) = r.body \/ a.result = "error")
    BY <1>0, <2>1 DEF Stage, ExchangeInv, CarriesItsAnswer, ChargeInv, PricedByItsBody
  <2>4. Owed(r, a) =
          IF \/ a.result = "complete" /\ a.about.method \notin NeverBilled
             \/ a.result = "absent" /\ Legacy(r) /\ a.about.method \in Priced
          THEN UnitsFor(Prices[r.credential], a.about) ELSE Free
    BY <2>3, OwesThePriceOfTheBody
  <2> HIDE DEF r, a
  <2>5. ChargedForWhatWasDelivered'
    <3>1. \A m \in Priced : m \notin NeverBilled
      BY DEF Priced, Named, NeverBilled, Discovery, TaskDrive
    <3> QED BY <2>1, <2>4, <3>1 DEF ChargedForWhatWasDelivered, Delivered, CompletedLifecycle
  <2> QED BY <2>2, <2>5 DEF ChargeInv, PricedByItsBody
<1>9. CASE Tick \/ UNCHANGED serviceVars
  BY <1>1, <1>9 DEF Tick, serviceVars
<1> QED
  BY <1>3, <1>4, <1>5, <1>6, <1>7, <1>8, <1>9 DEF ServiceNext

(***************************************************************************)
(* Whatever a request's headers and body say, from the origin or from the  *)
(* cache, on any revision and with any price book: the caller owes its own *)
(* tenant's price of the call its body makes, if that delivers priced work *)
(* and was delivered, and nothing for what delivers none, unless it says   *)
(* it is complete (Completion::finish, decide).                            *)
(***************************************************************************)
THEOREM DeliveredWorkIsCharged == ServiceSpec => []ChargedForWhatWasDelivered
<1>1. ServiceInit => ChargeInv
  BY DEF ServiceInit, ChargeInv, PricedByItsBody, Idle, ChargedForWhatWasDelivered
<1>2. ServiceInv /\ ChargeInv /\ [ServiceNext]_serviceVars => ChargeInv'
  BY ChargeStep
<1>3. ChargeInv => ChargedForWhatWasDelivered
  BY DEF ChargeInv
<1> QED BY <1>1, <1>2, <1>3, ServiceInvariant, PTL DEF ServiceSpec
===============================================================================
