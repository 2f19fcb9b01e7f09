----------------------------- MODULE PaidAdmission -----------------------------
(***************************************************************************)
(* The admission gate of the sidecar (mcp-usage-edge): sidecars refresh    *)
(* their tenant cache from the control plane, refuse calls of a tenant     *)
(* over its cap with a payment challenge, and admit a call whose payment   *)
(* the facilitator says has settled.  A challenge is reserved in a Redis   *)
(* the sidecars share before the facilitator is asked.                     *)
(*                                                                         *)
(* One tenant makes one kind of priced call, and challenges are what the   *)
(* sidecars issued: a request that presents something else fails a local   *)
(* check (binding, realm, digest, identity) and goes on as one without a   *)
(* credential.  Payments are configured.  Bodies too large and malformed   *)
(* requests change no state and are left out.                              *)
(*                                                                         *)
(* Time is counted in ticks.  Clocks of sidecars and Redis agree.          *)
(***************************************************************************)
EXTENDS Naturals, Sequences, Functions

CONSTANTS
  Replicas,      \* sidecars
  Requests,      \* requests, each made once
  Challenges,    \* challenges that can be issued
  Plan,          \* what the plane says of the tenant, in order: [over, units, unit_price_micros]
  Unknown,       \* what one that does not have its key says
  Unpriced,      \* the amount of a call that has no price
  TTL,           \* challenge lifetime
  StoreTimeout,  \* of the replay store
  FetchTimeout,  \* of the control plane client
  Interval,      \* between two refreshes of the cache
  MaxStale,      \* max_stale of the tenant cache
  MaxTime        \* bound: ticks in one behaviour

None == "none"

\* The configuration does not enforce the last conjunct; its defaults are far apart.
ASSUME AdmissionAssumption ==
  /\ TTL \in Nat \ {0} /\ StoreTimeout \in Nat /\ FetchTimeout \in Nat
  /\ Interval \in Nat
  /\ MaxStale \in Nat /\ MaxTime \in Nat
  /\ Plan \in Seq([over : BOOLEAN, units : Nat, unit_price_micros : Nat]) /\ Plan # <<>>
  /\ Unknown \notin Range(Plan) /\ Unpriced \notin Nat
  /\ None \notin Requests \cup Challenges
  /\ StoreTimeout < TTL

VARIABLES
  clock,
  plane,      \* external: the step of Plan the control plane is at, and when it revoked the key
  fetch,      \* replica -> the snapshot on its way, since when, and when the next is due
  cache,      \* replica -> CacheState: the tenant's entry, and when it was applied
  challenge,  \* challenge -> amount and expiry it was issued with
  held,       \* challenge -> owner and end of its reservation in Redis
  sent,       \* operations sent to the replay store that it has not dealt with
  call,       \* request -> how far the gate and the meter are with it, and the gate's locals
  consulted   \* history: challenge -> what the facilitator is known to have done about it

cacheVars == <<plane, fetch, cache>>
replayVars == <<held, sent>>
admissionVars == <<clock, cacheVars, challenge, replayVars, call, consulted>>

Never == MaxTime + 1
NotIssued == [amount |-> Unpriced, expires |-> 0]
NotHeld == [owner |-> None, until |-> 0]

NewCall == [stage |-> "new", home |-> None, presents |-> None, quota |-> Unknown,
            amount |-> Unpriced, at |-> 0, answer |-> None]

\* load_snapshot: the initial snapshot, or a cold start without it.
Loaded == [entry |-> Plan[1], refreshed |-> 0]
Cold == [entry |-> Unknown, refreshed |-> Never]

AdmissionInit ==
  /\ clock = 0
  /\ plane = [step |-> 1, revoked |-> Never]
  /\ fetch = [p \in Replicas |-> [entry |-> Plan[1], since |-> 0, due |-> 0]]
  /\ cache \in [Replicas -> {Loaded, Cold}]
  /\ challenge = [c \in Challenges |-> NotIssued]
  /\ held = [c \in Challenges |-> NotHeld]
  /\ sent = {}
  /\ call = [q \in Requests |-> NewCall]
  /\ consulted = [c \in Challenges |-> "never"]

Tick ==
  /\ clock < MaxTime
  /\ clock' = clock + 1
  /\ UNCHANGED <<cacheVars, challenge, replayVars, call, consulted>>
-------------------------------------------------------------------------------
(***************************************************************************)
(* The control plane and the tenant caches.  A revoked key is absent from  *)
(* every later snapshot.  A replica starts with a fetch; after each one it *)
(* awaits its ticker, which a late tick delays (refresh_forever).          *)
(***************************************************************************)
PlaneChanges ==
  /\ plane.revoked = Never
  /\ \/ plane.step < Len(Plan) /\ plane' = [plane EXCEPT !.step = @ + 1]
     \/ plane' = [plane EXCEPT !.revoked = clock]
  /\ UNCHANGED <<clock, fetch, cache, challenge, replayVars, call, consulted>>

PlaneEntry == IF plane.revoked = Never THEN Plan[plane.step] ELSE Unknown

Fetching(p) == fetch[p].since # Never

\* The plane answers a snapshot request; the answer is on its way.
FetchSnapshot(p) ==
  /\ ~Fetching(p) /\ clock >= fetch[p].due
  /\ fetch' = [fetch EXCEPT ![p] = [entry |-> PlaneEntry, since |-> clock,
                                    due |-> clock + Interval]]
  /\ UNCHANGED <<clock, plane, cache, challenge, replayVars, call, consulted>>

NoFetch(p) ==
  fetch' = [fetch EXCEPT ![p] = [entry |-> Unknown, since |-> Never, due |-> fetch[p].due]]

\* apply(): the entries are replaced and the cache is fresh.
ApplySnapshot(p) ==
  /\ Fetching(p) /\ clock <= fetch[p].since + FetchTimeout
  /\ cache' = [cache EXCEPT ![p] = [entry |-> fetch[p].entry, refreshed |-> clock]]
  /\ NoFetch(p)
  /\ UNCHANGED <<clock, plane, challenge, replayVars, call, consulted>>

\* The answer is late or unusable: the old snapshot goes on serving.
FetchFails(p) ==
  /\ Fetching(p)
  /\ NoFetch(p)
  /\ UNCHANGED <<clock, plane, cache, challenge, replayVars, call, consulted>>

Fresh(p) == cache[p].refreshed # Never /\ clock <= cache[p].refreshed + MaxStale

AuthenticatesStale(p) == cache[p].entry # Unknown

\* authenticate() answers; quota_for() does under the same condition.
Authenticates(p) == Fresh(p) /\ cache[p].entry # Unknown
-------------------------------------------------------------------------------
(***************************************************************************)
(* Pricing, and the verdict by quota.                                      *)
(***************************************************************************)
\* minor_units(): micros to hundredths, rounded up.
MinorUnits(units, unit_price_micros) == (units * unit_price_micros + 9999) \div 10000

\* The gate's locals end with its future.
Admit(q) ==
  /\ call' = [call EXCEPT ![q] = [NewCall EXCEPT !.stage = "admitted", !.home = call[q].home]]
  /\ UNCHANGED challenge

Answer(q, stage) == call' = [call EXCEPT ![q] = [NewCall EXCEPT !.stage = stage]]

Unissued == {c \in Challenges : challenge[c] = NotIssued}

\* refuse_payment(): a fresh challenge, as long as the bound on them lasts.
Offer(price) ==
  IF Unissued = {} THEN UNCHANGED challenge
  ELSE \E c \in Unissued :
         challenge' = [challenge EXCEPT ![c] = [amount |-> price, expires |-> clock + TTL]]

OverCap(seen) == seen # Unknown /\ seen.over

\* decide() past the credential: over the cap a priced call is offered a challenge.
Verdict(q, seen, price) ==
  \/ ~OverCap(seen) /\ Admit(q)
  \/ /\ OverCap(seen) /\ Answer(q, "refused")
     /\ IF price = Unpriced THEN UNCHANGED challenge ELSE Offer(price)
-------------------------------------------------------------------------------
(***************************************************************************)
(* A request in the gate.  Between two of these steps other tasks run.     *)
(***************************************************************************)
\* A call that fails to authenticate skips payments and quota: the meter refuses it.
Arrive(q) ==
  /\ call[q].stage = "new"
  /\ \E p \in Replicas :
       IF Authenticates(p)
       THEN \E c \in (Challenges \ Unissued) \cup {None} :
              call' = [call EXCEPT ![q] = [NewCall EXCEPT !.stage = "reading", !.home = p,
                                                         !.presents = c]]
       ELSE call' = [call EXCEPT ![q] = [NewCall EXCEPT !.stage = "admitted", !.home = p]]
  /\ UNCHANGED <<clock, cacheVars, challenge, replayVars, consulted>>

\* The body has been read: decide() starts with quota_for().
ReadQuota(q) ==
  LET p == call[q].home IN
  /\ call[q].stage = "reading"
  /\ call' = [call EXCEPT ![q] =
       [@ EXCEPT !.stage = "pricing",
                 !.quota = IF Authenticates(p) THEN cache[p].entry ELSE Unknown]]
  /\ UNCHANGED <<clock, cacheVars, challenge, replayVars, consulted>>

\* price_for(): the units come from a second read of the cache, of any age.
Price(q) ==
  LET seen == cache[call[q].home].entry IN
  IF Unknown \in {call[q].quota, seen} THEN Unpriced
  ELSE MinorUnits(seen.units, call[q].quota.unit_price_micros)

\* The checks of Payments::verify() that need nobody else.
Redeemable(c, price) ==
  /\ c # None /\ price # Unpriced
  /\ clock <= challenge[c].expires /\ challenge[c].expires <= clock + TTL
  /\ challenge[c].amount = price

Send(q, op) == sent' = sent \cup {[op |-> op, owner |-> q, challenge |-> call[q].presents]}

Outstanding(q) == \E m \in sent : m.owner = q

ReadPrice(q) ==
  /\ call[q].stage = "pricing"
  /\ \/ /\ Redeemable(call[q].presents, Price(q))
        /\ call' = [call EXCEPT ![q] =
             [@ EXCEPT !.stage = "reserving", !.amount = Price(q), !.at = clock]]
        /\ Send(q, "reserve")
        /\ UNCHANGED challenge
     \/ /\ ~Redeemable(call[q].presents, Price(q))
        /\ Verdict(q, call[q].quota, Price(q))
        /\ UNCHANGED sent
  /\ UNCHANGED <<clock, cacheVars, held, consulted>>
-------------------------------------------------------------------------------
(***************************************************************************)
(* The replay store: SET NX PX, and a release that compares the owner.  An *)
(* operation takes effect at most once, at any time after it was sent; who *)
(* sent it hears of that within StoreTimeout or not at all.                *)
(***************************************************************************)
Held(c) == held[c].owner # None /\ clock < held[c].until

RetainedForTTL == TTL

\* Payments::new(): retain_for.
RetainFor == 2 * TTL

Reserve(m) ==
  /\ m.op = "reserve"
  /\ held' = IF Held(m.challenge) THEN held
             ELSE [held EXCEPT ![m.challenge] = [owner |-> m.owner, until |-> clock + RetainFor]]

Release(m) ==
  /\ m.op = "release"
  /\ held' = IF held[m.challenge].owner = m.owner THEN [held EXCEPT ![m.challenge] = NotHeld]
             ELSE held

Outcome(m) == IF m.op = "reserve" /\ Held(m.challenge) THEN "held" ELSE "ok"

StoreApplies(m) ==
  /\ Reserve(m) \/ Release(m)
  /\ sent' = sent \ {m}
  /\ IF call[m.owner].stage \notin {"reserving", "releasing"} THEN UNCHANGED call
     ELSE \/ /\ clock <= call[m.owner].at + StoreTimeout
             /\ call' = [call EXCEPT ![m.owner].answer = Outcome(m)]
          \/ call' = [call EXCEPT ![m.owner].answer = "error"]
  /\ UNCHANGED <<clock, cacheVars, challenge, consulted>>

\* The operation never reaches the store.
StoreLoses(m) ==
  /\ sent' = sent \ {m}
  /\ call' = IF call[m.owner].stage \in {"reserving", "releasing"}
             THEN [call EXCEPT ![m.owner].answer = "error"] ELSE call
  /\ UNCHANGED <<clock, cacheVars, challenge, held, consulted>>
-------------------------------------------------------------------------------
(***************************************************************************)
(* Payments::verify() and the rest of decide().                            *)
(***************************************************************************)
\* The reservation is ours: the facilitator is asked.
Consult(q) ==
  /\ call[q].stage = "reserving" /\ call[q].answer = "ok"
  /\ call' = [call EXCEPT ![q].stage = "verifying"]
  /\ consulted' = [consulted EXCEPT ![call[q].presents] = "asked"]
  /\ UNCHANGED <<clock, cacheVars, challenge, replayVars>>

\* Somebody else holds it: the proof counts as spent, and quota decides.
AlreadyHeld(q) ==
  /\ call[q].stage = "reserving" /\ call[q].answer = "held"
  /\ Verdict(q, call[q].quota, call[q].amount)
  /\ UNCHANGED <<clock, cacheVars, replayVars, consulted>>

Settled(q) ==
  /\ call[q].stage = "verifying"
  /\ Admit(q)
  /\ consulted' = [consulted EXCEPT ![call[q].presents] = "settled"]
  /\ UNCHANGED <<clock, cacheVars, replayVars>>

NotSettledKeeping(q) ==
  /\ call[q].stage = "verifying"
  /\ Verdict(q, call[q].quota, call[q].amount)
  /\ consulted' = [consulted EXCEPT ![call[q].presents] = "refused"]
  /\ UNCHANGED <<clock, cacheVars, replayVars>>

\* NotSettled or Insufficient: certainly not settled, so the reservation goes back.
NotSettled(q) ==
  /\ call[q].stage = "verifying"
  /\ call' = [call EXCEPT ![q] = [@ EXCEPT !.stage = "releasing", !.at = clock, !.answer = None]]
  /\ Send(q, "release")
  /\ consulted' = [consulted EXCEPT ![call[q].presents] = "refused"]
  /\ UNCHANGED <<clock, cacheVars, challenge, held>>

AmbiguousReleasing(q) ==
  /\ call[q].stage = "verifying"
  /\ Answer(q, "failed")
  /\ Send(q, "release")
  /\ UNCHANGED <<clock, cacheVars, challenge, held, consulted>>

\* 503: any other answer, or none, leaves open whether it settled; the reservation stays.
Ambiguous(q) ==
  /\ call[q].stage = "verifying"
  /\ Answer(q, "failed")
  /\ UNCHANGED <<clock, cacheVars, challenge, replayVars, consulted>>

Released(q) ==
  /\ call[q].stage = "releasing" /\ call[q].answer = "ok"
  /\ Verdict(q, call[q].quota, call[q].amount)
  /\ UNCHANGED <<clock, cacheVars, replayVars, consulted>>

\* 503: the store failed, or its timeout passed; the operation may still take effect.
Unavailable(q) ==
  /\ call[q].stage \in {"reserving", "releasing"}
  /\ call[q].answer = "error" \/ Outstanding(q)
  /\ Answer(q, "failed")
  /\ UNCHANGED <<clock, cacheVars, challenge, replayVars, consulted>>

\* The caller hangs up, or the sidecar dies: what was sent stays sent.  A request that ends
\* without a verdict, this way or by a 503, has failed.
Cancelled(q) ==
  /\ call[q].stage \in {"reading", "reserving", "verifying", "releasing"}
  /\ Answer(q, "failed")
  /\ UNCHANGED <<clock, cacheVars, challenge, replayVars, consulted>>

\* The meter behind the gate authenticates the call once more.
Meter(q) ==
  /\ call[q].stage = "admitted"
  /\ IF Authenticates(call[q].home)
     THEN call' = [call EXCEPT ![q] = [@ EXCEPT !.stage = "served", !.home = None]]
     ELSE Answer(q, "refused")
  /\ UNCHANGED <<clock, cacheVars, challenge, replayVars, consulted>>

Gate(q) ==
  \/ Arrive(q) \/ ReadQuota(q) \/ ReadPrice(q) \/ Consult(q) \/ AlreadyHeld(q)
  \/ Settled(q) \/ NotSettled(q) \/ Ambiguous(q) \/ Released(q) \/ Unavailable(q)
  \/ Cancelled(q) \/ Meter(q)

AdmissionNext ==
  \/ Tick \/ PlaneChanges
  \/ \E p \in Replicas : FetchSnapshot(p) \/ ApplySnapshot(p) \/ FetchFails(p)
  \/ \E m \in sent : StoreApplies(m) \/ StoreLoses(m)
  \/ \E q \in Requests : Gate(q)

AdmissionSpec == AdmissionInit /\ [][AdmissionNext]_admissionVars
-------------------------------------------------------------------------------
Says == Range(Plan) \cup {Unknown}

Calls == [stage : {"new", "reading", "pricing", "reserving", "verifying", "releasing", "admitted",
                   "refused", "failed", "served"},
          home : Replicas \cup {None}, presents : Challenges \cup {None}, quota : Says,
          amount : Nat \cup {Unpriced}, at : 0..MaxTime, answer : {None, "ok", "held", "error"}]

Operations == [op : {"reserve", "release"}, owner : Requests, challenge : Challenges]

\* Types; and every challenge that was issued has a price.
AdmissionTypeOK ==
  /\ clock \in 0..MaxTime
  /\ plane \in [step : DOMAIN Plan, revoked : 0..Never]
  /\ fetch \in [Replicas -> [entry : Says, since : 0..Never, due : Nat]]
  /\ cache \in [Replicas -> [entry : Says, refreshed : 0..Never]]
  /\ challenge \in [Challenges -> [amount : Nat \cup {Unpriced}, expires : Nat]]
  /\ \A c \in Challenges : challenge[c] # NotIssued => challenge[c].amount \in Nat
  /\ held \in [Challenges -> [owner : Requests \cup {None}, until : Nat]]
  /\ sent \subseteq Operations
  /\ call \in [Requests -> Calls]
  /\ consulted \in [Challenges -> {"never", "asked", "settled", "refused"}]

(***************************************************************************)
(* A payment settles at most once: the facilitator is asked about a        *)
(* challenge only when it was never asked before, or has said for certain  *)
(* that nothing settled.  Neither concurrent presentations on two          *)
(* sidecars, nor cancellation, lost or late store answers, an ambiguous    *)
(* verdict or the end of a reservation lets it be asked twice.             *)
(* Payments::verify, RedisReplayStore.                                     *)
(***************************************************************************)
SettlesOnce ==
  [][\A q \in Requests :
       call[q].stage # "verifying" /\ call'[q].stage = "verifying"
         => consulted[call[q].presents] \in {"never", "refused"}]_admissionVars

(***************************************************************************)
(* A refused proof does not burn its slot ("holding it would let anyone    *)
(* burn a slot for the price of a junk payload"): after a refusal a slot is *)
(* held only by a request still at it, one its caller gave up, or one that *)
(* was answered 503 because of a store error.  Payments::verify.           *)
(***************************************************************************)
RefusedProofsAreReleased ==
  \A c \in Challenges :
    Held(c) /\ consulted[c] = "refused"
      => call[held[c].owner].stage \in {"reserving", "releasing", "failed"}

(***************************************************************************)
(* Serving fails closed: nothing is served later than max_stale and one    *)
(* fetch after the key was revoked, whatever snapshots were lost or late.  *)
(* ControlPlaneTenantStore::apply, authenticate.                           *)
(***************************************************************************)
RevocationIsBounded ==
  [][\A q \in Requests :
       call[q].stage # "served" /\ call'[q].stage = "served"
         => clock <= plane.revoked + FetchTimeout + MaxStale]_admissionVars

===============================================================================
