# Verification of mcp-usage-kit

mcp-usage-kit meters calls to MCP servers: a Tower layer decides what a delivered response is worth, an
in-process buffer aggregates the units, a pipeline exports them to a billing provider, and a sidecar
(`mcp-usage-edge`) puts this in front of a server with tenants, quota and payments from a control plane.
A mistake is money: a unit charged twice, a unit lost, a payment settled twice.

This directory holds TLA+ modules of its stateful core, TLC configurations that check them on small instances, and
TLAPS proofs of the theorems that matter most. Every definition is translated from the source under `src/crates/`;
`PROJECT.json` maps each to the lines it stands for and lists the hazards the properties are aimed at.

Contents: [inventory](#inventory) · [modules](#modules) · [runs and bounds](#runs-and-bounds) ·
[fairness](#fairness) · [proofs](#proofs) · [findings](#what-the-code-does-and-its-documentation-does-not-say) ·
[not modelled](#not-modelled) · [plan](#plan)

## Inventory

The parts, what each keeps, and how they meet. "Hard" names what a test would hardly reach.

**Usage buffer and billing pipeline** (`mcp-usage-export/src/lib.rs`). State: `pending` aggregates per
(customer, meter), the idempotency keys remembered in order, the queue of batches to retry, the turn
`serve_pending_next`, the flag `flush_in_progress`. Operations: `record` (request threads), `flush` =
`prepare_flush`, an await on the exporter, commit or restore. `RetryGuard` and `FlushGuard` restore the batch and free
the flag when the future is dropped or panics. Hard: recording between two batches, cancellation at the await, two
flushers, one sick bucket among healthy ones. Correct when every accepted call is at one place and exported at most
once, under one identifier, at its exact units, and no queue starves.

**Metered exporter** (`mcp-usage-export/src/meter_event.rs`). State: the progress on an incomplete batch, an export
lease, a bounded dead letter queue with an identifier index. Operations: `export` (submit what is unresolved, apply the
outcomes), `abandon_retry_progress`, `notify_rejection`, `take_dead_letters`. Interacts with the pipeline, which must
offer the incomplete batch again (`RetryPolicy::CompleteBatch`), and with a provider that may apply usage whose answer is lost.
Hard: partial answers, cancellation with usage on the wire, abandoning from another task. A `CompositeExporter` runs
several sinks in order; a failure of a later one retries all of them.

**Charge decision, limits, prices** (`mcp-usage-core`). Pure functions of a call and its response. No state. Correct when the charge is the
tenant's price of what was delivered, whichever of headers and body named the call and whether the origin or the cache answered.

**Metering layer** (`mcp-usage-tower/src/layer.rs`). Each response body carries an accounting future,
`Completion::finish`, polled at the end of the body; a body dropped earlier parks it in `DeferredCompletions`
(`deferred.rs`), drained by later requests and by the sidecar's flush loop. For a durable task it inserts, claims,
restores or removes the task's *attribution* (its price) in an `AttributionStore`. Hard: three awaits, each of which may be the last
one; a claim whose charge is then refused, or whose recorder panics; a store whose answers come late or never; replicas that share it. Correct when
a task is charged at most once and no attribution disappears but in ways that are counted or known.

**Attribution stores**: in process (`mcp-usage-tower/src/task.rs`, a map with a queue of insertions compacted lazily), Redis and PostgreSQL
(`mcp-usage-store`).

**Response cache, credential check, failure limiter** (`mcp-usage-tower/src/cache.rs`, `auth.rs`). State: cached answers of
the six cacheable methods, private or public, with expiry and eviction; a fixed window of failures. Operations: `get` before the origin is asked, `insert` when a body has been
delivered, `is_exhausted` and `record_failure` for a credential that failed. Hard: answers come back in any order with different scopes and lifetimes; a hit runs the completion
of an answer; the budget is consulted and charged under two locks. Correct when a hit answers its own caller and in time, the table costs nobody a live entry it need not, and guesses are bounded.

**Sidecar admission and payments** (`mcp-usage-edge/src/admission.rs`, `mpp.rs`, `replay.rs`). In front of the layer: a tenant over its
cap is answered 402 with a challenge, bound by an HMAC to tenant, call, body and price; a credential for it is parsed, compared with the challenge and with the price of now,
reserved in Redis, and put to a facilitator. Hard: concurrent presentations, cancellation between reservation and verdict, late store answers, hand-written calendar arithmetic. Correct when a payment settles at most once, pays for what it was made for,
a refused one may be tried again, and a good one is not turned away.

**Control plane** (`mcp-usage-edge/src/control_plane.rs`). Snapshots replace the tenant table; past `max_stale` it fails closed.
Read by the gate and again by the layer behind it. The same plane receives the usage: it acknowledges each aggregate of a batch, in the batch's order. Hard: two reads of two snapshots, a revocation overtaken by a late snapshot,
an acknowledgement in another order.

**Replica lifecycle** (`mcp-usage-edge/src/main.rs`). `serve` accepts connections; `flush_loop` drains deferred completions and flushes; `finish_shutdown` aborts it, joins connections,
drains and flushes until a deadline. Hard: what the abort leaves behind in a queue, a batch or a half-driven completion; connections that go on recording while the process stops; what the deadline cuts off; a loop that dies unnoticed.
Correct when the last flush runs alone, a clean exit leaves nothing behind, every charge owed is somewhere or counted as lost, and nothing keeps the process beyond its deadline.

**Configuration and startup** (`config.rs`, `endpoint.rs`, `main.rs`, constructors elsewhere). What `validate` accepts, what `serve` builds from it and reads from the environment, and the checks the parts make again. Correct when a call is charged to the one tenant that holds its key, wherever the file or the environment has the key from,
and gate and meter are built alike. A section whose interval is zero is accepted and then does nothing (see below).

**Transport and proxy** (`transport.rs`, `proxy.rs`). Around the gate: Origin and Connection checks, a deadline for the body. Behind the layer: the headers the origin gets, and what is answered when it fails.
Hard: four layers read the headers for themselves, the proxy strips some, and the deadline of one layer runs while another works. Correct when the origin executes exactly the call that was priced, and what the sidecar refuses it never executes.

**Everything else**: metrics, property assertions, Python bindings, and the `mcp-overbilling` experiment.

Interaction, in the order of a call: transport checks → admission gate → layer (authenticate, drain some deferred completions, call the proxy) → origin → body →
`Completion::finish` → attribution store → `record` → (flush loop) → `flush` → composite exporter → metered exporter → control plane or another provider.

## Modules

| module | models | state and actions |
|---|---|---|
| `BillingPipeline` | buffer and `flush()` | variables are the buffer's fields; `RecordCall`, `StartFlush`, `PrepareRetry`/`PrepareFresh`, `ExportOk`/`ExportFails`, `Restore`, `Release`. `ExportFails` is an error, a cancellation or a panic: all run the same guards |
| `MeterEventExporter` | one exporter, any callers | `stage` is where an export future is; the provider (`wire`, `ledger`, `refused`) is external and applies usage before, after or without answering |
| `UsageLedger` | abstract: an invoice | accepted calls become charged at most once; usage the provider rejected or took back is not |
| `MeteredExport` | pipeline ∘ composite ∘ metered exporter | each export of the pipeline is the exporter's steps; refines `UsageLedger` |
| `ControlPlaneExporter` | `MeteredExport` with the sidecar's provider | an acknowledgement per aggregate, in any order and in words the edge may not know; `Submits` settles only by an aligned one |
| `DeferredCompletions` | the parked queue | `Parked`, `Requeued` as operators on a queue |
| `TaskMetering` | `Completion::finish`, body drop, deferred queue, shared store, replicas | `place` says who owns a future (body, queue, drain), `step` which await it is at, `answer` what the store said |
| `OriginStore` | abstract: a store of the last `max_tasks` origins | insert, claim, remove, get |
| `InMemoryTaskStore` | `task.rs` with generations, stale entries, compaction | refines `OriginStore` |
| `ChargeDecision` | classification, cacheability, price and verdict of one exchange | operators only: `Classified`, `MayBeCached`, `UnitsFor`, `Decide` |
| `ResponseCache` | `ResponseCache::get` and `insert` | one table `entries`; `Survivors` are the sets a full table may keep |
| `MeterService` | `MeterService::call`, `Completion::finish` for calls that concern no task, the failure budget | one `exchange` per request in progress: refused (checked, not yet counted), at the origin, or with its body; `kept` is a history of when an answer was first kept |
| `ReplicaLifecycle` | one process, from its listener to its exit | `main`, `loop` and `conn` are where `serve`, `flush_loop` and each connection task are; `driving` is the completion a task awaits. Extends `ControlPlaneExporter` and `DeferredCompletions`: the flush is the pipeline's, step by step |
| `Rfc3339` | dates as the code computes and reads them | operators only: days from civil dates and back, the order of the texts |
| `PaymentScheme` | challenges and credentials | operators only: what a challenge binds, what a credential must match, with ideal base64url and HMAC |
| `Limits` | `assess_limits`, `minor_units` | operators only: both limits, overflow of the word, rounding |
| `SidecarConfig` | `Config::validate` and the constructors `serve` calls | operators only: `Valid` section by section, `Builds` for what reads the environment, `Directory` for the tenants |
| `EdgeExchange` | one request through transport, gate, layer and proxy | one `exchange` with its stage and what each layer found; the tenant cache and the clock change under it; a process starts from any configuration in `Configs` |
| `PaidAdmission` | gate, `Payments::verify`, replay store, tenant cache | one record per request with the gate's locals at each await; `sent` are the store operations under way |

`MC*` modules give the constants small values; `*Proofs` modules hold the theorems.

Histories (`recorded`, `offered`, `ledger`, `charges`, `consulted`, ...) record what happened for the properties; no guard of the program reads them.

## Runs and bounds

| run | asks | bounds, and why they are enough |
|---|---|---|
| `pipeline` | call accounting under interleaving; a bucket refused forever starves nobody | two buckets, keys and flushers, calls of 0 or 1 unit; three calls are one more than the idempotency memory (1) plus the key that evicts, and let a call fall before, into and after a batch; `MaxUnits` 2 makes a third unit overflow; one bucket is the one refused, so that two batches alternate. 351,517 states |
| `metered_export` | lease, progress, dead letters, and the whole chain as an invoice | one flusher, two buckets, sinks before and after, progress abandoned once, one late rejection, a dead letter queue of one, so that every second letter evicts |
| `task_metering` | one charge per task, no loss but the counted and the named ones, a completed task is charged unless so lost | two replicas share a store, two responses at a time, a queue of one so that parking discards, failures of the store, a recorder that refuses or panics, a store that forgets at any time, an odd poll, a crash. One task: that an insertion evicts *another* task of the same tenant is covered by the theorem, which is for any number of tasks, and here only as a store that forgets. 475,558 states |
| `odd_poll_recharges` | *finding* | smallest instance |
| `task_store` | the table implements the plain store | three identifiers for two places, seven insertions: enough to fill, evict, claim, insert again and reach the compaction threshold |
| `meter_service` | whose answer a hit is, how long, what is owed; the failure budget | two exchanges; two tenants of different prices; a cheap and a dear resource, so that two entries fill the table and a third insertion evicts; requests that continue a round trip, disagree with their headers, or, speaking an earlier revision, are a ping that has a price; a private lifetime capped at 2 and a public one of 1 within two ticks, so that entries expire in either order; one failure per window, so that two guesses race for it |
| `lifecycle_is_charged` | *finding* | one ping |
| `paid_admission` | one settlement, bounded revocation | three requests (one is offered the challenge, two present it), lifetime 2 and reservation 4 ticks within 4: the challenge expires and the reservation ends. One sidecar: the store does not tell where an operation comes from |
| `replica_lifecycle` | what a process has exported, kept or counted when it exits, and that it exits | one connection at a time, two calls of two buckets, a deferred queue of one, the control plane as the only sink; the stop signal, aborts, provider answers and the deadline come at every point. Two calls make a batch the plane settles by halves while the second half is retried |
| `never_flushed` | *finding* | the same with a flush interval of zero |
| `edge_exchange` | every layer's view of one request; configurations; payments in and out of time | 32 configurations: six that serve, two of them with an interval of zero, and 26 that do not and differ from one of these in one place; 17 requests of two tenants that headers and body describe alike, differently, or with the name encoded; three snapshots (over the quota or the spend cap, exactly at both or beyond price, revoked), with prices that round up and a word small enough to overflow; one challenge; two ticks of a day and a second from 2100-02-27T23:59:59Z, so that expiries cross the 29 February which 2100 does not have, and a lifetime of one tick, so that the challenge is presented in time, at its expiry and after it. 253,930 states |
| `unassessed_call` | *finding* | one call, one sidecar that enforces quota |

Deadlock is not checked where a bound stops the system or where everything is finished; each such configuration says so.
`FewDeadLetters` and `MaxEvents`, `MaxInsertions`, `MaxOddPolls`, `MaxCrashes`, `MaxAbandons`, `MaxNotices`, `MaxTime`, `MaxTicks`, `Nonces` are bounds of the model and none of
the code. Generations in `InMemoryTaskStore` are a `u128` in the code: 2^128 insertions do not happen, so the number is not wrapped.

What the refinements say: `ImplementsUsageLedger` maps the chain to an invoice on which each accepted call appears at most once. In `ImplementsOriginStore` the lazily
compacted queue with its stale entries is invisible: the store keeps exactly the newest origins.

`MeterService` assumes of the origin what the revisions oblige it to: it rejects headers that disagree with the body, asks for more input only on the methods that allow it, and puts
hints on complete results only. The clock is read inside the cache's lock (the code reads it just before). The table of tenants is fixed: its replacement is `PaidAdmission`'s.

`ReplicaLifecycle` parks a completion as the bucket it will be charged to: the awaits inside it are `TaskMetering`'s. A connection serves one exchange at a time (HTTP/1.1). `SidecarConfig` takes URLs apart into what the code asks of them (scheme, loopback or named host, credentials or query in it),
and secrets, prefixes and keys into the good and the bad. `EdgeExchange` has one connection, keeps reservations to the end of the behaviour and leaves the response cache out: races for a slot and its end are `PaidAdmission`'s, hits are `MeterService`'s. Its base64url and HMAC are ideal: nobody but the sidecar makes a valid challenge.
The control plane tells the truth about the aggregates it names, in whatever order it names them.

`PaidAdmission` assumes that the clocks of sidecars and Redis agree to less than the margin between reservation and challenge, that
the replay store's timeout is shorter than the challenge's lifetime (`AdmissionAssumption`; the configuration enforces neither), and that a facilitator that says
"not settled" has not settled and will not.

## Fairness

- `FairSpec`: the flush loop keeps calling `flush` (`WF StartFlush`); a future that can go on is polled (`WF` on the steps between awaits); an exporter call resolves, its
  timeout at the latest (`WF ExportOk \/ ExportFails`); a batch without a refused aggregate succeeds some time when it is tried again and again (`SF ExportOk`, the assumption on the provider).
- `TaskFairSpec`: the store answers (`WF StoreApplies`); requests and the flush loop keep draining (`WF DrainTakes`); a future that is taken again and again goes on,
  since `drain_some` polls a future before it can be cancelled (`SF Accounting`); clients poll until they see the result (`SF PollCompleted`).
- `LifeFairSpec`: tokio schedules the loop and the main task (`WF LoopStep`, `WF MainStep`, `WF FlushStep`) and fires the shutdown timer (`SF DeadlinePasses`: it may be held up by the steps it bounds, never for ever). While the process serves, a store lets the loop's completion end
  and the plane answers each *bucket* finally some time if it is asked again and again (`SF AnswersFor`), never mind which others it answers at the same time: that the progress on a batch survives its failures is what is shown. Nothing is asked of a
  peer, whose connection may stay open and silent for ever, nor of store and provider once the process stops: `ShutdownEnds` rests on the deadline alone.
- `ExchangeSpec`: one `WF` on the timers (body deadline, store, facilitator and upstream timeouts) and on the steps that wait for nobody. Clients, origin, plane and facilitator owe nothing; a caller may hang up.

## Proofs

All theorems are for every value of the constants that the named assumptions allow: `PipelineAssumption`, `MeteredAssumption`, `TaskAssumption` (types and ranges, and that `NoKey` is no key), `StoreAssumption` (capacity and bound are numbers),
`CacheAssumption` and `ServiceAssumption` (the same; the exchanges are finitely many and cacheable bodies are questions of the cache), `AdmissionAssumption` (the same, and that the replay store's timeout is shorter than a challenge's lifetime),
`ExchangeAssumption` (the shape of requests and configurations; marks such as `Refused` are no calls; no literal tool name is the encoding of another) and `PlaneAssumption` (the plane says numbers, and a key is one tenant's for good: keys are minted per tenant and revoked, never reassigned).

- `BillingPipelineProofs`. `TypeCorrect` needs no strengthening: `record` checks the overflow before it adds. `SingleOwner`: `OneOwner` is not inductive; `OwnerInv` adds
  that the flag is up exactly while a flusher is inside and that no queued batch is empty. `NoCallLostOrDoubled` and `IdentifiersAreStable` share `PlaceInv`: call numbers
  are unique, aggregates carry the calls of their own bucket, an identifier's batch number was drawn, what was offered is what is retrying, in flight or exported, and queued batches are disjoint. Of the actions,
  draining, taking a retry, committing and restoring move calls between places and have a lemma each. `NoQueueStarves`: `TurnInv` ties the two counters to the turn flag. `KeysAreForgottenLate`: the remembered key at place *i* of a queue of length *n* has had at least *n* - *i* keyed
  calls after its last one, and a key no longer remembered as many as the memory holds (`MemoryInv`). `QuantitiesAreExact`: what an aggregate gains with a call is that call's units, and no call is in it twice (`ExactInv`).
- `MeterEventExporterProofs`. `ProgressIsProtected`: `LeaseInv` is the property with the types it needs. `SkippedWereAnswered` follows with the provider's side: an outcome comes only from the ledger or a refusal. `QuarantineAllSound`: however a set of rejected aggregates is ordered, quarantining them all keeps the dead letters distinct, bounded and accounted for.
- `ReplicaLifecycleProofs`, first half (`MeteredExport`). The composition inherits rather than repeats. `ImplementsPipeline`: each of its steps is a step of the pipeline or leaves it alone, so all of `BillingPipelineProofs` holds of it. The exporter's own invariants are those of `MeterEventExporterProofs`,
  instantiated with the flushers as callers; what that needs of a caller, that a batch is a set of aggregates, is the pipeline's `TypeOK`. `CommittedWereAnswered`, that what the pipeline commits has been charged or rejected for good, follows an
  answer from the exporter's success to the commit (`CommitInv`). `ResolvedAreNotResubmitted` holds under `Unshared` (the metered exporter is the only sink, nobody abandons progress), as in the sidecar: an aggregate with a final outcome is
  exported, completed in the progress, or with a flusher that is about to commit it (`ResolvedInv`), and a flusher that awaits outcomes has left out all three. `InvoicesAreHonest` is the refinement of `UsageLedger`: submissions and failures stutter, an application charges,
  a rejection waives, a late one refunds; that an application charges calls nobody was charged for, with exactly their units, rests on disjoint offers (`PlaceInv`) and exact aggregates (`ExactInv`). `NoDeadLetterIsLostSilently`: entered minus queued minus dropped is what was drained (`DeadInv`).
- `ReplicaLifecycleProofs`, second half (`ReplicaLifecycle`). `SubmitsKeepsTheContract`: reading acknowledgements by alignment makes the control plane a provider as `MeterEventExporter` asks for one. `LifecycleIsMetered`: a process runs the composed export, whatever its tasks do. That needs the conservation law itself, since
  only it keeps the calls within the history's bound; so `ChargeInv` and `TypeOK` are proved together and give `ChargesStayConserved` (parked + driven + recorded + lost = owed, across aborts, full queues and deadlines). `LastFlushIsAlone`: `AloneInv` says one stage earlier that the loop has ended and no
  connection is open, and that whoever goes leaves nothing half done. `CleanExitsAreComplete` puts them together: at the two moments `finish_shutdown` looks nothing is left (`CleanInv`), nobody is there to add something in between (`LastFlushIsAlone`), a call that is nowhere else is exported
  (`EveryCallHasOnePlace`), and what is exported was answered (`CommitInv`). `ProcessBillsHonestly`: since the process is a metered pipeline, its invoices and dead letters are honest as well.
- `TaskMeteringProofs`. `ClaimedOnce`: a task none of whose polls was odd is charged at most once, for any number of tasks, replicas and responses, whatever fails. The argument counts *tokens*: the attribution of a task is in the store, with one future that claimed it, or in one operation under way
  (`OneToken`), and a charge spends it (`SpentOnce`). A poll answered in the shape of a creation makes a second token, as `odd_poll_recharges` shows; the other tasks keep their guarantee. `NoFutureIsParkedTwice`: a replica's queue is an enumeration of the futures parked there (`QueueInv`). `NoChargeIsLostUnexplained`: a price that leaves its last place leaves it for a charge, with a counted failure, or in one of the ways nothing counts: a crash, a store that forgets it, a recorder's panic in a body (`LossInv`).
- `InMemoryTaskStoreProofs`. `StoreKeepsOrigins`, the refinement of `OriginStore`, and `QueueStaysBounded` rest on one fact (`Sound`): the generations increase along the queue, so an association has its one entry there. What an operation makes of the live entries is shown by
  listing their positions: an increasing list of a set is the only one (`EnumerationIsNth`), so eviction shifts it, insertion lengthens it, a claim takes one position out and compaction renumbers all of them. An insertion never adds a stale entry, and a claim or removal compacts above 2 * `Capacity`.
- `MeterServiceProofs`. `EitherSharedOrPrivate`: whatever `insert` sweeps or evicts, what it puts in supersedes the other representation of its question (`Survivors` is all that is used). `HitsAreTheCallers` needs
  to know of every kept answer whom and what it was made for (`EntryInv`), and of every answer under way that it is about its request's body (`ExchangeInv`). `HitsAreServedInTime` rests on the same invariant with the clock: an entry expires no later than its answer's
  first keeping plus its lifetime, because a hit is never kept again. `FailuresAreBounded`: `failures` plus the callers past the check; counting one moves it from the second to the first. `EvictionIsJustified`: a lookup drops only what expired, and an insertion sweeps before it evicts (`TableInv`). `DeliveredWorkIsCharged`, for calls that deliver priced work and for results that do not say complete: an answer reaches its body only when the headers agree with the request's body, or as an error (`ChargeInv`).
- `PaidAdmissionProofs`. `PaymentSettlesOnce`: a challenge is *guarded* from the grant of its slot until the facilitator refuses it, and `SlotInv` says that a guarded challenge is blocked: its slot is held until
  one lifetime after its expiry, and no release under way can end that. A second grant would have to find the slot free; but a reservation is only sent before the expiry and only heard of within the store's
  timeout, which is too early. `RefusalsReleaseTheirSlot` adds who owns a slot (`OwnersAccount`): after a refusal no request reaches its verdict as an owner. `RevocationTakesEffect`: an entry that lets the tenant
  in was asked for before the revocation (`AskedBeforeRevocation`). `AdmissionIsTyped` is what they all rest on.
- `EdgeExchangeProofs`. `CallsHaveOneOwner`: past the meter's check the tenant of a call is who the directory knows its key as (`OwnInv`), and a directory that was built knows every entry by its key, since no two resolve to one (`TenantsKnown`). `OriginExecutesWhatIsPriced`: a name spelt in a header, literally or encoded, is read as that name, an origin obliged to compare does so, and none of the
  headers it compares can have been nominated away. `RefusalsStopCalls`: the gate's body limit is the meter's, and what the gate classified the meter classifies alike (`WayInv`). `NothingOverCapIsFree`: the ledger is a book of genuine challenges, no two with one nonce (`Book`); a credential that passes the
  local checks is one of them, since an altered one does not match its identifier, and was issued for this tenant, call, body and price (`CredentialsMatch`); it is not settled while it is verified, and releasing its reservation unsettles no other (`PaymentInv`); what the meter reads again is what the gate read, by `PlaneAssumption`;
  and rounding up covers the price.

Each inductive invariant was checked by TLC before it was proved.

Sums and folds over finite sets, and other recursions, are reasoned about without an induction principle (the library's take an operator as a parameter): the finite sets are well-founded under strict inclusion, so a least counterexample exists, and has none below it.

Only model-checked: liveness (`CleanCallsGetExported`, `CompletedIsSettled`, `RecordedCallsAreExported`, `ParkedCompletionsRun`, `ShutdownEnds`, `EveryRequestIsAnswered`), which rests on fairness and `ENABLED`; and
`GoodPaymentIsHonoured`, which needs the calendar's recursions to invert each other.

## What the code does and its documentation does not say

Four runs end in a counterexample, on purpose:

1. `odd_poll_recharges`: a poll answered with `resultType: "task"` inserts the attribution of a task that was charged already; a completed poll on a replica that does not remember the task charges it again.
2. `never_flushed`: an interval of zero passes `validate`, and `tokio::time::interval` panics on it inside the flush loop's task, which nobody awaits before the shutdown: the sidecar serves, records, and exports nothing until it stops.
   A `refresh_interval_seconds` of zero ends `refresh_forever` in the same way, after which the tenant cache grows stale and fails closed. Both are among the configurations of `edge_exchange` that serve.
3. `lifecycle_is_charged`: `Method::delivers_priced_work` says that a vendor extension or lifecycle method delivers no priced result "no matter what" it answers with. `decide` bills a complete result of any method that is
   neither discovery, subscription nor task plumbing; only the promotion of earlier revisions asks `delivers_priced_work`. A ping on the present revision, answered with `complete`, is charged by the price book.
   `ChargedForWhatWasDelivered` leaves these results out, and asks that nothing but priced work be charged otherwise.
4. `unassessed_call`: the gate admits a call whose quota the cache cannot tell, since that is "the meter's business, and it will refuse" it; but the meter asks the cache again. A snapshot applied between the two lets the call of a tenant over its quota through, unassessed and unpaid.

More were met while modelling, and no run is spent on them:

- `abandon_retry_progress` makes the exporter forget which aggregates were resolved, but the pipeline still owns the batch and offers it again, whole, although the README says that accepted and
  permanently rejected events are not resubmitted. `metered_export` has the behaviour: the provider's idempotency by identifier is what prevents a second charge (`ImplementsUsageLedger`).
  `ResolvedNotResubmitted` is checked and proved where nobody abandons and no other sink shares the batch, as in the sidecar.
- The accounting future is polled by drains and by the response body. A recorder that panics under a drain unwinds through `InFlight::drop`, which counts it (`PanicDrain`); under the body's first poll or its destructor it takes the claimed
  attribution along, and no metric counts that (`PanicBody`). The in-process store's eviction of an attribution at capacity (`Evictions`), and its loss or expiry in any store (`Forget`), are not counted either.
  `LossesAreExplained` and `CompletedIsSettled` name these ways; they say that there are no others.
- A tenant over its cap that calls a tool priced 0, "the supported way to expose a loss-leader tool" (`price.rs`), is offered a challenge for 0, which a comment of `decide` calls worse than refusing.
- The reservation of a challenge outlasts it by one lifetime, and the replay store's timeout must be shorter than that. `validate` does not compare the two; with the defaults (300 and 2 seconds) it is. `PaymentSettlesOnce` assumes it.

## Not modelled

Parsing and encoding of JSON and TOML, HTTP itself, bodies piece by piece, metrics (but
for the counters the properties read), log lines, bindings and the offline experiment. `get` of the shared stores is used by no accounting path. `PaidAdmission` takes the verdict on the limits from its plan (`OverCap`); `EdgeExchange` computes it.
Within modelled parts: byte limits of captured bodies, transport traffic that is not metered, the address the proxy builds, and `ReplayGuard` and `InMemoryReplayStore`, which serve tests and embedders and never the sidecar.
A change of the configuration between issue and redemption of a challenge is not modelled: a challenge is compared with the present amount, tenant, call and body, but not with the present currency, recipient or intent.

## Plan

In this order, the most consequential first:

1. *Done*: `BillingPipeline`, `MeterEventExporter`, `UsageLedger`, `MeteredExport`; `TaskMetering`, `DeferredCompletions`; `OriginStore`, `InMemoryTaskStore`; `PaidAdmission`; `ResponseCache`, `ChargeDecision`, `MeterService`; with their proofs.
2. *Done*: `ReplicaLifecycle` over the composed export, with `ControlPlaneExporter`; theorems about both and about the composition.
3. *Done*: `SidecarConfig`, `Rfc3339`, `PaymentScheme` and `EdgeExchange`, the request through every layer.
4. *Done*: `Limits` and encoded header names, in `EdgeExchange`. To do: `Decide` extended with tasks and used by `TaskMetering` for its verdicts.
5. *Done*: theorems for every safety property the runs check but `GoodPaymentIsHonoured`, and the refinements of `UsageLedger` and `OriginStore`. To do: the calendar of `Rfc3339`, and with it `GoodPaymentIsHonoured`.
