--------------------------- MODULE BillingPipeline ---------------------------
(***************************************************************************)
(* The usage buffer and the flush of mcp-usage-export: request threads     *)
(* record priced calls into per-bucket aggregates, flushers drain the      *)
(* aggregates into batches with fresh identifiers, and a batch whose       *)
(* export fails, is cancelled or panics goes back to the retry queue.      *)
(*                                                                         *)
(* A bucket stands for a (customer, meter) pair and a key for a (tenant,   *)
(* idempotency key) pair.  A batch is the set of its aggregates: the code  *)
(* keeps it as a vector sorted by bucket, an order the set determines.     *)
(* Each accepted call gets a number so that the properties can say where   *)
(* its units are; the numbers and the history variables are not read by    *)
(* any action.                                                             *)
(***************************************************************************)
EXTENDS Integers, FiniteSets, Sequences, FiniteSetsExt

CONSTANTS
  Buckets,             \* (customer, meter) aggregate keys
  Keys,                \* scoped idempotency keys
  NoKey,               \* the key of a call that carries none
  Flushers,            \* tasks that call flush()
  Policy,              \* the exporter's RetryPolicy
  RefusedBuckets,      \* buckets whose aggregates the exporter never accepts
  MaxIdempotencyKeys,  \* max_idempotency_keys
  MaxUnits,            \* u64::MAX
  UnitsPerCall,        \* units a call may be priced at
  Timestamps,          \* clock readings a call may carry
  MaxEvents            \* bound: accepted calls in one behaviour

ASSUME PipelineAssumption ==
  /\ NoKey \notin Keys
  /\ Policy \in {"Interleave", "CompleteBatch"}
  /\ RefusedBuckets \subseteq Buckets
  /\ MaxIdempotencyKeys \in Nat
  /\ MaxUnits \in Nat \ {0}
  /\ UnitsPerCall \subseteq 0..MaxUnits
  /\ Timestamps \subseteq Nat
  /\ MaxEvents \in Nat

VARIABLES
  pending,             \* bucket -> aggregate not yet in a batch
  retry,               \* batches waiting to be offered again
  seen,                \* idempotency keys remembered
  seen_order,          \* the same keys, oldest first
  serve_pending_next,  \* a retry was selected last: fresh usage goes first
  flush_in_progress,   \* the flag flush() takes by compare_exchange
  pc,                  \* where each flusher is inside flush()
  batch,               \* the batch a flusher's RetryGuard owns
  batches,             \* history: batches drained from pending so far
  calls,               \* history: number of calls record() accepted
  recorded,            \* history: those calls
  offered,             \* history: every aggregate handed to the exporter
  exported,            \* history: every aggregate whose flush committed
  bypassed             \* history: consecutive flushes that left a queue waiting

bufferVars == <<pending, retry, seen, seen_order, serve_pending_next>>
flushVars  == <<flush_in_progress, pc, batch>>
ghostVars  == <<batches, calls, recorded, offered, exported, bypassed>>
vars       == <<bufferVars, flushVars, ghostVars>>

(***************************************************************************)
(* A call carries its number, so that two calls alike are two calls.       *)
(***************************************************************************)
Event == [id : Nat, bucket : Buckets, key : Keys \cup {NoKey},
          units : UnitsPerCall, timestamp : Timestamps]

\* The aggregate a bucket has while it is absent from the map.
Absent == [units |-> 0, timestamp |-> 0, events |-> {}]

PendingAggregate == [units : 0..MaxUnits, timestamp : Nat, events : SUBSET Event]

\* An identifier is fresh: the batch that first carried it, and the bucket.
Aggregate == [identifier : Nat \X Buckets, bucket : Buckets, units : 0..MaxUnits,
              timestamp : Nat, events : SUBSET Event]

ToBatches(queue) == {queue[i] : i \in DOMAIN queue}

Init ==
  /\ pending = [b \in Buckets |-> Absent]
  /\ retry = <<>>
  /\ seen = {}
  /\ seen_order = <<>>
  /\ serve_pending_next = FALSE
  /\ flush_in_progress = FALSE
  /\ pc = [f \in Flushers |-> "idle"]
  /\ batch = [f \in Flushers |-> {}]
  /\ batches = 0
  /\ calls = 0
  /\ recorded = {}
  /\ offered = {}
  /\ exported = {}
  /\ bypassed = [fresh |-> 0, retry |-> 0]
------------------------------------------------------------------------------
(***************************************************************************)
(* Recording, under the buffer's lock.                                     *)
(***************************************************************************)
UncheckedOutcome(e) ==
  IF e.units = 0 THEN "ZeroUnits"
  ELSE IF e.key \in seen THEN "Duplicate"
  ELSE "Recorded"

\* What record() answers; only "Recorded" changes the buffer.
RecordOutcome(e) ==
  IF e.units = 0 THEN "ZeroUnits"
  ELSE IF e.key \in seen THEN "Duplicate"
  ELSE IF pending[e.bucket].units + e.units > MaxUnits THEN "UnitsOverflow"
  ELSE "Recorded"

LatestTimestamp(aggregate, e) ==
  IF aggregate.units # 0 /\ aggregate.timestamp >= e.timestamp
  THEN aggregate.timestamp ELSE e.timestamp

\* An aggregate keeps the oldest timestamp of the calls it represents.
OldestTimestamp(aggregate, e) ==
  IF aggregate.units # 0 /\ aggregate.timestamp <= e.timestamp
  THEN aggregate.timestamp ELSE e.timestamp

RememberWhileRoom(key) ==
  IF key = NoKey \/ Len(seen_order) >= MaxIdempotencyKeys
  THEN UNCHANGED <<seen, seen_order>>
  ELSE /\ seen' = seen \cup {key}
       /\ seen_order' = Append(seen_order, key)

(***************************************************************************)
(* Remember a key, evicting the oldest beyond the capacity.  The order     *)
(* never exceeds the capacity before the insertion, so the code's loop     *)
(* evicts at most one key.                                                 *)
(***************************************************************************)
Remember(key) ==
  LET order == Append(seen_order, key) IN
  IF key = NoKey \/ MaxIdempotencyKeys = 0
  THEN UNCHANGED <<seen, seen_order>>
  ELSE IF Len(order) > MaxIdempotencyKeys
  THEN /\ seen' = (seen \cup {key}) \ {Head(order)}
       /\ seen_order' = Tail(order)
  ELSE /\ seen' = seen \cup {key}
       /\ seen_order' = order

AddUnits(e) ==
  /\ pending' = [pending EXCEPT ![e.bucket] =
                   [units |-> @.units + e.units,
                    timestamp |-> OldestTimestamp(@, e),
                    events |-> @.events \cup {e}]]
  /\ calls' = calls + 1
  /\ recorded' = recorded \cup {e}

\* record(): the calls it answers otherwise leave the state as it is.
Record(e) ==
  /\ RecordOutcome(e) = "Recorded"
  /\ Remember(e.key)
  /\ AddUnits(e)
  /\ UNCHANGED <<retry, serve_pending_next, flushVars, batches, offered, exported, bypassed>>
------------------------------------------------------------------------------
(***************************************************************************)
(* Flushing.  A flusher that loses the compare_exchange returns            *)
(* FlushInProgress and has changed nothing: it has no step here.           *)
(***************************************************************************)
StartFlush(f) ==
  /\ pc[f] = "idle"
  /\ ~flush_in_progress
  /\ flush_in_progress' = TRUE
  /\ pc' = [pc EXCEPT ![f] = "prepare"]
  /\ UNCHANGED <<bufferVars, batch, ghostVars>>

FreshBuckets == {b \in Buckets : pending[b].units > 0}

\* Drain every pending aggregate under a new identifier.
FreshBatch ==
  {[identifier |-> <<batches + 1, b>>, bucket |-> b, units |-> pending[b].units,
    timestamp |-> pending[b].timestamp, events |-> pending[b].events] : b \in FreshBuckets}

TakeRetryAlways == retry # <<>>

TakeRetry ==
  /\ retry # <<>>
  /\ \/ Policy = "CompleteBatch"
     \/ ~serve_pending_next
     \/ FreshBuckets = {}

\* One more flush in a row passed over a queue that had something to offer; 2 stands for more.
Bypass(count, waiting) == IF ~waiting THEN 0 ELSE IF count = 0 THEN 1 ELSE 2

PrepareRetry(f) ==
  /\ pc[f] = "prepare"
  /\ TakeRetry
  /\ batch' = [batch EXCEPT ![f] = Head(retry)]
  /\ retry' = Tail(retry)
  /\ serve_pending_next' = TRUE
  /\ pc' = [pc EXCEPT ![f] = "export"]
  /\ offered' = offered \cup Head(retry)
  /\ bypassed' = [fresh |-> Bypass(bypassed.fresh, FreshBuckets # {}), retry |-> 0]
  /\ UNCHANGED <<pending, seen, seen_order, flush_in_progress, batches, calls, recorded, exported>>

\* Nothing pending makes an empty batch: flush() returns Ok(0) without an export.
PrepareFresh(f) ==
  /\ pc[f] = "prepare"
  /\ ~TakeRetry
  /\ batch' = [batch EXCEPT ![f] = FreshBatch]
  /\ pending' = [b \in Buckets |-> Absent]
  /\ serve_pending_next' = FALSE
  /\ pc' = [pc EXCEPT ![f] = IF FreshBatch = {} THEN "release" ELSE "export"]
  /\ batches' = IF FreshBatch = {} THEN batches ELSE batches + 1
  /\ offered' = offered \cup FreshBatch
  /\ bypassed' = [fresh |-> 0, retry |-> Bypass(bypassed.retry, retry # <<>>)]
  /\ UNCHANGED <<retry, seen, seen_order, flush_in_progress, calls, recorded, exported>>

\* The exporter's future resolves Ok: RetryGuard::commit takes the batch.
ExportOk(f) ==
  /\ pc[f] = "export"
  /\ \A a \in batch[f] : a.bucket \notin RefusedBuckets
  /\ exported' = exported \cup batch[f]
  /\ batch' = [batch EXCEPT ![f] = {}]
  /\ pc' = [pc EXCEPT ![f] = "release"]
  /\ UNCHANGED <<bufferVars, flush_in_progress, batches, calls, recorded, offered, bypassed>>

\* The guards drop in the other order: the flag is free before the batch is back.
ExportFailsReleasing(f) ==
  /\ pc[f] = "export"
  /\ flush_in_progress' = FALSE
  /\ pc' = [pc EXCEPT ![f] = "restore"]
  /\ UNCHANGED <<bufferVars, batch, ghostVars>>

\* It resolves Err, panics, or the flush is cancelled: the guards drop, RetryGuard first.
ExportFails(f) ==
  /\ pc[f] = "export"
  /\ pc' = [pc EXCEPT ![f] = "restore"]
  /\ UNCHANGED <<bufferVars, flush_in_progress, batch, ghostVars>>

RestoreNothing(f) ==
  /\ pc[f] = "restore"
  /\ batch' = [batch EXCEPT ![f] = {}]
  /\ pc' = [pc EXCEPT ![f] = "release"]
  /\ UNCHANGED <<bufferVars, flush_in_progress, ghostVars>>

\* The failed aggregates are added back to their buckets: a new batch renames them.
RestoreIntoPending(f) ==
  LET Back(b) == {a \in batch[f] : a.bucket = b} IN
  /\ pc[f] = "restore"
  /\ pending' = [b \in Buckets |->
       IF Back(b) = {} THEN pending[b]
       ELSE LET a == CHOOSE x \in Back(b) : TRUE IN
            [units |-> pending[b].units + a.units, timestamp |-> a.timestamp,
             events |-> pending[b].events \cup a.events]]
  /\ batch' = [batch EXCEPT ![f] = {}]
  /\ pc' = [pc EXCEPT ![f] = "release"]
  /\ UNCHANGED <<retry, seen, seen_order, serve_pending_next, flush_in_progress, ghostVars>>

\* restore_after_interruption: the exact batch, at the back of the retry queue.
Restore(f) ==
  /\ pc[f] = "restore"
  /\ retry' = Append(retry, batch[f])
  /\ batch' = [batch EXCEPT ![f] = {}]
  /\ pc' = [pc EXCEPT ![f] = "release"]
  /\ UNCHANGED <<pending, seen, seen_order, serve_pending_next, flush_in_progress, ghostVars>>

Release(f) ==
  /\ pc[f] = "release"
  /\ flush_in_progress' = FALSE
  /\ pc' = [pc EXCEPT ![f] = "idle"]
  /\ UNCHANGED <<bufferVars, batch, ghostVars>>
------------------------------------------------------------------------------
RecordCall ==
  /\ calls < MaxEvents
  /\ \E e \in [id : {calls + 1}, bucket : Buckets,
               key : Keys \cup {NoKey}, units : UnitsPerCall, timestamp : Timestamps] :
       Record(e)

Flush(f) ==
  \/ StartFlush(f)
  \/ PrepareRetry(f)
  \/ PrepareFresh(f)
  \/ ExportOk(f)
  \/ ExportFails(f)
  \/ Restore(f)
  \/ Release(f)

Next ==
  \/ RecordCall
  \/ \E f \in Flushers : Flush(f)

Spec == Init /\ [][Next]_vars

------------------------------------------------------------------------------
\* The fields of UsageBuffer and what flush() holds keep their types; units fit their word.
TypeOK ==
  /\ pending \in [Buckets -> PendingAggregate]
  /\ retry \in Seq(SUBSET Aggregate)
  /\ seen \subseteq Keys
  /\ seen_order \in Seq(Keys)
  /\ serve_pending_next \in BOOLEAN
  /\ flush_in_progress \in BOOLEAN
  /\ pc \in [Flushers -> {"idle", "prepare", "export", "restore", "release"}]
  /\ batch \in [Flushers -> SUBSET Aggregate]
  /\ batches \in Nat
  /\ calls \in Nat
  /\ recorded \subseteq Event
  /\ offered \subseteq Aggregate
  /\ exported \subseteq Aggregate
  /\ bypassed \in [fresh : 0..2, retry : 0..2]

EventsOf(aggregates) == UNION {a.events : a \in aggregates}

InFlight == UNION {batch[f] : f \in Flushers}

Retrying == UNION ToBatches(retry)

PendingEvents == UNION {pending[b].events : b \in Buckets}

(***************************************************************************)
(* No call is lost and none is counted in two places: whatever the         *)
(* interleaving of recorders, flushers, failures and cancellations, every  *)
(* accepted call is pending, waiting in the retry queue, in flight, or     *)
(* exported, and in one of these only (record, prepare_flush, RetryGuard). *)
(***************************************************************************)
EveryCallHasOnePlace ==
  /\ recorded = PendingEvents \cup EventsOf(Retrying \cup InFlight \cup exported)
  /\ PendingEvents \cap EventsOf(offered) = {}
  /\ Retrying \cap InFlight = {}
  /\ (Retrying \cup InFlight) \cap exported = {}

(***************************************************************************)
(* What makes an ambiguous provider failure safe: everything ever offered  *)
(* under one identifier is the very same aggregate, and a call is never    *)
(* offered again under another identifier.                                 *)
(***************************************************************************)
StableIdentifiers ==
  \A a1, a2 \in offered :
    (a1.identifier = a2.identifier \/ a1.events \cap a2.events # {}) => a1 = a2

UnitsOf(these) == MapThenSumSet(LAMBDA x : x.units, these)

\* One aggregate's quantity and timestamp are those of the calls it stands for.
Exact(aggregate) ==
  /\ aggregate.units = UnitsOf(aggregate.events)
  /\ aggregate.units > 0 => aggregate.timestamp = Min({e.timestamp : e \in aggregate.events})

(***************************************************************************)
(* Quantities are neither saturated nor wrapped nor moved to another       *)
(* bucket: every aggregate, pending or offered, has the summed units and   *)
(* the oldest timestamp of exactly its own bucket's calls.                 *)
(***************************************************************************)
ExactAggregates ==
  /\ \A b \in Buckets : Exact(pending[b]) /\ \A e \in pending[b].events : e.bucket = b
  /\ \A a \in offered : Exact(a) /\ \A e \in a.events : e.bucket = a.bucket

(***************************************************************************)
(* A key is charged again only after MaxIdempotencyKeys other keyed calls  *)
(* were charged in between: the bounded memory forgets no sooner.  And it  *)
(* holds no key whose call was not charged: a refused call (an overflow)   *)
(* must be able to come back under its key.                                *)
(***************************************************************************)
ChargedOncePerWindow ==
  /\ \A e1, e2 \in recorded :
       (e1.key = e2.key /\ e1.key # NoKey /\ e1.id < e2.id) =>
         Cardinality({e \in recorded : e.key # NoKey /\ e1.id < e.id /\ e.id < e2.id})
           >= MaxIdempotencyKeys
  /\ seen \subseteq {e.key : e \in recorded}

(***************************************************************************)
(* At most one flusher is inside flush(), it alone owns a batch, and under *)
(* CompleteBatch there is never a second batch beside the one being        *)
(* completed: the guards' drop order restores it before the next flush.    *)
(***************************************************************************)
OneOwner ==
  /\ \A f, g \in Flushers : pc[f] # "idle" /\ pc[g] # "idle" => f = g
  /\ \A f \in Flushers : batch[f] # {} <=> pc[f] \in {"export", "restore"}
  /\ Policy = "CompleteBatch" =>
       /\ Len(retry) <= 1
       /\ (\E f \in Flushers : batch[f] # {}) => retry = <<>>

(***************************************************************************)
(* Neither queue is starved, however steady the traffic and however long   *)
(* the failures: with Interleave no two flushes in a row pass over fresh   *)
(* usage, nor over a waiting retry; with CompleteBatch none passes over a  *)
(* retry.                                                                  *)
(***************************************************************************)
NeitherQueueStarves ==
  /\ Policy = "Interleave" => bypassed.fresh <= 1 /\ bypassed.retry <= 1
  /\ Policy = "CompleteBatch" => bypassed.retry = 0

------------------------------------------------------------------------------
(***************************************************************************)
(* Liveness.  The flush loop keeps flushing; a flush in progress goes on;  *)
(* an exporter call resolves, and for a batch with no refused aggregate it *)
(* succeeds some time if it is tried again and again.                      *)
(***************************************************************************)
Fairness ==
  \A f \in Flushers :
    /\ WF_vars(StartFlush(f))
    /\ WF_vars(PrepareRetry(f) \/ PrepareFresh(f) \/ Restore(f) \/ Release(f))
    /\ WF_vars(ExportOk(f) \/ ExportFails(f))
    /\ SF_vars(ExportOk(f))

FairSpec == Spec /\ Fairness

InBatch(n, aggregates) == \E a \in aggregates : a.identifier[1] = n

\* Batch n was drained together with an aggregate the exporter never accepts.
Tainted(n) ==
  \E a \in offered : a.identifier[1] = n /\ a.bucket \in RefusedBuckets

Accepted(i) == \E e \in recorded : e.id = i /\ e.bucket \notin RefusedBuckets

Exported(i) == \E e \in EventsOf(exported) : e.id = i

HeldByRefused(i) ==
  \E a \in offered : Tainted(a.identifier[1]) /\ \E e \in a.events : e.id = i

(***************************************************************************)
(* A batch that is refused forever holds only the calls drained with it:   *)
(* every other accepted call is exported in the end.                       *)
(***************************************************************************)
CleanCallsGetExported ==
  \A i \in 1..MaxEvents : Accepted(i) ~> (Exported(i) \/ HeldByRefused(i))

==============================================================================
