------------------------ MODULE BillingPipelineProofs ------------------------
(***************************************************************************)
(* Proofs about BillingPipeline, for every value of its constants: its     *)
(* types, that one flusher at most owns a batch, that every accepted call  *)
(* is in one place only and is never offered under two identifiers, that   *)
(* keys are not forgotten too early, and that aggregates are exact sums.   *)
(***************************************************************************)
EXTENDS BillingPipeline, FiniteSetTheorems, TLAPS

------------------------------------------------------------------------------
(***************************************************************************)
(* Queues of batches.                                                      *)
(***************************************************************************)

\* Appending to a queue adds its element, and nothing else, to its contents.
LEMMA AppendContents ==
  ASSUME NEW S, NEW q \in Seq(S), NEW x \in S
  PROVE  ToBatches(Append(q, x)) = ToBatches(q) \cup {x}
<1>1. /\ Append(q, x) \in Seq(S)
      /\ Len(Append(q, x)) = Len(q) + 1
      /\ \A i \in 1..Len(q) : Append(q, x)[i] = q[i]
      /\ Append(q, x)[Len(q) + 1] = x
  OBVIOUS
<1>2. /\ DOMAIN q = 1..Len(q)
      /\ DOMAIN Append(q, x) = 1..(Len(q) + 1)
      /\ Len(q) \in Nat
  BY <1>1
<1>3. DOMAIN Append(q, x) = DOMAIN q \cup {Len(q) + 1}
  BY <1>2
<1>4. QED
  BY <1>1, <1>2, <1>3 DEF ToBatches

\* Taking the head off a queue takes that element off its contents.
LEMMA HeadContents ==
  ASSUME NEW S, NEW q \in Seq(S), q # <<>>
  PROVE  /\ Head(q) \in S
         /\ Tail(q) \in Seq(S)
         /\ ToBatches(q) = {Head(q)} \cup ToBatches(Tail(q))
<1>1. /\ Tail(q) \in Seq(S)
      /\ Head(q) \in S
      /\ Head(q) = q[1]
      /\ Len(q) \in Nat \ {0}
      /\ Len(Tail(q)) = Len(q) - 1
      /\ \A i \in 1..(Len(q) - 1) : Tail(q)[i] = q[i + 1]
  OBVIOUS
<1>2. /\ DOMAIN q = 1..Len(q)
      /\ DOMAIN Tail(q) = 1..(Len(q) - 1)
  BY <1>1
<1>3. \A i \in DOMAIN q : i = 1 \/ (i - 1 \in DOMAIN Tail(q) /\ Tail(q)[i - 1] = q[i])
  BY <1>1, <1>2
<1>4. \A i \in DOMAIN Tail(q) : i + 1 \in DOMAIN q /\ Tail(q)[i] = q[i + 1]
  BY <1>1, <1>2
<1>5. 1 \in DOMAIN q
  BY <1>1, <1>2
<1>6. QED
  BY <1>1, <1>3, <1>4, <1>5 DEF ToBatches

------------------------------------------------------------------------------
(***************************************************************************)
(* Type correctness.                                                       *)
(***************************************************************************)

\* A bucket that is absent counts as an aggregate of no units.
LEMMA AbsentType == Absent \in PendingAggregate
BY PipelineAssumption DEF Absent, PendingAggregate

\* A drained batch is made of aggregates.
LEMMA FreshBatchType ==
  ASSUME TypeOK
  PROVE  FreshBatch \in SUBSET Aggregate
BY DEF TypeOK, FreshBatch, FreshBuckets, Aggregate, PendingAggregate

\* A call that record() may be given is an event.
LEMMA CallType ==
  ASSUME TypeOK,
         NEW e \in [id : {calls + 1}, bucket : Buckets, key : Keys \cup {NoKey},
                    units : UnitsPerCall, timestamp : Timestamps]
  PROVE  e \in Event
BY DEF TypeOK, Event

\* Remembering a key keeps the memory a set and a sequence of keys.
LEMMA RememberType ==
  ASSUME TypeOK, NEW k \in Keys \cup {NoKey}, Remember(k)
  PROVE  seen' \subseteq Keys /\ seen_order' \in Seq(Keys)
<1>1. CASE k = NoKey \/ MaxIdempotencyKeys = 0
  BY <1>1 DEF Remember, TypeOK
<1>2. CASE ~(k = NoKey \/ MaxIdempotencyKeys = 0)
  <2> DEFINE order == Append(seen_order, k)
  <2>1. order \in Seq(Keys) /\ order # <<>>
    BY <1>2 DEF TypeOK
  <2>2. Tail(order) \in Seq(Keys)
    BY <2>1, HeadContents
  <2>3. QED
    BY <1>2, <2>1, <2>2 DEF Remember, TypeOK
<1>3. QED
  BY <1>1, <1>2

\* Adding a call's units keeps the pending aggregates typed: the overflow guard bounds them.
LEMMA AddUnitsType ==
  ASSUME TypeOK, NEW e \in Event,
         RecordOutcome(e) = "Recorded", AddUnits(e)
  PROVE  /\ pending' \in [Buckets -> PendingAggregate]
         /\ recorded' \subseteq Event
         /\ calls' \in Nat
<1>1. /\ e.bucket \in Buckets /\ e.units \in 0..MaxUnits /\ e.timestamp \in Nat
      /\ pending[e.bucket] \in PendingAggregate
  BY PipelineAssumption DEF TypeOK, Event
<1>2. pending[e.bucket].units + e.units \in 0..MaxUnits
  BY <1>1, PipelineAssumption DEF RecordOutcome, PendingAggregate
<1>3. OldestTimestamp(pending[e.bucket], e) \in Nat
  BY <1>1 DEF OldestTimestamp, PendingAggregate
<1>4. pending[e.bucket].events \cup {e} \in SUBSET Event
  BY <1>1 DEF PendingAggregate
<1>5. [units |-> pending[e.bucket].units + e.units,
       timestamp |-> OldestTimestamp(pending[e.bucket], e),
       events |-> pending[e.bucket].events \cup {e}] \in PendingAggregate
  BY <1>2, <1>3, <1>4 DEF PendingAggregate
<1>6. QED
  BY <1>1, <1>5 DEF AddUnits, TypeOK

\* TypeOK is inductive.
LEMMA TypeStep ==
  ASSUME TypeOK, [Next]_vars
  PROVE  TypeOK'
<1> USE DEF bufferVars, flushVars, ghostVars
<1>1. ASSUME NEW e \in [id : {calls + 1}, bucket : Buckets, key : Keys \cup {NoKey},
                        units : UnitsPerCall, timestamp : Timestamps],
             Record(e)
      PROVE  TypeOK'
  <2>1. e \in Event
    BY CallType
  <2>2. seen' \subseteq Keys /\ seen_order' \in Seq(Keys)
    BY <1>1, <2>1, RememberType DEF Record, Event
  <2>3. pending' \in [Buckets -> PendingAggregate] /\ recorded' \subseteq Event /\ calls' \in Nat
    BY <1>1, <2>1, AddUnitsType DEF Record
  <2>4. QED
    BY <1>1, <2>2, <2>3 DEF Record, TypeOK
<1>2. ASSUME NEW f \in Flushers, StartFlush(f)
      PROVE  TypeOK'
  BY <1>2 DEF StartFlush, TypeOK
<1>3. ASSUME NEW f \in Flushers, PrepareRetry(f)
      PROVE  TypeOK'
  <2>1. Head(retry) \in SUBSET Aggregate /\ Tail(retry) \in Seq(SUBSET Aggregate)
    BY <1>3, HeadContents DEF PrepareRetry, TakeRetry, TypeOK
  <2>2. Bypass(bypassed.fresh, FreshBuckets # {}) \in 0..2
    BY DEF Bypass
  <2>3. QED
    BY <1>3, <2>1, <2>2 DEF PrepareRetry, TypeOK
<1>4. ASSUME NEW f \in Flushers, PrepareFresh(f)
      PROVE  TypeOK'
  <2>1. FreshBatch \in SUBSET Aggregate
    BY FreshBatchType
  <2>2. pending' \in [Buckets -> PendingAggregate]
    BY <1>4, AbsentType DEF PrepareFresh
  <2>3. Bypass(bypassed.retry, retry # <<>>) \in 0..2
    BY DEF Bypass
  <2>4. pc' \in [Flushers -> {"idle", "prepare", "export", "restore", "release"}]
    BY <1>4 DEF PrepareFresh, TypeOK
  <2>5. batches' \in Nat
    BY <1>4 DEF PrepareFresh, TypeOK
  <2>6. bypassed' \in [fresh : 0..2, retry : 0..2]
    BY <1>4, <2>3 DEF PrepareFresh
  <2>7. QED
    BY <1>4, <2>1, <2>2, <2>4, <2>5, <2>6 DEF PrepareFresh, TypeOK
<1>5. ASSUME NEW f \in Flushers, ExportOk(f)
      PROVE  TypeOK'
  BY <1>5 DEF ExportOk, TypeOK
<1>6. ASSUME NEW f \in Flushers, ExportFails(f)
      PROVE  TypeOK'
  BY <1>6 DEF ExportFails, TypeOK
<1>7. ASSUME NEW f \in Flushers, Restore(f)
      PROVE  TypeOK'
  <2>1. retry' \in Seq(SUBSET Aggregate)
    BY <1>7 DEF Restore, TypeOK
  <2>2. QED
    BY <1>7, <2>1 DEF Restore, TypeOK
<1>8. ASSUME NEW f \in Flushers, Release(f)
      PROVE  TypeOK'
  BY <1>8 DEF Release, TypeOK
<1>9. CASE UNCHANGED vars
  BY <1>9 DEF vars, TypeOK
<1>10. QED
  BY <1>1, <1>2, <1>3, <1>4, <1>5, <1>6, <1>7, <1>8, <1>9 DEF Next, RecordCall, Flush

\* The buffer starts empty, and empty is well typed.
LEMMA InitType == Init => TypeOK
<1> SUFFICES ASSUME Init PROVE TypeOK
  OBVIOUS
<1>1. pending \in [Buckets -> PendingAggregate]
  BY AbsentType DEF Init
<1>2. bypassed \in [fresh : 0..2, retry : 0..2]
  BY DEF Init
<1>3. retry \in Seq(SUBSET Aggregate) /\ seen_order \in Seq(Keys)
  BY DEF Init
<1>4. batch \in [Flushers -> SUBSET Aggregate]
  BY DEF Init
<1>5. pc \in [Flushers -> {"idle", "prepare", "export", "restore", "release"}]
  BY DEF Init
<1> QED BY <1>1, <1>2, <1>3, <1>4, <1>5 DEF Init, TypeOK

\* The state keeps its types; in particular no aggregate ever exceeds MaxUnits.
THEOREM TypeCorrect == Spec => []TypeOK
<1>1. Init => TypeOK
  BY InitType
<1>2. TypeOK /\ [Next]_vars => TypeOK'
  BY TypeStep
<1>3. QED
  BY <1>1, <1>2, PTL DEF Spec

------------------------------------------------------------------------------
(***************************************************************************)
(* One flusher owns the flush.  OneOwner is not inductive: that the flag   *)
(* is up whenever a flusher is inside flush() is what keeps a second one   *)
(* out, and that no batch in the queue is empty is what makes a flusher    *)
(* that took one its owner.                                                *)
(***************************************************************************)
OwnerInv ==
  /\ flush_in_progress <=> \E f \in Flushers : pc[f] # "idle"
  /\ \A i \in DOMAIN retry : retry[i] # {}
  /\ OneOwner

\* OwnerInv holds initially.
LEMMA OwnerInit == Init => OwnerInv
BY DEF Init, OwnerInv, OneOwner

\* What PrepareRetry takes from the queue, and what it leaves.
LEMMA TakenHead ==
  ASSUME TypeOK, OwnerInv, retry # <<>>
  PROVE  /\ Head(retry) # {}
         /\ \A i \in DOMAIN Tail(retry) : Tail(retry)[i] # {}
         /\ Len(retry) <= 1 => Tail(retry) = <<>>
<1>1. /\ retry \in Seq(SUBSET Aggregate)
      /\ retry # <<>>
      /\ \A i \in DOMAIN retry : retry[i] # {}
  BY DEF TypeOK, OwnerInv
<1>2. Len(retry) \in Nat \ {0} /\ DOMAIN retry = 1..Len(retry)
  BY <1>1
<1>3. Head(retry) = retry[1] /\ 1 \in DOMAIN retry
  BY <1>1, <1>2
<1>4. /\ Len(Tail(retry)) = Len(retry) - 1
      /\ DOMAIN Tail(retry) = 1..(Len(retry) - 1)
      /\ \A i \in 1..(Len(retry) - 1) : Tail(retry)[i] = retry[i + 1]
  BY <1>1, <1>2
<1>5. Len(retry) <= 1 => Tail(retry) = <<>>
  BY <1>1, <1>2, <1>4
<1>6. QED
  BY <1>1, <1>2, <1>3, <1>4, <1>5

\* OwnerInv is preserved by every step.
LEMMA OwnerStep ==
  ASSUME TypeOK, OwnerInv, [Next]_vars
  PROVE  OwnerInv'
<1> USE DEF bufferVars, flushVars, ghostVars
<1>1. ASSUME NEW e \in [id : {calls + 1}, bucket : Buckets, key : Keys \cup {NoKey},
                        units : UnitsPerCall, timestamp : Timestamps],
             Record(e)
      PROVE  OwnerInv'
  BY <1>1 DEF Record, OwnerInv, OneOwner
<1>2. ASSUME NEW f \in Flushers, StartFlush(f)
      PROVE  OwnerInv'
  BY <1>2 DEF StartFlush, OwnerInv, OneOwner, TypeOK
<1>3. ASSUME NEW f \in Flushers, PrepareRetry(f)
      PROVE  OwnerInv'
  <2>1. /\ retry # <<>>
        /\ retry' = Tail(retry)
        /\ pc[f] = "prepare"
        /\ pc' = [pc EXCEPT ![f] = "export"]
        /\ batch' = [batch EXCEPT ![f] = Head(retry)]
        /\ flush_in_progress' = flush_in_progress
    BY <1>3 DEF PrepareRetry, TakeRetry
  <2>2. /\ Head(retry) # {}
        /\ \A i \in DOMAIN Tail(retry) : Tail(retry)[i] # {}
        /\ Len(retry) <= 1 => Tail(retry) = <<>>
    BY <2>1, TakenHead
  <2>3. Policy = "CompleteBatch" => retry' = <<>>
    BY <2>1, <2>2 DEF OwnerInv, OneOwner
  <2>4. QED
    BY <2>1, <2>2, <2>3 DEF OwnerInv, OneOwner, TypeOK
<1>4. ASSUME NEW f \in Flushers, PrepareFresh(f)
      PROVE  OwnerInv'
  <2>1. Policy = "CompleteBatch" => retry = <<>>
    BY <1>4 DEF PrepareFresh, TakeRetry
  <2>2. QED
    BY <1>4, <2>1 DEF PrepareFresh, OwnerInv, OneOwner, TypeOK
<1>5. ASSUME NEW f \in Flushers, ExportOk(f)
      PROVE  OwnerInv'
  BY <1>5 DEF ExportOk, OwnerInv, OneOwner, TypeOK
<1>6. ASSUME NEW f \in Flushers, ExportFails(f)
      PROVE  OwnerInv'
  BY <1>6 DEF ExportFails, OwnerInv, OneOwner, TypeOK
<1>7. ASSUME NEW f \in Flushers, Restore(f)
      PROVE  OwnerInv'
  <2>1. /\ pc[f] = "restore"
        /\ batch[f] # {}
        /\ retry' = Append(retry, batch[f])
        /\ pc' = [pc EXCEPT ![f] = "release"]
        /\ batch' = [batch EXCEPT ![f] = {}]
        /\ flush_in_progress' = flush_in_progress
    BY <1>7 DEF Restore, OwnerInv, OneOwner
  <2>2. /\ retry \in Seq(SUBSET Aggregate)
        /\ batch[f] \in SUBSET Aggregate
    BY DEF TypeOK
  <2>3. \A i \in DOMAIN retry' : retry'[i] # {}
    BY <2>1, <2>2 DEF OwnerInv
  <2>4. Policy = "CompleteBatch" => Len(retry') <= 1
    BY <2>1, <2>2 DEF OwnerInv, OneOwner
  <2>5. \A g \in Flushers : batch'[g] = {}
    BY <2>1 DEF OwnerInv, OneOwner, TypeOK
  <2>6. /\ flush_in_progress' <=> \E g \in Flushers : pc'[g] # "idle"
        /\ \A g, h \in Flushers : pc'[g] # "idle" /\ pc'[h] # "idle" => g = h
        /\ \A g \in Flushers : pc'[g] \notin {"export", "restore"}
    BY <2>1 DEF OwnerInv, OneOwner, TypeOK
  <2>7. QED
    BY <2>3, <2>4, <2>5, <2>6 DEF OwnerInv, OneOwner
<1>8. ASSUME NEW f \in Flushers, Release(f)
      PROVE  OwnerInv'
  BY <1>8 DEF Release, OwnerInv, OneOwner, TypeOK
<1>9. CASE UNCHANGED vars
  BY <1>9 DEF vars, OwnerInv, OneOwner
<1>10. QED
  BY <1>1, <1>2, <1>3, <1>4, <1>5, <1>6, <1>7, <1>8, <1>9 DEF Next, RecordCall, Flush

\* At most one flusher is inside flush(), and with CompleteBatch at most one batch exists.
THEOREM SingleOwner == Spec => []OneOwner
<1>1. Init => OwnerInv
  BY OwnerInit
<1>2. TypeOK /\ OwnerInv /\ [Next]_vars => OwnerInv'
  BY OwnerStep
<1>3. OwnerInv => OneOwner
  BY DEF OwnerInv
<1>4. QED
  BY <1>1, <1>2, <1>3, TypeCorrect, PTL DEF Spec

------------------------------------------------------------------------------
(***************************************************************************)
(* Where a call is.  EveryCallHasOnePlace and StableIdentifiers hold       *)
(* together or not at all: a drained batch carries the calls that were     *)
(* pending, which no offered aggregate has, under identifiers that no      *)
(* offered aggregate has, and an offered aggregate never leaves the retry  *)
(* queue, the flight or the exported set for anywhere else.                *)
(***************************************************************************)
CallNumbers == \A e \in recorded : e.id <= calls

OwnBuckets ==
  \A b \in Buckets :
    /\ \A e \in pending[b].events : e.bucket = b
    /\ pending[b].units = 0 => pending[b].events = {}

Identified ==
  \A a \in offered : a.identifier[1] <= batches /\ a.identifier[2] = a.bucket

Located == offered = Retrying \cup InFlight \cup exported

QueueApart == \A i, j \in DOMAIN retry : i # j => retry[i] \cap retry[j] = {}

PlaceInv ==
  /\ CallNumbers
  /\ OwnBuckets
  /\ Identified
  /\ Located
  /\ QueueApart
  /\ EveryCallHasOnePlace
  /\ StableIdentifiers

\* The history of a batch does not depend on how the sets of aggregates are written.
LEMMA EventsOfUnion ==
  \A A, B : EventsOf(A \cup B) = EventsOf(A) \cup EventsOf(B)
BY DEF EventsOf

\* With one flusher inside flush(), its batch is all that is in flight, now and next.
LEMMA SoleFlight ==
  ASSUME TypeOK, OwnerInv, NEW f \in Flushers, pc[f] # "idle"
  PROVE  /\ InFlight = batch[f]
         /\ \A X : batch' = [batch EXCEPT ![f] = X] => InFlight' = X
<1>1. \A g \in Flushers : g # f => batch[g] = {}
  BY DEF OwnerInv, OneOwner
<1>2. InFlight = batch[f]
  BY <1>1 DEF InFlight
<1>3. ASSUME NEW X, batch' = [batch EXCEPT ![f] = X]
      PROVE  InFlight' = X
  <2>1. /\ batch'[f] = X
        /\ \A g \in Flushers : g # f => batch'[g] = {}
    BY <1>1, <1>3 DEF TypeOK
  <2>2. QED
    BY <2>1 DEF InFlight
<1>4. QED
  BY <1>2, <1>3

\* A step that leaves the aggregates where they are preserves PlaceInv.
LEMMA PlaceUnmoved ==
  ASSUME PlaceInv, UNCHANGED <<pending, retry, batch, batches, calls, recorded, offered, exported>>
  PROVE  PlaceInv'
<1>1. Retrying' = Retrying /\ InFlight' = InFlight /\ PendingEvents' = PendingEvents
  BY DEF Retrying, InFlight, PendingEvents, ToBatches
<1>2. EveryCallHasOnePlace' /\ Located'
  BY <1>1 DEF PlaceInv, EveryCallHasOnePlace, Located, EventsOf
<1>3. CallNumbers' /\ OwnBuckets' /\ Identified' /\ QueueApart' /\ StableIdentifiers'
  BY DEF PlaceInv, CallNumbers, OwnBuckets, Identified, QueueApart, StableIdentifiers
<1>4. QED
  BY <1>2, <1>3 DEF PlaceInv

\* An accepted call joins its bucket's pending calls.
LEMMA PlaceRecord ==
  ASSUME TypeOK, PlaceInv,
         NEW e \in [id : {calls + 1}, bucket : Buckets, key : Keys \cup {NoKey},
                    units : UnitsPerCall, timestamp : Timestamps],
         Record(e)
  PROVE  PlaceInv'
<1>1. /\ e \in Event
      /\ e.id = calls + 1
      /\ e.bucket \in Buckets
      /\ e.units \in Nat \ {0}
      /\ pending[e.bucket].units \in Nat
      /\ calls \in Nat
  <2>1. e \in Event
    BY CallType
  <2>2. e.units \in 0..MaxUnits /\ e.bucket \in Buckets
    BY <2>1, PipelineAssumption DEF Event
  <2>3. e.units # 0
    BY DEF Record, RecordOutcome
  <2>4. pending[e.bucket].units \in Nat /\ calls \in Nat
    BY <2>2, PipelineAssumption DEF TypeOK, PendingAggregate
  <2>5. e.id = calls + 1
    OBVIOUS
  <2>6. QED
    BY <2>1, <2>2, <2>3, <2>4, <2>5
<1>2. /\ calls' = calls + 1
      /\ recorded' = recorded \cup {e}
      /\ UNCHANGED <<retry, batch, batches, offered, exported>>
  BY DEF Record, AddUnits, flushVars
<1>3. /\ \A b \in Buckets : b # e.bucket => pending'[b] = pending[b]
      /\ pending'[e.bucket].events = pending[e.bucket].events \cup {e}
      /\ pending'[e.bucket].units = pending[e.bucket].units + e.units
  BY <1>1 DEF Record, AddUnits, TypeOK
<1>4. e \notin recorded
  BY <1>1 DEF PlaceInv, CallNumbers
<1>5. PendingEvents' = PendingEvents \cup {e}
  BY <1>1, <1>3 DEF PendingEvents
<1>6. Retrying' = Retrying /\ InFlight' = InFlight
  BY <1>2 DEF Retrying, InFlight, ToBatches
<1>7. EventsOf(offered) \subseteq recorded
  BY DEF PlaceInv, Located, EveryCallHasOnePlace
<1>8. EveryCallHasOnePlace'
  <2>1. recorded' = PendingEvents' \cup EventsOf(Retrying' \cup InFlight' \cup exported')
    BY <1>2, <1>5, <1>6 DEF PlaceInv, EveryCallHasOnePlace
  <2>2. PendingEvents' \cap EventsOf(offered') = {}
    BY <1>2, <1>4, <1>5, <1>7 DEF PlaceInv, EveryCallHasOnePlace
  <2>3. QED
    BY <1>2, <1>6, <2>1, <2>2 DEF PlaceInv, EveryCallHasOnePlace, EventsOf
<1>9. CallNumbers'
  <2>1. \A c \in recorded : c.id \in Nat
    BY DEF TypeOK, Event
  <2>2. QED
    BY <1>1, <1>2, <2>1 DEF PlaceInv, CallNumbers
<1>10. OwnBuckets'
  BY <1>1, <1>3 DEF PlaceInv, OwnBuckets
<1>11. Identified' /\ Located' /\ QueueApart' /\ StableIdentifiers'
  BY <1>2, <1>6 DEF PlaceInv, Identified, Located, QueueApart, StableIdentifiers
<1>12. QED
  BY <1>8, <1>9, <1>10, <1>11 DEF PlaceInv

\* A retry moves the head of the queue into flight.
LEMMA PlacePrepareRetry ==
  ASSUME TypeOK, OwnerInv, PlaceInv, NEW f \in Flushers, PrepareRetry(f)
  PROVE  PlaceInv'
<1>1. /\ retry # <<>>
      /\ retry \in Seq(SUBSET Aggregate)
      /\ retry' = Tail(retry)
      /\ batch' = [batch EXCEPT ![f] = Head(retry)]
      /\ offered' = offered \cup Head(retry)
      /\ UNCHANGED <<pending, batches, calls, recorded, exported>>
      /\ pc[f] = "prepare"
  BY DEF PrepareRetry, TakeRetry, TypeOK
<1>2. InFlight = {} /\ InFlight' = Head(retry)
  BY <1>1, SoleFlight DEF OwnerInv, OneOwner
<1>3. Retrying = Head(retry) \cup Retrying'
  BY <1>1, HeadContents DEF Retrying
<1>4. offered' = offered
  BY <1>1, <1>3 DEF PlaceInv, Located
<1>5. /\ Len(retry) \in Nat \ {0}
      /\ DOMAIN retry = 1..Len(retry)
      /\ DOMAIN retry' = 1..(Len(retry) - 1)
      /\ \A i \in DOMAIN retry' : retry'[i] = retry[i + 1]
      /\ Head(retry) = retry[1]
  BY <1>1
<1>6. QueueApart'
  BY <1>5 DEF PlaceInv, QueueApart
<1>7. Retrying' \cap Head(retry) = {}
  <2>1. \A i \in DOMAIN retry' : retry'[i] \cap Head(retry) = {}
    BY <1>5 DEF PlaceInv, QueueApart
  <2>2. QED
    BY <2>1 DEF Retrying, ToBatches
<1>8. PendingEvents' = PendingEvents
  BY <1>1 DEF PendingEvents
<1>9. Retrying' \cup InFlight' = Retrying \cup InFlight
  BY <1>2, <1>3
<1>10. EveryCallHasOnePlace' /\ Located'
  BY <1>1, <1>2, <1>4, <1>7, <1>8, <1>9 DEF PlaceInv, EveryCallHasOnePlace, Located, EventsOf
<1>11. CallNumbers' /\ OwnBuckets' /\ Identified' /\ StableIdentifiers'
  BY <1>1, <1>4 DEF PlaceInv, CallNumbers, OwnBuckets, Identified, StableIdentifiers
<1>12. QED
  BY <1>6, <1>10, <1>11 DEF PlaceInv

\* The batch drained from pending: its calls are the pending ones, its identifiers are new.
LEMMA FreshBatchPlace ==
  ASSUME TypeOK, PlaceInv
  PROVE  /\ EventsOf(FreshBatch) = PendingEvents
         /\ \A a \in FreshBatch : a.identifier = <<batches + 1, a.bucket>>
         /\ \A a1, a2 \in FreshBatch :
              a1.bucket = a2.bucket \/ a1.events \cap a2.events # {} => a1 = a2
         /\ \A a1 \in FreshBatch, a2 \in offered :
              a1.identifier # a2.identifier /\ a1.events \cap a2.events = {}
<1> DEFINE drained(b) == [identifier |-> <<batches + 1, b>>, bucket |-> b,
                          units |-> pending[b].units, timestamp |-> pending[b].timestamp,
                          events |-> pending[b].events]
<1>1. FreshBatch = {drained(b) : b \in FreshBuckets}
  BY DEF FreshBatch
<1>2. \A b \in Buckets : pending[b].units \in Nat
  BY PipelineAssumption DEF TypeOK, PendingAggregate
<1>3. \A b \in Buckets : b \in FreshBuckets \/ pending[b].events = {}
  BY <1>2 DEF FreshBuckets, PlaceInv, OwnBuckets
<1>4. FreshBuckets \subseteq Buckets
  BY DEF FreshBuckets
<1>5. \A e : e \in EventsOf(FreshBatch) <=> \E b \in FreshBuckets : e \in pending[b].events
  <2>1. \A e : e \in EventsOf(FreshBatch) <=> \E a \in FreshBatch : e \in a.events
    BY DEF EventsOf
  <2>2. \A a \in FreshBatch : \E b \in FreshBuckets : a.events = pending[b].events
    BY <1>1
  <2>3. \A b \in FreshBuckets : drained(b) \in FreshBatch /\ drained(b).events = pending[b].events
    BY <1>1
  <2>4. QED
    BY <2>1, <2>2, <2>3
<1>6. EventsOf(FreshBatch) = PendingEvents
  <2>1. \A e : e \in PendingEvents <=> \E b \in Buckets : e \in pending[b].events
    BY DEF PendingEvents
  <2>2. \A e : e \in EventsOf(FreshBatch) <=> e \in PendingEvents
    BY <1>3, <1>4, <1>5, <2>1
  <2>3. QED
    BY <2>2
<1>7. \A a \in FreshBatch : a.identifier = <<batches + 1, a.bucket>>
  BY <1>1
<1>8. \A a1, a2 \in FreshBatch :
         a1.bucket = a2.bucket \/ a1.events \cap a2.events # {} => a1 = a2
  <2>1. \A b, c \in FreshBuckets : pending[b].events \cap pending[c].events # {} => b = c
    BY <1>4 DEF PlaceInv, OwnBuckets
  <2>2. QED
    BY <1>1, <2>1
<1>9. ASSUME NEW a1 \in FreshBatch, NEW a2 \in offered
      PROVE  a1.identifier # a2.identifier /\ a1.events \cap a2.events = {}
  <2>1. a2.identifier[1] <= batches /\ a2.identifier \in Nat \X Buckets /\ batches \in Nat
    BY DEF PlaceInv, Identified, TypeOK, Aggregate
  <2>2. a1.identifier[1] = batches + 1
    BY <1>7
  <2>3. a1.events \subseteq PendingEvents
    BY <1>6 DEF EventsOf
  <2>4. a2.events \subseteq EventsOf(offered)
    BY DEF EventsOf
  <2>5. QED
    BY <2>1, <2>2, <2>3, <2>4 DEF PlaceInv, EveryCallHasOnePlace
<1>10. QED
  BY <1>6, <1>7, <1>8, <1>9

\* A fresh batch moves everything pending into flight.
LEMMA PlacePrepareFresh ==
  ASSUME TypeOK, OwnerInv, PlaceInv, NEW f \in Flushers, PrepareFresh(f)
  PROVE  PlaceInv'
<1>1. /\ batch' = [batch EXCEPT ![f] = FreshBatch]
      /\ pending' = [b \in Buckets |-> Absent]
      /\ offered' = offered \cup FreshBatch
      /\ UNCHANGED <<retry, calls, recorded, exported>>
      /\ pc[f] = "prepare"
      /\ batches' = IF FreshBatch = {} THEN batches ELSE batches + 1
      /\ batches \in Nat
  BY DEF PrepareFresh, TypeOK
<1>2. InFlight = {} /\ InFlight' = FreshBatch
  BY <1>1, SoleFlight DEF OwnerInv, OneOwner
<1>3. Retrying' = Retrying
  BY <1>1 DEF Retrying, ToBatches
<1>4. PendingEvents' = {}
  BY <1>1 DEF PendingEvents, Absent
<1>5. FreshBatch \cap offered = {}
  BY FreshBatchPlace
<1>6. EveryCallHasOnePlace'
  <2>1. recorded' = PendingEvents' \cup EventsOf(Retrying' \cup InFlight' \cup exported')
    <3>1. recorded = PendingEvents \cup EventsOf(Retrying \cup exported)
      BY <1>2 DEF PlaceInv, EveryCallHasOnePlace
    <3>2. Retrying' \cup InFlight' \cup exported' = FreshBatch \cup (Retrying \cup exported)
      BY <1>1, <1>2, <1>3
    <3>3. QED
      BY <1>1, <1>4, <3>1, <3>2, EventsOfUnion, FreshBatchPlace
  <2>2. (Retrying \cup exported) \subseteq offered
    BY DEF PlaceInv, Located
  <2>3. QED
    BY <1>1, <1>2, <1>3, <1>4, <1>5, <2>1, <2>2 DEF PlaceInv, EveryCallHasOnePlace, EventsOf
<1>7. Identified'
  <2>1. \A a \in FreshBatch : a.identifier[1] <= batches' /\ a.identifier[2] = a.bucket
    BY <1>1, FreshBatchPlace
  <2>2. \A a \in offered : a.identifier[1] <= batches' /\ a.identifier[2] = a.bucket
    <3>1. \A a \in offered : a.identifier[1] \in Nat
      BY DEF TypeOK, Aggregate
    <3>2. QED
      BY <1>1, <3>1 DEF PlaceInv, Identified
  <2>3. QED
    BY <1>1, <2>1, <2>2 DEF Identified
<1>8. StableIdentifiers'
  <2>1. \A a1, a2 \in FreshBatch :
          a1.identifier = a2.identifier \/ a1.events \cap a2.events # {} => a1 = a2
    BY FreshBatchPlace
  <2>2. \A a1, a2 \in offered :
          a1.identifier = a2.identifier \/ a1.events \cap a2.events # {} => a1 = a2
    BY DEF PlaceInv, StableIdentifiers
  <2>3. \A a1 \in FreshBatch, a2 \in offered :
          /\ a1.identifier # a2.identifier /\ a1.events \cap a2.events = {}
          /\ a2.identifier # a1.identifier /\ a2.events \cap a1.events = {}
    BY FreshBatchPlace
  <2>4. QED
    BY <1>1, <2>1, <2>2, <2>3 DEF StableIdentifiers
<1>9. Located'
  BY <1>1, <1>2, <1>3 DEF PlaceInv, Located
<1>10. CallNumbers' /\ OwnBuckets' /\ QueueApart'
  BY <1>1 DEF PlaceInv, CallNumbers, OwnBuckets, QueueApart, Absent
<1>11. QED
  BY <1>6, <1>7, <1>8, <1>9, <1>10 DEF PlaceInv

\* A successful export moves the batch in flight to the exported aggregates.
LEMMA PlaceExportOk ==
  ASSUME TypeOK, OwnerInv, PlaceInv, NEW f \in Flushers, ExportOk(f)
  PROVE  PlaceInv'
<1>1. /\ batch' = [batch EXCEPT ![f] = {}]
      /\ exported' = exported \cup batch[f]
      /\ UNCHANGED <<pending, retry, batches, calls, recorded, offered>>
      /\ pc[f] = "export"
  BY DEF ExportOk, bufferVars
<1>2. InFlight = batch[f] /\ InFlight' = {}
  BY <1>1, SoleFlight
<1>3. Retrying' = Retrying /\ PendingEvents' = PendingEvents
  BY <1>1 DEF Retrying, ToBatches, PendingEvents
<1>4. Retrying' \cup InFlight' \cup exported' = Retrying \cup InFlight \cup exported
  BY <1>1, <1>2, <1>3
<1>5. EveryCallHasOnePlace' /\ Located'
  BY <1>1, <1>2, <1>3, <1>4 DEF PlaceInv, EveryCallHasOnePlace, Located, EventsOf
<1>6. CallNumbers' /\ OwnBuckets' /\ Identified' /\ QueueApart' /\ StableIdentifiers'
  BY <1>1 DEF PlaceInv, CallNumbers, OwnBuckets, Identified, QueueApart, StableIdentifiers
<1>7. QED
  BY <1>5, <1>6 DEF PlaceInv

\* A restored batch moves from flight to the back of the queue.
LEMMA PlaceRestore ==
  ASSUME TypeOK, OwnerInv, PlaceInv, NEW f \in Flushers, Restore(f)
  PROVE  PlaceInv'
<1>1. /\ batch' = [batch EXCEPT ![f] = {}]
      /\ retry' = Append(retry, batch[f])
      /\ retry \in Seq(SUBSET Aggregate)
      /\ batch[f] \in SUBSET Aggregate
      /\ UNCHANGED <<pending, batches, calls, recorded, offered, exported>>
      /\ pc[f] = "restore"
  BY DEF Restore, TypeOK, ghostVars
<1>2. InFlight = batch[f] /\ InFlight' = {}
  BY <1>1, SoleFlight
<1>3. Retrying' = Retrying \cup batch[f]
  BY <1>1, AppendContents DEF Retrying
<1>4. PendingEvents' = PendingEvents
  BY <1>1 DEF PendingEvents
<1>5. Retrying' \cup InFlight' = Retrying \cup InFlight
  BY <1>2, <1>3
<1>6. EveryCallHasOnePlace' /\ Located'
  BY <1>1, <1>2, <1>4, <1>5 DEF PlaceInv, EveryCallHasOnePlace, Located, EventsOf
<1>7. QueueApart'
  <2>1. /\ Len(retry) \in Nat
        /\ DOMAIN retry = 1..Len(retry)
        /\ DOMAIN retry' = 1..(Len(retry) + 1)
        /\ \A i \in DOMAIN retry : retry'[i] = retry[i]
        /\ retry'[Len(retry) + 1] = batch[f]
    BY <1>1
  <2>2. \A i \in DOMAIN retry : retry[i] \cap batch[f] = {}
    BY <1>2 DEF PlaceInv, EveryCallHasOnePlace, Retrying, ToBatches
  <2>3. QED
    BY <2>1, <2>2 DEF PlaceInv, QueueApart
<1>8. CallNumbers' /\ OwnBuckets' /\ Identified' /\ StableIdentifiers'
  BY <1>1 DEF PlaceInv, CallNumbers, OwnBuckets, Identified, StableIdentifiers
<1>9. QED
  BY <1>6, <1>7, <1>8 DEF PlaceInv

\* PlaceInv is preserved by every step.
LEMMA PlaceStep ==
  ASSUME TypeOK, OwnerInv, PlaceInv, [Next]_vars
  PROVE  PlaceInv'
<1>1. ASSUME NEW f \in Flushers, StartFlush(f) \/ ExportFails(f) \/ Release(f)
      PROVE  PlaceInv'
  BY <1>1, PlaceUnmoved DEF StartFlush, ExportFails, Release, bufferVars, ghostVars
<1>2. CASE UNCHANGED vars
  BY <1>2, PlaceUnmoved DEF vars, bufferVars, flushVars, ghostVars
<1>3. QED
  BY <1>1, <1>2, PlaceRecord, PlacePrepareRetry, PlacePrepareFresh, PlaceExportOk, PlaceRestore
     DEF Next, RecordCall, Flush

\* PlaceInv holds initially.
LEMMA PlaceInit == Init => PlaceInv
<1> SUFFICES ASSUME Init PROVE PlaceInv
  OBVIOUS
<1>1. PendingEvents = {} /\ InFlight = {} /\ Retrying = {}
  BY DEF Init, PendingEvents, InFlight, Retrying, ToBatches, Absent
<1>2. QED
  BY <1>1 DEF Init, PlaceInv, CallNumbers, OwnBuckets, Identified, Located, QueueApart,
              EveryCallHasOnePlace, StableIdentifiers, EventsOf, Absent

\* TypeOK, OwnerInv and PlaceInv together are inductive, so PlaceInv always holds.
LEMMA PlaceAlways == Spec => []PlaceInv
<1>1. Init => OwnerInv
  BY OwnerInit
<1>2. TypeOK /\ OwnerInv /\ [Next]_vars => OwnerInv'
  BY OwnerStep
<1>3. Init => PlaceInv
  BY PlaceInit
<1>4. TypeOK /\ OwnerInv /\ PlaceInv /\ [Next]_vars => PlaceInv'
  BY PlaceStep
<1>5. QED
  BY <1>1, <1>2, <1>3, <1>4, TypeCorrect, PTL DEF Spec

\* No accepted call is lost, and none is in two places (record, prepare_flush, RetryGuard).
THEOREM NoCallLostOrDoubled == Spec => []EveryCallHasOnePlace
<1>1. PlaceInv => EveryCallHasOnePlace
  BY DEF PlaceInv
<1>2. QED
  BY <1>1, PlaceAlways, PTL

\* A call is only ever offered under one identifier, with one quantity and timestamp.
THEOREM IdentifiersAreStable == Spec => []StableIdentifiers
<1>1. PlaceInv => StableIdentifiers
  BY DEF PlaceInv
<1>2. QED
  BY <1>1, PlaceAlways, PTL

------------------------------------------------------------------------------
(***************************************************************************)
(* Neither queue starves.  The two counters are tied to the turn flag: a   *)
(* queue that was passed over once has the next turn.                      *)
(***************************************************************************)
TurnInv ==
  /\ bypassed.fresh > 0 => serve_pending_next
  /\ bypassed.retry > 0 => ~serve_pending_next
  /\ NeitherQueueStarves

\* TurnInv is preserved by every step.
LEMMA TurnStep ==
  ASSUME TypeOK, TurnInv, [Next]_vars
  PROVE  TurnInv'
<1>1. Policy \in {"Interleave", "CompleteBatch"}
  BY PipelineAssumption
<1>2. bypassed \in [fresh : 0..2, retry : 0..2]
  BY DEF TypeOK
<1>3. ASSUME NEW f \in Flushers, PrepareRetry(f)
      PROVE  TurnInv'
  <2>1. /\ serve_pending_next'
        /\ bypassed'.fresh = Bypass(bypassed.fresh, FreshBuckets # {})
        /\ bypassed'.retry = 0
    BY <1>3 DEF PrepareRetry
  <2>2. Policy = "Interleave" => bypassed'.fresh <= 1
    BY <1>1, <1>2, <1>3, <2>1 DEF PrepareRetry, TakeRetry, Bypass, TurnInv
  <2>3. QED
    BY <2>1, <2>2 DEF TurnInv, NeitherQueueStarves
<1>4. ASSUME NEW f \in Flushers, PrepareFresh(f)
      PROVE  TurnInv'
  <2>1. /\ ~serve_pending_next'
        /\ bypassed'.fresh = 0
        /\ bypassed'.retry = Bypass(bypassed.retry, retry # <<>>)
    BY <1>4 DEF PrepareFresh
  <2>2. /\ Policy = "CompleteBatch" => retry = <<>>
        /\ Policy = "Interleave" => retry = <<>> \/ serve_pending_next
    BY <1>4 DEF PrepareFresh, TakeRetry
  <2>3. /\ Policy = "CompleteBatch" => bypassed'.retry = 0
        /\ Policy = "Interleave" => bypassed'.retry <= 1
    BY <1>2, <2>1, <2>2 DEF Bypass, TurnInv
  <2>4. QED
    BY <2>1, <2>3 DEF TurnInv, NeitherQueueStarves
<1>5. CASE UNCHANGED <<serve_pending_next, bypassed>>
  BY <1>5 DEF TurnInv, NeitherQueueStarves
<1>6. QED
  BY <1>3, <1>4, <1>5 DEF Next, RecordCall, Flush, Record, StartFlush, ExportOk, ExportFails,
     Restore, Release, vars, bufferVars, flushVars, ghostVars

\* A flush never passes over the same waiting queue twice in a row (prepare_flush).
THEOREM NoQueueStarves == Spec => []NeitherQueueStarves
<1>1. Init => TurnInv
  BY DEF Init, TurnInv, NeitherQueueStarves
<1>2. TypeOK /\ TurnInv /\ [Next]_vars => TurnInv'
  BY TurnStep
<1>3. TurnInv => NeitherQueueStarves
  BY DEF TurnInv
<1>4. QED
  BY <1>1, <1>2, <1>3, TypeCorrect, PTL DEF Spec

------------------------------------------------------------------------------
(***************************************************************************)
(* The idempotency window.  ChargedOncePerWindow is not inductive: what    *)
(* makes it so is how old a remembered key may be.  The i-th key of the    *)
(* memory has had at least as many keyed calls after its own as there are  *)
(* keys behind it, so that a key is evicted, at the head of a full memory, *)
(* no sooner than MaxIdempotencyKeys keyed calls after its last one; and a *)
(* key that is no longer remembered has had as many.                       *)
(***************************************************************************)
KeyedAfter(i) == {e \in recorded : e.key # NoKey /\ i < e.id}

RememberedOnce ==
  /\ Len(seen_order) <= MaxIdempotencyKeys
  /\ seen = {seen_order[i] : i \in DOMAIN seen_order}
  /\ \A i, j \in DOMAIN seen_order : seen_order[i] = seen_order[j] => i = j

ForgottenLate ==
  /\ \A e \in recorded : e.key # NoKey /\ e.key \notin seen =>
       Cardinality(KeyedAfter(e.id)) >= MaxIdempotencyKeys
  /\ \A e \in recorded : \A i \in DOMAIN seen_order :
       e.key = seen_order[i] => Cardinality(KeyedAfter(e.id)) >= Len(seen_order) - i

MemoryInv ==
  /\ IsFiniteSet(recorded)
  /\ RememberedOnce
  /\ ForgottenLate
  /\ ChargedOncePerWindow

\* What Remember does with a key that is not remembered yet: nothing, append, or append and evict.
LEMMA RememberedKeys ==
  ASSUME TypeOK, RememberedOnce, NEW k \in Keys \cup {NoKey}, k \notin seen, Remember(k)
  PROVE  /\ RememberedOnce'
         /\ \/ /\ k = NoKey \/ MaxIdempotencyKeys = 0
               /\ UNCHANGED <<seen, seen_order>>
            \/ /\ k # NoKey
               /\ seen' = seen \cup {k}
               /\ Len(seen_order') = Len(seen_order) + 1
               /\ \A i \in DOMAIN seen_order : seen_order'[i] = seen_order[i]
               /\ seen_order'[Len(seen_order) + 1] = k
            \/ /\ k # NoKey
               /\ Len(seen_order) = MaxIdempotencyKeys
               /\ MaxIdempotencyKeys > 0
               /\ seen' = (seen \ {seen_order[1]}) \cup {k}
               /\ Len(seen_order') = Len(seen_order)
               /\ \A i \in 1..(Len(seen_order) - 1) : seen_order'[i] = seen_order[i + 1]
               /\ seen_order'[Len(seen_order)] = k
<1>1. /\ seen_order \in Seq(Keys) /\ Len(seen_order) \in Nat
      /\ DOMAIN seen_order = 1..Len(seen_order)
      /\ MaxIdempotencyKeys \in Nat
  BY PipelineAssumption DEF TypeOK
<1>2. CASE k = NoKey \/ MaxIdempotencyKeys = 0
  BY <1>2 DEF Remember, RememberedOnce
<1>3. CASE ~(k = NoKey \/ MaxIdempotencyKeys = 0)
  <2> DEFINE order == Append(seen_order, k)
  <2>1. /\ order \in Seq(Keys)
        /\ Len(order) = Len(seen_order) + 1
        /\ DOMAIN order = 1..(Len(seen_order) + 1)
        /\ \A i \in 1..Len(seen_order) : order[i] = seen_order[i]
        /\ order[Len(seen_order) + 1] = k
        /\ order # <<>>
    BY <1>1, <1>3
  <2>2. \A i, j \in DOMAIN order : order[i] = order[j] => i = j
    BY <1>1, <2>1 DEF RememberedOnce
  <2>3. {order[i] : i \in DOMAIN order} = seen \cup {k}
    <3>1. DOMAIN order = DOMAIN seen_order \cup {Len(seen_order) + 1}
      BY <1>1, <2>1
    <3>2. QED
      BY <1>1, <2>1, <3>1 DEF RememberedOnce
  <2>4. CASE Len(order) > MaxIdempotencyKeys
    <3>1. seen' = (seen \cup {k}) \ {Head(order)} /\ seen_order' = Tail(order)
      BY <1>3, <2>4 DEF Remember
    <3>2. Len(seen_order) = MaxIdempotencyKeys /\ MaxIdempotencyKeys > 0
      BY <1>1, <1>3, <2>1, <2>4 DEF RememberedOnce
    <3> HIDE DEF order
    <3>3. /\ Head(order) = order[1]
          /\ Tail(order) \in Seq(Keys)
          /\ Len(Tail(order)) = Len(order) - 1
          /\ DOMAIN Tail(order) = 1..(Len(order) - 1)
          /\ \A i \in 1..(Len(order) - 1) : Tail(order)[i] = order[i + 1]
      BY <2>1
    <3>4. Head(order) = seen_order[1] /\ seen_order[1] \in seen /\ k # seen_order[1]
      BY <1>1, <2>1, <3>2, <3>3 DEF RememberedOnce
    <3>5. seen' = (seen \ {seen_order[1]}) \cup {k}
      BY <3>1, <3>4
    <3>6. \A i, j \in DOMAIN seen_order' : seen_order'[i] = seen_order'[j] => i = j
      BY <1>1, <2>1, <2>2, <3>1, <3>3
    <3>7. seen' = {seen_order'[i] : i \in DOMAIN seen_order'}
      <4>1. \A x : x \in seen' <=> x \in seen \cup {k} /\ x # order[1]
        BY <3>1, <3>3
      <4>2. \A x : x \in seen' <=> \E i \in DOMAIN order : x = order[i] /\ i # 1
        BY <2>1, <2>2, <2>3, <4>1, <1>1
      <4>3. \A x : x \in seen' <=> \E i \in DOMAIN Tail(order) : x = Tail(order)[i]
        <5>1. ASSUME NEW i \in DOMAIN order, i # 1
              PROVE  i - 1 \in DOMAIN Tail(order) /\ Tail(order)[i - 1] = order[i]
          BY <1>1, <2>1, <3>3, <5>1
        <5>2. ASSUME NEW i \in DOMAIN Tail(order)
              PROVE  i + 1 \in DOMAIN order /\ i + 1 # 1 /\ Tail(order)[i] = order[i + 1]
          BY <1>1, <2>1, <3>3, <5>2
        <5>3. QED
          BY <4>2, <5>1, <5>2
      <4>4. QED
        BY <3>1, <4>3
    <3>8. /\ Len(seen_order') = Len(seen_order)
          /\ \A i \in 1..(Len(seen_order) - 1) : seen_order'[i] = seen_order[i + 1]
          /\ seen_order'[Len(seen_order)] = k
      BY <1>1, <2>1, <3>1, <3>2, <3>3
    <3>9. RememberedOnce'
      BY <1>1, <3>2, <3>6, <3>7, <3>8 DEF RememberedOnce
    <3>10. QED
      BY <1>3, <3>2, <3>5, <3>8, <3>9
  <2>5. CASE ~(Len(order) > MaxIdempotencyKeys)
    <3>1. seen' = seen \cup {k} /\ seen_order' = order
      BY <1>3, <2>5 DEF Remember
    <3>2. RememberedOnce'
      BY <1>1, <2>1, <2>2, <2>3, <2>5, <3>1 DEF RememberedOnce
    <3>3. QED
      BY <1>1, <1>3, <2>1, <3>1, <3>2
  <2>6. QED
    BY <2>4, <2>5
<1>4. QED
  BY <1>2, <1>3

\* A keyed call counts as one more after each earlier call; one without a key changes nothing.
LEMMA KeyedAfterCounts ==
  ASSUME TypeOK, CallNumbers, IsFiniteSet(recorded),
         NEW e \in Event, e.id = calls + 1, recorded' = recorded \cup {e},
         NEW i \in Nat, i <= calls
  PROVE  /\ Cardinality(KeyedAfter(i)) \in Nat
         /\ Cardinality(KeyedAfter(i)') =
              IF e.key = NoKey THEN Cardinality(KeyedAfter(i)) ELSE Cardinality(KeyedAfter(i)) + 1
<1>1. IsFiniteSet(KeyedAfter(i)) /\ Cardinality(KeyedAfter(i)) \in Nat
  BY FS_Subset, FS_CardinalityType DEF KeyedAfter
<1>2. e \notin recorded /\ calls \in Nat
  BY DEF CallNumbers, TypeOK
<1>3. CASE e.key = NoKey
  <2>1. KeyedAfter(i)' = KeyedAfter(i)
    BY <1>3 DEF KeyedAfter
  <2>2. QED
    BY <1>1, <1>3, <2>1
<1>4. CASE e.key # NoKey
  <2>1. i < e.id
    BY <1>2
  <2>2. KeyedAfter(i)' = KeyedAfter(i) \cup {e}
    BY <1>4, <2>1 DEF KeyedAfter
  <2>3. e \notin KeyedAfter(i)
    BY <1>2 DEF KeyedAfter
  <2>4. QED
    BY <1>1, <1>4, <2>2, <2>3, FS_AddElement
<1>5. QED
  BY <1>3, <1>4

\* An accepted call keeps the memory's ages, and with them the window.
LEMMA MemoryRecord ==
  ASSUME TypeOK, CallNumbers, MemoryInv,
         NEW e \in [id : {calls + 1}, bucket : Buckets, key : Keys \cup {NoKey},
                    units : UnitsPerCall, timestamp : Timestamps],
         Record(e)
  PROVE  MemoryInv'
<1>1. /\ e \in Event
      /\ e.id = calls + 1
      /\ e.key \in Keys \cup {NoKey}
      /\ e.key \notin seen
      /\ recorded' = recorded \cup {e}
      /\ Remember(e.key)
  BY CallType DEF Record, RecordOutcome, AddUnits
<1>2. /\ calls \in Nat
      /\ MaxIdempotencyKeys \in Nat
      /\ NoKey \notin Keys
      /\ seen \subseteq Keys
      /\ Len(seen_order) \in Nat
      /\ DOMAIN seen_order = 1..Len(seen_order)
      /\ \A i \in DOMAIN seen_order : seen_order[i] \in Keys
  BY PipelineAssumption DEF TypeOK
<1> DEFINE kept == /\ e.key = NoKey \/ MaxIdempotencyKeys = 0
                   /\ UNCHANGED <<seen, seen_order>>
           added == /\ e.key # NoKey
                    /\ seen' = seen \cup {e.key}
                    /\ Len(seen_order') = Len(seen_order) + 1
                    /\ \A i \in DOMAIN seen_order : seen_order'[i] = seen_order[i]
                    /\ seen_order'[Len(seen_order) + 1] = e.key
           evicted == /\ e.key # NoKey
                      /\ Len(seen_order) = MaxIdempotencyKeys
                      /\ MaxIdempotencyKeys > 0
                      /\ seen' = (seen \ {seen_order[1]}) \cup {e.key}
                      /\ Len(seen_order') = Len(seen_order)
                      /\ \A i \in 1..(Len(seen_order) - 1) : seen_order'[i] = seen_order[i + 1]
                      /\ seen_order'[Len(seen_order)] = e.key
<1>3. IsFiniteSet(recorded')
  BY <1>1, FS_AddElement DEF MemoryInv
<1>4. seen_order' \in Seq(Keys) /\ Len(seen_order') \in Nat /\ DOMAIN seen_order' = 1..Len(seen_order')
  BY <1>1, RememberType
<1>5. RememberedOnce' /\ (kept \/ added \/ evicted)
  BY <1>1, RememberedKeys DEF MemoryInv
<1> DEFINE before(c) == Cardinality(KeyedAfter(c.id))
           after(c) == Cardinality(KeyedAfter(c.id)')
<1>6. ASSUME NEW c \in recorded
      PROVE  /\ c.id \in Nat /\ c.id <= calls
             /\ before(c) \in Nat
             /\ after(c) = IF e.key = NoKey THEN before(c) ELSE before(c) + 1
  <2>1. c.id \in Nat /\ c.id <= calls
    BY DEF TypeOK, Event, CallNumbers
  <2>2. QED
    BY <1>1, <2>1, KeyedAfterCounts DEF MemoryInv
<1>7. Cardinality(KeyedAfter(e.id)') \in Nat
  BY <1>3, FS_Subset, FS_CardinalityType DEF KeyedAfter
<1> HIDE DEF before, after
<1>8. /\ \A c \in recorded : c.key # NoKey /\ c.key \notin seen => before(c) >= MaxIdempotencyKeys
      /\ \A c \in recorded : \A i \in DOMAIN seen_order :
           c.key = seen_order[i] => before(c) >= Len(seen_order) - i
      /\ seen = {seen_order[i] : i \in DOMAIN seen_order}
  BY DEF MemoryInv, ForgottenLate, RememberedOnce, before
<1>9. ASSUME NEW c \in recorded
      PROVE  /\ c.key # NoKey /\ c.key \notin seen' => after(c) >= MaxIdempotencyKeys
             /\ \A i \in DOMAIN seen_order' :
                  c.key = seen_order'[i] => after(c) >= Len(seen_order') - i
  <2>1. /\ before(c) \in Nat
        /\ after(c) = IF e.key = NoKey THEN before(c) ELSE before(c) + 1
        /\ after(c) \in Nat
    BY <1>6
  <2>2. CASE kept
    BY <1>2, <1>8, <2>1, <2>2
  <2>3. CASE added
    <3>1. c.key # NoKey /\ c.key \notin seen' => after(c) >= MaxIdempotencyKeys
      BY <1>2, <1>8, <2>1, <2>3
    <3>2. ASSUME NEW i \in DOMAIN seen_order', c.key = seen_order'[i]
          PROVE  after(c) >= Len(seen_order') - i
      <4>1. CASE i \in DOMAIN seen_order
        <5>1. before(c) >= Len(seen_order) - i
          BY <1>8, <2>3, <3>2, <4>1
        <5>2. i \in Int
          BY <1>4
        <5>3. QED
          BY <1>2, <2>1, <2>3, <5>1, <5>2
      <4>2. CASE i \notin DOMAIN seen_order
        BY <1>2, <1>4, <2>1, <2>3, <4>2
      <4>3. QED
        BY <4>1, <4>2
    <3>3. QED
      BY <3>1, <3>2
  <2>4. CASE evicted
    <3>1. c.key # NoKey /\ c.key \notin seen' => after(c) >= MaxIdempotencyKeys
      <4>1. CASE c.key \notin seen
        BY <1>2, <1>8, <2>1, <2>4, <4>1
      <4>2. CASE c.key = seen_order[1]
        <5>1. before(c) >= Len(seen_order) - 1
          BY <1>2, <1>8, <2>4, <4>2
        <5>2. QED
          BY <1>2, <2>1, <2>4, <5>1
      <4>3. QED
        BY <2>4, <4>1, <4>2
    <3>2. ASSUME NEW i \in DOMAIN seen_order', c.key = seen_order'[i]
          PROVE  after(c) >= Len(seen_order') - i
      <4>1. CASE i = Len(seen_order)
        BY <1>2, <2>1, <2>4, <4>1
      <4>2. CASE i # Len(seen_order)
        <5>1. i \in 1..(Len(seen_order) - 1) /\ i + 1 \in DOMAIN seen_order
          BY <1>2, <1>4, <2>4, <4>2
        <5>2. c.key = seen_order[i + 1]
          BY <2>4, <3>2, <5>1
        <5>3. before(c) >= Len(seen_order) - (i + 1)
          BY <1>8, <5>1, <5>2
        <5>4. QED
          BY <1>2, <2>1, <2>4, <5>1, <5>3
      <4>3. QED
        BY <4>1, <4>2
    <3>3. QED
      BY <3>1, <3>2
  <2>5. QED
    BY <1>5, <2>2, <2>3, <2>4
<1>10. /\ e.key # NoKey /\ e.key \notin seen' => MaxIdempotencyKeys = 0
       /\ \A i \in DOMAIN seen_order' : e.key = seen_order'[i] => i = Len(seen_order')
  <2>1. CASE kept
    BY <1>1, <1>8, <2>1
  <2>2. CASE added \/ evicted
    <3>1. Len(seen_order) \in Nat
      BY <1>2
    <3>2. /\ e.key \in seen' /\ Len(seen_order') > 0
          /\ seen_order'[Len(seen_order')] = e.key
      <4>1. CASE added
        BY <3>1, <4>1
      <4>2. CASE evicted
        BY <4>2
      <4>3. QED
        BY <2>2, <4>1, <4>2
    <3>3. Len(seen_order') \in DOMAIN seen_order'
      BY <1>4, <3>2
    <3>4. \A i, j \in DOMAIN seen_order' : seen_order'[i] = seen_order'[j] => i = j
      BY <1>5 DEF RememberedOnce
    <3>5. QED
      BY <3>2, <3>3, <3>4
  <2>3. QED
    BY <1>5, <2>1, <2>2
<1>11. ForgottenLate'
  <2>1. ASSUME NEW c \in recorded', c.key # NoKey, c.key \notin seen'
        PROVE  Cardinality(KeyedAfter(c.id)') >= MaxIdempotencyKeys
    <3>1. CASE c \in recorded
      BY <1>9, <2>1, <3>1 DEF after
    <3>2. CASE c = e
      BY <1>2, <1>7, <1>10, <2>1, <3>2
    <3>3. QED
      BY <1>1, <3>1, <3>2
  <2>2. ASSUME NEW c \in recorded', NEW i \in DOMAIN seen_order', c.key = seen_order'[i]
        PROVE  Cardinality(KeyedAfter(c.id)') >= Len(seen_order') - i
    <3>1. CASE c \in recorded
      BY <1>9, <2>2, <3>1 DEF after
    <3>2. CASE c = e
      BY <1>4, <1>7, <1>10, <2>2, <3>2
    <3>3. QED
      BY <1>1, <3>1, <3>2
  <2>3. QED
    BY <2>1, <2>2 DEF ForgottenLate
<1>12. ChargedOncePerWindow'
  <2> DEFINE between(c, d) == {x \in recorded : x.key # NoKey /\ c.id < x.id /\ x.id < d.id}
  <2>1. ASSUME NEW c \in recorded', NEW d \in recorded',
               c.key = d.key, c.key # NoKey, c.id < d.id
        PROVE  Cardinality(between(c, d)') >= MaxIdempotencyKeys
    <3>1. CASE d \in recorded
      <4>1. c \in recorded /\ d.id <= calls /\ d.id \in Nat
        BY <1>1, <1>2, <1>6, <2>1, <3>1
      <4>2. between(c, d)' = between(c, d)
        BY <1>1, <1>2, <4>1
      <4>3. QED
        BY <2>1, <3>1, <4>1, <4>2 DEF MemoryInv, ChargedOncePerWindow
    <3>2. CASE d = e
      <4>1. c \in recorded /\ c.id \in Nat
        BY <1>1, <1>2, <1>6, <2>1, <3>2
      <4>2. \A x \in recorded : x.id < e.id
        BY <1>1, <1>2, <1>6
      <4>3. between(c, d)' = KeyedAfter(c.id)
        BY <1>1, <1>2, <3>2, <4>2 DEF KeyedAfter
      <4>4. before(c) >= MaxIdempotencyKeys
        BY <1>1, <1>8, <2>1, <3>2, <4>1
      <4>5. QED
        BY <4>3, <4>4 DEF before
    <3>3. QED
      BY <1>1, <3>1, <3>2
  <2>2. seen' \subseteq {x.key : x \in recorded'}
    <3>1. seen' \subseteq seen \cup {e.key}
      BY <1>5
    <3>2. QED
      BY <1>1, <3>1 DEF MemoryInv, ChargedOncePerWindow
  <2>3. QED
    BY <2>1, <2>2 DEF ChargedOncePerWindow
<1>13. QED
  BY <1>3, <1>5, <1>11, <1>12 DEF MemoryInv

\* Only record() touches the memory and the history of calls.
LEMMA MemoryStep ==
  ASSUME TypeOK, CallNumbers, MemoryInv, [Next]_vars
  PROVE  MemoryInv'
<1>1. CASE UNCHANGED <<seen, seen_order, recorded>>
  BY <1>1 DEF MemoryInv, RememberedOnce, ForgottenLate, KeyedAfter, ChargedOncePerWindow
<1>2. CASE RecordCall
  BY <1>2, MemoryRecord DEF RecordCall
<1>3. QED
  BY <1>1, <1>2 DEF Next, Flush, StartFlush, PrepareRetry, PrepareFresh, ExportOk, ExportFails,
     Restore, Release, vars, bufferVars, flushVars, ghostVars

\* Nothing is remembered, and nothing recorded, at the start.
LEMMA MemoryInit == Init => MemoryInv
BY PipelineAssumption, FS_EmptySet
   DEF Init, MemoryInv, RememberedOnce, ForgottenLate, ChargedOncePerWindow

(***************************************************************************)
(* The bounded memory forgets no key sooner than MaxIdempotencyKeys keyed  *)
(* calls after the last call charged under it, and remembers the key of no *)
(* call that was refused (UsageBuffer::record, remember).                  *)
(***************************************************************************)
THEOREM KeysAreForgottenLate == Spec => []ChargedOncePerWindow
<1>1. Init => MemoryInv
  BY MemoryInit
<1>2. TypeOK /\ PlaceInv /\ MemoryInv /\ [Next]_vars => MemoryInv'
  BY MemoryStep DEF PlaceInv
<1>3. MemoryInv => ChargedOncePerWindow
  BY DEF MemoryInv
<1>4. QED
  BY <1>1, <1>2, <1>3, TypeCorrect, PlaceAlways, PTL DEF Spec

------------------------------------------------------------------------------
(***************************************************************************)
(* Summed units.  A sum over a finite set counts the single units of its   *)
(* elements: the count satisfies the equation the fold is defined by, and  *)
(* a least set on which the two differed would contradict it.              *)
(***************************************************************************)
SingleUnits(S) == UNION {{x} \X (1..x.units) : x \in S}

Summable(S) == IsFiniteSet(S) /\ \A x \in S : x.units \in Nat

SumsBelow(g, S) ==
  g = [s \in SUBSET S |->
         IF s = {} THEN 0
         ELSE (CHOOSE x \in s : TRUE).units + g[s \ {CHOOSE x \in s : TRUE}]]

\* The fold that defines UnitsOf, written out.
LEMMA UnitsOfUnfolds ==
  ASSUME NEW S
  PROVE  \E g : g = (CHOOSE h : SumsBelow(h, S)) /\ UnitsOf(S) = g[S]
BY DEF UnitsOf, MapThenSumSet, MapThenFoldSet, SumsBelow

\* The numbers from 1 to n are n numbers.
LEMMA SizeOfRange ==
  ASSUME NEW n \in Nat
  PROVE  IsFiniteSet(1..n) /\ Cardinality(1..n) = n
<1>1. 1 \in Int /\ n \in Int
  OBVIOUS
<1>2. IsFiniteSet(1..n) /\ Cardinality(1..n) = IF 1 > n THEN 0 ELSE n - 1 + 1
  BY ONLY <1>1, FS_Interval
<1>3. QED
  BY <1>2

\* Finitely many elements have finitely many units.
LEMMA SingleUnitsFinite ==
  ASSUME NEW S, Summable(S)
  PROVE  IsFiniteSet(SingleUnits(S)) /\ Cardinality(SingleUnits(S)) \in Nat
<1> DEFINE cells == {{x} \X (1..x.units) : x \in S}
           f == [x \in S |-> {x} \X (1..x.units)]
<1>1. f \in Surjection(S, cells)
  BY DEF Surjection
<1>2. IsFiniteSet(cells)
  BY <1>1, FS_Surjection DEF Summable
<1>3. ASSUME NEW T \in cells
      PROVE  IsFiniteSet(T)
  <2>1. PICK x \in S : T = {x} \X (1..x.units)
    OBVIOUS
  <2>2. IsFiniteSet({x})
    BY FS_Singleton
  <2>3. IsFiniteSet(1..x.units)
    BY SizeOfRange DEF Summable
  <2>4. QED
    BY <2>1, <2>2, <2>3, FS_Product
<1> HIDE DEF cells
<1>4. IsFiniteSet(UNION cells)
  BY <1>2, <1>3, FS_UNION
<1>5. QED
  BY <1>4, FS_CardinalityType DEF SingleUnits, cells

\* The units of disjoint sets add up.
LEMMA SingleUnitsAdd ==
  ASSUME NEW S, NEW T, Summable(S), Summable(T), S \cap T = {}
  PROVE  /\ Summable(S \cup T)
         /\ Cardinality(SingleUnits(S \cup T)) =
              Cardinality(SingleUnits(S)) + Cardinality(SingleUnits(T))
<1>1. SingleUnits(S \cup T) = SingleUnits(S) \cup SingleUnits(T)
  BY DEF SingleUnits
<1>2. SingleUnits(S) \cap SingleUnits(T) = {}
  <2>1. \A z \in SingleUnits(S) : z[1] \in S
    BY DEF SingleUnits
  <2>2. \A z \in SingleUnits(T) : z[1] \in T
    BY DEF SingleUnits
  <2>3. QED
    BY <2>1, <2>2
<1>3. /\ IsFiniteSet(SingleUnits(S)) /\ IsFiniteSet(SingleUnits(T))
      /\ Cardinality(SingleUnits(S)) \in Nat /\ Cardinality(SingleUnits(T)) \in Nat
  BY SingleUnitsFinite
<1>4. Summable(S \cup T)
  BY FS_Union DEF Summable
<1>5. Cardinality(SingleUnits(S) \cup SingleUnits(T)) =
        Cardinality(SingleUnits(S)) + Cardinality(SingleUnits(T))
          - Cardinality(SingleUnits(S) \cap SingleUnits(T))
  BY <1>3, FS_Union
<1>6. Cardinality(SingleUnits(S) \cap SingleUnits(T)) = 0
  BY <1>2, FS_EmptySet
<1>7. Cardinality(SingleUnits(S \cup T)) = Cardinality(SingleUnits(S) \cup SingleUnits(T))
  BY <1>1
<1>8. QED
  BY <1>3, <1>4, <1>5, <1>6, <1>7

\* One element has as many units as it says.
LEMMA SingleUnitsOne ==
  ASSUME NEW x, x.units \in Nat
  PROVE  Summable({x}) /\ Cardinality(SingleUnits({x})) = x.units
<1>1. SingleUnits({x}) = {x} \X (1..x.units)
  BY DEF SingleUnits
<1>2. /\ IsFiniteSet({x}) /\ Cardinality({x}) = 1
      /\ IsFiniteSet(1..x.units) /\ Cardinality(1..x.units) = x.units
  BY FS_Singleton, SizeOfRange
<1> DEFINE units == x.units
<1>3. Cardinality({x} \X (1..units)) = 1 * units
  <2> HIDE DEF units
  <2>1. Cardinality({x} \X (1..units)) = Cardinality({x}) * Cardinality(1..units)
    BY <1>2, FS_Product DEF units
  <2>2. QED
    BY <1>2, <2>1 DEF units
<1>4. 1 * units = units
  OBVIOUS
<1>5. QED
  BY <1>1, <1>2, <1>3, <1>4 DEF Summable

\* The equation of the fold holds of the count of single units.
LEMMA SingleUnitsRecur ==
  ASSUME NEW S, Summable(S), NEW x \in S
  PROVE  Cardinality(SingleUnits(S)) = x.units + Cardinality(SingleUnits(S \ {x}))
<1>1. Summable(S \ {x})
  BY FS_RemoveElement DEF Summable
<1>2. Summable({x}) /\ Cardinality(SingleUnits({x})) = x.units /\ x.units \in Nat
  BY SingleUnitsOne DEF Summable
<1>3. S = (S \ {x}) \cup {x} /\ (S \ {x}) \cap {x} = {}
  OBVIOUS
<1>4. Cardinality(SingleUnits((S \ {x}) \cup {x})) =
        Cardinality(SingleUnits(S \ {x})) + Cardinality(SingleUnits({x}))
  BY <1>1, <1>2, <1>3, SingleUnitsAdd
<1>5. Cardinality(SingleUnits(S \ {x})) \in Nat
  BY <1>1, SingleUnitsFinite
<1>6. Cardinality(SingleUnits(S)) = Cardinality(SingleUnits((S \ {x}) \cup {x}))
  BY <1>3
<1>7. QED
  BY <1>2, <1>4, <1>5, <1>6

\* Summed units are counted units.
LEMMA UnitsOfCounts ==
  ASSUME NEW S, Summable(S)
  PROVE  UnitsOf(S) = Cardinality(SingleUnits(S))
<1> DEFINE count == [s \in SUBSET S |-> Cardinality(SingleUnits(s))]
           sum == CHOOSE h : SumsBelow(h, S)
<1>1. ASSUME NEW s \in SUBSET S
      PROVE  /\ Summable(s)
             /\ s # {} => /\ (CHOOSE x \in s : TRUE) \in s
                          /\ s \ {CHOOSE x \in s : TRUE} \in SUBSET S
  BY FS_Subset DEF Summable
<1>2. Cardinality(SingleUnits({})) = 0
  BY FS_EmptySet DEF SingleUnits
<1>3. SumsBelow(count, S)
  <2>1. ASSUME NEW s \in SUBSET S
        PROVE  Cardinality(SingleUnits(s)) =
                 IF s = {} THEN 0
                 ELSE (CHOOSE x \in s : TRUE).units + count[s \ {CHOOSE x \in s : TRUE}]
    <3>1. CASE s = {}
      BY <1>2, <3>1
    <3>2. CASE s # {}
      <4>1. count[s \ {CHOOSE x \in s : TRUE}] = Cardinality(SingleUnits(s \ {CHOOSE x \in s : TRUE}))
        BY <1>1, <3>2
      <4> HIDE DEF count
      <4>2. QED
        BY <1>1, <3>2, <4>1, SingleUnitsRecur
    <3>3. QED
      BY <3>1, <3>2
  <2>2. QED
    BY <2>1 DEF SumsBelow
<1>4. SumsBelow(sum, S)
  BY <1>3
<1> HIDE DEF count, sum
<1>5. \A s \in SUBSET S : sum[s] = count[s]
  <2> SUFFICES ASSUME {s \in SUBSET S : sum[s] # count[s]} # {}
               PROVE  FALSE
    OBVIOUS
  <2> DEFINE wrong == {s \in SUBSET S : sum[s] # count[s]}
  <2>1. wrong \subseteq FiniteSubsetsOf(S)
    BY FS_Subset DEF Summable, FiniteSubsetsOf
  <2>2. PICK s \in wrong : \A t \in wrong : <<t, s>> \notin StrictSubsetOrdering(S)
    <3> HIDE DEF wrong
    <3>1. wrong # {}
      BY DEF wrong
    <3>2. QED
      BY <2>1, <3>1, WFMin, FS_StrictSubsetOrderingWellFounded
  <2>3. /\ sum[s] = IF s = {} THEN 0
                    ELSE (CHOOSE x \in s : TRUE).units + sum[s \ {CHOOSE x \in s : TRUE}]
        /\ count[s] = IF s = {} THEN 0
                    ELSE (CHOOSE x \in s : TRUE).units + count[s \ {CHOOSE x \in s : TRUE}]
    BY <1>3, <1>4 DEF SumsBelow
  <2>4. s # {} => s \ {CHOOSE x \in s : TRUE} \notin wrong
    <3>1. s # {} => <<s \ {CHOOSE x \in s : TRUE}, s>> \in StrictSubsetOrdering(S)
      BY <1>1 DEF StrictSubsetOrdering
    <3>2. QED
      BY <2>2, <3>1
  <2>5. s # {} => sum[s \ {CHOOSE x \in s : TRUE}] = count[s \ {CHOOSE x \in s : TRUE}]
    BY <1>1, <2>4
  <2>6. QED
    BY <2>3, <2>5
<1>6. UnitsOf(S) = sum[S]
  BY UnitsOfUnfolds DEF sum
<1>7. QED
  BY <1>5, <1>6 DEF count

\* Summed units are a number.
LEMMA UnitsOfType ==
  ASSUME NEW S, Summable(S)
  PROVE  UnitsOf(S) \in Nat
BY UnitsOfCounts, SingleUnitsFinite

\* Nothing has no units.
LEMMA UnitsOfNone == UnitsOf({}) = 0
<1>1. Summable({})
  BY FS_EmptySet DEF Summable
<1>2. Cardinality(SingleUnits({})) = 0
  BY FS_EmptySet DEF SingleUnits
<1>3. QED
  BY <1>1, <1>2, UnitsOfCounts

\* Units of disjoint sets add up.
LEMMA UnitsOfDisjoint ==
  ASSUME NEW S, NEW T, Summable(S), Summable(T), S \cap T = {}
  PROVE  Summable(S \cup T) /\ UnitsOf(S \cup T) = UnitsOf(S) + UnitsOf(T)
BY UnitsOfCounts, SingleUnitsAdd

\* The units of one call, or of one aggregate, are its own.
LEMMA UnitsOfOne ==
  ASSUME NEW x, x.units \in Nat
  PROVE  Summable({x}) /\ UnitsOf({x}) = x.units
BY UnitsOfCounts, SingleUnitsOne

------------------------------------------------------------------------------
(***************************************************************************)
(* Exact aggregates.  That the timestamp is the least of the calls' is     *)
(* kept as such, for a minimum is only known to be one where there is one; *)
(* that an aggregate of no units has no calls (OwnBuckets) makes the first *)
(* call's timestamp the oldest.  No aggregate is drained without units.    *)
(***************************************************************************)
Oldest(aggregate) ==
  /\ \E e \in aggregate.events : e.timestamp = aggregate.timestamp
  /\ \A e \in aggregate.events : aggregate.timestamp <= e.timestamp

Faithful(aggregate) ==
  /\ aggregate.units = UnitsOf(aggregate.events)
  /\ aggregate.units > 0 => Oldest(aggregate)

ExactInv ==
  /\ \A b \in Buckets : Faithful(pending[b])
  /\ \A a \in offered : a.units > 0 /\ Faithful(a) /\ \A e \in a.events : e.bucket = a.bucket

\* The oldest timestamp is the minimum of the timestamps.
LEMMA OldestIsLeast ==
  ASSUME NEW a, a.timestamp \in Int, \A e \in a.events : e.timestamp \in Int, Oldest(a)
  PROVE  a.timestamp = Min({e.timestamp : e \in a.events})
<1> DEFINE T == {e.timestamp : e \in a.events}
<1>1. a.timestamp \in T /\ T \subseteq Int /\ \A t \in T : a.timestamp <= t
  BY DEF Oldest
<1> HIDE DEF T
<1>2. \A t \in T : (\A u \in T : t <= u) => t = a.timestamp
  <2> SUFFICES ASSUME NEW t \in T, \A u \in T : t <= u
               PROVE  t = a.timestamp
    OBVIOUS
  <2>1. t <= a.timestamp /\ a.timestamp <= t /\ t \in Int /\ a.timestamp \in Int
    BY <1>1
  <2>2. QED
    BY <2>1
<1>3. Min(T) = a.timestamp
  BY <1>1, <1>2 DEF Min
<1>4. QED
  BY <1>3 DEF T

\* The numbers of a call.
LEMMA CallFields ==
  ASSUME NEW e \in Event
  PROVE  e.bucket \in Buckets /\ e.units \in Nat /\ e.timestamp \in Nat
<1>1. e.bucket \in Buckets /\ e.units \in UnitsPerCall /\ e.timestamp \in Timestamps
  BY DEF Event
<1>2. MaxUnits \in Nat /\ UnitsPerCall \subseteq 0..MaxUnits /\ Timestamps \subseteq Nat
  BY PipelineAssumption
<1>3. e.units \in 0..MaxUnits
  BY <1>1, <1>2
<1>4. e.units \in Nat
  BY <1>2, <1>3
<1>5. e.timestamp \in Nat
  BY <1>1, <1>2
<1>6. QED
  BY <1>1, <1>4, <1>5

\* Accepted calls are finitely many, and so are those an aggregate stands for.
LEMMA CallsSummable ==
  ASSUME TypeOK, IsFiniteSet(recorded), NEW S \in SUBSET recorded
  PROVE  Summable(S)
<1>1. IsFiniteSet(S)
  BY FS_Subset
<1>2. \A e \in S : e.units \in Nat
  BY CallFields DEF TypeOK
<1>3. QED
  BY <1>1, <1>2 DEF Summable

\* A call adds its units to its bucket, and its timestamp when it is older.
LEMMA ExactAfterCall ==
  ASSUME TypeOK, PlaceInv, ExactInv, IsFiniteSet(recorded),
         NEW e \in Event, e.units > 0, e \notin recorded,
         AddUnits(e)
  PROVE  Faithful(pending'[e.bucket])
<1> DEFINE old == pending[e.bucket]
           new == pending'[e.bucket]
<1>1. /\ e.bucket \in Buckets
      /\ e.units \in Nat
      /\ e.timestamp \in Nat
      /\ old \in PendingAggregate
      /\ old.units \in Nat
      /\ old.timestamp \in Nat
      /\ \A c \in old.events : c.timestamp \in Nat
  <2>1. e.bucket \in Buckets /\ e.units \in Nat /\ e.timestamp \in Nat
    BY CallFields
  <2>2. old \in PendingAggregate
    BY <2>1 DEF TypeOK
  <2>3. old.units \in Nat /\ old.timestamp \in Nat /\ old.events \subseteq Event
    BY <2>2, PipelineAssumption DEF PendingAggregate
  <2>4. QED
    BY <2>1, <2>2, <2>3, CallFields
<1>2. /\ new.units = old.units + e.units
      /\ new.timestamp = OldestTimestamp(old, e)
      /\ new.events = old.events \cup {e}
  BY <1>1 DEF AddUnits, TypeOK
<1>3. old.events \subseteq recorded
  BY <1>1 DEF PlaceInv, EveryCallHasOnePlace, PendingEvents
<1>4. old.units = UnitsOf(old.events) /\ (old.units > 0 => Oldest(old))
  BY <1>1 DEF ExactInv, Faithful
<1>5. old.units = 0 => old.events = {}
  BY <1>1 DEF PlaceInv, OwnBuckets
<1> HIDE DEF old, new
<1>6. new.units = UnitsOf(new.events)
  <2>1. Summable(old.events)
    BY <1>3, CallsSummable
  <2>2. Summable({e}) /\ UnitsOf({e}) = e.units
    BY <1>1, UnitsOfOne
  <2>3. old.events \cap {e} = {}
    BY <1>3
  <2>4. UnitsOf(old.events \cup {e}) = UnitsOf(old.events) + UnitsOf({e})
    BY <2>1, <2>2, <2>3, UnitsOfDisjoint
  <2>5. QED
    BY <1>2, <1>4, <2>2, <2>4
<1>7. Oldest(new)
  <2>1. CASE old.units = 0
    BY <1>1, <1>2, <1>5, <2>1 DEF Oldest, OldestTimestamp
  <2>2. CASE old.units # 0
    <3>1. /\ \E c \in old.events : c.timestamp = old.timestamp
          /\ \A c \in old.events : old.timestamp <= c.timestamp
      BY <1>1, <1>4, <2>2 DEF Oldest
    <3>2. CASE old.timestamp <= e.timestamp
      <4>1. new.timestamp = old.timestamp
        BY <1>2, <2>2, <3>2 DEF OldestTimestamp
      <4>2. QED
        BY <1>2, <3>1, <3>2, <4>1 DEF Oldest
    <3>3. CASE ~(old.timestamp <= e.timestamp)
      <4>1. new.timestamp = e.timestamp
        BY <1>2, <3>3 DEF OldestTimestamp
      <4>2. \A c \in old.events : e.timestamp <= c.timestamp
        BY <1>1, <3>1, <3>3
      <4>3. QED
        BY <1>1, <1>2, <4>1, <4>2 DEF Oldest
    <3>4. QED
      BY <3>2, <3>3
  <2>3. QED
    BY <2>1, <2>2
<1>8. QED
  BY <1>6, <1>7 DEF Faithful, new

\* ExactInv is preserved by every step.
LEMMA ExactStep ==
  ASSUME TypeOK, PlaceInv, ExactInv, IsFiniteSet(recorded), [Next]_vars
  PROVE  ExactInv'
<1>1. ASSUME NEW e \in [id : {calls + 1}, bucket : Buckets, key : Keys \cup {NoKey},
                        units : UnitsPerCall, timestamp : Timestamps],
             Record(e)
      PROVE  ExactInv'
  <2>1. /\ e \in Event
        /\ e.units \in Nat \ {0}
        /\ AddUnits(e)
        /\ offered' = offered
    BY <1>1, CallType, CallFields DEF Record, RecordOutcome
  <2>2. e \notin recorded
    BY DEF PlaceInv, CallNumbers, TypeOK
  <2>3. Faithful(pending'[e.bucket])
    BY <2>1, <2>2, ExactAfterCall
  <2>4. \A b \in Buckets : b # e.bucket => pending'[b] = pending[b]
    BY <2>1 DEF AddUnits, TypeOK
  <2>5. QED
    BY <2>1, <2>3, <2>4 DEF ExactInv
<1>2. ASSUME NEW f \in Flushers, PrepareRetry(f)
      PROVE  ExactInv'
  <2>1. retry # <<>> /\ retry \in Seq(SUBSET Aggregate) /\ offered' = offered \cup Head(retry)
        /\ pending' = pending
    BY <1>2 DEF PrepareRetry, TakeRetry, TypeOK
  <2>2. Head(retry) \subseteq offered
    BY <2>1, HeadContents DEF PlaceInv, Located, Retrying
  <2>3. QED
    BY <2>1, <2>2 DEF ExactInv
<1>3. ASSUME NEW f \in Flushers, PrepareFresh(f)
      PROVE  ExactInv'
  <2>1. offered' = offered \cup FreshBatch /\ pending' = [b \in Buckets |-> Absent]
    BY <1>3 DEF PrepareFresh
  <2>2. ASSUME NEW a \in FreshBatch
        PROVE  a.units > 0 /\ Faithful(a) /\ \A e \in a.events : e.bucket = a.bucket
    <3>1. PICK b \in Buckets : /\ a.bucket = b
                               /\ pending[b].units > 0
                               /\ a.units = pending[b].units
                               /\ a.timestamp = pending[b].timestamp
                               /\ a.events = pending[b].events
      BY DEF FreshBatch, FreshBuckets
    <3>2. Faithful(a)
      BY <3>1 DEF ExactInv, Faithful, Oldest
    <3>3. QED
      BY <3>1, <3>2 DEF PlaceInv, OwnBuckets
  <2>3. Faithful(Absent)
    BY UnitsOfNone DEF Faithful, Absent
  <2>4. QED
    BY <2>1, <2>2, <2>3 DEF ExactInv
<1>4. CASE UNCHANGED <<pending, offered>>
  BY <1>4 DEF ExactInv
<1>5. QED
  BY <1>1, <1>2, <1>3, <1>4 DEF Next, RecordCall, Flush, StartFlush, ExportOk, ExportFails,
     Restore, Release, vars, bufferVars, flushVars, ghostVars

\* Nothing is pending and nothing was offered at the start.
LEMMA ExactInit == Init => ExactInv
<1> SUFFICES ASSUME Init PROVE ExactInv
  OBVIOUS
<1>1. Faithful(Absent)
  BY UnitsOfNone DEF Faithful, Absent
<1>2. QED
  BY <1>1 DEF Init, ExactInv

\* Faithful aggregates in their own buckets are exact ones.
LEMMA ExactlyFaithful ==
  ASSUME TypeOK, PlaceInv, ExactInv
  PROVE  ExactAggregates
<1>1. ASSUME NEW b \in Buckets
      PROVE  Exact(pending[b]) /\ \A e \in pending[b].events : e.bucket = b
  <2>1. /\ Faithful(pending[b])
        /\ pending[b].timestamp \in Int
        /\ \A e \in pending[b].events : e.timestamp \in Int
    BY CallFields DEF ExactInv, TypeOK, PendingAggregate
  <2>2. pending[b].units > 0 => pending[b].timestamp = Min({e.timestamp : e \in pending[b].events})
    BY <2>1, OldestIsLeast DEF Faithful
  <2>3. QED
    BY <2>1, <2>2 DEF Exact, Faithful, PlaceInv, OwnBuckets
<1>2. ASSUME NEW a \in offered
      PROVE  Exact(a) /\ \A e \in a.events : e.bucket = a.bucket
  <2>1. /\ Faithful(a)
        /\ a.timestamp \in Int
        /\ \A e \in a.events : e.timestamp \in Int
    BY CallFields DEF ExactInv, TypeOK, Aggregate
  <2>2. a.units > 0 => a.timestamp = Min({e.timestamp : e \in a.events})
    BY <2>1, OldestIsLeast DEF Faithful
  <2>3. QED
    BY <2>1, <2>2 DEF Exact, Faithful, ExactInv
<1>3. QED
  BY <1>1, <1>2 DEF ExactAggregates

\* The memory's and the aggregates' invariants always hold, and with them finiteness.
LEMMA ExactAlways == Spec => [](MemoryInv /\ ExactInv)
<1>1. Init => ExactInv /\ MemoryInv
  BY ExactInit, MemoryInit
<1>2. TypeOK /\ PlaceInv /\ MemoryInv /\ [Next]_vars => MemoryInv'
  BY MemoryStep DEF PlaceInv
<1>3. TypeOK /\ PlaceInv /\ MemoryInv /\ ExactInv /\ [Next]_vars => ExactInv'
  BY ExactStep DEF MemoryInv
<1>4. QED
  BY <1>1, <1>2, <1>3, TypeCorrect, PlaceAlways, PTL DEF Spec

(***************************************************************************)
(* However calls, drains, failures and retries interleave, an aggregate    *)
(* has the summed units and the oldest timestamp of exactly its own        *)
(* bucket's calls (UsageBuffer::record, prepare_flush, restore).           *)
(***************************************************************************)
THEOREM QuantitiesAreExact == Spec => []ExactAggregates
<1>1. TypeOK /\ PlaceInv /\ ExactInv => ExactAggregates
  BY ExactlyFaithful
<1>2. QED
  BY <1>1, TypeCorrect, PlaceAlways, ExactAlways, PTL

==============================================================================
