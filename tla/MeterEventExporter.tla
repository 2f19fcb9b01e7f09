-------------------------- MODULE MeterEventExporter --------------------------
(***************************************************************************)
(* The metered exporter of mcp-usage-export: it hands the unresolved       *)
(* aggregates of one batch to a billing provider, remembers which of them  *)
(* were answered for good while the batch is incomplete, and quarantines   *)
(* the rejected ones in a bounded dead letter queue.                       *)
(*                                                                         *)
(* A batch is a set of aggregates.  The provider is external: it applies   *)
(* an aggregate at most once per identifier, may apply it before, long     *)
(* after or without an answer reaching the exporter, and answers an        *)
(* aggregate Accepted only if it applied it.                               *)
(***************************************************************************)
EXTENDS Integers, FiniteSets, Sequences, FiniteSetsExt

CONSTANTS
  Callers,             \* tasks that poll an export future
  Batches,             \* batches a caller may hand over
  DeadLetterCapacity,  \* dead_letter_capacity
  MaxNotices           \* bound: late rejections notified in one behaviour

VARIABLES
  retry_progress,  \* the incomplete batch and its completed aggregates
  exporting,       \* the export lease
  dead,            \* dead letters, their identifiers, how many were dropped
  stage,           \* where each caller's export future is
  unresolved,      \* what a caller submitted and awaits outcomes for
  wire,            \* external: aggregates that reached, or may reach, the provider
  ledger,          \* external: aggregates the provider has applied
  refused,         \* external: aggregates the provider has rejected for good
  resolved,        \* history: aggregates the exporter was given a final outcome for
  revoked,         \* history: aggregates the provider rejected after accepting them
  notices,         \* history: late rejections notified
  taken            \* history: dead letters the application took

exporterVars == <<retry_progress, exporting, dead, stage, unresolved>>
providerVars == <<wire, ledger, refused, revoked>>
historyVars  == <<resolved, notices, taken>>
meterVars    == <<exporterVars, providerVars, historyVars>>

Idle == [active |-> FALSE, batch |-> {}, completed |-> {}]

\* "entered" is a history: the letters that were new when they came.
NoDeadLetters == [letters |-> <<>>, identifiers |-> {}, dropped |-> 0, entered |-> 0]

MeterInit ==
  /\ retry_progress = Idle
  /\ exporting = FALSE
  /\ dead = NoDeadLetters
  /\ stage = [c \in Callers |-> "idle"]
  /\ unresolved = [c \in Callers |-> {}]
  /\ wire = {}
  /\ ledger = {}
  /\ refused = {}
  /\ resolved = {}
  /\ revoked = {}
  /\ notices = 0
  /\ taken = 0
-------------------------------------------------------------------------------
(***************************************************************************)
(* The dead letter queue.                                                  *)
(***************************************************************************)
Known(queue, a) == a.identifier \in queue.identifiers

\* The queue with a letter more, its oldest one gone if it was full.
Entered(queue, a, forgotten) ==
  LET full == Len(queue.letters) >= DeadLetterCapacity IN
  [letters |-> Append(IF full THEN Tail(queue.letters) ELSE queue.letters, a),
   identifiers |-> (queue.identifiers \ (IF full THEN forgotten ELSE {})) \cup {a.identifier},
   dropped |-> IF full THEN queue.dropped + 1 ELSE queue.dropped,
   entered |-> queue.entered + 1]

QuarantineUncounted(queue, a) ==
  IF Known(queue, a) THEN queue
  ELSE IF DeadLetterCapacity = 0 \/ Len(queue.letters) >= DeadLetterCapacity
  THEN [queue EXCEPT !.entered = @ + 1]
  ELSE Entered(queue, a, {})

(***************************************************************************)
(* quarantine_locked: a known identifier is ignored, and the oldest letter *)
(* makes room.  The queue is never over its capacity, so one eviction is   *)
(* enough.                                                                 *)
(***************************************************************************)
Quarantine(queue, a) ==
  IF Known(queue, a) THEN queue
  ELSE IF DeadLetterCapacity = 0
  THEN [queue EXCEPT !.dropped = @ + 1, !.entered = @ + 1]
  ELSE Entered(queue, a, {Head(queue.letters).identifier})

\* The rejected aggregates of one answer, in the order of the batch.
QuarantineAll(queue, aggregates) ==
  FoldSet(LAMBDA a, q : Quarantine(q, a), queue, aggregates)
-------------------------------------------------------------------------------
(***************************************************************************)
(* export(): begin_export and unresolved() run before the first await, and *)
(* nothing else can touch the progress once the lease is taken.            *)
(***************************************************************************)
BeginRefused(c, batch) ==
  /\ stage[c] = "idle"
  /\ exporting \/ (retry_progress.active /\ retry_progress.batch # batch)
  /\ stage' = [stage EXCEPT ![c] = "refused"]
  /\ UNCHANGED <<retry_progress, exporting, dead, unresolved, providerVars, historyVars>>

Progress(batch) ==
  IF retry_progress.active THEN retry_progress
  ELSE [active |-> TRUE, batch |-> batch, completed |-> {}]

Begin(c, batch) ==
  LET progress == Progress(batch)
      left == batch \ progress.completed
  IN
  /\ stage[c] = "idle"
  /\ ~exporting
  /\ retry_progress.active => retry_progress.batch = batch
  /\ IF left = {}
     THEN /\ retry_progress' = Idle
          /\ stage' = [stage EXCEPT ![c] = "ok"]
          /\ UNCHANGED <<exporting, unresolved, wire>>
     ELSE /\ retry_progress' = progress
          /\ exporting' = TRUE
          /\ stage' = [stage EXCEPT ![c] = "awaiting"]
          /\ unresolved' = [unresolved EXCEPT ![c] = left]
          /\ wire' = wire \cup left
  /\ UNCHANGED <<dead, ledger, refused, revoked, historyVars>>

\* The lease goes with the export future, whatever ended it.
Leave(c, result) ==
  /\ exporting' = FALSE
  /\ stage' = [stage EXCEPT ![c] = result]
  /\ unresolved' = [unresolved EXCEPT ![c] = {}]

Given(c, outcome, kind) == {a \in unresolved[c] : outcome[a] = kind}

\* What an answer does to everything but the progress: an answer is trusted.
Settle(c, outcome) ==
  LET accepted == Given(c, outcome, "Accepted")
      rejected == Given(c, outcome, "PermanentRejection")
  IN
  /\ refused' = refused \cup rejected
  /\ resolved' = resolved \cup accepted \cup rejected
  /\ dead' = QuarantineAll(dead, rejected)
  /\ UNCHANGED <<wire, ledger, revoked, notices, taken>>

\* The whole batch is taken as answered, its retryable aggregates included.
OutcomesMarkAll(c, outcome) ==
  /\ stage[c] = "awaiting"
  /\ Settle(c, outcome)
  /\ IF Given(c, outcome, "RetryableFailure") = {}
     THEN Leave(c, "ok") /\ retry_progress' = Idle
     ELSE /\ Leave(c, "err")
          /\ retry_progress' = [retry_progress EXCEPT !.completed = @ \cup unresolved[c]]

\* A retryable outcome clears the progress: nothing is remembered of the others.
OutcomesForgotten(c, outcome) ==
  /\ stage[c] = "awaiting"
  /\ Settle(c, outcome)
  /\ Leave(c, IF Given(c, outcome, "RetryableFailure") = {} THEN "ok" ELSE "err")
  /\ retry_progress' = Idle

(***************************************************************************)
(* apply_outcomes, and commit_export unless something is left to retry:    *)
(* then the accepted and the rejected are remembered as completed.         *)
(***************************************************************************)
Outcomes(c, outcome) ==
  /\ stage[c] = "awaiting"
  /\ Settle(c, outcome)
  /\ IF Given(c, outcome, "RetryableFailure") = {}
     THEN Leave(c, "ok") /\ retry_progress' = Idle
     ELSE /\ Leave(c, "err")
          /\ retry_progress' = [retry_progress EXCEPT !.completed =
               @ \cup Given(c, outcome, "Accepted") \cup Given(c, outcome, "PermanentRejection")]

\* A batch-wide error, a wrong number of outcomes, a cancelled or a panicking await.
NoOutcomes(c) ==
  /\ stage[c] = "awaiting"
  /\ Leave(c, "err")
  /\ UNCHANGED <<retry_progress, dead, providerVars, historyVars>>

\* The caller takes the result of its export.
Return(c) ==
  /\ stage[c] \in {"ok", "err", "refused"}
  /\ stage' = [stage EXCEPT ![c] = "idle"]
  /\ UNCHANGED <<retry_progress, exporting, dead, unresolved, providerVars, historyVars>>
-------------------------------------------------------------------------------
(***************************************************************************)
(* The application's side: giving up on a batch, taking the dead letters,  *)
(* passing on a late rejection.                                            *)
(***************************************************************************)
AbandonDuringExport ==
  /\ retry_progress.active
  /\ retry_progress' = Idle
  /\ UNCHANGED <<exporting, dead, stage, unresolved, providerVars, historyVars>>

\* abandon_retry_progress: without the lease, or without progress, it changes nothing.
Abandon ==
  /\ ~exporting
  /\ retry_progress.active
  /\ retry_progress' = Idle
  /\ UNCHANGED <<exporting, dead, stage, unresolved, providerVars, historyVars>>

TakeDeadLetters ==
  /\ dead.letters # <<>>
  /\ taken' = taken + Len(dead.letters)
  /\ dead' = [letters |-> <<>>, identifiers |-> {},
               dropped |-> dead.dropped, entered |-> dead.entered]
  /\ UNCHANGED <<retry_progress, exporting, stage, unresolved, providerVars, resolved, notices>>

\* quarantine_async_rejection of an aggregate whose late rejection was verified.
QuarantineAsync(a) ==
  /\ a \in revoked
  /\ notices < MaxNotices
  /\ notices' = notices + 1
  /\ dead' = Quarantine(dead, a)
  /\ UNCHANGED <<retry_progress, exporting, stage, unresolved, providerVars, resolved, taken>>
-------------------------------------------------------------------------------
(***************************************************************************)
(* The provider.                                                           *)
(***************************************************************************)
ProviderApplies(a) ==
  /\ a \in wire \ refused
  /\ \A b \in ledger : b.identifier # a.identifier
  /\ ledger' = ledger \cup {a}
  /\ UNCHANGED <<exporterVars, wire, refused, revoked, historyVars>>

\* An event accepted earlier turns out to be invalid.
ProviderRevokes(a) ==
  /\ a \in ledger \cap resolved
  /\ ledger' = ledger \ {a}
  /\ refused' = refused \cup {a}
  /\ revoked' = revoked \cup {a}
  /\ UNCHANGED <<exporterVars, wire, historyVars>>

OutcomeKinds == {"Accepted", "RetryableFailure", "PermanentRejection"}

MeterExternal ==
  \/ \E a \in wire : ProviderApplies(a)
  \/ \E a \in ledger : ProviderRevokes(a)
  \/ \E a \in revoked : QuarantineAsync(a)
  \/ TakeDeadLetters

\* What a MeterEventProvider promises of the outcomes it returns.
Truthful(c, outcome) ==
  /\ Given(c, outcome, "Accepted") \subseteq ledger
  /\ Given(c, outcome, "PermanentRejection") \cap ledger = {}

Answer(c) ==
  \/ \E outcome \in [unresolved[c] -> OutcomeKinds] :
       Truthful(c, outcome) /\ Outcomes(c, outcome)
  \/ NoOutcomes(c)

MeterNext ==
  \/ \E c \in Callers :
       \/ \E batch \in Batches : BeginRefused(c, batch) \/ Begin(c, batch)
       \/ Answer(c)
       \/ Return(c)
  \/ Abandon
  \/ MeterExternal

MeterSpec == MeterInit /\ [][MeterNext]_meterVars
-------------------------------------------------------------------------------
(***************************************************************************)
(* One export holds the lease, and while it awaits the provider the        *)
(* progress it will be written into is that of its own batch: abandoning   *)
(* cannot slip between a submission and its outcomes.                      *)
(***************************************************************************)
LeaseProtectsProgress ==
  /\ exporting <=> \E c \in Callers : stage[c] = "awaiting"
  /\ \A c, d \in Callers : stage[c] = "awaiting" /\ stage[d] = "awaiting" => c = d
  /\ \A c \in Callers : stage[c] = "awaiting" =>
       /\ retry_progress.active
       /\ unresolved[c] = retry_progress.batch \ retry_progress.completed

(***************************************************************************)
(* No rejected event disappears silently: every new dead letter is still   *)
(* queued, was taken by the application, or is counted as dropped.  And    *)
(* the identifier index forgets a letter when the queue does, so that an   *)
(* event rejected again after its letter was evicted or taken counts as    *)
(* new.  quarantine_locked, take_dead_letters.                             *)
(***************************************************************************)
DeadLettersAccounted ==
  /\ dead.entered = Len(dead.letters) + taken + dead.dropped
  /\ dead.identifiers = {dead.letters[i].identifier : i \in DOMAIN dead.letters}

(***************************************************************************)
(* Completed aggregates are those the provider answered for good: an       *)
(* ambiguous failure never marks one.                                      *)
(***************************************************************************)
CompletedWereAnswered ==
  retry_progress.completed \subseteq (ledger \cup refused)

===============================================================================
