---------------------------- MODULE MeteredExport ----------------------------
(***************************************************************************)
(* A billing pipeline whose exporter reaches the metered exporter: the     *)
(* flush of BillingPipeline and the export of MeterEventExporter step by   *)
(* step, alone or as one sink of a CompositeExporter, with an application  *)
(* that may abandon the exporter's progress meanwhile.                     *)
(***************************************************************************)
EXTENDS BillingPipeline

CONSTANTS
  DeadLetterCapacity,  \* dead_letter_capacity
  MaxNotices,          \* bound: late rejections notified in one behaviour
  Sinks,               \* other sinks that may fail, "before" and "after" this one
  MaxAbandons          \* bound: times the application abandons the progress

ASSUME MeteredAssumption ==
  /\ Policy = "CompleteBatch"
  /\ Sinks \subseteq {"before", "after"}
  /\ MaxAbandons \in Nat /\ MaxNotices \in Nat /\ DeadLetterCapacity \in Nat

VARIABLES retry_progress, exporting, dead, stage, unresolved,
          wire, ledger, refused, resolved, revoked, notices, taken,
          abandons  \* history: times the progress was abandoned

\* The batches come from flush(), so that the exporter's own callers are left out.
Exporter == INSTANCE MeterEventExporter WITH Callers <- Flushers, Batches <- {}

meterVars == <<retry_progress, exporting, dead, stage, unresolved,
               wire, ledger, refused, resolved, revoked, notices, taken>>

meteredVars == <<vars, meterVars, abandons>>

MeteredInit == Init /\ Exporter!MeterInit /\ abandons = 0
------------------------------------------------------------------------------
(***************************************************************************)
(* The pipeline's own steps.                                               *)
(***************************************************************************)
PipelineStep ==
  /\ \/ RecordCall
     \/ \E f \in Flushers :
          \/ StartFlush(f)
          \/ PrepareRetry(f)
          \/ PrepareFresh(f)
          \/ Restore(f)
          \/ Release(f)
  /\ UNCHANGED <<meterVars, abandons>>

(***************************************************************************)
(* One run of the export future, from its first poll to its result.        *)
(* Sinks run in order; the first error, or a cancellation while one of     *)
(* them waits, ends the export, and a retry starts from the first sink.    *)
(***************************************************************************)
EarlierSinkFails(f) ==
  /\ "before" \in Sinks
  /\ stage[f] = "idle"
  /\ ExportFails(f)
  /\ UNCHANGED <<meterVars, abandons>>

ExportBegins(f) ==
  /\ pc[f] = "export"
  /\ Exporter!BeginRefused(f, batch[f]) \/ Exporter!Begin(f, batch[f])
  /\ UNCHANGED <<vars, abandons>>

ProviderAnswers(f) ==
  /\ Exporter!Answer(f)
  /\ UNCHANGED <<vars, abandons>>

ExportSucceeds(f) ==
  /\ stage[f] = "ok"
  /\ Exporter!Return(f)
  /\ ExportOk(f)
  /\ UNCHANGED abandons

LaterSinkFails(f) ==
  /\ "after" \in Sinks
  /\ stage[f] = "ok"
  /\ Exporter!Return(f)
  /\ ExportFails(f)
  /\ UNCHANGED abandons

ExportErrs(f) ==
  /\ stage[f] \in {"err", "refused"}
  /\ Exporter!Return(f)
  /\ ExportFails(f)
  /\ UNCHANGED abandons

(***************************************************************************)
(* The application and the provider.                                       *)
(***************************************************************************)
ApplicationAbandons ==
  /\ abandons < MaxAbandons
  /\ abandons' = abandons + 1
  /\ Exporter!Abandon
  /\ UNCHANGED vars

External == Exporter!MeterExternal /\ UNCHANGED <<vars, abandons>>

ExportStep(f) ==
  \/ EarlierSinkFails(f)
  \/ ExportBegins(f)
  \/ ProviderAnswers(f)
  \/ ExportSucceeds(f)
  \/ LaterSinkFails(f)
  \/ ExportErrs(f)

MeteredNext ==
  \/ PipelineStep
  \/ \E f \in Flushers : ExportStep(f)
  \/ ApplicationAbandons
  \/ External

MeteredSpec == MeteredInit /\ [][MeteredNext]_meteredVars
------------------------------------------------------------------------------
(***************************************************************************)
(* "Accepted and permanently rejected events are not resubmitted"          *)
(* (README.md, MeterEventExporter): nothing that awaits an outcome had     *)
(* been given a final one before.                                          *)
(***************************************************************************)
ResolvedNotResubmitted ==
  \A f \in Flushers : unresolved[f] \cap resolved = {}

(***************************************************************************)
(* What the exporter promises by itself (MeterEventExporter), here with    *)
(* the batches, failures and cancellations of a real pipeline: the lease   *)
(* and the progress of one batch, the bounded dead letters, none of them   *)
(* lost silently, and progress only for what was answered for good.        *)
(***************************************************************************)
LeaseProtectsProgress == Exporter!LeaseProtectsProgress

\* A rejected event is queued, taken, or counted as dropped (quarantine_locked).
DeadLettersAccounted == Exporter!DeadLettersAccounted

\* Only what was answered for good is remembered as completed (apply_outcomes).
CompletedWereAnswered == Exporter!CompletedWereAnswered

InvoiceOf(b) == UnitsOf({a \in ledger : a.bucket = b})

Promise == INSTANCE UsageLedger
             WITH accepted <- recorded,
                  charged <- EventsOf(ledger),
                  waived <- EventsOf(refused),
                  invoice <- [b \in Buckets |-> InvoiceOf(b)]

(***************************************************************************)
(* The customer's view: the pipeline, its retries and its provider         *)
(* implement an invoice that charges accepted calls at most once, with     *)
(* exactly their units, however often identifiers are submitted again.     *)
(***************************************************************************)
ImplementsUsageLedger == Promise!LedgerSpec

==============================================================================
