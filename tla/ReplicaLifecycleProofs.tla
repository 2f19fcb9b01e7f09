------------------------ MODULE ReplicaLifecycleProofs ------------------------
(***************************************************************************)
(* Proofs about the metered export (MeteredExport) and about the sidecar   *)
(* process that runs it (ReplicaLifecycle), for any buckets, prices,       *)
(* flushers, sinks, connections, capacities and numbers of calls.          *)
(*                                                                         *)
(* First, the composition of pipeline and metered exporter.  Every step of *)
(* it is a step of the pipeline or leaves that as it is, so that what      *)
(* BillingPipelineProofs proves of the pipeline holds of the composition.  *)
(* One of these facts, that a batch is a set of aggregates, is what the    *)
(* lemmas of MeterEventExporterProofs ask of the batches a caller hands    *)
(* over; with it they carry over as well.  What only the two together can  *)
(* promise comes last: the invoice of UsageLedger, and that no dead letter *)
(* disappears uncounted.                                                   *)
(*                                                                         *)
(* Second, the process, from "The control plane's client" on.  It bills    *)
(* through a metered exporter whose provider is that client: each of its   *)
(* steps is a step of MeteredExport or leaves that part alone, so that the *)
(* first half holds of the process.  Its own argument is about who is      *)
(* still running at each stage of finish_shutdown().                       *)
(***************************************************************************)
EXTENDS ReplicaLifecycle, BillingPipelineProofs

Lease == INSTANCE MeterEventExporterProofs
           WITH Callers <- Flushers, Batches <- SUBSET Aggregate

LEMMA StepIsPipelines ==
  ASSUME [MeteredNext]_meteredVars PROVE [Next]_vars
<1>1. ASSUME PipelineStep PROVE Next
  BY <1>1 DEF PipelineStep, Next, Flush
<1>2. ASSUME NEW f \in Flushers, ExportStep(f) PROVE [Next]_vars
  BY <1>2 DEF ExportStep, EarlierSinkFails, ExportBegins, ProviderAnswers, ExportSucceeds,
              LaterSinkFails, ExportErrs, Next, Flush
<1>3. ASSUME ApplicationAbandons \/ External PROVE UNCHANGED vars
  BY <1>3 DEF ApplicationAbandons, External
<1>4. CASE UNCHANGED meteredVars
  BY <1>4 DEF meteredVars
<1> QED BY <1>1, <1>2, <1>3, <1>4 DEF MeteredNext

(***************************************************************************)
(* A pipeline that exports through the metered exporter and other sinks is *)
(* a pipeline: whatever the exporter, its provider and the application do, *)
(* flush() sees an export that succeeds or fails (BillingPipeline::flush). *)
(***************************************************************************)
THEOREM ImplementsPipeline == MeteredSpec => Spec
<1>1. MeteredInit => Init
  BY DEF MeteredInit
<1> QED BY <1>1, StepIsPipelines, PTL DEF MeteredSpec, Spec
-------------------------------------------------------------------------------
(***************************************************************************)
(* The metered exporter's own invariants, with the pipeline as its caller. *)
(***************************************************************************)
ExporterInv == Lease!LeaseInv /\ Lease!CompletedWereAnswered

LEMMA SameProperties ==
  /\ Lease!LeaseInv => LeaseProtectsProgress
  /\ Lease!CompletedWereAnswered <=> CompletedWereAnswered
BY DEF Lease!LeaseInv, Lease!LeaseProtectsProgress, LeaseProtectsProgress,
       Exporter!LeaseProtectsProgress, Lease!CompletedWereAnswered, CompletedWereAnswered,
       Exporter!CompletedWereAnswered

\* The exporter's variables and answers, under the two names they go by here.
LEMMA SameVariables == UNCHANGED meterVars => UNCHANGED Lease!meterVars
BY DEF meterVars, Lease!meterVars, Lease!exporterVars, Lease!providerVars, Lease!historyVars

LEMMA SameOutcomes ==
  ASSUME NEW c, NEW outcome, Exporter!Outcomes(c, outcome)
  PROVE  /\ Lease!Ends(c, outcome)
         /\ UNCHANGED ledger
         /\ refused' = refused \cup Lease!Given(c, outcome, "PermanentRejection")
BY DEF Exporter!Outcomes, Exporter!Settle, Exporter!Leave, Exporter!Given, Exporter!Idle,
       Lease!Ends, Lease!Leave, Lease!Given, Lease!Idle

LEMMA ExportInv ==
  ASSUME ExporterInv, NEW c \in Flushers, NEW outcome,
         Exporter!Truthful(c, outcome), Exporter!Outcomes(c, outcome)
  PROVE  ExporterInv'
<1>1. Lease!Truthful(c, outcome)
  BY DEF Exporter!Truthful, Exporter!Given, Lease!Truthful, Lease!Given
<1> QED BY <1>1, SameOutcomes, Lease!OutcomesLease, Lease!OutcomesAnswered DEF ExporterInv

\* The other steps are steps of the exporter alone.
LEMMA OtherInv ==
  ASSUME ExporterInv, [Lease!MeterNext]_(Lease!meterVars)
  PROVE  ExporterInv'
BY Lease!NextLease, Lease!NextAnswered DEF ExporterInv

LEMMA StepInv ==
  ASSUME TypeOK, ExporterInv, [MeteredNext]_meteredVars
  PROVE  ExporterInv'
<1>1. ASSUME UNCHANGED meterVars PROVE ExporterInv'
  BY <1>1, SameVariables, OtherInv
<1>2. ASSUME NEW f \in Flushers, ExportBegins(f) PROVE ExporterInv'
  <2>1. batch[f] \in SUBSET Aggregate
    BY <1>2 DEF TypeOK
  <2>2. Lease!BeginRefused(f, batch[f]) \/ Lease!Begin(f, batch[f])
    BY <1>2 DEF ExportBegins, Exporter!BeginRefused, Lease!BeginRefused, Exporter!Begin,
                Lease!Begin, Exporter!Progress, Lease!Progress, Exporter!Idle, Lease!Idle,
                Exporter!providerVars, Lease!providerVars, Exporter!historyVars, Lease!historyVars
  <2> QED BY <2>1, <2>2, OtherInv DEF Lease!MeterNext
<1>3. ASSUME NEW f \in Flushers, ProviderAnswers(f) PROVE ExporterInv'
  <2>1. CASE Exporter!NoOutcomes(f)
    <3>1. Lease!NoOutcomes(f)
      BY <2>1 DEF Exporter!NoOutcomes, Lease!NoOutcomes, Exporter!Leave, Lease!Leave,
                  Exporter!providerVars, Lease!providerVars, Exporter!historyVars, Lease!historyVars
    <3> QED BY <3>1, OtherInv DEF Lease!MeterNext, Lease!Answer
  <2> QED BY <1>3, <2>1, ExportInv DEF ProviderAnswers, Exporter!Answer
<1>4. ASSUME NEW f \in Flushers, ExportSucceeds(f) \/ LaterSinkFails(f) \/ ExportErrs(f)
      PROVE  ExporterInv'
  <2>1. Lease!Return(f)
    BY <1>4 DEF ExportSucceeds, LaterSinkFails, ExportErrs, Exporter!Return, Lease!Return,
                Exporter!providerVars, Lease!providerVars, Exporter!historyVars, Lease!historyVars
  <2> QED BY <2>1, OtherInv DEF Lease!MeterNext
<1>5. CASE ApplicationAbandons
  <2>1. Lease!Abandon
    BY <1>5 DEF ApplicationAbandons, Exporter!Abandon, Lease!Abandon, Exporter!Idle, Lease!Idle,
                Exporter!providerVars, Lease!providerVars, Exporter!historyVars, Lease!historyVars
  <2> QED BY <2>1, OtherInv DEF Lease!MeterNext
<1>6. CASE External
  <2>1. /\ UNCHANGED <<retry_progress, exporting, stage, unresolved>>
        /\ ledger \cup refused \subseteq ledger' \cup refused'
    BY <1>6 DEF External, Exporter!MeterExternal, Exporter!ProviderApplies, Exporter!exporterVars,
                Exporter!ProviderRevokes, Exporter!QuarantineAsync, Exporter!TakeDeadLetters,
                Exporter!providerVars
  <2>2. Lease!LeaseInv'
    BY <2>1, Lease!UnchangedLease DEF ExporterInv
  <2> QED BY <2>1, <2>2 DEF ExporterInv, Lease!CompletedWereAnswered
<1>7. CASE PipelineStep \/ UNCHANGED meteredVars
  BY <1>1, <1>7 DEF PipelineStep, meteredVars
<1>8. ASSUME NEW f \in Flushers, EarlierSinkFails(f) PROVE ExporterInv'
  BY <1>1, <1>8 DEF EarlierSinkFails
<1> QED BY <1>2, <1>3, <1>4, <1>5, <1>6, <1>7, <1>8 DEF MeteredNext, ExportStep

LEMMA InitInv == MeteredInit => ExporterInv
<1>1. MeteredInit => Lease!MeterInit
  BY DEF MeteredInit, Exporter!MeterInit, Lease!MeterInit, Exporter!Idle, Lease!Idle,
         Exporter!NoDeadLetters, Lease!NoDeadLetters
<1> QED BY <1>1, Lease!InitLease, Lease!InitAnswered DEF ExporterInv

LEMMA ExporterAlways == MeteredSpec => []ExporterInv
<1>1. MeteredSpec => []TypeOK
  BY ImplementsPipeline, TypeCorrect, PTL
<1>2. TypeOK /\ ExporterInv /\ [MeteredNext]_meteredVars => ExporterInv'
  BY StepInv
<1> QED BY <1>1, <1>2, InitInv, PTL DEF MeteredSpec

(***************************************************************************)
(* Whoever awaits outcomes holds the lease alone, and the progress they    *)
(* will be written into is its own batch's, although the application may   *)
(* abandon progress and another flush may start at any time                *)
(* (begin_export, abandon_retry_progress).                                 *)
(***************************************************************************)
THEOREM ProgressStaysProtected == MeteredSpec => []LeaseProtectsProgress
<1>1. ExporterInv => LeaseProtectsProgress
  BY SameProperties DEF ExporterInv
<1> QED BY <1>1, ExporterAlways, PTL

(***************************************************************************)
(* A retry skips only aggregates the provider applied or rejected, however *)
(* the export before it ended (apply_outcomes, mark_completed_locked).     *)
(***************************************************************************)
THEOREM RetriesSkipTheAnswered == MeteredSpec => []CompletedWereAnswered
<1>1. ExporterInv => CompletedWereAnswered
  BY SameProperties DEF ExporterInv
<1> QED BY <1>1, ExporterAlways, PTL
-------------------------------------------------------------------------------
(***************************************************************************)
(* What flush() may commit.  An export that reports success has answered   *)
(* its whole batch: the progress it completes is that of its own batch,    *)
(* and the batch stays in the flusher's hands until the result is taken.   *)
(***************************************************************************)
Settled(aggregates) == aggregates \subseteq ledger \cup refused

CommitInv ==
  /\ \A f \in Flushers : stage[f] # "idle" => pc[f] = "export"
  /\ \A f \in Flushers : stage[f] = "awaiting" => retry_progress.batch = batch[f]
  /\ \A f \in Flushers : stage[f] = "ok" => Settled(batch[f])
  /\ Settled(exported)

\* Flushing elsewhere, or not at all, keeps it.
LEMMA UnmovedCommit ==
  ASSUME TypeOK, CommitInv, UNCHANGED <<stage, retry_progress, exported>>,
         ledger \cup refused \subseteq ledger' \cup refused',
         \A f \in Flushers : pc[f] = "export" /\ stage[f] # "idle" =>
           pc'[f] = "export" /\ batch'[f] = batch[f]
  PROVE  CommitInv'
BY DEF CommitInv, Settled

LEMMA PipelineCommit ==
  ASSUME TypeOK, CommitInv, PipelineStep \/ \E f \in Flushers : EarlierSinkFails(f)
  PROVE  CommitInv'
<1>1. UNCHANGED meterVars
  BY DEF PipelineStep, EarlierSinkFails
<1>2. exported' = exported
  BY DEF PipelineStep, RecordCall, Record, AddUnits, StartFlush, PrepareRetry, PrepareFresh, Restore,
         Release, EarlierSinkFails, ExportFails, ghostVars
<1>3. ASSUME NEW f \in Flushers, pc[f] = "export", stage[f] # "idle"
      PROVE  pc'[f] = "export" /\ batch'[f] = batch[f]
  BY <1>3 DEF TypeOK, PipelineStep, RecordCall, Record, StartFlush, PrepareRetry, PrepareFresh,
              Restore, Release, EarlierSinkFails, ExportFails, flushVars
<1> QED BY <1>1, <1>2, <1>3, UnmovedCommit DEF meterVars

LEMMA BeginCommit ==
  ASSUME TypeOK, ExporterInv, CommitInv, NEW f \in Flushers, ExportBegins(f)
  PROVE  CommitInv'
<1>1. /\ UNCHANGED <<pc, batch, exported, ledger, refused>>
      /\ stage \in [Flushers -> Lease!Stages]
  BY DEF ExportBegins, Exporter!BeginRefused, Exporter!Begin, Exporter!providerVars, vars,
         flushVars, ghostVars, ExporterInv, Lease!LeaseInv, Lease!Shape
<1>2. CASE Exporter!BeginRefused(f, batch[f])
  BY <1>1, <1>2 DEF ExportBegins, Exporter!BeginRefused, CommitInv, Settled
<1>3. CASE Exporter!Begin(f, batch[f])
  <2> DEFINE progress == Exporter!Progress(batch[f])
             rest == batch[f] \ progress.completed
  <2>1. \A g \in Flushers : stage[g] # "awaiting"
    BY <1>3, SameProperties DEF Exporter!Begin, ExporterInv, LeaseProtectsProgress,
                                Exporter!LeaseProtectsProgress
  <2>2. progress.batch = batch[f] /\ Settled(progress.completed)
    BY <1>3, SameProperties DEF Exporter!Begin, Exporter!Progress, ExporterInv, Settled,
                                CompletedWereAnswered, Exporter!CompletedWereAnswered
  <2>3. CASE rest = {}
    <3>1. /\ retry_progress' = Exporter!Idle
          /\ stage' = [stage EXCEPT ![f] = "ok"]
      BY <1>3, <2>3 DEF Exporter!Begin
    <3>2. Settled(batch[f])
      BY <2>2, <2>3 DEF Settled
    <3> QED BY <1>1, <2>1, <3>1, <3>2 DEF ExportBegins, CommitInv, Settled
  <2>4. CASE rest # {}
    <3>1. /\ retry_progress' = progress
          /\ stage' = [stage EXCEPT ![f] = "awaiting"]
      BY <1>3, <2>4 DEF Exporter!Begin
    <3> QED BY <1>1, <2>1, <2>2, <3>1 DEF ExportBegins, CommitInv, Settled
  <2> QED BY <2>3, <2>4
<1> QED BY <1>2, <1>3 DEF ExportBegins

LEMMA AnswerCommit ==
  ASSUME TypeOK, ExporterInv, CommitInv, NEW f \in Flushers, ProviderAnswers(f)
  PROVE  CommitInv'
<1>1. /\ UNCHANGED <<pc, batch, exported>>
      /\ stage \in [Flushers -> Lease!Stages]
  BY DEF ProviderAnswers, vars, flushVars, ghostVars, ExporterInv, Lease!LeaseInv, Lease!Shape
<1>2. /\ stage[f] = "awaiting" /\ \A g \in Flushers \ {f} : stage[g] # "awaiting"
      /\ unresolved[f] = batch[f] \ retry_progress.completed
      /\ Settled(retry_progress.completed)
  BY SameProperties DEF ProviderAnswers, Exporter!Answer, Exporter!Outcomes, Exporter!NoOutcomes,
     ExporterInv, LeaseProtectsProgress, Exporter!LeaseProtectsProgress, CompletedWereAnswered,
     Exporter!CompletedWereAnswered, CommitInv, Settled
<1>3. CASE Exporter!NoOutcomes(f)
  BY <1>1, <1>2, <1>3 DEF Exporter!NoOutcomes, Exporter!Leave, Exporter!providerVars, CommitInv, Settled
<1>4. ASSUME NEW outcome \in [unresolved[f] -> Exporter!OutcomeKinds],
             Exporter!Truthful(f, outcome), Exporter!Outcomes(f, outcome)
      PROVE  CommitInv'
  <2>1. ledger' = ledger /\ refused' = refused \cup Exporter!Given(f, outcome, "PermanentRejection")
    BY <1>4 DEF Exporter!Outcomes, Exporter!Settle
  <2>2. CASE Exporter!Given(f, outcome, "RetryableFailure") = {}
    <3>1. stage' = [stage EXCEPT ![f] = "ok"]
      BY <1>4, <2>2 DEF Exporter!Outcomes, Exporter!Leave
    <3>2. unresolved[f] = Exporter!Given(f, outcome, "Accepted")
                            \cup Exporter!Given(f, outcome, "PermanentRejection")
      BY <1>4, <2>2 DEF Exporter!OutcomeKinds, Exporter!Given
    <3>3. batch[f] \subseteq ledger' \cup refused'
      BY <1>2, <1>4, <2>1, <3>2 DEF Exporter!Truthful, Settled
    <3> QED BY <1>1, <1>2, <2>1, <3>1, <3>3 DEF CommitInv, Settled
  <2>3. CASE Exporter!Given(f, outcome, "RetryableFailure") # {}
    <3>1. stage' = [stage EXCEPT ![f] = "err"]
      BY <1>4, <2>3 DEF Exporter!Outcomes, Exporter!Leave
    <3> QED BY <1>1, <1>2, <2>1, <3>1 DEF CommitInv, Settled
  <2> QED BY <2>2, <2>3
<1> QED BY <1>3, <1>4 DEF ProviderAnswers, Exporter!Answer

LEMMA ReturnCommit ==
  ASSUME TypeOK, ExporterInv, CommitInv, NEW f \in Flushers,
         ExportSucceeds(f) \/ LaterSinkFails(f) \/ ExportErrs(f)
  PROVE  CommitInv'
<1>1. /\ stage' = [stage EXCEPT ![f] = "idle"]
      /\ UNCHANGED <<retry_progress, ledger, refused>>
      /\ stage \in [Flushers -> Lease!Stages]
  BY DEF ExportSucceeds, LaterSinkFails, ExportErrs, Exporter!Return, Exporter!providerVars,
         ExporterInv, Lease!LeaseInv, Lease!Shape
<1>2. \A g \in Flushers \ {f} : pc'[g] = pc[g] /\ batch'[g] = batch[g]
  BY DEF TypeOK, ExportSucceeds, ExportOk, LaterSinkFails, ExportErrs, ExportFails
<1>3. exported' = exported \/ (exported' = exported \cup batch[f] /\ stage[f] = "ok")
  BY DEF ExportSucceeds, ExportOk, LaterSinkFails, ExportErrs, ExportFails, ghostVars
<1> QED BY <1>1, <1>2, <1>3 DEF CommitInv, Settled

LEMMA CommitStep ==
  ASSUME TypeOK, ExporterInv, CommitInv, [MeteredNext]_meteredVars
  PROVE  CommitInv'
<1>1. CASE ApplicationAbandons
  <2>1. \A f \in Flushers : stage[f] # "awaiting"
    BY <1>1, SameProperties DEF ApplicationAbandons, Exporter!Abandon, ExporterInv,
       LeaseProtectsProgress, Exporter!LeaseProtectsProgress
  <2> QED BY <1>1, <2>1 DEF ApplicationAbandons, Exporter!Abandon, Exporter!providerVars, vars,
             flushVars, ghostVars, CommitInv, Settled
<1>2. CASE External
  <2>1. /\ UNCHANGED <<stage, retry_progress, vars>>
        /\ ledger \cup refused \subseteq ledger' \cup refused'
    BY <1>2 DEF External, Exporter!MeterExternal, Exporter!ProviderApplies, Exporter!exporterVars,
                Exporter!ProviderRevokes, Exporter!QuarantineAsync, Exporter!TakeDeadLetters,
                Exporter!providerVars
  <2> QED BY <2>1, UnmovedCommit DEF vars, flushVars, ghostVars
<1>3. CASE UNCHANGED meteredVars
  BY <1>3, UnmovedCommit DEF meteredVars, meterVars, vars, flushVars, ghostVars
<1> QED BY <1>1, <1>2, <1>3, PipelineCommit, BeginCommit, AnswerCommit, ReturnCommit
        DEF MeteredNext, ExportStep

LEMMA CommitAlways == MeteredSpec => []CommitInv
<1>1. MeteredInit => CommitInv
  BY DEF MeteredInit, Init, Exporter!MeterInit, CommitInv, Settled
<1>2. MeteredSpec => []TypeOK
  BY ImplementsPipeline, TypeCorrect, PTL
<1>3. TypeOK /\ ExporterInv /\ CommitInv /\ [MeteredNext]_meteredVars => CommitInv'
  BY CommitStep
<1> QED BY <1>1, <1>2, <1>3, ExporterAlways, PTL DEF MeteredSpec

(***************************************************************************)
(* flush() commits a batch only when the provider has applied or rejected  *)
(* each of its aggregates, whatever failed, was cancelled or was abandoned *)
(* before (apply_outcomes, commit_export, RetryGuard::commit).             *)
(***************************************************************************)
THEOREM CommittedWereAnswered == MeteredSpec => []Settled(exported)
<1>1. CommitInv => Settled(exported)
  BY DEF CommitInv
<1> QED BY <1>1, CommitAlways, PTL
-------------------------------------------------------------------------------
(***************************************************************************)
(* What is not submitted again.  Without other sinks and without an        *)
(* application that abandons progress, an aggregate with a final outcome   *)
(* is exported, remembered as completed, or in the hands of a flusher that *)
(* is about to commit it; a flusher that awaits outcomes is alone, and     *)
(* has left out the completed.                                             *)
(***************************************************************************)
Unshared == Sinks = {} /\ MaxAbandons = 0

Committing == UNION {batch[f] : f \in {g \in Flushers : stage[g] = "ok"}}

ResolvedInv ==
  /\ retry_progress.completed \subseteq retry_progress.batch
  /\ ~retry_progress.active => retry_progress.completed = {}
  /\ resolved \subseteq exported \cup retry_progress.completed \cup Committing
  /\ \A f \in Flushers : stage[f] # "awaiting" => unresolved[f] = {}
  /\ abandons = 0

\* A step that takes no result and gives no outcome keeps it.
LEMMA UnmovedResolved ==
  ASSUME ResolvedInv, UNCHANGED <<retry_progress, resolved, stage, unresolved, exported, abandons>>,
         \A f \in Flushers : stage[f] # "idle" => batch'[f] = batch[f]
  PROVE  ResolvedInv'
BY DEF ResolvedInv, Committing

LEMMA BeginResolved ==
  ASSUME CommitInv, ExporterInv, ResolvedInv, NEW f \in Flushers, ExportBegins(f)
  PROVE  ResolvedInv'
<1>1. /\ UNCHANGED <<batch, exported, abandons, resolved>>
      /\ stage \in [Flushers -> Lease!Stages]
      /\ unresolved \in [Flushers -> SUBSET Lease!Aggregates]
      /\ \A g \in Flushers \ {f} : stage'[g] = stage[g] /\ unresolved'[g] = unresolved[g]
      /\ stage[f] = "idle"
  BY DEF ExportBegins, Exporter!BeginRefused, Exporter!Begin, Exporter!historyVars, vars,
         flushVars, ghostVars, ExporterInv, Lease!LeaseInv, Lease!Shape
<1>2. Committing \subseteq Committing'
  BY <1>1 DEF Committing
<1>3. CASE Exporter!BeginRefused(f, batch[f])
  BY <1>1, <1>2, <1>3 DEF Exporter!BeginRefused, ResolvedInv
<1>4. CASE Exporter!Begin(f, batch[f])
  <2> DEFINE progress == Exporter!Progress(batch[f])
             rest == batch[f] \ progress.completed
  <2>1. /\ progress.completed = retry_progress.completed
        /\ progress.completed \subseteq progress.batch /\ progress.batch = batch[f]
        /\ progress.active
    BY <1>4 DEF Exporter!Begin, Exporter!Progress, ResolvedInv
  <2>2. CASE rest = {}
    <3>1. retry_progress' = Exporter!Idle /\ stage'[f] = "ok" /\ unresolved'[f] = unresolved[f]
      BY <1>1, <1>4, <2>2 DEF Exporter!Begin
    <3>2. batch[f] \subseteq Committing'
      BY <1>1, <3>1 DEF Committing
    <3> QED BY <1>1, <1>2, <2>1, <3>1, <3>2 DEF ResolvedInv, Exporter!Idle
  <2>3. CASE rest # {}
    <3>1. retry_progress' = progress /\ stage'[f] = "awaiting"
      BY <1>1, <1>4, <2>3 DEF Exporter!Begin
    <3> QED BY <1>1, <1>2, <2>1, <3>1 DEF ResolvedInv
  <2> QED BY <2>2, <2>3
<1> QED BY <1>3, <1>4 DEF ExportBegins

LEMMA AnswerResolved ==
  ASSUME CommitInv, ExporterInv, ResolvedInv, NEW f \in Flushers, ProviderAnswers(f)
  PROVE  ResolvedInv'
<1>1. /\ UNCHANGED <<batch, exported, abandons>>
      /\ stage \in [Flushers -> Lease!Stages]
      /\ unresolved \in [Flushers -> SUBSET Lease!Aggregates]
      /\ \A g \in Flushers \ {f} : stage'[g] = stage[g] /\ unresolved'[g] = unresolved[g]
      /\ stage[f] = "awaiting"
  BY DEF ProviderAnswers, Exporter!Answer, Exporter!Outcomes, Exporter!NoOutcomes, Exporter!Leave,
         vars, flushVars, ghostVars, ExporterInv, Lease!LeaseInv, Lease!Shape
<1>2. Committing \subseteq Committing'
  BY <1>1 DEF Committing
<1>3. /\ retry_progress.batch = batch[f] /\ retry_progress.active
      /\ unresolved[f] = batch[f] \ retry_progress.completed
      /\ retry_progress \in [active : BOOLEAN, batch : SUBSET Lease!Aggregates,
                             completed : SUBSET Lease!Aggregates]
  BY <1>1, SameProperties DEF CommitInv, ExporterInv, Lease!LeaseInv, Lease!Shape,
     LeaseProtectsProgress, Exporter!LeaseProtectsProgress
<1>4. CASE Exporter!NoOutcomes(f)
  BY <1>1, <1>2, <1>4 DEF Exporter!NoOutcomes, Exporter!Leave, Exporter!historyVars, ResolvedInv
<1>5. ASSUME NEW outcome \in [unresolved[f] -> Exporter!OutcomeKinds],
             Exporter!Outcomes(f, outcome)
      PROVE  ResolvedInv'
  <2> DEFINE final == Exporter!Given(f, outcome, "Accepted")
                        \cup Exporter!Given(f, outcome, "PermanentRejection")
  <2>1. /\ resolved' = resolved \cup final /\ final \subseteq batch[f]
        /\ unresolved'[f] = {}
    BY <1>1, <1>3, <1>5 DEF Exporter!Outcomes, Exporter!Settle, Exporter!Given, Exporter!Leave
  <2>2. CASE Exporter!Given(f, outcome, "RetryableFailure") = {}
    <3>1. retry_progress' = Exporter!Idle /\ stage'[f] = "ok"
      BY <1>1, <1>5, <2>2 DEF Exporter!Outcomes, Exporter!Leave
    <3>2. batch[f] \subseteq Committing'
      BY <1>1, <3>1 DEF Committing
    <3> QED BY <1>1, <1>2, <1>3, <2>1, <3>1, <3>2 DEF ResolvedInv, Exporter!Idle
  <2>3. CASE Exporter!Given(f, outcome, "RetryableFailure") # {}
    <3>1. retry_progress' =
            [retry_progress EXCEPT !.completed = retry_progress.completed \cup final]
      BY <1>5, <2>3 DEF Exporter!Outcomes
    <3> QED BY <1>1, <1>2, <1>3, <2>1, <3>1 DEF ResolvedInv
  <2> QED BY <2>2, <2>3
<1> QED BY <1>4, <1>5 DEF ProviderAnswers, Exporter!Answer

LEMMA ResolvedStep ==
  ASSUME Unshared, TypeOK, CommitInv, ExporterInv, ResolvedInv, [MeteredNext]_meteredVars
  PROVE  ResolvedInv'
<1>1. CASE PipelineStep
  <2>1. UNCHANGED <<meterVars, abandons, exported>>
    BY <1>1 DEF PipelineStep, RecordCall, Record, AddUnits, StartFlush, PrepareRetry, PrepareFresh,
                Restore, Release, ghostVars
  <2>2. ASSUME NEW f \in Flushers, stage[f] # "idle" PROVE batch'[f] = batch[f]
    BY <1>1, <2>2 DEF CommitInv, TypeOK, PipelineStep, RecordCall, Record, StartFlush, PrepareRetry,
                      PrepareFresh, Restore, Release, flushVars
  <2> QED BY <2>1, <2>2, UnmovedResolved DEF meterVars
<1>2. ASSUME NEW f \in Flushers, ExportSucceeds(f) \/ ExportErrs(f) PROVE ResolvedInv'
  <2>1. /\ \A g \in Flushers \ {f} : stage'[g] = stage[g] /\ batch'[g] = batch[g]
        /\ UNCHANGED <<retry_progress, resolved, unresolved, abandons>>
        /\ stage[f] # "awaiting"
    BY <1>2 DEF ExportSucceeds, ExportErrs, Exporter!Return, Exporter!historyVars, ExportOk,
                ExportFails, TypeOK, ExporterInv, Lease!LeaseInv, Lease!Shape
  <2>2. exported \subseteq exported' /\ (stage[f] = "ok" => batch[f] \subseteq exported')
    BY <1>2 DEF ExportSucceeds, ExportErrs, ExportOk, ExportFails, ghostVars
  <2>3. Committing \subseteq Committing' \cup exported'
    BY <2>1, <2>2 DEF Committing
  <2> QED BY <2>1, <2>2, <2>3 DEF ResolvedInv
<1>3. CASE External \/ UNCHANGED meteredVars
  BY <1>3, UnmovedResolved
     DEF External, Exporter!MeterExternal, Exporter!ProviderApplies, Exporter!ProviderRevokes,
         Exporter!QuarantineAsync, Exporter!TakeDeadLetters, Exporter!exporterVars,
         Exporter!historyVars, meteredVars, meterVars, vars, flushVars, ghostVars
<1>4. ~ApplicationAbandons /\ \A f \in Flushers : ~EarlierSinkFails(f) /\ ~LaterSinkFails(f)
  BY DEF Unshared, ResolvedInv, ApplicationAbandons, EarlierSinkFails, LaterSinkFails
<1> QED BY <1>1, <1>2, <1>3, <1>4, BeginResolved, AnswerResolved DEF MeteredNext, ExportStep

\* Who awaits outcomes has left out the completed, and is nobody who commits.
LEMMA ResolvedApart ==
  OneOwner /\ EveryCallHasOnePlace /\ CommitInv /\ ExporterInv /\ ResolvedInv
    => ResolvedNotResubmitted
<1> SUFFICES ASSUME OneOwner, EveryCallHasOnePlace, CommitInv, ExporterInv, ResolvedInv,
                    NEW f \in Flushers, NEW a \in unresolved[f], a \in resolved
             PROVE  FALSE
  BY DEF ResolvedNotResubmitted
<1>1. stage[f] = "awaiting" /\ a \in batch[f] /\ a \notin retry_progress.completed
  BY SameProperties DEF CommitInv, ResolvedInv, ExporterInv, LeaseProtectsProgress,
     Exporter!LeaseProtectsProgress
<1>2. a \notin exported
  BY <1>1 DEF EveryCallHasOnePlace, InFlight
<1>3. a \notin Committing
  BY <1>1 DEF Committing, CommitInv, OneOwner
<1> QED BY <1>1, <1>2, <1>3 DEF ResolvedInv

(***************************************************************************)
(* "Accepted and permanently rejected events are not resubmitted", for an  *)
(* exporter that is its pipeline's only sink and whose progress nobody     *)
(* abandons (unresolved, mark_completed_locked, begin_export).             *)
(***************************************************************************)
THEOREM ResolvedAreNotResubmitted ==
  Unshared => (MeteredSpec => []ResolvedNotResubmitted)
<1> SUFFICES ASSUME Unshared PROVE MeteredSpec => []ResolvedNotResubmitted
  OBVIOUS
<1>1. MeteredInit => ResolvedInv
  BY DEF MeteredInit, Exporter!MeterInit, Exporter!Idle, ResolvedInv
<1>2. MeteredSpec => []TypeOK
  BY ImplementsPipeline, TypeCorrect, PTL
<1>3. TypeOK /\ CommitInv /\ ExporterInv /\ ResolvedInv /\ [MeteredNext]_meteredVars => ResolvedInv'
  BY ResolvedStep
<1>4. MeteredSpec => []EveryCallHasOnePlace /\ []OneOwner
  BY ImplementsPipeline, NoCallLostOrDoubled, SingleOwner, PTL
<1> QED BY <1>1, <1>2, <1>3, <1>4, CommitAlways, ExporterAlways, ResolvedApart, PTL DEF MeteredSpec
-------------------------------------------------------------------------------
(***************************************************************************)
(* The customer's invoice.  What reaches the provider was offered by the   *)
(* pipeline; what it has applied it has not refused, and it is finitely    *)
(* many.  Since two offered aggregates have no call in common and each has *)
(* the units of its calls, applying one charges calls nobody was charged   *)
(* for before, with exactly their units.                                   *)
(***************************************************************************)
LedgerInv ==
  /\ wire \subseteq offered
  /\ ledger \subseteq wire /\ refused \subseteq wire
  /\ \A f \in Flushers : unresolved[f] \subseteq wire
  /\ ledger \cap refused = {}
  /\ IsFiniteSet(ledger)

\* The pipeline only adds to what was offered.
LEMMA OfferedGrows ==
  ASSUME [Next]_vars
  PROVE  offered \subseteq offered'
BY DEF Next, RecordCall, Flush, Record, StartFlush, PrepareRetry, PrepareFresh, ExportOk,
       ExportFails, Restore, Release, vars, ghostVars

\* An export submits aggregates of its batch, which were offered.
LEMMA LedgerBegin ==
  ASSUME PlaceInv, ExporterInv, LedgerInv, NEW f \in Flushers, ExportBegins(f)
  PROVE  LedgerInv'
<1>1. /\ UNCHANGED <<ledger, refused, offered>>
      /\ unresolved \in [Flushers -> SUBSET Lease!Aggregates]
  BY DEF ExportBegins, Exporter!BeginRefused, Exporter!Begin, Exporter!providerVars, vars,
         ghostVars, ExporterInv, Lease!LeaseInv, Lease!Shape
<1>2. batch[f] \subseteq offered
  BY DEF PlaceInv, Located, InFlight
<1>3. CASE Exporter!BeginRefused(f, batch[f])
  BY <1>1, <1>3 DEF Exporter!BeginRefused, Exporter!providerVars, LedgerInv
<1>4. CASE Exporter!Begin(f, batch[f])
  <2> DEFINE rest == batch[f] \ Exporter!Progress(batch[f]).completed
  <2>1. CASE rest = {}
    BY <1>1, <1>4, <2>1 DEF Exporter!Begin, LedgerInv
  <2>2. CASE rest # {}
    <3>1. wire' = wire \cup rest /\ unresolved' = [unresolved EXCEPT ![f] = rest]
      BY <1>4, <2>2 DEF Exporter!Begin
    <3> QED BY <1>1, <1>2, <3>1 DEF LedgerInv
  <2> QED BY <2>1, <2>2
<1> QED BY <1>3, <1>4 DEF ExportBegins

\* The provider rejects what was submitted and it has not applied.
LEMMA LedgerAnswer ==
  ASSUME ExporterInv, LedgerInv, NEW f \in Flushers, ProviderAnswers(f)
  PROVE  /\ LedgerInv'
         /\ UNCHANGED <<recorded, ledger>>
         /\ refused \subseteq refused'
<1>1. /\ UNCHANGED <<recorded, ledger, wire, offered>>
      /\ unresolved \in [Flushers -> SUBSET Lease!Aggregates]
      /\ unresolved' = [unresolved EXCEPT ![f] = {}]
  BY DEF ProviderAnswers, Exporter!Answer, Exporter!Outcomes, Exporter!NoOutcomes, Exporter!Settle,
         Exporter!Leave, Exporter!providerVars, vars, ghostVars, ExporterInv, Lease!LeaseInv, Lease!Shape
<1>2. CASE Exporter!NoOutcomes(f)
  BY <1>1, <1>2 DEF Exporter!NoOutcomes, Exporter!providerVars, LedgerInv
<1>3. ASSUME NEW outcome, Exporter!Truthful(f, outcome), Exporter!Outcomes(f, outcome)
      PROVE  LedgerInv' /\ refused \subseteq refused'
  <2> DEFINE rejected == Exporter!Given(f, outcome, "PermanentRejection")
  <2>1. refused' = refused \cup rejected
    BY <1>3 DEF Exporter!Outcomes, Exporter!Settle
  <2>2. rejected \subseteq unresolved[f] /\ rejected \cap ledger = {}
    BY <1>3 DEF Exporter!Given, Exporter!Truthful
  <2> QED BY <1>1, <2>1, <2>2 DEF LedgerInv
<1> QED BY <1>1, <1>2, <1>3 DEF ProviderAnswers, Exporter!Answer

LEMMA LedgerApplies ==
  ASSUME LedgerInv, NEW a, Exporter!ProviderApplies(a), UNCHANGED vars
  PROVE  LedgerInv'
<1>1. /\ a \in wire \ refused
      /\ ledger' = ledger \cup {a}
      /\ UNCHANGED <<wire, refused, unresolved, offered>>
  BY DEF Exporter!ProviderApplies, Exporter!exporterVars, vars, ghostVars
<1>2. IsFiniteSet(ledger')
  BY <1>1, FS_AddElement DEF LedgerInv
<1> QED BY <1>1, <1>2 DEF LedgerInv

LEMMA LedgerRevokes ==
  ASSUME LedgerInv, NEW a, Exporter!ProviderRevokes(a), UNCHANGED vars
  PROVE  LedgerInv'
<1>1. /\ a \in ledger
      /\ ledger' = ledger \ {a} /\ refused' = refused \cup {a}
      /\ UNCHANGED <<wire, unresolved, offered>>
  BY DEF Exporter!ProviderRevokes, Exporter!exporterVars, vars, ghostVars
<1>2. IsFiniteSet(ledger')
  BY <1>1, FS_RemoveElement DEF LedgerInv
<1> QED BY <1>1, <1>2 DEF LedgerInv

\* The steps that touch neither what was applied nor what was refused.
LEMMA LedgerKept ==
  ASSUME LedgerInv, [Next]_vars, UNCHANGED <<wire, ledger, refused, unresolved>>
  PROVE  LedgerInv'
BY OfferedGrows DEF LedgerInv

LEMMA LedgerStep ==
  ASSUME PlaceInv, ExporterInv, LedgerInv, [MeteredNext]_meteredVars
  PROVE  LedgerInv'
<1>1. [Next]_vars
  BY StepIsPipelines
<1>2. ASSUME NEW f \in Flushers, ExportStep(f) PROVE LedgerInv'
  <2>1. CASE EarlierSinkFails(f)
    BY <1>1, <2>1, LedgerKept DEF EarlierSinkFails, meterVars
  <2>2. CASE ExportSucceeds(f) \/ LaterSinkFails(f) \/ ExportErrs(f)
    BY <1>1, <2>2, LedgerKept DEF ExportSucceeds, LaterSinkFails, ExportErrs, Exporter!Return,
                                  Exporter!providerVars
  <2> QED BY <1>2, <2>1, <2>2, LedgerBegin, LedgerAnswer DEF ExportStep
<1>3. CASE External
  <2>1. CASE \E a \in revoked : Exporter!QuarantineAsync(a)
    BY <1>1, <2>1, LedgerKept DEF Exporter!QuarantineAsync, Exporter!providerVars
  <2>2. CASE Exporter!TakeDeadLetters
    BY <1>1, <2>2, LedgerKept DEF Exporter!TakeDeadLetters, Exporter!providerVars
  <2> QED BY <1>3, <2>1, <2>2, LedgerApplies, LedgerRevokes DEF External, Exporter!MeterExternal
<1>4. CASE PipelineStep \/ ApplicationAbandons \/ UNCHANGED meteredVars
  BY <1>1, <1>4, LedgerKept DEF PipelineStep, ApplicationAbandons, Exporter!Abandon,
     Exporter!providerVars, meteredVars, meterVars
<1> QED BY <1>2, <1>3, <1>4 DEF MeteredNext

\* What the pipeline knows of the aggregates it offered, for the steps of the invoice.
OfferedInv ==
  /\ \A a \in offered :
       /\ a.bucket \in Buckets
       /\ a.units \in Nat
       /\ a.units = UnitsOf(a.events)
       /\ a.events # {} /\ a.events \subseteq recorded
       /\ \A e \in a.events : e.bucket = a.bucket
  /\ \A a1, a2 \in offered : a1.events \cap a2.events # {} => a1 = a2

LEMMA OfferedAlways == Spec => []OfferedInv
<1>1. TypeOK /\ PlaceInv /\ ExactInv => OfferedInv
  <2> SUFFICES ASSUME TypeOK, PlaceInv, ExactInv PROVE OfferedInv
    OBVIOUS
  <2>1. ASSUME NEW a \in offered
        PROVE  /\ a.bucket \in Buckets /\ a.units \in Nat /\ a.units = UnitsOf(a.events)
               /\ a.events # {} /\ a.events \subseteq recorded
               /\ \A e \in a.events : e.bucket = a.bucket
    <3>1. a.bucket \in Buckets /\ a.units \in Nat
      BY PipelineAssumption DEF TypeOK, Aggregate
    <3>2. a.units > 0 /\ a.units = UnitsOf(a.events) /\ \A e \in a.events : e.bucket = a.bucket
      BY DEF ExactInv, Faithful
    <3>3. a.events \subseteq recorded
      BY DEF PlaceInv, Located, EveryCallHasOnePlace, EventsOf
    <3>4. a.events # {}
      BY <3>1, <3>2, UnitsOfNone
    <3> QED BY <3>1, <3>2, <3>3, <3>4
  <2> QED BY <2>1 DEF OfferedInv, PlaceInv, StableIdentifiers
<1> QED BY <1>1, TypeCorrect, PlaceAlways, ExactAlways, PTL

-------------------------------------------------------------------------------
(***************************************************************************)
(* The refinement of UsageLedger: submissions and failures are stutters,   *)
(* an application is a charge, a rejection waives, a late one refunds.     *)
(***************************************************************************)

\* The sums of the promise are those of the pipeline.
LEMMA SameUnits == ASSUME NEW S PROVE Promise!Units(S) = UnitsOf(S)
BY DEF Promise!Units, Promise!MapThenSumSet, Promise!MapThenFoldSet,
       UnitsOf, MapThenSumSet, MapThenFoldSet

Charges(A, b) == {a \in A : a.bucket = b}

\* An aggregate more changes its own bucket's invoice by its units.
LEMMA InvoiceChanges ==
  ASSUME OfferedInv, NEW A, A \subseteq offered, IsFiniteSet(A),
         NEW a \in offered, a \notin A, NEW b
  PROVE  /\ UnitsOf(Charges(A \cup {a}, b)) =
              IF b = a.bucket THEN UnitsOf(Charges(A, b)) + a.units ELSE UnitsOf(Charges(A, b))
         /\ UnitsOf(Charges(A, b)) \in Nat
<1> DEFINE charges == Charges(A, b)
<1>1. charges \subseteq A /\ a \notin charges
  BY DEF Charges
<1>2. Summable(charges) /\ UnitsOf(charges) \in Nat
  <2>1. IsFiniteSet(charges)
    BY <1>1, FS_Subset
  <2>2. \A x \in charges : x.units \in Nat
    BY <1>1 DEF OfferedInv
  <2>3. Summable(charges)
    BY <2>1, <2>2 DEF Summable
  <2> QED BY <2>3, UnitsOfType
<1>3. a.units \in Nat
  BY DEF OfferedInv
<1>4. CASE b = a.bucket
  <2>1. Charges(A \cup {a}, b) = charges \cup {a}
    BY <1>4 DEF Charges
  <2>2. charges \cap {a} = {}
    BY <1>1
  <2>3. Summable({a}) /\ UnitsOf({a}) = a.units
    BY <1>3, UnitsOfOne
  <2> HIDE DEF charges
  <2>4. UnitsOf(charges \cup {a}) = UnitsOf(charges) + UnitsOf({a})
    BY <1>2, <2>2, <2>3, UnitsOfDisjoint
  <2> QED BY <1>2, <1>4, <2>1, <2>3, <2>4 DEF charges
<1>5. CASE b # a.bucket
  <2>1. Charges(A \cup {a}, b) = charges
    BY <1>5 DEF Charges
  <2> HIDE DEF charges
  <2> QED BY <1>2, <1>5, <2>1 DEF charges
<1> QED BY <1>4, <1>5

\* The calls of one aggregate are those of no other.
LEMMA EventsApart ==
  ASSUME OfferedInv, NEW A \in SUBSET offered, NEW a \in offered, a \notin A
  PROVE  a.events \cap EventsOf(A) = {}
BY DEF OfferedInv, EventsOf

\* What the provider applies appears on the invoice.
LEMMA AppliesCharges ==
  ASSUME OfferedInv, LedgerInv, NEW a, Exporter!ProviderApplies(a), UNCHANGED vars
  PROVE  Promise!Charge
<1>1. /\ a \in offered /\ a \notin refused /\ a \notin ledger
      /\ ledger' = ledger \cup {a}
      /\ UNCHANGED <<refused, recorded>>
  BY DEF Exporter!ProviderApplies, Exporter!exporterVars, LedgerInv, vars, ghostVars
<1>2. ledger \subseteq offered /\ refused \subseteq offered
  BY DEF LedgerInv
<1>3. EventsOf(ledger') = EventsOf(ledger) \cup a.events
  BY <1>1 DEF EventsOf
<1>4. EventsOf(ledger') \ EventsOf(ledger) = a.events
  BY <1>1, <1>2, <1>3, EventsApart
<1>5. /\ a.events # {} /\ a.events \subseteq recorded
      /\ a.bucket \in Buckets /\ \A e \in a.events : e.bucket = a.bucket
      /\ a.units = UnitsOf(a.events)
  BY <1>1 DEF OfferedInv
<1>6. a.events \subseteq recorded \ EventsOf(refused)
  BY <1>1, <1>2, <1>5, EventsApart
<1>7. EventsOf(refused') = EventsOf(refused)
  BY <1>1 DEF EventsOf
<1>8. [b \in Buckets |-> InvoiceOf(b)]' =
        [[b \in Buckets |-> InvoiceOf(b)] EXCEPT ![a.bucket] = @ + Promise!Units(a.events)]
  <2>1. \A b \in Buckets : InvoiceOf(b)' = IF b = a.bucket THEN InvoiceOf(b) + a.units ELSE InvoiceOf(b)
    <3>1. ledger \subseteq offered /\ IsFiniteSet(ledger)
      BY DEF LedgerInv
    <3>2. ASSUME NEW b \in Buckets
          PROVE  InvoiceOf(b)' = IF b = a.bucket THEN InvoiceOf(b) + a.units ELSE InvoiceOf(b)
      <4>1. UnitsOf(Charges(ledger \cup {a}, b)) =
              IF b = a.bucket THEN UnitsOf(Charges(ledger, b)) + a.units
              ELSE UnitsOf(Charges(ledger, b))
        BY <1>1, <3>1, InvoiceChanges
      <4>2. /\ InvoiceOf(b) = UnitsOf(Charges(ledger, b))
            /\ InvoiceOf(b)' = UnitsOf(Charges(ledger \cup {a}, b))
        BY <1>1 DEF InvoiceOf, Charges
      <4> QED BY <4>1, <4>2
    <3> QED BY <3>2
  <2>2. Promise!Units(a.events) = a.units
    BY <1>5, SameUnits
  <2> QED BY <2>1, <2>2
<1>9. EventsOf(ledger)' = EventsOf(ledger') /\ EventsOf(refused)' = EventsOf(refused')
  BY DEF EventsOf
<1> QED BY <1>1, <1>3, <1>4, <1>5, <1>6, <1>7, <1>8, <1>9 DEF Promise!Charge

\* What the provider revokes is taken off the invoice and never charged again.
LEMMA RevokesRefund ==
  ASSUME OfferedInv, LedgerInv, NEW a, Exporter!ProviderRevokes(a), UNCHANGED vars
  PROVE  Promise!Refund
<1>1. /\ a \in ledger /\ a \in offered
      /\ ledger' = ledger \ {a} /\ refused' = refused \cup {a}
      /\ recorded' = recorded
  BY DEF Exporter!ProviderRevokes, LedgerInv, vars, ghostVars
<1>2. ledger' \subseteq offered /\ a \notin ledger' /\ ledger = ledger' \cup {a}
  BY <1>1 DEF LedgerInv
<1>3. EventsOf(ledger) = EventsOf(ledger') \cup a.events
  BY <1>2 DEF EventsOf
<1>4. EventsOf(ledger) \ EventsOf(ledger') = a.events
  BY <1>1, <1>2, <1>3, EventsApart
<1>5. EventsOf(refused') = EventsOf(refused) \cup a.events
  BY <1>1 DEF EventsOf
<1>6. /\ a.events # {} /\ a.bucket \in Buckets /\ \A e \in a.events : e.bucket = a.bucket
      /\ a.units = UnitsOf(a.events) /\ a.units \in Nat
  BY <1>1 DEF OfferedInv
<1>7. [b \in Buckets |-> InvoiceOf(b)]' =
        [[b \in Buckets |-> InvoiceOf(b)] EXCEPT ![a.bucket] = @ - Promise!Units(a.events)]
  <2> DEFINE rest == ledger \ {a}
  <2>1. /\ IsFiniteSet(rest) /\ rest \subseteq offered /\ a \notin rest
        /\ ledger' = rest /\ ledger = rest \cup {a}
    BY <1>1, FS_RemoveElement DEF LedgerInv
  <2> HIDE DEF rest
  <2>2. ASSUME NEW b \in Buckets
        PROVE  /\ InvoiceOf(b)' \in Nat
               /\ InvoiceOf(b) = IF b = a.bucket THEN InvoiceOf(b)' + a.units ELSE InvoiceOf(b)'
    <3>1. /\ UnitsOf(Charges(rest \cup {a}, b)) =
               IF b = a.bucket THEN UnitsOf(Charges(rest, b)) + a.units
               ELSE UnitsOf(Charges(rest, b))
          /\ UnitsOf(Charges(rest, b)) \in Nat
      BY <1>1, <2>1, InvoiceChanges
    <3>2. /\ InvoiceOf(b) = UnitsOf(Charges(rest \cup {a}, b))
          /\ InvoiceOf(b)' = UnitsOf(Charges(rest, b))
      BY <2>1 DEF InvoiceOf, Charges
    <3> QED BY <3>1, <3>2
  <2>3. \A b \in Buckets : InvoiceOf(b)' = IF b = a.bucket THEN InvoiceOf(b) - a.units ELSE InvoiceOf(b)
    BY <1>6, <2>2
  <2>4. Promise!Units(a.events) = a.units
    BY <1>6, SameUnits
  <2> QED BY <2>3, <2>4
<1>8. EventsOf(ledger)' = EventsOf(ledger') /\ EventsOf(refused)' = EventsOf(refused')
  BY DEF EventsOf
<1> QED BY <1>1, <1>3, <1>4, <1>5, <1>6, <1>7, <1>8 DEF Promise!Refund

\* Every step of the composition is a step of the promise, or a stutter.
LEMMA StepIsPromised ==
  ASSUME PlaceInv, CallNumbers, OfferedInv, ExporterInv, LedgerInv, TypeOK,
         [MeteredNext]_meteredVars
  PROVE  [Promise!LedgerNext]_(Promise!ledgerVars)
<1>1. ASSUME UNCHANGED <<recorded, ledger, refused>> PROVE UNCHANGED Promise!ledgerVars
  BY <1>1 DEF Promise!ledgerVars, EventsOf, InvoiceOf
<1>2. CASE PipelineStep
  <2>1. UNCHANGED <<ledger, refused>>
    BY <1>2 DEF PipelineStep, meterVars
  <2>2. CASE RecordCall
    <3>1. PICK e : e.id = calls + 1 /\ recorded' = recorded \cup {e}
      BY <2>2 DEF RecordCall, Record, AddUnits
    <3>2. e \in recorded' \ recorded
      BY <3>1 DEF CallNumbers, TypeOK
    <3>3. Promise!Accept
      BY <2>1, <3>1, <3>2 DEF Promise!Accept, EventsOf, InvoiceOf
    <3> QED BY <3>3 DEF Promise!LedgerNext
  <2>3. CASE ~RecordCall
    <3>1. recorded' = recorded
      BY <1>2, <2>3 DEF PipelineStep, StartFlush, PrepareRetry, PrepareFresh, Restore, Release, ghostVars
    <3> QED BY <1>1, <2>1, <3>1
  <2> QED BY <2>2, <2>3
<1>3. ASSUME NEW f \in Flushers, ExportStep(f)
      PROVE  [Promise!LedgerNext]_(Promise!ledgerVars)
  <2>1. CASE ProviderAnswers(f)
    <3>1. LedgerInv' /\ UNCHANGED <<recorded, ledger>> /\ refused \subseteq refused'
      BY <2>1, LedgerAnswer
    <3>2. EventsOf(refused) \subseteq EventsOf(refused')
      BY <3>1 DEF EventsOf
    <3>3. refused' \subseteq offered /\ refused' \cap ledger = {} /\ ledger \subseteq offered
      BY <2>1, <3>1 DEF LedgerInv, ProviderAnswers, vars, ghostVars
    <3>4. EventsOf(refused') \subseteq recorded \ EventsOf(ledger)
      BY <3>3 DEF OfferedInv, EventsOf
    <3>5. EventsOf(refused)' = EventsOf(refused')
      BY DEF EventsOf
    <3>6. Promise!Waive
      BY <3>1, <3>2, <3>4, <3>5 DEF Promise!Waive, EventsOf, InvoiceOf
    <3> QED BY <3>6 DEF Promise!LedgerNext
  <2>2. CASE ~ProviderAnswers(f)
    <3>1. UNCHANGED <<recorded, ledger, refused>>
      BY <1>3, <2>2 DEF ExportStep, EarlierSinkFails, ExportBegins, ExportSucceeds, LaterSinkFails,
         ExportErrs, ExportFails, ExportOk, Exporter!Begin, Exporter!BeginRefused, Exporter!Return,
         Exporter!providerVars, meterVars, vars, ghostVars
    <3> QED BY <1>1, <3>1
  <2> QED BY <2>1, <2>2
<1>4. CASE External
  <2>1. ASSUME NEW a, Exporter!QuarantineAsync(a) PROVE UNCHANGED Promise!ledgerVars
    BY <1>1, <1>4, <2>1 DEF External, Exporter!QuarantineAsync, Exporter!providerVars, vars, ghostVars
  <2>2. CASE Exporter!TakeDeadLetters
    BY <1>1, <1>4, <2>2 DEF External, Exporter!TakeDeadLetters, Exporter!providerVars, vars, ghostVars
  <2> QED BY <1>4, <2>1, <2>2, AppliesCharges, RevokesRefund
          DEF External, Exporter!MeterExternal, Promise!LedgerNext
<1>5. CASE ApplicationAbandons \/ UNCHANGED meteredVars
  BY <1>1, <1>5 DEF ApplicationAbandons, Exporter!Abandon, Exporter!providerVars, meteredVars,
     meterVars, vars, ghostVars
<1> QED BY <1>2, <1>3, <1>4, <1>5 DEF MeteredNext

LEMMA InitIsPromised == MeteredInit => LedgerInv /\ Promise!LedgerInit
<1> SUFFICES ASSUME MeteredInit PROVE LedgerInv /\ Promise!LedgerInit
  OBVIOUS
<1>1. /\ ledger = {} /\ refused = {} /\ wire = {} /\ recorded = {}
      /\ unresolved = [f \in Flushers |-> {}]
  BY DEF MeteredInit, Init, Exporter!MeterInit
<1>2. LedgerInv
  BY <1>1, FS_EmptySet DEF LedgerInv
<1>3. \A b \in Buckets : InvoiceOf(b) = 0
  BY <1>1, UnitsOfNone DEF InvoiceOf
<1>4. EventsOf(ledger) = {} /\ EventsOf(refused) = {}
  BY <1>1 DEF EventsOf
<1> QED BY <1>1, <1>2, <1>3, <1>4 DEF Promise!LedgerInit

LEMMA LedgerAlways == MeteredSpec => []LedgerInv
<1>1. MeteredSpec => []PlaceInv
  BY ImplementsPipeline, PlaceAlways, PTL
<1>2. PlaceInv /\ ExporterInv /\ LedgerInv /\ [MeteredNext]_meteredVars => LedgerInv'
  BY LedgerStep
<1> QED BY <1>1, <1>2, InitIsPromised, ExporterAlways, PTL DEF MeteredSpec

(***************************************************************************)
(* The customer's invoice charges accepted calls at most once, with        *)
(* exactly their units, and none that was refused for good, however often  *)
(* exports fail, are cancelled or abandoned, and identifiers are submitted *)
(* again (flush, export, apply_outcomes, and a provider that keeps to its  *)
(* contract).                                                              *)
(***************************************************************************)
THEOREM InvoicesAreHonest == MeteredSpec => ImplementsUsageLedger
<1>1. MeteredSpec => []TypeOK /\ []PlaceInv /\ []OfferedInv
  BY ImplementsPipeline, TypeCorrect, PlaceAlways, OfferedAlways, PTL
<1>2. TypeOK /\ PlaceInv /\ OfferedInv /\ ExporterInv /\ LedgerInv
        /\ [MeteredNext]_meteredVars => [Promise!LedgerNext]_(Promise!ledgerVars)
  BY StepIsPromised DEF PlaceInv
<1> QED BY <1>1, <1>2, InitIsPromised, ExporterAlways, LedgerAlways, PTL
        DEF MeteredSpec, ImplementsUsageLedger, Promise!LedgerSpec

-------------------------------------------------------------------------------
(***************************************************************************)
(* Dead letters.  A letter is an aggregate that was offered, and finitely  *)
(* many were; while the queue is sound, quarantining one answer's rejected *)
(* keeps the difference between the letters that entered and those that    *)
(* are queued or dropped, and that difference is what was taken.           *)
(***************************************************************************)
DeadInv ==
  /\ Lease!SoundQueue(dead, Aggregate)
  /\ Lease!Gone(dead) = taken
  /\ taken \in Nat
  /\ revoked \subseteq offered

LEMMA SameQueue ==
  ASSUME NEW q, NEW x
  PROVE  /\ Exporter!Quarantine(q, x) = Lease!Quarantine(q, x)
         /\ Exporter!QuarantineAll(q, x) = Lease!QuarantineAll(q, x)
BY DEF Exporter!Quarantine, Lease!Quarantine, Exporter!Entered, Lease!Entered, Exporter!Known,
       Lease!Known, Exporter!QuarantineAll, Lease!QuarantineAll, Exporter!FoldSet, Lease!FoldSet,
       Exporter!MapThenFoldSet, Lease!MapThenFoldSet

\* Each offered aggregate has a call of its own.
LEMMA OfferedFinite ==
  ASSUME OfferedInv, IsFiniteSet(recorded)
  PROVE  IsFiniteSet(offered)
<1> DEFINE f == [a \in offered |-> CHOOSE e : e \in a.events]
<1>1. ASSUME NEW a \in offered PROVE f[a] \in a.events /\ f[a] \in recorded
  BY DEF OfferedInv
<1>2. ASSUME NEW a \in offered, NEW b \in offered, f[a] = f[b] PROVE a = b
  BY <1>1, <1>2 DEF OfferedInv
<1>3. f \in [offered -> recorded]
  BY <1>1
<1> HIDE DEF f
<1>4. f \in Injection(offered, recorded)
  BY <1>2, <1>3 DEF Injection, IsInjective
<1> QED BY <1>4, FS_Injection

LEMMA DeadStep ==
  ASSUME TypeOK, OfferedInv, ExporterInv, LedgerInv, DeadInv, IsFiniteSet(recorded),
         [MeteredNext]_meteredVars
  PROVE  DeadInv'
<1>1. offered \subseteq offered' /\ offered \subseteq Aggregate
  BY StepIsPipelines, OfferedGrows DEF TypeOK
<1>2. ASSUME UNCHANGED <<dead, taken, revoked>> PROVE DeadInv'
  BY <1>1, <1>2 DEF DeadInv, Lease!SoundQueue, Lease!Gone
<1>3. DeadLetterCapacity \in Nat
  BY MeteredAssumption
<1>4. ASSUME NEW S \in SUBSET offered, IsFiniteSet(S), dead' = Exporter!QuarantineAll(dead, S),
             UNCHANGED <<taken, revoked>>
      PROVE  DeadInv'
  <2>1. dead' = Lease!QuarantineAll(dead, S) /\ S \in SUBSET Aggregate
    BY <1>1, <1>4, SameQueue
  <2>2. /\ Lease!SoundQueue(Lease!QuarantineAll(dead, S), Aggregate)
        /\ Lease!Gone(Lease!QuarantineAll(dead, S)) = Lease!Gone(dead)
    <3>1. Lease!SoundQueue(dead, Aggregate)
      BY DEF DeadInv
    <3>2. S \in SUBSET Aggregate /\ IsFiniteSet(S) /\ DeadLetterCapacity \in Nat
      BY <1>3, <1>4, <2>1
    <3>3. Lease!IsFiniteSet(S)
      BY <3>2 DEF IsFiniteSet, Lease!IsFiniteSet
    <3> QED BY <3>1, <3>2, <3>3, Lease!QuarantineAllSound
  <2>3. Lease!SoundQueue(dead', Aggregate) /\ Lease!Gone(dead') = Lease!Gone(dead)
    BY <2>1, <2>2
  <2> QED BY <1>1, <1>4, <2>3 DEF DeadInv, Lease!SoundQueue, Lease!Gone
<1>5. ASSUME NEW f \in Flushers, ProviderAnswers(f) PROVE DeadInv'
  <2>1. CASE Exporter!NoOutcomes(f)
    BY <1>2, <2>1 DEF Exporter!NoOutcomes, Exporter!providerVars, Exporter!historyVars
  <2>2. ASSUME NEW outcome, Exporter!Outcomes(f, outcome) PROVE DeadInv'
    <3> DEFINE rejected == Exporter!Given(f, outcome, "PermanentRejection")
    <3>1. dead' = Exporter!QuarantineAll(dead, rejected) /\ UNCHANGED <<taken, revoked>>
      BY <2>2 DEF Exporter!Outcomes, Exporter!Settle
    <3>2. rejected \in SUBSET offered
      BY DEF Exporter!Given, LedgerInv
    <3>3. IsFiniteSet(rejected)
      BY <3>2, OfferedFinite, FS_Subset
    <3> QED BY <1>4, <3>1, <3>2, <3>3
  <2> QED BY <1>5, <2>1, <2>2 DEF ProviderAnswers, Exporter!Answer
<1>6. ASSUME NEW a \in revoked, Exporter!QuarantineAsync(a) PROVE DeadInv'
  <2>1. dead' = Lease!Quarantine(dead, a) /\ UNCHANGED <<taken, revoked>> /\ a \in Aggregate
    BY <1>1, <1>6, SameQueue DEF Exporter!QuarantineAsync, Exporter!providerVars, DeadInv
  <2>2. /\ Lease!SoundQueue(Lease!Quarantine(dead, a), Aggregate)
        /\ Lease!Gone(Lease!Quarantine(dead, a)) = Lease!Gone(dead)
    BY <1>3, <2>1, Lease!QuarantineSound DEF DeadInv
  <2>3. Lease!SoundQueue(dead', Aggregate) /\ Lease!Gone(dead') = Lease!Gone(dead)
    BY <2>1, <2>2
  <2> QED BY <1>1, <2>1, <2>3 DEF DeadInv, Lease!SoundQueue, Lease!Gone
<1>7. ASSUME Exporter!TakeDeadLetters PROVE DeadInv'
  <2>1. /\ taken' = taken + Len(dead.letters)
        /\ dead' = [letters |-> <<>>, identifiers |-> {}, dropped |-> dead.dropped,
                    entered |-> dead.entered]
        /\ revoked' = revoked
    BY <1>7 DEF Exporter!TakeDeadLetters, Exporter!providerVars
  <2>2. /\ dead.letters \in Seq(Aggregate) /\ Len(dead.letters) \in Nat
        /\ dead.dropped \in Nat /\ dead.entered \in Nat /\ taken \in Nat
        /\ dead.entered - dead.dropped - Len(dead.letters) = taken
    BY DEF DeadInv, Lease!SoundQueue, Lease!Gone
  <2>3. /\ dead'.letters = <<>> /\ dead'.identifiers = {} /\ dead'.dropped = dead.dropped
        /\ dead'.entered = dead.entered /\ Len(dead'.letters) = 0 /\ DOMAIN dead'.letters = {}
        /\ dead' \in [letters : Seq(Aggregate), identifiers : SUBSET {x.identifier : x \in Aggregate},
                      dropped : Nat, entered : Nat]
    BY <2>1, <2>2
  <2>4. Lease!SoundQueue(dead, Aggregate)'
    BY <1>3, <2>3 DEF Lease!SoundQueue
  <2>5. Lease!Gone(dead)' = taken' /\ taken' \in Nat
    BY <2>1, <2>2, <2>3 DEF Lease!Gone
  <2> QED BY <1>1, <2>1, <2>4, <2>5 DEF DeadInv
<1>8. ASSUME NEW a, Exporter!ProviderRevokes(a) PROVE DeadInv'
  <2>1. a \in offered /\ revoked' = revoked \cup {a} /\ UNCHANGED <<dead, taken>>
    BY <1>8 DEF Exporter!ProviderRevokes, Exporter!exporterVars, Exporter!historyVars, LedgerInv
  <2> QED BY <1>1, <2>1 DEF DeadInv, Lease!SoundQueue, Lease!Gone
<1>9. ASSUME NEW a, Exporter!ProviderApplies(a) PROVE DeadInv'
  BY <1>2, <1>9 DEF Exporter!ProviderApplies, Exporter!exporterVars, Exporter!historyVars
<1>10. ASSUME NEW f \in Flushers, ExportStep(f), ~ProviderAnswers(f) PROVE DeadInv'
  BY <1>2, <1>10 DEF ExportStep, EarlierSinkFails, ExportBegins, ExportSucceeds, LaterSinkFails,
     ExportErrs, Exporter!Begin, Exporter!BeginRefused, Exporter!Return, Exporter!providerVars,
     Exporter!historyVars, meterVars
<1>11. CASE PipelineStep \/ ApplicationAbandons \/ UNCHANGED meteredVars
  BY <1>2, <1>11 DEF PipelineStep, ApplicationAbandons, Exporter!Abandon, Exporter!providerVars,
     Exporter!historyVars, meteredVars, meterVars
<1> QED BY <1>5, <1>6, <1>7, <1>8, <1>9, <1>10, <1>11 DEF MeteredNext, External, Exporter!MeterExternal

LEMMA DeadInit == MeteredInit => DeadInv
<1> SUFFICES ASSUME MeteredInit PROVE DeadInv
  OBVIOUS
<1>1. dead = [letters |-> <<>>, identifiers |-> {}, dropped |-> 0, entered |-> 0] /\ taken = 0 /\ revoked = {}
  BY DEF MeteredInit, Exporter!MeterInit, Exporter!NoDeadLetters
<1>2. /\ dead.letters = <<>> /\ dead.identifiers = {} /\ dead.dropped = 0 /\ dead.entered = 0
      /\ Len(dead.letters) = 0 /\ DOMAIN dead.letters = {}
      /\ dead \in [letters : Seq(Aggregate), identifiers : SUBSET {x.identifier : x \in Aggregate},
                   dropped : Nat, entered : Nat]
  BY <1>1
<1>3. DeadLetterCapacity \in Nat
  BY MeteredAssumption
<1> QED BY <1>1, <1>2, <1>3 DEF DeadInv, Lease!SoundQueue, Lease!Gone

(***************************************************************************)
(* No rejected event disappears silently: each is queued, was taken, or is *)
(* counted as dropped, and the queue's index knows exactly the queued ones *)
(* (quarantine_locked, take_dead_letters, quarantine_async_rejection).     *)
(***************************************************************************)
THEOREM NoDeadLetterIsLostSilently == MeteredSpec => []DeadLettersAccounted
<1>1. DeadInv => DeadLettersAccounted
  BY DEF DeadInv, Lease!SoundQueue, Lease!Gone, DeadLettersAccounted, Exporter!DeadLettersAccounted
<1>2. MeteredSpec => []TypeOK /\ []OfferedInv /\ []IsFiniteSet(recorded)
  <2>1. MemoryInv => IsFiniteSet(recorded)
    BY DEF MemoryInv
  <2> QED BY <2>1, ImplementsPipeline, TypeCorrect, OfferedAlways, ExactAlways, PTL
<1>3. TypeOK /\ OfferedInv /\ ExporterInv /\ LedgerInv /\ DeadInv /\ IsFiniteSet(recorded)
        /\ [MeteredNext]_meteredVars => DeadInv'
  BY DeadStep
<1> QED BY <1>1, <1>2, <1>3, DeadInit, ExporterAlways, LedgerAlways, PTL DEF MeteredSpec
-------------------------------------------------------------------------------
(***************************************************************************)
(* The control plane's client keeps the contract of a MeterEventProvider:  *)
(* whatever the plane acknowledges, in whatever order and however often,   *)
(* the outcomes handed to the exporter are true of the aggregates they     *)
(* stand for (ControlPlaneExporter::submit).                               *)
(***************************************************************************)
THEOREM SubmitsKeepsTheContract ==
  ASSUME NEW f \in Flushers, Submits(f)
  PROVE  ProviderAnswers(f)
<1>1. CASE Exporter!NoOutcomes(f)
  BY <1>1 DEF Submits, ProviderAnswers, Exporter!Answer
<1>2. ASSUME NEW ack \in Acks(f), Honest(f, ack), Aligned(f, ack),
             Exporter!Outcomes(f, Read(f, ack))
      PROVE  ProviderAnswers(f)
  <2>1. \A word : OutcomeOf(word) \in Exporter!OutcomeKinds
    BY DEF OutcomeOf, Exporter!OutcomeKinds
  <2>2. Read(f, ack) \in [unresolved[f] -> Exporter!OutcomeKinds]
    BY <2>1 DEF Read
  <2>3. \A a \in unresolved[f] :
          /\ Read(f, ack)[a] = "Accepted" => ack[a].word = "accepted"
          /\ Read(f, ack)[a] = "PermanentRejection" => ack[a].word = "rejected"
    BY DEF Read, OutcomeOf
  <2>4. Exporter!Truthful(f, Read(f, ack))
    BY <1>2, <2>3 DEF Honest, Aligned, Exporter!Truthful, Exporter!Given
  <2>5. UNCHANGED <<vars, abandons>>
    BY DEF Submits
  <2> QED BY <1>2, <2>2, <2>4, <2>5 DEF ProviderAnswers, Exporter!Answer
<1> QED BY <1>1, <1>2 DEF Submits, PostFails
-------------------------------------------------------------------------------
(***************************************************************************)
(* Charges.  That calls, parked completions, completions in a task's hands *)
(* and what was given up add up to what is owed also keeps the calls below *)
(* the bound of MeteredExport whenever an accounting future records one.   *)
(***************************************************************************)
ChargeInv ==
  /\ parked \in Seq(Buckets) /\ Len(parked) <= DeferredCapacity
  /\ driving \in [Drivers -> Buckets \cup {NoFuture}]
  /\ DeferredCapacity = 0 => Driven = {}
  /\ owed \in Nat /\ failures \in Nat /\ dropped \in Nat
  /\ owed <= MaxEvents
  /\ ChargesAreConserved

\* park(): one future more, unless another one had to go.
LEMMA ParkedLength ==
  ASSUME NEW q \in Seq(Buckets), NEW b \in Buckets, Len(q) <= DeferredCapacity
  PROVE  /\ Parked(q, DeferredCapacity, b) \in Seq(Buckets)
         /\ Len(Parked(q, DeferredCapacity, b)) =
              IF Len(q) >= DeferredCapacity THEN Len(q) ELSE Len(q) + 1
<1>1. CASE DeferredCapacity = 0 \/ Len(q) < DeferredCapacity
  BY <1>1, LifecycleAssumption DEF Parked
<1>2. CASE DeferredCapacity # 0 /\ Len(q) >= DeferredCapacity
  <2>1. q # <<>> /\ Tail(q) \in Seq(Buckets) /\ Len(Tail(q)) = Len(q) - 1
    BY <1>2, LifecycleAssumption
  <2> QED BY <1>2, <2>1 DEF Parked
<1> QED BY <1>1, <1>2, LifecycleAssumption

\* requeue_in_flight(): likewise, at the other end.
LEMMA RequeuedLength ==
  ASSUME NEW q \in Seq(Buckets), NEW b \in Buckets, Len(q) <= DeferredCapacity,
         DeferredCapacity # 0
  PROVE  /\ Requeued(q, DeferredCapacity, b) \in Seq(Buckets)
         /\ Len(Requeued(q, DeferredCapacity, b)) =
              IF Len(q) >= DeferredCapacity THEN Len(q) ELSE Len(q) + 1
<1> DEFINE Kept == IF Len(q) >= DeferredCapacity THEN SubSeq(q, 1, Len(q) - 1) ELSE q
<1>1. /\ Kept \in Seq(Buckets)
      /\ Len(Kept) = IF Len(q) >= DeferredCapacity THEN Len(q) - 1 ELSE Len(q)
  BY LifecycleAssumption
<1>2. Requeued(q, DeferredCapacity, b) = <<b>> \o Kept
  BY DEF Requeued
<1> QED BY <1>1, <1>2

\* There are finitely many tasks to drive a completion.
LEMMA DrivenFinite == IsFiniteSet(Driven) /\ Cardinality(Driven) \in Nat
<1>1. Drivers = (Connections \cup {Loop}) \cup {Final}
  BY LifecycleAssumption DEF Drivers
<1>2. IsFiniteSet(Connections \cup {Loop})
  BY LifecycleAssumption, FS_AddElement
<1>3. IsFiniteSet(Drivers)
  BY <1>1, <1>2, FS_AddElement
<1> QED BY <1>3, FS_Subset, FS_CardinalityType DEF Driven

\* What the counters of a process are counted in.
LEMMA ChargeNumbers ==
  ASSUME ChargeInv
  PROVE  /\ Len(parked) \in Nat /\ Cardinality(Driven) \in Nat
         /\ owed \in Nat /\ failures \in Nat /\ dropped \in Nat
         /\ ChargesAreConserved
BY DrivenFinite DEF ChargeInv

\* A task takes up a future or lets go of one; the others keep theirs.
LEMMA DrivenCount ==
  ASSUME ChargeInv, NEW d \in Drivers, NEW b \in Buckets \cup {NoFuture},
         driving' = [driving EXCEPT ![d] = b],
         b # NoFuture <=> driving[d] = NoFuture
  PROVE  /\ driving' \in [Drivers -> Buckets \cup {NoFuture}]
         /\ Cardinality(Driven) \in Nat
         /\ Cardinality(Driven') =
              IF b = NoFuture THEN Cardinality(Driven) - 1 ELSE Cardinality(Driven) + 1
         /\ b = NoFuture => Cardinality(Driven) > 0 /\ Driven' \subseteq Driven
<1>1. IsFiniteSet(Driven) /\ Cardinality(Driven) \in Nat
  BY DrivenFinite
<1>2. driving' \in [Drivers -> Buckets \cup {NoFuture}]
  BY DEF ChargeInv
<1>3. CASE b = NoFuture
  <2>1. Driven' = Driven \ {d} /\ d \in Driven
    BY <1>3 DEF ChargeInv, Driven
  <2>2. Cardinality(Driven) # 0
    BY <1>1, <2>1, FS_EmptySet
  <2>3. Cardinality(Driven \ {d}) = Cardinality(Driven) - 1
    BY <1>1, <2>1, FS_RemoveElement
  <2> QED BY <1>1, <1>2, <1>3, <2>1, <2>2, <2>3
<1>4. CASE b # NoFuture
  <2>1. Driven' = Driven \cup {d} /\ d \notin Driven
    BY <1>4 DEF ChargeInv, Driven
  <2>2. Cardinality(Driven \cup {d}) = Cardinality(Driven) + 1
    BY <1>1, <2>1, FS_AddElement
  <2> QED BY <1>1, <1>2, <1>4, <2>1, <2>2
<1> QED BY <1>3, <1>4
LEMMA TakesCharge ==
  ASSUME ChargeInv, calls \in Nat, NEW d \in Drivers, Takes(d), calls' = calls
  PROVE  ChargeInv'
<1>1. /\ parked # <<>> /\ Head(parked) \in Buckets
      /\ parked' \in Seq(Buckets) /\ Len(parked') = Len(parked) - 1
  BY DEF ChargeInv, Takes
<1>2. DeferredCapacity # 0
  BY <1>1, LifecycleAssumption DEF ChargeInv
<1>3. /\ driving' \in [Drivers -> Buckets \cup {NoFuture}]
      /\ Cardinality(Driven') = Cardinality(Driven) + 1 /\ Cardinality(Driven) \in Nat
  BY <1>1, LifecycleAssumption, DrivenCount DEF Takes
<1>4. UNCHANGED <<owed, failures, dropped>>
  BY DEF Takes
<1>5. ChargesAreConserved'
  BY <1>1, <1>3, <1>4, ChargeNumbers DEF ChargesAreConserved
<1> QED BY <1>1, <1>2, <1>3, <1>4, <1>5, LifecycleAssumption DEF ChargeInv

LEMMA RequeuesCharge ==
  ASSUME ChargeInv, calls \in Nat, NEW d \in Drivers, Requeues(d), calls' = calls
  PROVE  ChargeInv'
<1>1. CASE driving[d] = NoFuture
  BY <1>1 DEF Requeues, deferredVars, ChargeInv, ChargesAreConserved, Driven
<1>2. CASE driving[d] # NoFuture
  <2>1. /\ driving' \in [Drivers -> Buckets \cup {NoFuture}]
        /\ Cardinality(Driven') = Cardinality(Driven) - 1 /\ Cardinality(Driven) \in Nat
        /\ Driven' \subseteq Driven
    BY <1>2, DrivenCount DEF Requeues
  <2>2. driving[d] \in Buckets /\ DeferredCapacity # 0
    BY <1>2 DEF ChargeInv, Driven
  <2>3. /\ parked' \in Seq(Buckets)
        /\ Len(parked') = IF Len(parked) >= DeferredCapacity THEN Len(parked) ELSE Len(parked) + 1
    BY <1>2, <2>2, RequeuedLength DEF Requeues, ChargeInv
  <2>4. dropped' = IF Len(parked) >= DeferredCapacity THEN dropped + 1 ELSE dropped
    BY <1>2 DEF Requeues
  <2>5. UNCHANGED <<owed, failures>>
    BY <1>2 DEF Requeues
  <2>6. ChargesAreConserved'
    <3>1. CASE Len(parked) >= DeferredCapacity
      BY <2>1, <2>3, <2>4, <2>5, <3>1, ChargeNumbers DEF ChargesAreConserved
    <3>2. CASE ~(Len(parked) >= DeferredCapacity)
      BY <2>1, <2>3, <2>4, <2>5, <3>2, ChargeNumbers DEF ChargesAreConserved
    <3> QED BY <3>1, <3>2
  <2> QED BY <2>1, <2>2, <2>3, <2>4, <2>5, <2>6, LifecycleAssumption DEF ChargeInv
<1> QED BY <1>1, <1>2

\* Of an accounting future comes one call or one failure.
LEMMA AccountsOnce ==
  ASSUME calls \in Nat, NEW b, Accounts(b)
  PROVE  \/ calls' = calls + 1 /\ failures' = failures
         \/ calls' = calls /\ failures' = failures + 1
BY DEF Accounts, Record, AddUnits, meteredVars, vars, ghostVars

LEMMA CompletesCharge ==
  ASSUME ChargeInv, calls \in Nat, NEW d \in Drivers, Completes(d)
  PROVE  ChargeInv'
<1>1. /\ driving' \in [Drivers -> Buckets \cup {NoFuture}]
      /\ Cardinality(Driven') = Cardinality(Driven) - 1 /\ Cardinality(Driven) \in Nat
      /\ Driven' \subseteq Driven
  BY DrivenCount DEF Completes
<1>2. \/ calls' = calls + 1 /\ failures' = failures
      \/ calls' = calls /\ failures' = failures + 1
  BY AccountsOnce DEF Completes
<1>3. UNCHANGED <<parked, owed, dropped>>
  BY DEF Completes, Accounts, deferredVars
<1>4. ChargesAreConserved'
  <2>1. CASE calls' = calls + 1 /\ failures' = failures
    BY <1>1, <1>3, <2>1, ChargeNumbers DEF ChargesAreConserved
  <2>2. CASE calls' = calls /\ failures' = failures + 1
    BY <1>1, <1>3, <2>2, ChargeNumbers DEF ChargesAreConserved
  <2> QED BY <1>2, <2>1, <2>2
<1>5. failures' \in Nat
  BY <1>2, ChargeNumbers
<1> QED BY <1>1, <1>3, <1>4, <1>5 DEF ChargeInv

LEMMA ConnectionCharge ==
  ASSUME ChargeInv, calls \in Nat, NEW c \in Connections, ConnectionStep(c)
  PROVE  ChargeInv'
<1>1. ASSUME UNCHANGED meteredVars PROVE calls' = calls
  BY <1>1 DEF meteredVars, vars, ghostVars
<1>2. c \in Drivers
  BY DEF Drivers
<1>3. ASSUME UNCHANGED meteredVars, UNCHANGED deferredVars PROVE ChargeInv'
  BY <1>1, <1>3 DEF deferredVars, ChargeInv, ChargesAreConserved, Driven
<1>4. CASE Accept(c) \/ Request(c) \/ EndsFree(c) \/ SeesStop(c)
  BY <1>3, <1>4 DEF Accept, Request, EndsFree, SeesStop
<1>5. CASE RequestDrains(c)
  BY <1>1, <1>2, <1>5, TakesCharge DEF RequestDrains
<1>6. CASE Disconnects(c)
  BY <1>1, <1>2, <1>6, RequeuesCharge DEF Disconnects
<1>7. CASE EndsCharged(c)
  <2>1. \/ calls' = calls + 1 /\ failures' = failures
        \/ calls' = calls /\ failures' = failures + 1
    BY <1>7, AccountsOnce DEF EndsCharged
  <2>2. /\ owed' = owed + 1 /\ owed < MaxEvents
        /\ UNCHANGED <<parked, driving, dropped>>
    BY <1>7 DEF EndsCharged
  <2>3. UNCHANGED Driven /\ Cardinality(Driven) \in Nat
    BY <2>2, DrivenFinite DEF Driven
  <2>4. ChargesAreConserved'
    <3>1. CASE calls' = calls + 1 /\ failures' = failures
      BY <2>2, <2>3, <3>1, ChargeNumbers DEF ChargesAreConserved
    <3>2. CASE calls' = calls /\ failures' = failures + 1
      BY <2>2, <2>3, <3>2, ChargeNumbers DEF ChargesAreConserved
    <3> QED BY <2>1, <3>1, <3>2
  <2> QED BY <2>1, <2>2, <2>3, <2>4, PipelineAssumption DEF ChargeInv
<1>8. CASE EndsParked(c)
  <2>1. /\ parked' \in Seq(Buckets)
        /\ Len(parked') = IF Len(parked) >= DeferredCapacity THEN Len(parked) ELSE Len(parked) + 1
    BY <1>8, ParkedLength DEF EndsParked, ChargeInv
  <2>2. /\ owed' = owed + 1 /\ owed < MaxEvents
        /\ dropped' = IF Len(parked) >= DeferredCapacity THEN dropped + 1 ELSE dropped
        /\ UNCHANGED <<driving, failures>> /\ calls' = calls
    BY <1>1, <1>8 DEF EndsParked
  <2>3. UNCHANGED Driven /\ Cardinality(Driven) \in Nat
    BY <2>2, DrivenFinite DEF Driven
  <2>4. ChargesAreConserved'
    <3>1. CASE Len(parked) >= DeferredCapacity
      BY <2>1, <2>2, <2>3, <3>1, ChargeNumbers DEF ChargesAreConserved
    <3>2. CASE ~(Len(parked) >= DeferredCapacity)
      BY <2>1, <2>2, <2>3, <3>2, ChargeNumbers DEF ChargesAreConserved
    <3> QED BY <3>1, <3>2
  <2> QED BY <2>1, <2>2, <2>3, <2>4, PipelineAssumption, LifecycleAssumption DEF ChargeInv
<1> QED BY <1>4, <1>5, <1>6, <1>7, <1>8 DEF ConnectionStep
-------------------------------------------------------------------------------
(***************************************************************************)
(* The process as a pipeline with its exporter.  Every part of a step that *)
(* touches them is one of these four.                                      *)
(***************************************************************************)
Billing == [MeteredNext]_meteredVars /\ UNCHANGED calls

LEMMA FlushBills ==
  ASSUME NEW f \in Flushers,
         StartsFlush(f) \/ FlushStep(f) \/ CancelsExport(f)
  PROVE  Billing
<1>1. CASE StartsFlush(f) \/ FlushGoesOn(f)
  BY <1>1 DEF StartsFlush, FlushGoesOn, Billing, MeteredNext, PipelineStep, ghostVars,
              StartFlush, PrepareRetry, PrepareFresh, Restore, Release
<1>2. CASE ExportBegins(f) \/ ExportSucceeds(f) \/ ExportErrs(f)
  BY <1>2 DEF Billing, MeteredNext, ExportStep, ExportBegins, ExportSucceeds, ExportErrs,
              ExportOk, ExportFails, vars, ghostVars
<1>3. CASE Submits(f)
  BY <1>3, SubmitsKeepsTheContract
     DEF Billing, MeteredNext, ExportStep, Submits, vars, ghostVars
<1>4. CASE CancelsExport(f)
  BY <1>4 DEF CancelsExport, Billing, MeteredNext, ExportStep, ProviderAnswers,
              Exporter!Answer, vars, ghostVars
<1> QED BY <1>1, <1>2, <1>3, <1>4 DEF FlushStep

LEMMA ReportBills == ReportUnexported => Billing
BY DEF ReportUnexported, Billing, MeteredNext, External, Exporter!MeterExternal,
       meteredVars, vars, ghostVars

LEMMA ProviderBills == ProviderStep => Billing
BY DEF ProviderStep, Billing, MeteredNext, External, Exporter!MeterExternal, vars, ghostVars

LEMMA StillBills == UNCHANGED meteredVars => Billing
BY DEF Billing, meteredVars, vars, ghostVars

LEMMA AccountsMeters ==
  ASSUME calls < MaxEvents, NEW b \in Buckets, Accounts(b)
  PROVE  [MeteredNext]_meteredVars
BY DEF Accounts, MeteredNext, PipelineStep, RecordCall

LEMMA LoopSteps ==
  ASSUME ChargeInv, calls \in Nat, LoopStep
  PROVE  Billing /\ ChargeInv'
<1>1. Loop \in Flushers /\ Loop \in Drivers
  BY LifecycleAssumption DEF Drivers
<1>2. ASSUME Billing, UNCHANGED deferredVars PROVE ChargeInv'
  BY <1>2 DEF Billing, deferredVars, ChargeInv, ChargesAreConserved, Driven
<1>3. CASE LoopTick \/ LoopUnwound
  BY <1>2, <1>3, StillBills DEF LoopTick, LoopUnwound
<1>4. CASE LoopTakes
  BY <1>1, <1>4, StillBills, TakesCharge DEF LoopTakes, Billing
<1>5. CASE LoopFlushes
  BY <1>1, <1>2, <1>5, FlushBills DEF LoopFlushes
<1>6. CASE LoopReports
  BY <1>2, <1>6, ReportBills DEF LoopReports
<1>7. CASE LoopCancelled
  <2>1. Billing
    BY <1>1, <1>7, StillBills, FlushBills DEF LoopCancelled
  <2> QED BY <1>1, <1>7, <2>1, RequeuesCharge DEF LoopCancelled, Billing
<1> QED BY <1>3, <1>4, <1>5, <1>6, <1>7 DEF LoopStep

LEMMA MainSteps ==
  ASSUME ChargeInv, calls \in Nat, Signal \/ MainStep \/ DeadlinePasses
  PROVE  Billing /\ ChargeInv'
<1>1. Final \in Flushers /\ Final \in Drivers
  BY LifecycleAssumption DEF Drivers
<1>2. ASSUME Billing, UNCHANGED deferredVars PROVE ChargeInv'
  BY <1>2 DEF Billing, deferredVars, ChargeInv, ChargesAreConserved, Driven
<1>3. CASE Signal \/ LoopAwaited \/ ConnectionsJoined \/ Drained
  BY <1>2, <1>3, StillBills DEF Signal, LoopAwaited, ConnectionsJoined, Drained, MainGoes
<1>4. CASE FinalTakes
  BY <1>1, <1>4, StillBills, TakesCharge DEF FinalTakes, Billing
<1>5. CASE FinalFlushes
  BY <1>1, <1>2, <1>5, FlushBills DEF FinalFlushes
<1>6. CASE ExitsClean \/ ExitsLate
  BY <1>2, <1>6, ReportBills DEF ExitsClean, ExitsLate, Exits
<1>7. CASE DeadlinePasses
  <2>1. Billing
    BY <1>1, <1>7, StillBills, FlushBills DEF DeadlinePasses
  <2> QED BY <1>1, <1>7, <2>1, RequeuesCharge DEF DeadlinePasses, Billing
<1> QED BY <1>3, <1>4, <1>5, <1>6, <1>7 DEF MainStep

LEMMA LifeStep ==
  ASSUME TypeOK, ChargeInv, [LifeNext]_lifeVars
  PROVE  [MeteredNext]_meteredVars /\ ChargeInv'
<1>1. calls \in Nat
  BY DEF TypeOK
<1>2. ASSUME Billing, UNCHANGED deferredVars PROVE ChargeInv'
  BY <1>2 DEF Billing, deferredVars, ChargeInv, ChargesAreConserved, Driven
<1>3. ASSUME NEW c \in Connections, ConnectionStep(c)
      PROVE  [MeteredNext]_meteredVars
  <2>1. CASE EndsCharged(c)
    <3>1. calls <= owed /\ owed < MaxEvents
      BY <1>1, <2>1, DrivenFinite DEF EndsCharged, ChargeInv, ChargesAreConserved
    <3>2. calls < MaxEvents
      BY <1>1, <3>1, PipelineAssumption DEF ChargeInv
    <3> QED BY <2>1, <3>2, AccountsMeters DEF EndsCharged
  <2>2. CASE ~EndsCharged(c)
    BY <1>3, <2>2 DEF ConnectionStep, Accept, Request, RequestDrains, EndsFree, EndsParked,
                      Disconnects, SeesStop
  <2> QED BY <2>1, <2>2
<1>4. ASSUME NEW d \in Drivers, Completes(d)
      PROVE  [MeteredNext]_meteredVars
  <2>1. Cardinality(Driven) > 0 /\ Cardinality(Driven) \in Nat
    BY <1>4, DrivenCount DEF Completes
  <2>2. calls < owed /\ owed <= MaxEvents
    BY <1>1, <2>1 DEF ChargeInv, ChargesAreConserved
  <2>3. calls < MaxEvents
    BY <1>1, <2>2, PipelineAssumption DEF ChargeInv
  <2>4. driving[d] \in Buckets
    BY <1>4 DEF Completes, ChargeInv
  <2> QED BY <1>4, <2>3, <2>4, AccountsMeters DEF Completes
<1>5. ASSUME NEW f \in Flushers, FlushStep(f)
      PROVE  Billing /\ ChargeInv'
  BY <1>2, <1>5, FlushBills DEF FlushStep
<1>6. CASE ProviderStep
  BY <1>2, <1>6, ProviderBills DEF ProviderStep, Billing
<1>7. CASE UNCHANGED lifeVars
  BY <1>2, <1>7, StillBills DEF lifeVars, Billing
<1>8. CASE LoopStep \/ Signal \/ MainStep \/ DeadlinePasses
  BY <1>1, <1>8, LoopSteps, MainSteps DEF Billing
<1> QED BY <1>1, <1>3, <1>4, <1>5, <1>6, <1>7, <1>8, ConnectionCharge, CompletesCharge
        DEF LifeNext, Billing

LEMMA LifeInitCharge == LifeInit => ChargeInv
<1> SUFFICES ASSUME LifeInit PROVE ChargeInv
  OBVIOUS
<1>1. parked = <<>> /\ driving \in [Drivers -> Buckets \cup {NoFuture}] /\ Driven = {}
  BY DEF LifeInit, Driven
<1>2. calls = 0
  BY DEF LifeInit, MeteredInit, Init
<1>3. Cardinality(Driven) = 0
  BY <1>1, FS_EmptySet
<1> QED BY <1>1, <1>2, <1>3, PipelineAssumption, LifecycleAssumption
        DEF LifeInit, ChargeInv, ChargesAreConserved

LEMMA LifeAlways == LifeSpec => [](TypeOK /\ ChargeInv)
<1>1. LifeInit => TypeOK /\ ChargeInv
  BY LifeInitCharge, InitType DEF LifeInit, MeteredInit
<1>2. TypeOK /\ ChargeInv /\ [LifeNext]_lifeVars => (TypeOK /\ ChargeInv)'
  BY LifeStep, StepIsPipelines, TypeStep
<1> QED BY <1>1, <1>2, PTL DEF LifeSpec

(***************************************************************************)
(* A sidecar process is a pipeline that exports through the metered        *)
(* exporter, so that the theorems about these hold of it too: whichever    *)
(* tasks are cancelled, and however late the process stops.                *)
(***************************************************************************)
THEOREM LifecycleIsMetered == LifeSpec => MeteredSpec
<1>1. LifeInit => MeteredInit
  BY DEF LifeInit
<1>2. TypeOK /\ ChargeInv /\ [LifeNext]_lifeVars => [MeteredNext]_meteredVars
  BY LifeStep
<1> QED BY <1>1, <1>2, LifeAlways, PTL DEF LifeSpec, MeteredSpec

(***************************************************************************)
(* What the process puts on an invoice is what the usage ledger promises a *)
(* customer, and no dead letter of its exporter disappears uncounted,      *)
(* whatever the plane acknowledges (EdgeExporter, ControlPlaneExporter).   *)
(***************************************************************************)
THEOREM ProcessBillsHonestly == LifeSpec => ImplementsUsageLedger /\ []DeadLettersAccounted
BY LifecycleIsMetered, InvoicesAreHonest, NoDeadLetterIsLostSilently, PTL

(***************************************************************************)
(* No exchange that owed a charge is forgotten, whatever is cancelled and  *)
(* whatever is full (InFlight::drop, requeue_in_flight, park).             *)
(***************************************************************************)
THEOREM ChargesStayConserved == LifeSpec => []ChargesAreConserved
<1>1. ChargeInv => ChargesAreConserved
  BY DEF ChargeInv
<1> QED BY <1>1, LifeAlways, PTL
-------------------------------------------------------------------------------
(***************************************************************************)
(* Who is still running.  FinalFlushRunsAlone is not inductive: that the   *)
(* loop has ended and no connection is left must already hold one stage    *)
(* earlier, and neither may leave a completion or a flush half done when   *)
(* it goes.                                                                *)
(***************************************************************************)
AloneInv ==
  /\ conn \in [Connections -> {"none", "idle", "busy", "closing"}]
  /\ loop \in {"tick", "drain", "ended"} => pc[Loop] = "idle"
  /\ loop # "drain" => driving[Loop] = NoFuture
  /\ \A c \in Connections : conn[c] \in {"none", "idle"} => driving[c] = NoFuture
  /\ main \in {"join", "drain", "flush", "clean"} => loop = "ended"
  /\ main \in {"drain", "flush", "clean"} => Open = {}

LEMMA AloneInit == LifeInit => AloneInv
<1> SUFFICES ASSUME LifeInit PROVE AloneInv
  OBVIOUS
<1>1. Loop \in Flushers
  BY LifecycleAssumption
<1>2. \A d \in Drivers : driving[d] = NoFuture
  BY DEF LifeInit
<1> QED BY <1>1, <1>2 DEF LifeInit, MeteredInit, Init, AloneInv, Drivers

\* Only the loop's own flush moves it, and an idle flusher has none to go on with.
LEMMA OtherFlush ==
  ASSUME TypeOK, NEW f \in Flushers, FlushStep(f), pc[Loop] = "idle"
  PROVE  pc'[Loop] = "idle"
<1>1. Loop \in Flushers
  BY LifecycleAssumption
<1> QED BY <1>1 DEF TypeOK, FlushStep, FlushGoesOn, PrepareRetry, PrepareFresh, Restore, Release,
        ExportBegins, ExportSucceeds, ExportOk, ExportErrs, ExportFails, Submits, vars, flushVars

LEMMA ConnectionAlone ==
  ASSUME TypeOK, ChargeInv, AloneInv, NEW c \in Connections, ConnectionStep(c)
  PROVE  AloneInv'
<1>1. /\ Loop \in Flushers /\ Loop \notin Connections /\ Loop \in Drivers
      /\ Connections \subseteq Drivers
  BY LifecycleAssumption DEF Drivers
<1>2. pc' = pc
  BY DEF ConnectionStep, Accept, Request, RequestDrains, EndsFree, EndsCharged, EndsParked,
         Disconnects, SeesStop, Accounts, Record, meteredVars, vars, flushVars
<1>3. UNCHANGED <<main, loop>>
  BY DEF ConnectionStep, Accept, Request, RequestDrains, EndsFree, EndsCharged, EndsParked,
         Disconnects, SeesStop, taskVars
<1>4. driving \in [Drivers -> Buckets \cup {NoFuture}]
  BY DEF ChargeInv
<1>5. /\ conn' \in [Connections -> {"none", "idle", "busy", "closing"}]
      /\ \A x \in Connections \ {c} : conn'[x] = conn[x]
  BY DEF AloneInv, ConnectionStep, Accept, Request, RequestDrains, EndsFree, EndsCharged,
         EndsParked, Disconnects, SeesStop, AfterExchange, taskVars
<1>6. \A d \in Drivers \ {c} : driving'[d] = driving[d]
  BY <1>4 DEF ConnectionStep, Accept, Request, RequestDrains, EndsFree, EndsCharged,
              EndsParked, Disconnects, SeesStop, Takes, Requeues, deferredVars
<1>7. conn'[c] \in {"none", "idle"} => driving'[c] = NoFuture
  <2>1. CASE Accept(c) \/ Request(c)
    BY <2>1 DEF AloneInv, Accept, Request, deferredVars
  <2>2. CASE RequestDrains(c)
    BY <2>2 DEF AloneInv, RequestDrains, taskVars
  <2>3. CASE EndsFree(c) \/ EndsCharged(c) \/ EndsParked(c)
    BY <2>3 DEF EndsFree, EndsCharged, EndsParked, Answered, deferredVars
  <2>4. CASE Disconnects(c)
    BY <1>1, <1>4, <2>4 DEF Disconnects, Requeues, deferredVars
  <2>5. CASE SeesStop(c)
    BY <2>5 DEF AloneInv, SeesStop, deferredVars
  <2> QED BY <2>1, <2>2, <2>3, <2>4, <2>5 DEF ConnectionStep
<1>8. main \in {"drain", "flush", "clean"} => conn'[c] = "none"
  <2>1. main \in {"drain", "flush", "clean"} => conn[c] = "none"
    BY DEF AloneInv, Open
  <2> QED BY <2>1 DEF ConnectionStep, Accept, Request, RequestDrains, EndsFree, EndsCharged,
                      EndsParked, Answered, Disconnects, SeesStop
<1>9. main \in {"drain", "flush", "clean"} => Open' = {}
  BY <1>5, <1>8 DEF AloneInv, Open
<1> QED BY <1>1, <1>2, <1>3, <1>5, <1>6, <1>7, <1>9 DEF AloneInv

LEMMA LoopAlone ==
  ASSUME TypeOK, ChargeInv, AloneInv, LoopStep
  PROVE  AloneInv'
<1>1. /\ Loop \in Drivers /\ \A c \in Connections : c \in Drivers /\ c # Loop
      /\ driving \in [Drivers -> Buckets \cup {NoFuture}]
  BY LifecycleAssumption DEF Drivers, ChargeInv
<1>2. main \notin {"join", "drain", "flush", "clean"} /\ UNCHANGED <<main, conn>>
  BY DEF AloneInv, LoopStep, LoopTick, LoopTakes, LoopFlushes, LoopReports, LoopCancelled,
         LoopUnwound
<1>3. \A c \in Connections : driving'[c] = driving[c]
  BY <1>1 DEF LoopStep, LoopTick, LoopTakes, LoopFlushes, LoopReports, LoopCancelled,
              LoopUnwound, Takes, Requeues, deferredVars
<1>4. loop' \in {"tick", "drain", "ended"} => pc'[Loop] = "idle"
  <2>1. loop' \in {"tick", "drain", "ended"} => UNCHANGED vars
    BY DEF LoopStep, LoopTick, LoopTakes, LoopFlushes, LoopReports, LoopCancelled, LoopUnwound,
           ReportUnexported, meteredVars
  <2>2. loop' \in {"tick", "drain", "ended"} => pc[Loop] = "idle"
    BY DEF AloneInv, LoopStep, LoopTick, LoopTakes, LoopFlushes, LoopReports, LoopCancelled,
           LoopUnwound
  <2> QED BY <2>1, <2>2 DEF vars, flushVars
<1>5. loop' # "drain" => driving'[Loop] = NoFuture
  BY <1>1 DEF AloneInv, LoopStep, LoopTick, LoopTakes, LoopFlushes, LoopReports, LoopCancelled,
              LoopUnwound, Requeues, deferredVars
<1> QED BY <1>2, <1>3, <1>4, <1>5 DEF AloneInv, Open

LEMMA MainAlone ==
  ASSUME TypeOK, ChargeInv, AloneInv, Signal \/ MainStep \/ DeadlinePasses
  PROVE  AloneInv'
<1>1. /\ Final \in Drivers /\ Final \in Flushers /\ Loop \in Flushers /\ Loop # Final
      /\ \A d \in Connections \cup {Loop} : d \in Drivers /\ d # Final
      /\ driving \in [Drivers -> Buckets \cup {NoFuture}]
  BY LifecycleAssumption DEF Drivers, ChargeInv
<1>2. UNCHANGED <<loop, conn>>
  BY DEF Signal, MainStep, LoopAwaited, ConnectionsJoined, MainGoes, FinalTakes, Drained,
         FinalFlushes, ExitsClean, ExitsLate, Exits, DeadlinePasses, taskVars
<1>3. \A d \in Connections \cup {Loop} : driving'[d] = driving[d]
  BY <1>1 DEF Signal, MainStep, LoopAwaited, ConnectionsJoined, MainGoes, FinalTakes, Drained,
              FinalFlushes, ExitsClean, ExitsLate, Exits, DeadlinePasses, Takes, Requeues,
              deferredVars
<1>4. pc'[Loop] = pc[Loop]
  BY <1>1 DEF TypeOK, Signal, MainStep, LoopAwaited, ConnectionsJoined, MainGoes, FinalTakes,
              Drained, FinalFlushes, StartsFlush, StartFlush, ExitsClean, ExitsLate, Exits,
              ReportUnexported, DeadlinePasses, CancelsExport, meteredVars, vars, flushVars
<1>5. main' \in {"join", "drain", "flush", "clean"} => loop = "ended"
  BY DEF AloneInv, Signal, MainStep, LoopAwaited, ConnectionsJoined, MainGoes, FinalTakes, Drained,
         FinalFlushes, ExitsClean, ExitsLate, DeadlinePasses, taskVars
<1>6. main' \in {"drain", "flush", "clean"} => Open = {}
  BY DEF AloneInv, Signal, MainStep, LoopAwaited, ConnectionsJoined, MainGoes, FinalTakes, Drained,
         FinalFlushes, ExitsClean, ExitsLate, DeadlinePasses, taskVars
<1> QED BY <1>1, <1>2, <1>3, <1>4, <1>5, <1>6 DEF AloneInv, Open

LEMMA AloneStep ==
  ASSUME TypeOK, ChargeInv, AloneInv, [LifeNext]_lifeVars
  PROVE  AloneInv'
<1>1. ASSUME UNCHANGED <<main, loop, conn>>, \A d \in Drivers : driving'[d] \in {driving[d], NoFuture},
             loop \in {"tick", "drain", "ended"} => pc'[Loop] = "idle"
      PROVE  AloneInv'
  BY <1>1, LifecycleAssumption DEF AloneInv, Open, Drivers
<1>2. ASSUME NEW d \in Drivers, Completes(d) PROVE AloneInv'
  <2>1. pc' = pc
    BY <1>2 DEF Completes, Accounts, Record, meteredVars, vars, flushVars
  <2> QED BY <1>1, <1>2, <2>1 DEF Completes, taskVars, ChargeInv, AloneInv
<1>3. ASSUME NEW f \in Flushers, FlushStep(f) PROVE AloneInv'
  <2>1. UNCHANGED <<taskVars, deferredVars>>
    BY <1>3 DEF FlushStep
  <2> QED BY <1>1, <1>3, <2>1, OtherFlush DEF taskVars, deferredVars, AloneInv
<1>4. CASE ProviderStep \/ UNCHANGED lifeVars
  BY <1>1, <1>4 DEF ProviderStep, lifeVars, meteredVars, vars, flushVars, taskVars, deferredVars,
                    AloneInv
<1> QED BY <1>2, <1>3, <1>4, ConnectionAlone, LoopAlone, MainAlone DEF LifeNext

(***************************************************************************)
(* The last flush runs alone: nobody parks or records behind the drain,    *)
(* and no other flush is in progress (finish_shutdown).                    *)
(***************************************************************************)
THEOREM LastFlushIsAlone == LifeSpec => []FinalFlushRunsAlone
<1>1. TypeOK /\ ChargeInv /\ AloneInv /\ [LifeNext]_lifeVars => AloneInv'
  BY AloneStep
<1>2. AloneInv => FinalFlushRunsAlone
  <2>1. ASSUME AloneInv, main \in {"drain", "flush", "clean"} PROVE Alone
    <3>1. loop = "ended" /\ Open = {}
      BY <2>1 DEF AloneInv
    <3>2. \A c \in Connections : driving[c] = NoFuture
      BY <2>1, <3>1 DEF AloneInv, Open
    <3> QED BY <2>1, <3>1, <3>2, LifecycleAssumption DEF AloneInv, Alone, Drivers
  <2> QED BY <2>1 DEF FinalFlushRunsAlone
<1> QED BY <1>1, <1>2, AloneInit, LifeAlways, PTL DEF LifeSpec
-------------------------------------------------------------------------------
(***************************************************************************)
(* What a process that exits without an error has done.  Nothing was left  *)
(* to do at the two moments finish_shutdown() looks, after the drain and   *)
(* before the exit, and nobody is there to add something in between.       *)
(***************************************************************************)
NothingLeft ==
  /\ FreshBuckets = {} /\ retry = <<>>
  /\ \A f \in Flushers : pc[f] = "idle"
  /\ dead.letters = <<>>

CleanInv ==
  /\ main \in {"flush", "clean"} => parked = <<>> /\ Driven = {}
  /\ main = "clean" => NothingLeft

\* During the last flush no step touches a completion.
LEMMA FlushIsQuiet ==
  ASSUME AloneInv, CleanInv, main = "flush", LifeNext
  PROVE  UNCHANGED deferredVars
<1>1. loop = "ended" /\ \A c \in Connections : conn[c] = "none"
  BY DEF AloneInv, Open
<1>2. \A d \in Drivers : driving[d] = NoFuture
  BY DEF CleanInv, Driven
<1>3. ASSUME NEW c \in Connections PROVE ~ConnectionStep(c)
  BY <1>1 DEF ConnectionStep, Accept, Request, RequestDrains, EndsFree, EndsCharged, EndsParked,
              Answered, Disconnects, SeesStop, Stopping
<1>4. ~LoopStep
  BY <1>1 DEF LoopStep, LoopTick, LoopTakes, LoopFlushes, LoopReports, LoopCancelled, LoopUnwound
<1>5. ASSUME NEW d \in Drivers PROVE ~Completes(d)
  BY <1>2 DEF Completes
<1>6. ASSUME Signal \/ MainStep PROVE UNCHANGED deferredVars
  BY <1>6 DEF Signal, MainStep, LoopAwaited, ConnectionsJoined, MainGoes, FinalTakes, Drained,
              FinalFlushes, ExitsClean, ExitsLate, Exits
<1>7. ASSUME DeadlinePasses PROVE UNCHANGED deferredVars
  BY <1>2, <1>7, LifecycleAssumption DEF DeadlinePasses, Requeues, Drivers
<1> QED BY <1>3, <1>4, <1>5, <1>6, <1>7 DEF LifeNext, FlushStep, ProviderStep, lifeVars

LEMMA CleanStep ==
  ASSUME AloneInv, CleanInv, [LifeNext]_lifeVars
  PROVE  CleanInv'
<1>1. CASE main = "clean" \/ UNCHANGED lifeVars
  <2>1. UNCHANGED lifeVars
    BY <1>1 DEF LifeNext, Ended
  <2> QED BY <2>1 DEF CleanInv, NothingLeft, FreshBuckets, Driven, lifeVars, meteredVars, meterVars,
                      vars, bufferVars, flushVars, taskVars, deferredVars
<1>2. CASE main = "flush" /\ LifeNext
  <2>1. UNCHANGED <<parked, driving>>
    BY <1>2, FlushIsQuiet DEF deferredVars
  <2>2. main' = "clean" => NothingLeft'
    <3>1. main' = "clean" => ExitsClean
      BY <1>2 DEF LifeNext, Ended, ConnectionStep, Accept, Request, RequestDrains, EndsFree,
         EndsCharged, EndsParked, Disconnects, SeesStop, Completes, FlushStep, LoopStep, LoopTick,
         LoopTakes, LoopFlushes, LoopReports, LoopCancelled, LoopUnwound, Signal, MainStep,
         LoopAwaited, ConnectionsJoined, MainGoes, FinalTakes, Drained, FinalFlushes, ExitsLate,
         DeadlinePasses, ProviderStep, lifeVars, taskVars
    <3>2. ASSUME ExitsClean PROVE NothingLeft'
      <4>1. UNCHANGED vars /\ dead'.letters = <<>>
        BY <3>2 DEF ExitsClean, Exits, ReportUnexported, Exporter!TakeDeadLetters, meteredVars,
                    meterVars
      <4>2. \A f \in Flushers : pc[f] = "idle"
        BY <1>2, <3>2, LifecycleAssumption DEF ExitsClean, Exits, AloneInv
      <4> QED BY <3>2, <4>1, <4>2 DEF ExitsClean, Unexported, NothingLeft, FreshBuckets, vars,
                                      bufferVars, flushVars
    <3> QED BY <3>1, <3>2
  <2> QED BY <1>2, <2>1, <2>2 DEF CleanInv, Driven
<1>3. CASE main \notin {"flush", "clean"} /\ LifeNext
  <2>1. main' \in {"flush", "clean"} => Drained
    BY <1>3 DEF LifeNext, Ended, ConnectionStep, Accept, Request, RequestDrains, EndsFree,
       EndsCharged, EndsParked, Disconnects, SeesStop, Completes, FlushStep, LoopStep, LoopTick,
       LoopTakes, LoopFlushes, LoopReports, LoopCancelled, LoopUnwound, Signal, MainStep,
       LoopAwaited, ConnectionsJoined, MainGoes, FinalTakes, FinalFlushes, ExitsClean, ExitsLate,
       DeadlinePasses, ProviderStep, lifeVars, taskVars
  <2>2. ASSUME Drained PROVE main' = "flush" /\ parked' = <<>> /\ Driven' = {}
    <3>1. /\ main = "drain" /\ main' = "flush" /\ UNCHANGED <<parked, driving>>
          /\ parked = <<>> /\ driving[Final] = NoFuture
      BY <2>2 DEF Drained, MainGoes, deferredVars
    <3>2. \A d \in Drivers : driving[d] = NoFuture
      BY <3>1, LifecycleAssumption DEF AloneInv, Open, Drivers
    <3> QED BY <3>1, <3>2 DEF Driven
  <2> QED BY <2>1, <2>2 DEF CleanInv
<1> QED BY <1>1, <1>2, <1>3

\* Where nothing is left, every recorded call was exported.
LEMMA NothingLeftMeansExported ==
  ASSUME TypeOK, OneOwner, PlaceInv, NothingLeft
  PROVE  recorded = EventsOf(exported)
<1>1. PendingEvents = {}
  <2>1. \A b \in Buckets : pending[b].units = 0
    BY PipelineAssumption DEF TypeOK, PendingAggregate, NothingLeft, FreshBuckets
  <2> QED BY <2>1 DEF PlaceInv, OwnBuckets, PendingEvents
<1>2. Retrying = {}
  BY DEF NothingLeft, Retrying, ToBatches
<1>3. InFlight = {}
  BY DEF NothingLeft, OneOwner, InFlight
<1> QED BY <1>1, <1>2, <1>3 DEF PlaceInv, EveryCallHasOnePlace

(***************************************************************************)
(* A process that exits without an error leaves nothing behind: what it    *)
(* recorded was exported, the plane answered for all of it, and nothing is *)
(* parked, half done or still among the dead letters (finish_shutdown).    *)
(***************************************************************************)
THEOREM CleanExitsAreComplete == LifeSpec => []CleanExitIsComplete
<1>1. LifeInit => CleanInv
  BY DEF LifeInit, CleanInv
<1>2. TypeOK /\ ChargeInv /\ AloneInv /\ [LifeNext]_lifeVars => AloneInv'
  BY AloneStep
<1>3. AloneInv /\ CleanInv /\ [LifeNext]_lifeVars => CleanInv'
  BY CleanStep
<1>4. LifeSpec => [](CleanInv /\ TypeOK)
  BY <1>1, <1>2, <1>3, AloneInit, LifeAlways, PTL DEF LifeSpec
<1>5. LifeSpec => [](OneOwner /\ PlaceInv /\ CommitInv)
  BY LifecycleIsMetered, ImplementsPipeline, SingleOwner, PlaceAlways, CommitAlways, PTL
<1>6. CleanInv /\ TypeOK /\ OneOwner /\ PlaceInv /\ CommitInv => CleanExitIsComplete
  <2> SUFFICES ASSUME CleanInv, TypeOK, OneOwner, PlaceInv, CommitInv, main = "clean"
               PROVE  CleanExitIsComplete
    BY DEF CleanExitIsComplete
  <2>1. NothingLeft /\ parked = <<>> /\ Driven = {}
    BY DEF CleanInv
  <2>2. exported \subseteq ledger \cup refused
    BY DEF CommitInv, Settled
  <2> QED BY <2>1, <2>2, NothingLeftMeansExported DEF CleanExitIsComplete, NothingLeft, Driven
<1> QED BY <1>4, <1>5, <1>6, PTL
===============================================================================
