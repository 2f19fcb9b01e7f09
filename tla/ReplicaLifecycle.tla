---------------------------- MODULE ReplicaLifecycle ----------------------------
(***************************************************************************)
(* One sidecar process from its first connection to its exit (main.rs of   *)
(* mcp-usage-edge): the accept loop, the connection tasks, the flush loop, *)
(* and finish_shutdown, over the pipeline and the exporter the process     *)
(* bills through and the queue of deferred completions.                    *)
(*                                                                         *)
(* A connection serves one exchange at a time.  The accounting of an       *)
(* exchange records a call, or is parked when its store does not answer at *)
(* once (TaskMetering has its steps); a parked completion stands for its   *)
(* bucket.  A task that was aborted is cancelled where it awaits next; what *)
(* it was being polled with when the abort came, it still takes.           *)
(***************************************************************************)
EXTENDS ControlPlaneExporter, DeferredCompletions

CONSTANTS
  Connections,       \* connections that may be open
  MaxConnections,    \* edge.max_connections
  DeferredCapacity,  \* deferred_capacity
  FlushInterval,     \* exporter.flush_interval_seconds
  Loop,              \* the flush loop's task
  Final,             \* the main task, which flushes last
  NoFuture           \* nothing is being driven

ASSUME LifecycleAssumption ==
  /\ Flushers = {Loop, Final} /\ Loop # Final
  /\ IsFiniteSet(Connections) /\ Connections \cap Flushers = {}
  /\ NoFuture \notin Buckets
  /\ MaxConnections \in Nat /\ DeferredCapacity \in Nat /\ FlushInterval \in Nat

VARIABLES
  main,      \* where serve() is
  loop,      \* where flush_loop() is
  left,      \* completions this turn of the loop may still take
  conn,      \* the state of each connection task
  parked,    \* the deferred queue
  driving,   \* the completion each task awaits
  owed,      \* history: exchanges that owed a charge
  failures,  \* record_failures: accounting that ended without a charge
  dropped    \* DeferredCompletions::dropped

taskVars == <<main, loop, left, conn>>
deferredVars == <<parked, driving, owed, failures, dropped>>
lifeVars == <<meteredVars, taskVars, deferredVars>>

Drivers == Flushers \cup Connections

(***************************************************************************)
(* The listener is bound and the flush loop spawned.  Its interval panics  *)
(* if it is zero: the task is gone, and nobody awaits it before the end.   *)
(***************************************************************************)
LifeInit ==
  /\ MeteredInit
  /\ main = "accept"
  /\ loop = IF FlushInterval = 0 THEN "ended" ELSE "tick"
  /\ left = 0
  /\ conn = [c \in Connections |-> "none"]
  /\ parked = <<>>
  /\ driving = [d \in Drivers |-> NoFuture]
  /\ owed = 0 /\ failures = 0 /\ dropped = 0

\* The stop signal was sent and the flush loop aborted.
Stopping == main # "accept"
--------------------------------------------------------------------------------
(***************************************************************************)
(* Deferred completions.                                                   *)
(***************************************************************************)
Takes(d) ==
  /\ driving[d] = NoFuture /\ parked # <<>>
  /\ driving' = [driving EXCEPT ![d] = Head(parked)]
  /\ parked' = Tail(parked)
  /\ UNCHANGED <<owed, failures, dropped>>

RequeuesNothing(d) ==
  /\ driving' = [driving EXCEPT ![d] = NoFuture]
  /\ UNCHANGED <<parked, owed, failures, dropped>>

\* A task is cancelled: InFlight::drop returns the completion it awaits.
Requeues(d) ==
  IF driving[d] = NoFuture THEN UNCHANGED deferredVars
  ELSE /\ driving' = [driving EXCEPT ![d] = NoFuture]
       /\ parked' = Requeued(parked, DeferredCapacity, driving[d])
       /\ dropped' = IF Len(parked) >= DeferredCapacity THEN dropped + 1 ELSE dropped
       /\ UNCHANGED <<owed, failures>>

\* An accounting future ends: it records its call, or counts its failure.
Accounts(b) ==
  \/ /\ \E e \in [id : {calls + 1}, bucket : {b}, key : {NoKey},
                  units : UnitsPerCall, timestamp : Timestamps] : Record(e)
     /\ UNCHANGED <<meterVars, abandons, failures>>
  \/ /\ failures' = failures + 1
     /\ UNCHANGED meteredVars

\* The store answers the completion a task awaits.
Completes(d) ==
  /\ driving[d] # NoFuture
  /\ driving' = [driving EXCEPT ![d] = NoFuture]
  /\ Accounts(driving[d])
  /\ UNCHANGED <<taskVars, parked, owed, dropped>>
--------------------------------------------------------------------------------
(***************************************************************************)
(* Connections.                                                            *)
(***************************************************************************)
Open == {c \in Connections : conn[c] # "none"}

Accept(c) ==
  /\ main = "accept"
  /\ conn[c] = "none" /\ Cardinality(Open) < MaxConnections
  /\ conn' = [conn EXCEPT ![c] = "idle"]
  /\ UNCHANGED <<meteredVars, main, loop, left, deferredVars>>

\* Until it has seen the stop signal a connection may start another exchange.
Request(c) ==
  /\ conn[c] = "idle"
  /\ conn' = [conn EXCEPT ![c] = "busy"]
  /\ UNCHANGED <<meteredVars, main, loop, left, deferredVars>>

\* An authenticated request first drains parked completions.
RequestDrains(c) ==
  /\ conn[c] \in {"busy", "closing"}
  /\ Takes(c)
  /\ UNCHANGED <<meteredVars, taskVars>>

\* The exchange ends, delivered or not, and its connection stays open or goes.
AfterExchange(c) ==
  \E to \in IF conn[c] = "closing" THEN {"none"} ELSE {"idle", "none"} :
    conn' = [conn EXCEPT ![c] = to]

Answered(c) == conn[c] \in {"busy", "closing"} /\ driving[c] = NoFuture

EndsFree(c) ==
  /\ Answered(c)
  /\ AfterExchange(c)
  /\ UNCHANGED <<meteredVars, main, loop, left, deferredVars>>

EndsCharged(c) ==
  /\ Answered(c)
  /\ owed < MaxEvents
  /\ owed' = owed + 1
  /\ \E b \in Buckets : Accounts(b)
  /\ AfterExchange(c)
  /\ UNCHANGED <<main, loop, left, parked, driving, dropped>>

EndsParked(c) ==
  /\ Answered(c)
  /\ owed < MaxEvents
  /\ owed' = owed + 1
  /\ \E b \in Buckets : parked' = Parked(parked, DeferredCapacity, b)
  /\ dropped' = IF Len(parked) >= DeferredCapacity THEN dropped + 1 ELSE dropped
  /\ AfterExchange(c)
  /\ UNCHANGED <<meteredVars, main, loop, left, driving, failures>>

\* The peer goes away before its exchange was answered, or between two.
Disconnects(c) ==
  /\ conn[c] # "none"
  /\ conn[c] = "idle" \/ driving[c] # NoFuture
  /\ Requeues(c)
  /\ conn' = [conn EXCEPT ![c] = "none"]
  /\ UNCHANGED <<meteredVars, main, loop, left>>

\* graceful_shutdown(): an idle connection closes, a busy one after its exchange.
SeesStop(c) ==
  /\ Stopping
  /\ conn[c] \in {"idle", "busy"}
  /\ conn' = [conn EXCEPT ![c] = IF @ = "idle" THEN "none" ELSE "closing"]
  /\ UNCHANGED <<meteredVars, main, loop, left, deferredVars>>

ConnectionStep(c) ==
  \/ Accept(c)
  \/ Request(c)
  \/ RequestDrains(c)
  \/ EndsFree(c)
  \/ EndsCharged(c)
  \/ EndsParked(c)
  \/ Disconnects(c)
  \/ SeesStop(c)
--------------------------------------------------------------------------------
(***************************************************************************)
(* A flush, from its start to its result.                                  *)
(***************************************************************************)
StartsFlush(f) ==
  /\ StartFlush(f)
  /\ UNCHANGED <<meterVars, abandons>>

FlushGoesOn(f) ==
  /\ PrepareRetry(f) \/ PrepareFresh(f) \/ Restore(f) \/ Release(f)
  /\ UNCHANGED <<meterVars, abandons>>

FlushStep(f) ==
  /\ \/ FlushGoesOn(f)
     \/ ExportBegins(f)
     \/ ExportSucceeds(f)
     \/ ExportErrs(f)
     \/ Submits(f)
  /\ UNCHANGED <<taskVars, deferredVars>>

\* The task is cancelled while the exporter awaits its provider.
CancelsExport(f) ==
  /\ Exporter!NoOutcomes(f)
  /\ UNCHANGED <<vars, abandons>>

\* report_unexported(): every dead letter is taken and logged.
ReportUnexported ==
  \/ Exporter!TakeDeadLetters /\ UNCHANGED <<vars, abandons>>
  \/ dead.letters = <<>> /\ UNCHANGED meteredVars
--------------------------------------------------------------------------------
(***************************************************************************)
(* flush_loop(): a tick, the completions parked by then, a flush, a report. *)
(***************************************************************************)
LoopTicksOnly ==
  /\ loop = "tick" /\ ~Stopping
  /\ loop' = "drain"
  /\ UNCHANGED <<meteredVars, main, left, conn, deferredVars>>

LoopTick ==
  /\ loop = "tick" /\ ~Stopping
  /\ loop' = "drain"
  /\ left' = Len(parked)
  /\ UNCHANGED <<meteredVars, main, conn, deferredVars>>

LoopTakes ==
  /\ loop = "drain" /\ left > 0
  /\ Takes(Loop)
  /\ left' = left - 1
  /\ UNCHANGED <<meteredVars, main, loop, conn>>

LoopFlushes ==
  /\ loop = "drain" /\ driving[Loop] = NoFuture
  /\ left = 0 \/ parked = <<>>
  /\ StartsFlush(Loop)
  /\ loop' = "flush" /\ left' = 0
  /\ UNCHANGED <<main, conn, deferredVars>>

LoopEndsOnError ==
  /\ loop = "flush" /\ pc[Loop] = "idle"
  /\ ReportUnexported
  /\ loop' = IF retry = <<>> THEN "tick" ELSE "ended"
  /\ UNCHANGED <<main, left, conn, deferredVars>>

LoopReports ==
  /\ loop = "flush" /\ pc[Loop] = "idle"
  /\ ReportUnexported
  /\ loop' = "tick"
  /\ UNCHANGED <<main, left, conn, deferredVars>>

\* The abort reaches the task where it awaits the ticker, a completion or the provider.
LoopCancelled ==
  /\ Stopping
  /\ \/ /\ loop = "tick" \/ (loop = "drain" /\ driving[Loop] # NoFuture)
        /\ loop' = "ended"
        /\ UNCHANGED meteredVars
     \/ /\ loop = "flush"
        /\ CancelsExport(Loop)
        /\ loop' = "cancelled"
  /\ Requeues(Loop)
  /\ left' = 0
  /\ UNCHANGED <<main, conn>>

\* Its guards have dropped: the batch is back, the flag free.
LoopUnwound ==
  /\ loop = "cancelled" /\ pc[Loop] = "idle"
  /\ loop' = "ended"
  /\ UNCHANGED <<meteredVars, main, left, conn, deferredVars>>

LoopStep ==
  \/ LoopTick
  \/ LoopTakes
  \/ LoopFlushes
  \/ LoopReports
  \/ LoopCancelled
  \/ LoopUnwound
--------------------------------------------------------------------------------
(***************************************************************************)
(* finish_shutdown(), with its deadline.                                   *)
(***************************************************************************)
Signal ==
  /\ main = "accept"
  /\ main' = "unwind"
  /\ UNCHANGED <<meteredVars, loop, left, conn, deferredVars>>

MainGoes(from, to) ==
  /\ main = from
  /\ main' = to
  /\ UNCHANGED <<meteredVars, loop, left, conn, deferredVars>>

LoopAwaited == loop = "ended" /\ MainGoes("unwind", "join")

ConnectionsNotJoined == MainGoes("join", "drain")

ConnectionsJoined == Open = {} /\ MainGoes("join", "drain")

FinalTakes ==
  /\ main = "drain"
  /\ Takes(Final)
  /\ UNCHANGED <<meteredVars, taskVars>>

Drained ==
  /\ parked = <<>> /\ driving[Final] = NoFuture
  /\ MainGoes("drain", "flush")

\* pending_buckets() > 0
Unexported == FreshBuckets # {} \/ retry # <<>>

FinalFlushes ==
  /\ main = "flush" /\ Unexported
  /\ StartsFlush(Final)
  /\ UNCHANGED <<taskVars, deferredVars>>

Exits ==
  /\ pc[Final] = "idle"
  /\ ReportUnexported
  /\ UNCHANGED <<loop, left, conn, deferredVars>>

ExitsClean ==
  /\ main = "flush" /\ ~Unexported
  /\ main' = "clean"
  /\ Exits

\* Where the main task awaits: the tasks, a completion, the provider, the pause after an error.
AwaitingWork ==
  \/ main = "drain" /\ driving[Final] # NoFuture
  \/ main = "flush" /\ (stage[Final] = "awaiting" \/ (pc[Final] = "idle" /\ retry # <<>>))

Awaiting ==
  \/ main \in {"unwind", "join"}
  \/ main = "drain" /\ driving[Final] # NoFuture
  \/ main = "flush" /\ (stage[Final] = "awaiting" \/ (pc[Final] = "idle" /\ retry # <<>>))

DeadlinePasses ==
  /\ Awaiting
  /\ main' = "expired"
  /\ IF stage[Final] = "awaiting" THEN CancelsExport(Final) ELSE UNCHANGED meteredVars
  /\ Requeues(Final)
  /\ UNCHANGED <<loop, left, conn>>

ExitsLate ==
  /\ main = "expired"
  /\ main' = "late"
  /\ Exits

MainStep ==
  \/ LoopAwaited
  \/ ConnectionsJoined
  \/ FinalTakes
  \/ Drained
  \/ FinalFlushes
  \/ ExitsClean
  \/ ExitsLate
--------------------------------------------------------------------------------
Ended == main \in {"clean", "late"}

\* The provider goes on by itself.
ProviderStep ==
  /\ \/ \E a \in wire : Exporter!ProviderApplies(a)
     \/ \E a \in ledger : Exporter!ProviderRevokes(a)
  /\ UNCHANGED <<vars, abandons, taskVars, deferredVars>>

LifeNext ==
  \/ /\ ~Ended
     /\ \/ \E c \in Connections : ConnectionStep(c)
        \/ \E d \in Drivers : Completes(d)
        \/ \E f \in Flushers : FlushStep(f)
        \/ LoopStep
        \/ Signal
        \/ MainStep
        \/ DeadlinePasses
        \/ ProviderStep
  \/ Ended /\ UNCHANGED lifeVars

LifeSpec == LifeInit /\ [][LifeNext]_lifeVars
--------------------------------------------------------------------------------
(***************************************************************************)
(* Safety.                                                                 *)
(***************************************************************************)
Alone ==
  /\ loop = "ended" /\ pc[Loop] = "idle" /\ Open = {}
  /\ \A d \in Drivers \ {Final} : driving[d] = NoFuture

(***************************************************************************)
(* Once the main task drains, it is alone: the flush loop has ended and    *)
(* its flush is over, no connection is left, so that nobody parks or       *)
(* records behind the drain and the last flush is never told another is in *)
(* progress.  finish_shutdown() awaits the aborted loop and joins the      *)
(* connections first.                                                      *)
(***************************************************************************)
FinalFlushRunsAlone == main \in {"drain", "flush", "clean"} => Alone

(***************************************************************************)
(* A process that exits without an error leaves nothing behind: every call *)
(* it recorded was exported, what it exported is on the plane's ledger or  *)
(* was rejected for good and reported, and nothing is parked or half done. *)
(* "final flush complete" (finish_shutdown); ControlPlaneExporter::submit. *)
(***************************************************************************)
CleanExitIsComplete ==
  main = "clean" =>
    /\ recorded = EventsOf(exported)
    /\ exported \subseteq ledger \cup refused
    /\ parked = <<>> /\ \A d \in Drivers : driving[d] = NoFuture
    /\ dead.letters = <<>>

Driven == {d \in Drivers : driving[d] # NoFuture}

(***************************************************************************)
(* No exchange that owed a charge is forgotten: each was recorded, waits   *)
(* in the queue or in a task that drives it, or was counted as a failure   *)
(* or as dropped, whichever tasks were cancelled in between                *)
(* (InFlight::drop, requeue_in_flight()).                                  *)
(***************************************************************************)
ChargesAreConserved ==
  owed = calls + Len(parked) + Cardinality(Driven) + failures + dropped
--------------------------------------------------------------------------------
(***************************************************************************)
(* Liveness.  Tasks are scheduled and time passes; the flush loop's store  *)
(* and, bucket by bucket, its provider answer in the end.  Nothing is      *)
(* asked of a peer, whose connection may stay open, silent or busy, for    *)
(* ever, nor of a store or the provider once the process shuts down.       *)
(***************************************************************************)
LifeFairness ==
  /\ WF_lifeVars(LoopStep)
  /\ WF_lifeVars(MainStep)
  /\ SF_lifeVars(DeadlinePasses)
  /\ \A f \in Flushers : WF_lifeVars(FlushStep(f))
  /\ WF_lifeVars(Completes(Loop))
  /\ \A b \in Buckets :
       SF_lifeVars(AnswersFor(Loop, b) /\ UNCHANGED <<taskVars, deferredVars>>)

LifeFairSpec == LifeSpec /\ LifeFairness

(***************************************************************************)
(* A recorded call is exported, unless the process ends first: no failed   *)
(* flush, however it failed, and no completion keeps the loop from         *)
(* flushing again (flush_loop()).                                          *)
(***************************************************************************)
RecordedCallsAreExported ==
  \A i \in 1..MaxEvents : (calls >= i) ~> (Exported(i) \/ Ended)

(***************************************************************************)
(* A parked completion does not wait for the next request: the flush loop  *)
(* takes it (flush_loop(), drain_some()).                                  *)
(***************************************************************************)
ParkedCompletionsRun == (parked # <<>>) ~> (parked = <<>> \/ Ended)

(***************************************************************************)
(* Once it is told to stop the process does: no peer, store or provider    *)
(* keeps it beyond its deadline (finish_shutdown(), timeout_at).           *)
(***************************************************************************)
ShutdownEnds == Stopping ~> Ended
================================================================================
