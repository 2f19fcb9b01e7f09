----------------------------- MODULE TaskMetering -----------------------------
(***************************************************************************)
(* Accounting for durable tasks in mcp-usage-tower.  A call that starts a  *)
(* task is priced when it is answered; its price waits in an attribution   *)
(* store shared by the replicas, under the task's identifier, until a poll *)
(* that sees the task completed claims it and records the charge.          *)
(*                                                                         *)
(* Each response body carries one accounting future, Completion::finish,   *)
(* which awaits the store up to three times.  The transport polls it at    *)
(* the end of the body; if the body is dropped first the future is parked  *)
(* in its replica's DeferredCompletions and driven by later requests and   *)
(* by the flush loop, whose own await may be cancelled.                    *)
(*                                                                         *)
(* The store is Redis or PostgreSQL: an operation takes effect once, some  *)
(* time after it was sent, and its answer may be lost.  The sidecar's      *)
(* default, InMemoryTaskStore, is the case of one replica in which         *)
(* sending, effect and answer are consecutive; an insertion into its full  *)
(* table evicts another attribution.  Its table is modelled apart.         *)
(*                                                                         *)
(* Left out because they touch no task: responses that are not recognised, *)
(* errors, mismatched or missing identifiers.                              *)
(***************************************************************************)
EXTENDS DeferredCompletions, FiniteSets

CONSTANTS
  Tasks,          \* durable task identifiers of one tenant
  Replicas,       \* processes, each with its recorder and its deferred queue
  Responses,      \* response bodies that exist at a time
  Capacity,       \* deferred_capacity
  StoreFails,     \* may a store operation fail?
  StoreForgets,   \* may the store expire or evict an attribution?
  RecorderFails,  \* may the recorder refuse a charge, or panic?
  MaxCrashes,     \* bound: replica crashes in one behaviour
  MaxOddPolls     \* bound: polls of a task answered with resultType "task"

ASSUME TaskAssumption ==
  /\ Capacity \in Nat /\ MaxCrashes \in Nat /\ MaxOddPolls \in Nat
  /\ StoreFails \in BOOLEAN /\ StoreForgets \in BOOLEAN /\ RecorderFails \in BOOLEAN

VARIABLES
  life,      \* external: the state of each task at the origin server
  stored,    \* the tasks the attribution store has a price for
  reply,     \* what the origin server answered
  home,      \* the replica that serves the response
  place,     \* where its accounting future is: body, queue, drain, or gone
  step,      \* the await it is at
  answer,    \* "sent" until the store has answered
  queue,     \* replica -> parked futures, oldest first
  seen,      \* replica -> task identifiers its recorder remembers
  charges,   \* history: charges recorded for each task, 2 standing for more
  explained, \* history: tasks one of whose futures a metric counted as failed or
             \* discarded (Report), or whose attribution went where no metric counts
             \* it: with a crash, out of the store, or with a body's future that a
             \* panicking recorder unwound (Excuse)
  crashes,   \* history: crashes so far
  oddly      \* history: polls of each task answered with resultType "task"

futureVars == <<reply, home, place, step, answer>>
taskVars == <<life, stored, futureVars, queue, seen, charges, explained, crashes, oddly>>

NoReply == [task |-> "none", method |-> "none", result |-> "none", status |-> "none"]

TaskInit ==
  /\ life = [t \in Tasks |-> "none"]
  /\ stored = {}
  /\ reply = [r \in Responses |-> NoReply]
  /\ home \in [Responses -> {CHOOSE p \in Replicas : TRUE}]
  /\ place = [r \in Responses |-> "gone"]
  /\ step = [r \in Responses |-> "end"]
  /\ answer = [r \in Responses |-> "idle"]
  /\ queue = [p \in Replicas |-> <<>>]
  /\ seen = [p \in Replicas |-> {}]
  /\ charges = [t \in Tasks |-> 0]
  /\ explained = {}
  /\ crashes = 0
  /\ oddly = [t \in Tasks |-> 0]

\* record_failure() and record_drop(): the metrics count the accounting of these futures.
Report(futures) == explained' = explained \cup {reply[r].task : r \in futures}

\* The attributions of these tasks are gone, and no metric says so.
Excuse(tasks) == explained' = explained \cup tasks
-------------------------------------------------------------------------------
(***************************************************************************)
(* The origin server.  It starts each task once, and a task's last state   *)
(* is final.  An odd poll is answered with resultType "task", the shape    *)
(* Completion::finish guards against.                                      *)
(***************************************************************************)
Answers(t) ==
  IF life[t] = "none"
  THEN {[task |-> t, method |-> "tools/call", result |-> "task", status |-> "working"]}
  ELSE [task : {t}, method : {"tasks/get"}, status : {life[t]},
        result : IF oddly[t] < MaxOddPolls THEN {"complete", "task"} ELSE {"complete"}]

Odd(a) == a.method = "tasks/get" /\ a.result = "task"

Respond(r, p, t) ==
  /\ place[r] = "gone" /\ answer[r] # "sent"
  /\ \E a \in Answers(t) :
       /\ reply' = [reply EXCEPT ![r] = a]
       /\ oddly' = IF Odd(a) THEN [oddly EXCEPT ![t] = @ + 1] ELSE oddly
  /\ life' = [life EXCEPT ![t] = IF @ = "none" THEN "working" ELSE @]
  /\ home' = [home EXCEPT ![r] = p]
  /\ place' = [place EXCEPT ![r] = "body"]
  /\ step' = [step EXCEPT ![r] = "begin"]
  /\ answer' = [answer EXCEPT ![r] = "idle"]
  /\ UNCHANGED <<stored, queue, seen, charges, explained, crashes>>

TaskEnds(t) ==
  /\ life[t] = "working"
  /\ \E end \in {"completed", "failed"} : life' = [life EXCEPT ![t] = end]
  /\ UNCHANGED <<stored, futureVars, queue, seen, charges, explained, crashes, oddly>>
-------------------------------------------------------------------------------
(***************************************************************************)
(* The attribution store.                                                  *)
(***************************************************************************)
Inserted(t) == stored \cup {t}

ClaimKeeping(t) == stored

\* claim(): GET and DEL in one script, DELETE ... RETURNING.
Claimed(t) == stored \ {t}

Effect(r) ==
  LET t == reply[r].task IN
  CASE step[r] \in {"insert", "restore"} -> Inserted(t)
    [] step[r] = "claim" -> Claimed(t)
    [] step[r] = "remove" -> stored \ {t}

\* An insertion into a full table in process evicts its oldest attribution.
Evictions(r) ==
  IF StoreForgets /\ step[r] \in {"insert", "restore"} /\ reply[r].task \notin stored
  THEN {{}} \cup {{t} : t \in stored}
  ELSE {{}}

Found(r) == IF step[r] = "claim" /\ reply[r].task \in stored THEN "found" ELSE "ok"

\* The operation takes effect; its answer may be lost, or its future gone by then.
StoreApplies(r) ==
  /\ answer[r] = "sent"
  /\ \E evicted \in Evictions(r) : stored' = Effect(r) \ evicted /\ Excuse(evicted)
  /\ \/ answer' = [answer EXCEPT ![r] = Found(r)]
     \/ StoreFails /\ answer' = [answer EXCEPT ![r] = "error"]
  /\ UNCHANGED <<life, reply, home, place, step, queue, seen, charges, crashes, oddly>>

\* It never takes effect.
StoreRejects(r) ==
  /\ StoreFails
  /\ answer[r] = "sent"
  /\ answer' = [answer EXCEPT ![r] = "error"]
  /\ UNCHANGED <<life, stored, reply, home, place, step, queue, seen, charges, explained,
                 crashes, oddly>>

\* ttl_seconds have passed since the attribution was inserted; or, in process, another
\* tenant's insertion evicted it, or the table died with its process.
Forget(t) ==
  /\ StoreForgets
  /\ t \in stored
  /\ stored' = stored \ {t}
  /\ Excuse({t})
  /\ UNCHANGED <<life, futureVars, queue, seen, charges, crashes, oddly>>
-------------------------------------------------------------------------------
(***************************************************************************)
(* Completion::finish, from one await to the next.                         *)
(***************************************************************************)
Inserts(r) == reply[r].result = "task"

ClaimsWhileWorking(r) == reply[r].method = "tasks/get" /\ reply[r].status = "working"

Claims(r) == reply[r].method = "tasks/get" /\ reply[r].status = "completed"

\* decide_with_task_attribution: a task handle is free, whatever its status.
Bills(r) == Claims(r) /\ reply[r].result # "task"

Polled(r) == place[r] \in {"body", "drain"} /\ answer[r] # "sent"

Failed == {r \in Responses : answer[r] = "error"}

Await(r, op) ==
  /\ step' = [step EXCEPT ![r] = op]
  /\ answer' = [answer EXCEPT ![r] = "sent"]
  /\ UNCHANGED <<reply, place>>

\* The future is dropped with what it captured of its response.
End(r) ==
  /\ reply' = [reply EXCEPT ![r] = NoReply]
  /\ step' = [step EXCEPT ![r] = "end"]
  /\ answer' = [answer EXCEPT ![r] = "idle"]
  /\ place' = [place EXCEPT ![r] = "gone"]

\* A terminal task that delivered nothing is forgotten.
CleanUp(r) == IF reply[r].status = "failed" THEN Await(r, "remove") ELSE End(r)

ClaimOrFree(r) == IF Claims(r) THEN Await(r, "claim") ELSE CleanUp(r)

StartAccounting(r) ==
  /\ Polled(r) /\ step[r] = "begin"
  /\ IF Inserts(r) THEN Await(r, "insert") ELSE ClaimOrFree(r)
  /\ UNCHANGED <<life, stored, home, queue, seen, charges, explained, crashes, oddly>>

AfterInsert(r) ==
  /\ Polled(r) /\ step[r] = "insert"
  /\ ClaimOrFree(r)
  /\ Report({r} \cap Failed)
  /\ UNCHANGED <<life, stored, home, queue, seen, charges, crashes, oddly>>

\* No attribution: missing_task_attribution, or the claim failed.
NothingClaimed(r) ==
  /\ Polled(r) /\ step[r] = "claim" /\ answer[r] # "found"
  /\ End(r)
  /\ Report({r} \cap Failed)
  /\ UNCHANGED <<life, stored, home, queue, seen, charges, crashes, oddly>>

\* The recorder answers Recorded, or Duplicate for a key it remembers.
Charged(r) ==
  LET t == reply[r].task
      p == home[r] IN
  /\ Polled(r) /\ step[r] = "claim" /\ answer[r] = "found" /\ Bills(r)
  /\ End(r)
  /\ seen' = [seen EXCEPT ![p] = @ \cup {t}]
  /\ charges' = [charges EXCEPT ![t] = IF t \in seen[p] \/ @ = 2 THEN @ ELSE @ + 1]
  /\ UNCHANGED <<life, stored, home, queue, explained, crashes, oddly>>

RefusedSilently(r) ==
  /\ RecorderFails /\ reply[r].task \notin seen[home[r]]
  /\ Polled(r) /\ step[r] = "claim" /\ answer[r] = "found" /\ Bills(r)
  /\ End(r)
  /\ UNCHANGED <<life, stored, home, queue, seen, charges, explained, crashes, oddly>>

\* The recorder refuses: the claimed attribution goes back.
Refused(r) ==
  /\ RecorderFails /\ reply[r].task \notin seen[home[r]]
  /\ Polled(r) /\ step[r] = "claim" /\ answer[r] = "found" /\ Bills(r)
  /\ Await(r, "restore")
  /\ Report({r})
  /\ UNCHANGED <<life, stored, home, queue, seen, charges, crashes, oddly>>

\* So it does after a free verdict.
FreeVerdict(r) ==
  /\ Polled(r) /\ step[r] = "claim" /\ answer[r] = "found" /\ ~Bills(r)
  /\ Await(r, "restore")
  /\ UNCHANGED <<life, stored, home, queue, seen, charges, explained, crashes, oddly>>

\* The last operation was answered.
Finish(r) ==
  /\ Polled(r) /\ step[r] \in {"restore", "remove"}
  /\ End(r)
  /\ Report({r} \cap Failed)
  /\ UNCHANGED <<life, stored, home, queue, seen, charges, crashes, oddly>>

Accounting(r) ==
  \/ StartAccounting(r)
  \/ AfterInsert(r)
  \/ NothingClaimed(r)
  \/ Charged(r)
  \/ Refused(r)
  \/ FreeVerdict(r)
  \/ Finish(r)
-------------------------------------------------------------------------------
(***************************************************************************)
(* Where the future is driven from.  Futures the queue discards are gone,  *)
(* each reported once; what they had sent may still reach the store.       *)
(***************************************************************************)
Moved(r, to, discards) ==
  /\ place' = [s \in Responses |->
                 IF s \in discards THEN "gone" ELSE IF s = r THEN to ELSE place[s]]
  /\ Report(discards)

\* ObservedBody::drop parks what still pends after its one poll.
DropBody(r) ==
  LET p == home[r] IN
  /\ place[r] = "body" /\ answer[r] = "sent"
  /\ queue' = [queue EXCEPT ![p] = Parked(@, Capacity, r)]
  /\ Moved(r, "queue", ParkDiscards(queue[p], Capacity, r))
  /\ UNCHANGED <<life, stored, reply, home, step, answer, seen, charges, crashes,
                 oddly>>

DrainPeeks(p) ==
  /\ queue[p] # <<>>
  /\ place' = [place EXCEPT ![Head(queue[p])] = "drain"]
  /\ UNCHANGED <<life, stored, reply, home, step, answer, queue, seen, charges, explained,
                 crashes, oddly>>

\* drain_some(): a request or the flush loop takes the oldest future.
DrainTakes(p) ==
  /\ queue[p] # <<>>
  /\ queue' = [queue EXCEPT ![p] = Tail(@)]
  /\ place' = [place EXCEPT ![Head(queue[p])] = "drain"]
  /\ UNCHANGED <<life, stored, reply, home, step, answer, seen, charges, explained, crashes,
                 oddly>>

\* The drain is cancelled before its future ends.
CancelDrain(r) ==
  LET p == home[r] IN
  /\ place[r] = "drain"
  /\ queue' = [queue EXCEPT ![p] = Requeued(@, Capacity, r)]
  /\ Moved(r, "queue", RequeueDiscards(queue[p], Capacity))
  /\ UNCHANGED <<life, stored, reply, home, step, answer, seen, charges, crashes,
                 oddly>>

\* A recorder that panics unwinds the drain instead: its future is not run again.
PanicDrain(r) ==
  /\ RecorderFails
  /\ place[r] = "drain" /\ step[r] = "claim" /\ answer[r] = "found" /\ Bills(r)
  /\ Moved(r, "gone", {r})
  /\ UNCHANGED <<life, stored, reply, home, step, answer, queue, seen, charges, crashes,
                 oddly>>

\* In the body it takes the claimed attribution with it, and nothing counts that: the
\* first poll_frame and ObservedBody::drop poll a future they own.  A later poll_frame
\* leaves it to the destructor, which polls it again while unwinding: a Crash.
PanicBody(r) ==
  /\ RecorderFails
  /\ place[r] = "body" /\ step[r] = "claim" /\ answer[r] = "found" /\ Bills(r)
  /\ place' = [place EXCEPT ![r] = "gone"]
  /\ Excuse({reply[r].task})
  /\ UNCHANGED <<life, stored, reply, home, step, answer, queue, seen, charges, crashes,
                 oddly>>

\* A replica dies with its futures, its queue and its recorder's memory.
Crash(p) ==
  LET mine == {r \in Responses : home[r] = p /\ place[r] # "gone"} IN
  /\ crashes < MaxCrashes
  /\ crashes' = crashes + 1
  /\ Excuse({reply[r].task : r \in mine})
  /\ place' = [r \in Responses |-> IF r \in mine THEN "gone" ELSE place[r]]
  /\ queue' = [queue EXCEPT ![p] = <<>>]
  /\ seen' = [seen EXCEPT ![p] = {}]
  /\ UNCHANGED <<life, stored, reply, home, step, answer, charges, oddly>>

Driving(r) == DropBody(r) \/ CancelDrain(r) \/ PanicDrain(r) \/ PanicBody(r)

TaskNext ==
  \/ \E t \in Tasks : TaskEnds(t) \/ Forget(t)
  \/ \E r \in Responses, p \in Replicas, t \in Tasks : Respond(r, p, t)
  \/ \E r \in Responses : StoreApplies(r) \/ StoreRejects(r) \/ Accounting(r) \/ Driving(r)
  \/ \E p \in Replicas : DrainTakes(p) \/ Crash(p)

TaskSpec == TaskInit /\ [][TaskNext]_taskVars
-------------------------------------------------------------------------------
(***************************************************************************)
(* "The caller MUST NOT record this charge more than once" (charge.rs).    *)
(* Completion::finish, claim().                                            *)
(***************************************************************************)
ChargedOnce == \A t \in Tasks : charges[t] <= 1

(***************************************************************************)
(* Across replicas, crashes, cancelled drains, discarded futures and late  *)
(* store effects, a task is charged once at most, although every replica   *)
(* remembers only its own charges, unless a poll of it was answered in the *)
(* shape of a creation.  Completion::finish, claim().                      *)
(***************************************************************************)
ChargedOnceUnlessOdd == \A t \in Tasks : oddly[t] = 0 => charges[t] <= 1

\* A live future has its price, or is about to count its failure.
Holds(r) ==
  /\ place[r] # "gone"
  /\ \/ step[r] = "begin" /\ Inserts(r)
     \/ step[r] \in {"insert", "claim", "restore"} /\ answer[r] = "error"
     \/ step[r] = "claim" /\ answer[r] = "found"

\* The store still is to apply an insertion, even for a future that is gone.
OnItsWay(r) == step[r] \in {"insert", "restore"} /\ answer[r] = "sent"

Lost(t) ==
  /\ life[t] \in {"working", "completed"}
  /\ charges[t] = 0 /\ t \notin stored
  /\ \A r \in Responses : reply[r].task = t => ~Holds(r) /\ ~OnItsWay(r)

(***************************************************************************)
(* Refusals, store failures, lost answers, full queues, cancelled and      *)
(* unwinding drains never lose a charge silently: when the attribution of  *)
(* a task is nowhere any more, record_failures or the queue's dropped      *)
(* counter has counted one of the task's futures, unless one of the ways   *)
(* nothing counts took it: a crash, its expiry or eviction in the store,   *)
(* a recorder that panicked while the body polled the future.              *)
(* Completion::finish, park, requeue_in_flight, InFlight::drop.            *)
(***************************************************************************)
LossesAreExplained == {t \in Tasks : Lost(t)} \subseteq explained

(***************************************************************************)
(* A future is parked in its own replica's queue exactly once or not at    *)
(* all: none is run twice, none waits where no drain will find it, and the *)
(* queue keeps its bound when a cancelled drain puts its future back.      *)
(***************************************************************************)
ParkedOnce ==
  \A p \in Replicas :
    /\ Len(queue[p]) <= Capacity
    /\ \A r \in Responses :
         Cardinality({i \in DOMAIN queue[p] : queue[p][i] = r})
           = IF place[r] = "queue" /\ home[r] = p THEN 1 ELSE 0
-------------------------------------------------------------------------------
(***************************************************************************)
(* Liveness.  The store answers; requests or the flush loop keep draining; *)
(* a drain polls what it takes before it can be cancelled, so accounting   *)
(* that can go on each time it is taken goes on (strong fairness); and     *)
(* clients poll until they have seen the task's result.                    *)
(***************************************************************************)
PollCompleted(r, p, t) ==
  /\ Respond(r, p, t)
  /\ reply'[r].result = "complete" /\ reply'[r].status = "completed"

TaskFairness ==
  /\ \A r \in Responses : WF_taskVars(StoreApplies(r)) /\ SF_taskVars(Accounting(r))
  /\ \A p \in Replicas : WF_taskVars(DrainTakes(p))
  /\ \A t \in Tasks : SF_taskVars(\E r \in Responses, p \in Replicas : PollCompleted(r, p, t))

TaskFairSpec == TaskSpec /\ TaskFairness

(***************************************************************************)
(* Whatever is parked, cancelled, or claimed by polls that turn out to be  *)
(* free, a completed task is charged in the end, unless its loss has been  *)
(* counted or is one of those nothing counts, once odd polls stop: no      *)
(* attribution stays out of the store with nobody to put it back.          *)
(* Completion::finish, drain_some.                                         *)
(***************************************************************************)
CompletedIsSettled ==
  \A t \in Tasks :
    life[t] = "completed" ~> charges[t] > 0 \/ t \in explained
===============================================================================
