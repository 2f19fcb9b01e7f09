-------------------------- MODULE TaskMeteringProofs --------------------------
(***************************************************************************)
(* Proofs about TaskMetering, for any tasks, replicas, responses, queue    *)
(* capacity, failures and crashes.                                         *)
(*                                                                         *)
(* The right to charge a task is a token.  It is made when the task is     *)
(* created, and from then on only moves: from the creating response to the *)
(* store, from the store to the poll that claims it, from there into the   *)
(* charge or back.  Only a poll answered in the shape of a creation makes  *)
(* another.  No step needs to know what a recorder remembers.              *)
(*                                                                         *)
(* Two more invariants follow the futures: QueueInv, the parked ones, each *)
(* once in its replica's queue, and LossInv, what a future holds or has    *)
(* under way, so that a price that is nowhere is explained.                *)
(***************************************************************************)
EXTENDS TaskMetering, TLAPS, FiniteSetTheorems, SequenceTheorems

Steps == {"begin", "insert", "claim", "restore", "remove", "end"}
AnswersOfStore == {"idle", "sent", "ok", "found", "error"}
Replies ==
  [task : Tasks \cup {"none"}, method : {"none", "tools/call", "tasks/get"},
   result : {"none", "complete", "task"},
   status : {"none", "working", "completed", "failed"}]

\* A response that may put the price of its task into the store, or charge it.
Token(r) ==
  \/ step[r] = "begin" /\ Inserts(r)
  \/ step[r] \in {"insert", "restore"} /\ answer[r] = "sent"
  \/ step[r] = "claim" /\ answer[r] = "found"

Shape ==
  /\ life \in [Tasks -> {"none", "working", "completed", "failed"}]
  /\ reply \in [Responses -> Replies]
  /\ step \in [Responses -> Steps]
  /\ answer \in [Responses -> AnswersOfStore]
  /\ charges \in [Tasks -> 0..2]
  /\ oddly \in [Tasks -> Nat]

OneToken ==
  /\ \A r, s \in Responses :
       Token(r) /\ Token(s) /\ reply[r].task = reply[s].task /\ oddly[reply[r].task] = 0 => r = s
  /\ \A r \in Responses : Token(r) /\ oddly[reply[r].task] = 0 => reply[r].task \notin stored

SpentOnce ==
  /\ ChargedOnceUnlessOdd
  /\ \A t \in Tasks : charges[t] = 1 /\ oddly[t] = 0 =>
       t \notin stored /\ \A r \in Responses : Token(r) => reply[r].task # t

UnusedBefore ==
  \A t \in Tasks : life[t] = "none" =>
    /\ charges[t] = 0 /\ t \notin stored
    /\ \A r \in Responses : Token(r) => reply[r].task # t

SentByAnOperation ==
  \A r \in Responses :
    /\ answer[r] = "sent" => step[r] \in {"insert", "claim", "restore", "remove"}
    /\ step[r] # "end" => reply[r].task \in Tasks

TokenInv == Shape /\ OneToken /\ SpentOnce /\ UnusedBefore /\ SentByAnOperation
-------------------------------------------------------------------------------
LEMMA InitTokens == TaskInit => TokenInv
<1> SUFFICES ASSUME TaskInit PROVE TokenInv
  OBVIOUS
<1>1. Shape
  <2>1. NoReply \in Replies
    BY DEF NoReply, Replies
  <2>2. QED
    BY <2>1 DEF TaskInit, Shape, Steps, AnswersOfStore
<1>2. \A r \in Responses : ~Token(r)
  BY DEF TaskInit, Token
<1>3. QED
  BY <1>1, <1>2 DEF TokenInv, OneToken, SpentOnce, ChargedOnceUnlessOdd, UnusedBefore,
                    SentByAnOperation, TaskInit

\* A step that makes no token and disturbs neither lives, store nor charges.
LEMMA NoNewToken ==
  ASSUME TokenInv, UNCHANGED <<life, stored, charges, oddly>>, Shape', SentByAnOperation',
         \A r \in Responses : Token(r)' => Token(r) /\ reply'[r] = reply[r]
  PROVE  TokenInv'
BY DEF TokenInv, OneToken, SpentOnce, ChargedOnceUnlessOdd, UnusedBefore

\* Steps that leave every future's accounting alone.
LEMMA SameAccounting ==
  ASSUME TokenInv, UNCHANGED <<life, stored, charges, reply, step, answer, oddly>>
  PROVE  TokenInv'
<1>1. Shape' /\ SentByAnOperation'
  BY DEF TokenInv, Shape, SentByAnOperation
<1>2. \A r \in Responses : Token(r)' => Token(r) /\ reply'[r] = reply[r]
  BY DEF Token, Inserts
<1>3. QED
  BY <1>1, <1>2, NoNewToken

LEMMA RespondTokens ==
  ASSUME TokenInv, NEW r \in Responses, NEW p \in Replicas, NEW t \in Tasks, Respond(r, p, t)
  PROVE  TokenInv'
<1>1. PICK a \in Answers(t) :
        /\ reply' = [reply EXCEPT ![r] = a]
        /\ oddly' = IF Odd(a) THEN [oddly EXCEPT ![t] = @ + 1] ELSE oddly
  BY DEF Respond
<1>2. a \in Replies /\ a.task = t /\ (life[t] = "none" => ~Odd(a))
      /\ (a.result = "task" <=> life[t] = "none" \/ Odd(a))
  <2>1. life[t] \in {"none", "working", "completed", "failed"}
    BY DEF TokenInv, Shape
  <2>2. CASE life[t] = "none"
    BY <2>2 DEF Answers, Replies, Odd
  <2>3. CASE life[t] # "none"
    <3>1. a \in [task : {t}, method : {"tasks/get"}, status : {life[t]},
                 result : {"complete", "task"}]
      BY <2>3 DEF Answers
    <3>2. QED
      BY <2>1, <2>3, <3>1 DEF Replies, Odd
  <2>4. QED
    BY <2>2, <2>3
<1>3. /\ oddly' \in [Tasks -> Nat]
      /\ \A u \in Tasks : u # t => oddly'[u] = oddly[u]
      /\ oddly'[t] = 0 => oddly[t] = 0 /\ ~Odd(a)
  BY <1>1 DEF TokenInv, Shape
<1>4. Shape'
  BY <1>1, <1>2, <1>3 DEF Respond, TokenInv, Shape, Steps, AnswersOfStore
<1>5. SentByAnOperation'
  BY <1>1, <1>2, <1>4 DEF Respond, TokenInv, Shape, SentByAnOperation
<1>6. \A s \in Responses : s # r => (Token(s)' <=> Token(s)) /\ reply'[s] = reply[s]
  BY <1>1 DEF Respond, Token, Inserts, TokenInv, Shape
<1>7. reply'[r].task = t /\ (Token(r)' <=> life[t] = "none" \/ Odd(a))
  BY <1>1, <1>2 DEF Respond, Token, Inserts, TokenInv, Shape
<1>8. \A s \in Responses : s # r /\ Token(s)' /\ life[t] = "none" => reply'[s].task # t
  BY <1>6 DEF TokenInv, UnusedBefore
<1>9. stored' = stored /\ charges' = charges
  BY DEF Respond
<1>10. \A s \in Responses : Token(s)' => reply'[s].task \in Tasks
  BY <1>5 DEF SentByAnOperation, Token
<1>11. OneToken'
  BY <1>3, <1>6, <1>7, <1>8, <1>9, <1>10 DEF TokenInv, OneToken, UnusedBefore
<1>12. SpentOnce'
  BY <1>3, <1>6, <1>7, <1>8, <1>9 DEF TokenInv, SpentOnce, ChargedOnceUnlessOdd, UnusedBefore
<1>13. life'[t] # "none" /\ \A u \in Tasks : u # t => life'[u] = life[u]
  BY DEF Respond, TokenInv, Shape
<1>14. UnusedBefore'
  BY <1>6, <1>7, <1>9, <1>13 DEF TokenInv, UnusedBefore
<1>15. QED
  BY <1>4, <1>5, <1>11, <1>12, <1>14 DEF TokenInv

LEMMA TaskEndsTokens ==
  ASSUME TokenInv, NEW t \in Tasks, TaskEnds(t)
  PROVE  TokenInv'
<1>1. Shape' /\ \A u \in Tasks : life'[u] = "none" => life[u] = "none"
  BY DEF TaskEnds, TokenInv, Shape, futureVars
<1>2. \A r \in Responses : Token(r)' <=> Token(r)
  BY DEF TaskEnds, Token, Inserts, futureVars
<1>3. QED
  BY <1>1, <1>2 DEF TokenInv, OneToken, SpentOnce, ChargedOnceUnlessOdd, UnusedBefore, SentByAnOperation,
                    TaskEnds, futureVars

LEMMA ForgetTokens ==
  ASSUME TokenInv, NEW t \in Tasks, Forget(t)
  PROVE  TokenInv'
<1>1. \A r \in Responses : Token(r)' <=> Token(r)
  BY DEF Forget, Token, Inserts, futureVars
<1>2. QED
  BY <1>1 DEF TokenInv, Shape, OneToken, SpentOnce, ChargedOnceUnlessOdd, UnusedBefore, SentByAnOperation,
              Forget, futureVars
-------------------------------------------------------------------------------
\* An insertion moves its token into the store, a claim takes the store's.
LEMMA StoreAppliesTokens ==
  ASSUME TokenInv, NEW r \in Responses, StoreApplies(r)
  PROVE  TokenInv'
<1> DEFINE t == reply[r].task
<1>1. step[r] \in {"insert", "claim", "restore", "remove"} /\ answer[r] = "sent" /\ t \in Tasks
  BY DEF StoreApplies, TokenInv, SentByAnOperation
<1>2. PICK a \in {Found(r), "error"} : answer' = [answer EXCEPT ![r] = a]
  BY DEF StoreApplies
<1>3. a \in AnswersOfStore /\ a # "sent"
  BY <1>2 DEF Found, AnswersOfStore
<1>4. UNCHANGED <<life, reply, step, charges, oddly>>
  BY DEF StoreApplies
<1>5. Shape' /\ SentByAnOperation'
  BY <1>2, <1>3, <1>4 DEF TokenInv, Shape, SentByAnOperation
<1>6. \A s \in Responses : s # r => (Token(s)' <=> Token(s))
  BY <1>2, <1>4 DEF Token, Inserts, TokenInv, Shape
<1>7. CASE step[r] \in {"insert", "restore"}
  <2>1. Token(r) /\ ~Token(r)'
    BY <1>1, <1>2, <1>3, <1>4, <1>7 DEF Token, TokenInv, Shape
  <2>2. PICK evicted \in SUBSET stored : stored' = (stored \cup {t}) \ evicted
    BY <1>7 DEF StoreApplies, Effect, Inserted, Evictions
  <2>3. QED
    BY <1>4, <1>5, <1>6, <2>1, <2>2
       DEF TokenInv, OneToken, SpentOnce, ChargedOnceUnlessOdd, UnusedBefore
<1>8. CASE step[r] = "claim"
  <2>1. ~Token(r) /\ (Token(r)' => t \in stored)
    BY <1>1, <1>2, <1>4, <1>8 DEF Token, Found, TokenInv, Shape
  <2>2. stored' = stored \ {t}
    BY <1>8 DEF StoreApplies, Effect, Claimed, Evictions
  <2>3. QED
    BY <1>1, <1>4, <1>5, <1>6, <2>1, <2>2
       DEF TokenInv, OneToken, SpentOnce, ChargedOnceUnlessOdd, UnusedBefore
<1>9. CASE step[r] = "remove"
  <2>1. ~Token(r)'
    BY <1>4, <1>9 DEF Token
  <2>2. stored' = stored \ {t}
    BY <1>9 DEF StoreApplies, Effect, Evictions
  <2>3. QED
    BY <1>4, <1>5, <1>6, <2>1, <2>2
       DEF TokenInv, OneToken, SpentOnce, ChargedOnceUnlessOdd, UnusedBefore
<1>10. QED
  BY <1>1, <1>7, <1>8, <1>9

LEMMA StoreRejectsTokens ==
  ASSUME TokenInv, NEW r \in Responses, StoreRejects(r)
  PROVE  TokenInv'
<1>1. Shape' /\ SentByAnOperation'
  BY DEF StoreRejects, TokenInv, Shape, AnswersOfStore, SentByAnOperation
<1>2. \A s \in Responses : Token(s)' => Token(s) /\ reply'[s] = reply[s]
  BY DEF StoreRejects, Token, Inserts, TokenInv, Shape
<1>3. QED
  BY <1>1, <1>2, NoNewToken DEF StoreRejects
-------------------------------------------------------------------------------
\* What one future's step does to the others, and to the shape of the state.
LEMMA StepOfOne ==
  ASSUME TokenInv, NEW r \in Responses, NEW op \in Steps, NEW a \in {"idle", "sent"},
         step' = [step EXCEPT ![r] = op], answer' = [answer EXCEPT ![r] = a],
         reply' = IF op = "end" THEN [reply EXCEPT ![r] = NoReply] ELSE reply,
         UNCHANGED <<life, oddly>>, charges' \in [Tasks -> 0..2],
         a = "sent" => op \in {"insert", "claim", "restore", "remove"},
         step[r] # "end"
  PROVE  /\ Shape' /\ SentByAnOperation'
         /\ \A s \in Responses : s # r => (Token(s)' <=> Token(s)) /\ reply'[s] = reply[s]
         /\ step'[r] = op /\ answer'[r] = a
<1>1. NoReply \in Replies
  BY DEF NoReply, Replies
<1>2. reply' \in [Responses -> Replies] /\ \A s \in Responses : s # r => reply'[s] = reply[s]
  BY <1>1 DEF TokenInv, Shape
<1>3. step'[r] = op /\ answer'[r] = a
  BY DEF TokenInv, Shape
<1>4. Shape'
  BY <1>2 DEF TokenInv, Shape, AnswersOfStore
<1>5. SentByAnOperation'
  BY <1>2 DEF TokenInv, Shape, SentByAnOperation
<1>6. \A s \in Responses : s # r => (Token(s)' <=> Token(s))
  BY <1>2 DEF TokenInv, Shape, Token, Inserts
<1>7. QED
  BY <1>2, <1>3, <1>4, <1>5, <1>6

LEMMA StartAccountingTokens ==
  ASSUME TokenInv, NEW r \in Responses, StartAccounting(r)
  PROVE  TokenInv'
<1>1. PICK op \in Steps, a \in {"idle", "sent"} :
        /\ step' = [step EXCEPT ![r] = op] /\ answer' = [answer EXCEPT ![r] = a]
        /\ reply' = IF op = "end" THEN [reply EXCEPT ![r] = NoReply] ELSE reply
        /\ a = "sent" => op \in {"insert", "claim", "remove"}
        /\ op = "insert" => Inserts(r)
        /\ op \in {"insert", "claim", "remove", "end"}
        /\ a = "idle" => op = "end"
  BY DEF StartAccounting, ClaimOrFree, CleanUp, Await, End, Steps
<1>2. UNCHANGED <<life, stored, charges, oddly>> /\ step[r] = "begin"
  BY DEF StartAccounting
<1>3. charges' \in [Tasks -> 0..2]
  BY <1>2 DEF TokenInv, Shape
<1>4. /\ Shape' /\ SentByAnOperation'
      /\ \A s \in Responses : s # r => (Token(s)' <=> Token(s)) /\ reply'[s] = reply[s]
      /\ step'[r] = op /\ answer'[r] = a
  BY <1>1, <1>2, <1>3, StepOfOne
<1>5. Token(r)' => Token(r) /\ reply'[r] = reply[r]
  BY <1>1, <1>2, <1>4 DEF Token
<1>6. QED
  BY <1>2, <1>4, <1>5, NoNewToken

\* Steps after which the future holds no token.
LEMMA LetsGo ==
  ASSUME TokenInv, NEW r \in Responses, NEW op \in {"claim", "remove", "end"},
         NEW a \in {"idle", "sent"}, a = "sent" => op # "end",
         step' = [step EXCEPT ![r] = op], answer' = [answer EXCEPT ![r] = a],
         reply' = IF op = "end" THEN [reply EXCEPT ![r] = NoReply] ELSE reply,
         UNCHANGED <<life, stored, charges, oddly>>, step[r] # "end"
  PROVE  TokenInv'
<1>1. charges' \in [Tasks -> 0..2] /\ op \in Steps
  BY DEF TokenInv, Shape, Steps
<1>2. /\ Shape' /\ SentByAnOperation'
      /\ \A s \in Responses : s # r => (Token(s)' <=> Token(s)) /\ reply'[s] = reply[s]
      /\ step'[r] = op /\ answer'[r] = a
  BY <1>1, StepOfOne
<1>3. ~Token(r)'
  BY <1>2 DEF Token
<1>4. QED
  BY <1>2, <1>3, NoNewToken

LEMMA AfterInsertTokens ==
  ASSUME TokenInv, NEW r \in Responses, AfterInsert(r)
  PROVE  TokenInv'
<1>1. PICK op \in {"claim", "remove", "end"}, a \in {"idle", "sent"} :
        /\ step' = [step EXCEPT ![r] = op] /\ answer' = [answer EXCEPT ![r] = a]
        /\ reply' = IF op = "end" THEN [reply EXCEPT ![r] = NoReply] ELSE reply
        /\ a = "sent" => op # "end"
  BY DEF AfterInsert, ClaimOrFree, CleanUp, Await, End
<1>2. QED
  BY <1>1, LetsGo DEF AfterInsert

LEMMA EndsTokens ==
  ASSUME TokenInv, NEW r \in Responses, NothingClaimed(r) \/ Finish(r)
  PROVE  TokenInv'
<1>1. /\ step' = [step EXCEPT ![r] = "end"] /\ answer' = [answer EXCEPT ![r] = "idle"]
      /\ reply' = [reply EXCEPT ![r] = NoReply]
  BY DEF NothingClaimed, Finish, End
<1>2. UNCHANGED <<life, stored, charges, oddly>> /\ step[r] # "end"
  BY DEF NothingClaimed, Finish
<1>3. QED
  BY <1>1, <1>2, LetsGo

\* The charge spends the token.
LEMMA ChargedTokens ==
  ASSUME TokenInv, NEW r \in Responses, Charged(r)
  PROVE  TokenInv'
<1> DEFINE t == reply[r].task
<1>1. step[r] = "claim" /\ Token(r) /\ t \in Tasks
  BY DEF Charged, Token, TokenInv, SentByAnOperation
<1>2. oddly[t] = 0 => charges[t] = 0
  BY <1>1 DEF TokenInv, SpentOnce, ChargedOnceUnlessOdd, Shape
<1>3. charges' \in [Tasks -> 0..2] /\ (oddly[t] = 0 => charges'[t] <= 1)
      /\ \A u \in Tasks : u # t => charges'[u] = charges[u]
  BY <1>1, <1>2 DEF Charged, TokenInv, Shape
<1>4. UNCHANGED <<life, stored, oddly>>
  BY DEF Charged
<1>5. /\ step' = [step EXCEPT ![r] = "end"] /\ answer' = [answer EXCEPT ![r] = "idle"]
      /\ reply' = [reply EXCEPT ![r] = NoReply]
  BY DEF Charged, End
<1>6. /\ Shape' /\ SentByAnOperation'
      /\ \A s \in Responses : s # r => (Token(s)' <=> Token(s)) /\ reply'[s] = reply[s]
      /\ step'[r] = "end"
  BY <1>1, <1>3, <1>4, <1>5, StepOfOne DEF Steps
<1>7. ~Token(r)' /\ life[t] # "none" /\ (oddly[t] = 0 => t \notin stored)
      /\ \A s \in Responses : s # r /\ Token(s) /\ oddly[t] = 0 => reply[s].task # t
  BY <1>1, <1>6 DEF Token, TokenInv, UnusedBefore, OneToken
<1>8. OneToken'
  BY <1>4, <1>6, <1>7 DEF TokenInv, OneToken
<1>9. SpentOnce'
  BY <1>3, <1>4, <1>6, <1>7 DEF TokenInv, SpentOnce, ChargedOnceUnlessOdd, Shape
<1>10. UnusedBefore'
  BY <1>3, <1>4, <1>6, <1>7 DEF TokenInv, UnusedBefore
<1>11. QED
  BY <1>6, <1>8, <1>9, <1>10 DEF TokenInv

\* A claimed price goes back with the token that claimed it.
LEMMA RestoresTokens ==
  ASSUME TokenInv, NEW r \in Responses, Refused(r) \/ FreeVerdict(r)
  PROVE  TokenInv'
<1>1. UNCHANGED <<life, stored, charges, reply, oddly>> /\ step[r] # "end" /\ Token(r)
  BY DEF Refused, FreeVerdict, Await, Token
<1>2. step' = [step EXCEPT ![r] = "restore"] /\ answer' = [answer EXCEPT ![r] = "sent"]
  BY DEF Refused, FreeVerdict, Await
<1>3. charges' \in [Tasks -> 0..2]
  BY <1>1 DEF TokenInv, Shape
<1>4. /\ Shape' /\ SentByAnOperation'
      /\ \A s \in Responses : s # r => (Token(s)' <=> Token(s)) /\ reply'[s] = reply[s]
  BY <1>1, <1>2, <1>3, StepOfOne DEF Steps
<1>5. QED
  BY <1>1, <1>4, NoNewToken
-------------------------------------------------------------------------------
LEMMA StepTokens ==
  ASSUME TokenInv, [TaskNext]_taskVars
  PROVE  TokenInv'
<1>1. ASSUME NEW t \in Tasks, TaskEnds(t) \/ Forget(t)
      PROVE  TokenInv'
  BY <1>1, TaskEndsTokens, ForgetTokens
<1>2. ASSUME NEW r \in Responses, NEW p \in Replicas, NEW t \in Tasks, Respond(r, p, t)
      PROVE  TokenInv'
  BY <1>2, RespondTokens
<1>3. ASSUME NEW r \in Responses, StoreApplies(r) \/ StoreRejects(r)
      PROVE  TokenInv'
  BY <1>3, StoreAppliesTokens, StoreRejectsTokens
<1>4. ASSUME NEW r \in Responses, Accounting(r)
      PROVE  TokenInv'
  BY <1>4, StartAccountingTokens, AfterInsertTokens, EndsTokens, ChargedTokens, RestoresTokens
     DEF Accounting
<1>5. ASSUME NEW r \in Responses, Driving(r)
      PROVE  TokenInv'
  BY <1>5, SameAccounting DEF Driving, DropBody, CancelDrain, PanicDrain, PanicBody
<1>6. ASSUME NEW p \in Replicas, DrainTakes(p) \/ Crash(p)
      PROVE  TokenInv'
  BY <1>6, SameAccounting DEF DrainTakes, Crash
<1>7. CASE UNCHANGED taskVars
  BY <1>7, SameAccounting DEF taskVars, futureVars
<1>8. QED
  BY <1>1, <1>2, <1>3, <1>4, <1>5, <1>6, <1>7 DEF TaskNext

(***************************************************************************)
(* A task none of whose polls was answered in the shape of a creation is   *)
(* charged once at most, with any number of replicas, responses, store     *)
(* failures, late store effects, cancelled or unwinding drains, discards   *)
(* and crashes, and whatever happens to other tasks: claim() alone is      *)
(* enough, and no recorder's memory is needed.                             *)
(***************************************************************************)
THEOREM ClaimedOnce == TaskSpec => []ChargedOnceUnlessOdd
<1>1. TokenInv /\ [TaskNext]_taskVars => TokenInv'
  BY StepTokens
<1>2. TokenInv => ChargedOnceUnlessOdd
  BY DEF TokenInv, SpentOnce
<1>3. QED
  BY <1>1, <1>2, InitTokens, PTL DEF TaskSpec
-------------------------------------------------------------------------------
\* The futures in a queue, and that none is in it twice.
Futures(q) == {q[i] : i \in 1..Len(q)}
Distinct(q) == \A i, j \in 1..Len(q) : q[i] = q[j] => i = j

\* The newest future joins a queue with room.
LEMMA AppendKeepsDistinct ==
  ASSUME NEW S, NEW q \in Seq(S), NEW f \in S, Distinct(q), f \notin Futures(q)
  PROVE  /\ Append(q, f) \in Seq(S) /\ Len(Append(q, f)) = Len(q) + 1
         /\ Distinct(Append(q, f)) /\ Futures(Append(q, f)) = Futures(q) \cup {f}
<1>1. /\ Append(q, f) \in Seq(S) /\ Len(Append(q, f)) = Len(q) + 1 /\ Len(q) \in Nat
      /\ \A i \in 1..Len(q) : Append(q, f)[i] = q[i]
      /\ Append(q, f)[Len(q) + 1] = f
  OBVIOUS
<1>2. \A i \in 1..(Len(q) + 1) : i \in 1..Len(q) \/ i = Len(q) + 1
  BY <1>1
<1>3. Distinct(Append(q, f))
  BY <1>1, <1>2 DEF Distinct, Futures
<1>4. Futures(Append(q, f)) = Futures(q) \cup {f}
  <2>1. \A x \in Futures(Append(q, f)) : x \in Futures(q) \cup {f}
    BY <1>1, <1>2 DEF Futures
  <2>2. \A x \in Futures(q) : x \in Futures(Append(q, f))
    BY <1>1 DEF Futures
  <2>3. f \in Futures(Append(q, f))
    BY <1>1 DEF Futures
  <2>4. QED
    BY <2>1, <2>2, <2>3
<1>5. QED
  BY <1>1, <1>3, <1>4

\* The oldest future leaves.
LEMMA TailKeepsDistinct ==
  ASSUME NEW S, NEW q \in Seq(S), q # <<>>, Distinct(q)
  PROVE  /\ Tail(q) \in Seq(S) /\ Len(Tail(q)) = Len(q) - 1 /\ Distinct(Tail(q))
         /\ Head(q) \in Futures(q) /\ Futures(Tail(q)) = Futures(q) \ {Head(q)}
<1>1. /\ Tail(q) \in Seq(S) /\ Len(Tail(q)) = Len(q) - 1 /\ Len(q) \in Nat \ {0}
      /\ \A i \in 1..(Len(q) - 1) : Tail(q)[i] = q[i + 1]
      /\ Head(q) = q[1]
  OBVIOUS
<1>2. Distinct(Tail(q))
  BY <1>1 DEF Distinct
<1>3. Head(q) \in Futures(q)
  BY <1>1 DEF Futures
<1>4. Futures(Tail(q)) = Futures(q) \ {Head(q)}
  <2>1. ASSUME NEW x \in Futures(Tail(q))
        PROVE  x \in Futures(q) \ {Head(q)}
    <3>1. PICK i \in 1..(Len(q) - 1) : x = q[i + 1]
      BY <1>1 DEF Futures
    <3>2. i + 1 \in 1..Len(q) /\ 1 \in 1..Len(q) /\ i + 1 # 1
      BY <1>1
    <3>3. QED
      BY <1>1, <3>1, <3>2 DEF Futures, Distinct
  <2>2. ASSUME NEW x \in Futures(q), x # Head(q)
        PROVE  x \in Futures(Tail(q))
    <3>1. PICK i \in 1..Len(q) : x = q[i] /\ i # 1
      BY <1>1, <2>2 DEF Futures
    <3>2. i - 1 \in 1..(Len(q) - 1) /\ i = (i - 1) + 1
      BY <1>1, <3>1
    <3>3. x = Tail(q)[i - 1]
      BY <1>1, <3>1, <3>2
    <3>4. QED
      BY <1>1, <3>2, <3>3 DEF Futures
  <2>3. QED
    BY <2>1, <2>2
<1>5. QED
  BY <1>1, <1>2, <1>3, <1>4

AllButLast(q) == SubSeq(q, 1, Len(q) - 1)

\* The newest future is cut off.
LEMMA AllButLastKeepsDistinct ==
  ASSUME NEW S, NEW q \in Seq(S), q # <<>>, Distinct(q)
  PROVE  /\ AllButLast(q) \in Seq(S) /\ Len(AllButLast(q)) = Len(q) - 1
         /\ Distinct(AllButLast(q))
         /\ q[Len(q)] \in Futures(q) /\ Futures(AllButLast(q)) = Futures(q) \ {q[Len(q)]}
<1>1. /\ Len(q) \in Nat \ {0}
      /\ \A i \in 1..Len(q) : q[i] \in S
  OBVIOUS
<1>2. /\ AllButLast(q) \in Seq(S) /\ Len(AllButLast(q)) = Len(q) - 1
      /\ \A i \in 1..(Len(q) - 1) : AllButLast(q)[i] = q[i]
  <2>1. \A i \in 1..(Len(q) - 1) : q[i] \in S /\ 1 + i - 1 = i
    BY <1>1
  <2>2. 1 \in Int /\ Len(q) - 1 \in Int
    BY <1>1
  <2>3. /\ SubSeq(q, 1, Len(q) - 1) \in Seq(S)
        /\ Len(SubSeq(q, 1, Len(q) - 1)) = IF 1 <= Len(q) - 1 THEN Len(q) - 1 - 1 + 1 ELSE 0
        /\ \A i \in 1..(Len(q) - 1 - 1 + 1) : SubSeq(q, 1, Len(q) - 1)[i] = q[1 + i - 1]
    BY <2>1, <2>2, SubSeqProperties
  <2>4. AllButLast(q) = SubSeq(q, 1, Len(q) - 1)
    BY DEF AllButLast
  <2>5. Len(AllButLast(q)) = Len(q) - 1
    <3>1. \A n \in Nat \ {0} : (IF 1 <= n - 1 THEN n - 1 - 1 + 1 ELSE 0) = n - 1
      OBVIOUS
    <3>2. (IF 1 <= Len(q) - 1 THEN Len(q) - 1 - 1 + 1 ELSE 0) = Len(q) - 1
      BY <1>1, <3>1
    <3>3. Len(SubSeq(q, 1, Len(q) - 1)) = Len(q) - 1
      BY <2>3, <3>2
    <3>4. QED
      BY <2>4, <3>3
  <2>6. ASSUME NEW i \in 1..(Len(q) - 1)
        PROVE  AllButLast(q)[i] = q[i]
    <3>1. i \in 1..(Len(q) - 1 - 1 + 1) /\ 1 + i - 1 = i
      BY <1>1
    <3>2. SubSeq(q, 1, Len(q) - 1)[i] = q[1 + i - 1]
      BY <2>3, <3>1
    <3>3. QED
      BY <2>4, <3>1, <3>2
  <2>7. QED
    BY <2>3, <2>4, <2>5, <2>6
<1>3. \A i \in 1..Len(q) : i \in 1..(Len(q) - 1) \/ i = Len(q)
  BY <1>1
<1>4. Len(q) \in 1..Len(q) /\ \A i \in 1..(Len(q) - 1) : i \in 1..Len(q) /\ i # Len(q)
  BY <1>1
<1>5. Distinct(AllButLast(q))
  BY <1>2, <1>4 DEF Distinct
<1>6. Futures(AllButLast(q)) = Futures(q) \ {q[Len(q)]}
  <2>1. ASSUME NEW x \in Futures(AllButLast(q))
        PROVE  x \in Futures(q) \ {q[Len(q)]}
    <3>1. PICK i \in 1..(Len(q) - 1) : x = AllButLast(q)[i]
      BY <1>2, <2>1 DEF Futures
    <3>2. x = q[i] /\ i \in 1..Len(q) /\ q[i] # q[Len(q)]
      BY <1>2, <1>4, <3>1 DEF Distinct
    <3>3. QED
      BY <1>1, <3>2 DEF Futures
  <2>2. \A x \in Futures(q) \ {q[Len(q)]} : x \in Futures(AllButLast(q))
    BY <1>1, <1>2, <1>3 DEF Futures
  <2>3. QED
    BY <2>1, <2>2
<1>7. QED
  BY <1>1, <1>2, <1>4, <1>5, <1>6 DEF Futures

\* A future is put first.
LEMMA PrependKeepsDistinct ==
  ASSUME NEW S, NEW q \in Seq(S), NEW f \in S, Distinct(q), f \notin Futures(q)
  PROVE  /\ <<f>> \o q \in Seq(S) /\ Len(<<f>> \o q) = Len(q) + 1
         /\ Distinct(<<f>> \o q) /\ Futures(<<f>> \o q) = Futures(q) \cup {f}
<1> DEFINE o == <<f>> \o q
<1>1. /\ o \in Seq(S) /\ Len(o) = Len(q) + 1 /\ Len(q) \in Nat
      /\ o[1] = f /\ \A i \in 2..(Len(q) + 1) : o[i] = q[i - 1]
  OBVIOUS
<1>2. \A i \in 1..Len(o) : i = 1 \/ (i \in 2..(Len(q) + 1) /\ i - 1 \in 1..Len(q))
  BY <1>1
<1>3. \A i \in 1..Len(q) : i + 1 \in 2..(Len(q) + 1) /\ i + 1 \in 1..Len(o) /\ o[i + 1] = q[i]
  BY <1>1
<1> HIDE DEF o
<1>4. Distinct(o)
  <2>1. \A i \in 2..(Len(q) + 1) : o[i] # f
    BY <1>1, <1>2 DEF Futures
  <2>2. QED
    BY <1>1, <1>2, <2>1 DEF Distinct
<1>5. Futures(o) = Futures(q) \cup {f}
  <2>1. \A x \in Futures(o) : x \in Futures(q) \cup {f}
    BY <1>1, <1>2 DEF Futures
  <2>2. \A x \in Futures(q) : x \in Futures(o)
    BY <1>3 DEF Futures
  <2>3. f \in Futures(o)
    BY <1>1 DEF Futures
  <2>4. QED
    BY <2>1, <2>2, <2>3
<1>6. QED
  BY <1>1, <1>4, <1>5 DEF o

\* park(): what the queue holds afterwards, discards excepted.
LEMMA ParkedQueue ==
  ASSUME NEW S, NEW q \in Seq(S), NEW f \in S, NEW c \in Nat,
         Distinct(q), f \notin Futures(q), Len(q) <= c
  PROVE  /\ Parked(q, c, f) \in Seq(S) /\ Len(Parked(q, c, f)) <= c /\ Distinct(Parked(q, c, f))
         /\ ParkDiscards(q, c, f) \subseteq Futures(q) \cup {f}
         /\ Futures(Parked(q, c, f)) = (Futures(q) \cup {f}) \ ParkDiscards(q, c, f)
<1>1. Len(q) \in Nat /\ (Len(q) > 0 => q # <<>>) /\ (q # <<>> => Len(q) > 0)
  OBVIOUS
<1>2. CASE c = 0
  <2>1. Futures(q) = {}
    BY <1>1, <1>2 DEF Futures
  <2>2. Parked(q, c, f) = q /\ ParkDiscards(q, c, f) = {f}
    BY <1>2 DEF Parked, ParkDiscards
  <2>3. QED
    BY <2>1, <2>2
<1>3. CASE c # 0 /\ Len(q) >= c
  <2>1. q # <<>>
    BY <1>1, <1>3
  <2>2. /\ Tail(q) \in Seq(S) /\ Len(Tail(q)) = Len(q) - 1 /\ Distinct(Tail(q))
        /\ Head(q) \in Futures(q) /\ Futures(Tail(q)) = Futures(q) \ {Head(q)}
    BY <2>1, TailKeepsDistinct
  <2>3. /\ Append(Tail(q), f) \in Seq(S) /\ Len(Append(Tail(q), f)) = Len(Tail(q)) + 1
        /\ Distinct(Append(Tail(q), f)) /\ Futures(Append(Tail(q), f)) = Futures(Tail(q)) \cup {f}
    <3>1. f \notin Futures(Tail(q))
      BY <2>2
    <3>2. Tail(q) \in Seq(S) /\ Distinct(Tail(q))
      BY <2>2
    <3>3. \A t \in Seq(S) : Distinct(t) /\ f \notin Futures(t)
            => /\ Append(t, f) \in Seq(S) /\ Len(Append(t, f)) = Len(t) + 1
               /\ Distinct(Append(t, f)) /\ Futures(Append(t, f)) = Futures(t) \cup {f}
      BY AppendKeepsDistinct
    <3>4. QED
      BY <3>1, <3>2, <3>3
  <2>4. Parked(q, c, f) = Append(Tail(q), f) /\ ParkDiscards(q, c, f) = {Head(q)}
    BY <1>3 DEF Parked, ParkDiscards
  <2>5. Len(Append(Tail(q), f)) = Len(q)
    BY <1>1, <2>2, <2>3
  <2>6. QED
    BY <2>2, <2>3, <2>4, <2>5
<1>4. CASE c # 0 /\ ~(Len(q) >= c)
  <2>1. /\ Append(q, f) \in Seq(S) /\ Len(Append(q, f)) = Len(q) + 1
        /\ Distinct(Append(q, f)) /\ Futures(Append(q, f)) = Futures(q) \cup {f}
    BY AppendKeepsDistinct
  <2>2. Parked(q, c, f) = Append(q, f) /\ ParkDiscards(q, c, f) = {}
    BY <1>4 DEF Parked, ParkDiscards
  <2>3. Len(Append(q, f)) <= c
    BY <1>1, <1>4, <2>1
  <2>4. QED
    BY <2>1, <2>2, <2>3
<1>5. QED
  BY <1>2, <1>3, <1>4

\* requeue_in_flight(): the same for a cancelled drain.
LEMMA RequeuedQueue ==
  ASSUME NEW S, NEW q \in Seq(S), NEW f \in S, NEW c \in Nat, c > 0,
         Distinct(q), f \notin Futures(q), Len(q) <= c
  PROVE  /\ Requeued(q, c, f) \in Seq(S) /\ Len(Requeued(q, c, f)) <= c
         /\ Distinct(Requeued(q, c, f))
         /\ RequeueDiscards(q, c) \subseteq Futures(q)
         /\ Futures(Requeued(q, c, f)) = (Futures(q) \ RequeueDiscards(q, c)) \cup {f}
<1>1. Len(q) \in Nat /\ (Len(q) > 0 => q # <<>>)
  OBVIOUS
<1>2. CASE Len(q) >= c
  <2>1. q # <<>>
    BY <1>1, <1>2
  <2>2. /\ AllButLast(q) \in Seq(S) /\ Len(AllButLast(q)) = Len(q) - 1 /\ Distinct(AllButLast(q))
        /\ q[Len(q)] \in Futures(q) /\ Futures(AllButLast(q)) = Futures(q) \ {q[Len(q)]}
    BY <2>1, AllButLastKeepsDistinct
  <2>3. /\ <<f>> \o AllButLast(q) \in Seq(S) /\ Len(<<f>> \o AllButLast(q)) = Len(AllButLast(q)) + 1
        /\ Distinct(<<f>> \o AllButLast(q)) /\ Futures(<<f>> \o AllButLast(q)) = Futures(AllButLast(q)) \cup {f}
    BY <2>2, PrependKeepsDistinct
  <2>4. Requeued(q, c, f) = <<f>> \o AllButLast(q) /\ RequeueDiscards(q, c) = {q[Len(q)]}
    BY <1>2 DEF Requeued, RequeueDiscards, AllButLast
  <2>5. Len(<<f>> \o AllButLast(q)) = Len(q)
    BY <1>1, <2>2, <2>3
  <2>6. QED
    BY <2>2, <2>3, <2>4, <2>5
<1>3. CASE ~(Len(q) >= c)
  <2>1. /\ <<f>> \o q \in Seq(S) /\ Len(<<f>> \o q) = Len(q) + 1
        /\ Distinct(<<f>> \o q) /\ Futures(<<f>> \o q) = Futures(q) \cup {f}
    BY PrependKeepsDistinct
  <2>2. Requeued(q, c, f) = <<f>> \o q /\ RequeueDiscards(q, c) = {}
    BY <1>3 DEF Requeued, RequeueDiscards
  <2>3. Len(<<f>> \o q) <= c
    BY <1>1, <1>3, <2>1
  <2>4. QED
    BY <2>1, <2>2, <2>3
<1>4. QED
  BY <1>2, <1>3
-------------------------------------------------------------------------------
Places == {"body", "queue", "drain", "gone"}
Homes == Replicas \cup {CHOOSE p \in Replicas : TRUE}

ParkedAt(p) == {r \in Responses : place[r] = "queue" /\ home[r] = p}

\* Every queue holds its replica's parked futures, each once, within its bound.
QueueInv ==
  /\ queue \in [Replicas -> Seq(Responses)]
  /\ place \in [Responses -> Places]
  /\ home \in [Responses -> Homes]
  /\ \A r \in Responses : place[r] # "gone" => home[r] \in Replicas
  /\ \A r \in Responses : place[r] = "drain" => Capacity > 0
  /\ \A p \in Replicas :
       /\ Len(queue[p]) <= Capacity
       /\ Distinct(queue[p])
       /\ Futures(queue[p]) = ParkedAt(p)

LEMMA InitQueues == TaskInit => QueueInv
<1> SUFFICES ASSUME TaskInit PROVE QueueInv
  OBVIOUS
<1>1. \A p \in Replicas : queue[p] = <<>> /\ ParkedAt(p) = {}
  BY DEF TaskInit, ParkedAt
<1>2. Distinct(<<>>) /\ Futures(<<>>) = {} /\ Len(<<>>) = 0 /\ <<>> \in Seq(Responses)
  BY DEF Distinct, Futures
<1>3. /\ queue \in [Replicas -> Seq(Responses)]
      /\ place \in [Responses -> Places] /\ \A r \in Responses : place[r] = "gone"
      /\ home \in [Responses -> Homes]
  BY <1>2 DEF TaskInit, Places, Homes
<1>4. \A p \in Replicas :
        Len(queue[p]) <= Capacity /\ Distinct(queue[p]) /\ Futures(queue[p]) = ParkedAt(p)
  BY <1>1, TaskAssumption DEF Distinct, Futures
<1>5. QED
  BY <1>3, <1>4 DEF QueueInv

\* Steps that park nothing and take nothing out of a queue.
LEMMA QueuesAlone ==
  ASSUME QueueInv, queue' = queue, home' = home, place' \in [Responses -> Places],
         \A r \in Responses :
           place'[r] = place[r] \/ (place[r] \in {"body", "drain"} /\ place'[r] = "gone")
  PROVE  QueueInv'
<1>1. \A p \in Replicas : ParkedAt(p)' = ParkedAt(p)
  BY DEF ParkedAt
<1>2. QED
  BY <1>1 DEF QueueInv

\* A step that changes one replica's queue.
LEMMA OneQueue ==
  ASSUME QueueInv, NEW p \in Replicas, NEW q \in Seq(Responses), Len(q) <= Capacity, Distinct(q),
         queue' = [queue EXCEPT ![p] = q], home' = home, place' \in [Responses -> Places],
         \A r \in Responses : place'[r] # "gone" => place[r] # "gone",
         \A r \in Responses : place'[r] = "drain" => Capacity > 0,
         \A r \in Responses : home[r] # p => place'[r] = place[r],
         Futures(q) = ParkedAt(p)'
  PROVE  QueueInv'
<1>1. \A o \in Replicas : o # p => ParkedAt(o)' = ParkedAt(o)
  BY DEF ParkedAt
<1>2. \A o \in Replicas : queue'[o] = IF o = p THEN q ELSE queue[o]
  BY DEF QueueInv
<1>3. QED
  BY <1>1, <1>2 DEF QueueInv

LEMMA RespondQueues ==
  ASSUME QueueInv, NEW r \in Responses, NEW p \in Replicas, NEW t \in Tasks, Respond(r, p, t)
  PROVE  QueueInv'
<1>1. /\ place[r] = "gone" /\ queue' = queue
      /\ place' = [place EXCEPT ![r] = "body"] /\ home' = [home EXCEPT ![r] = p]
  BY DEF Respond
<1>2. /\ place' \in [Responses -> Places] /\ home' \in [Responses -> Homes]
      /\ place'[r] = "body" /\ home'[r] = p
      /\ \A s \in Responses : s # r => place'[s] = place[s] /\ home'[s] = home[s]
  BY <1>1 DEF QueueInv, Places, Homes
<1>3. \A o \in Replicas : ParkedAt(o)' = ParkedAt(o)
  BY <1>1, <1>2 DEF ParkedAt
<1>4. QED
  BY <1>1, <1>2, <1>3 DEF QueueInv

LEMMA AccountingQueues ==
  ASSUME QueueInv, NEW r \in Responses, Accounting(r)
  PROVE  QueueInv'
<1>1. Polled(r) /\ queue' = queue /\ home' = home
  BY DEF Accounting, StartAccounting, AfterInsert, NothingClaimed, Charged, Refused, FreeVerdict,
         Finish
<1>2. place' = place \/ place' = [place EXCEPT ![r] = "gone"]
  BY DEF Accounting, StartAccounting, AfterInsert, NothingClaimed, Charged, Refused, FreeVerdict,
         Finish, ClaimOrFree, CleanUp, Await, End
<1>3. /\ place' \in [Responses -> Places]
      /\ \A s \in Responses :
           place'[s] = place[s] \/ (place[s] \in {"body", "drain"} /\ place'[s] = "gone")
  BY <1>1, <1>2 DEF Polled, QueueInv, Places
<1>4. QED
  BY <1>1, <1>3, QueuesAlone

LEMMA DropBodyQueues ==
  ASSUME QueueInv, NEW r \in Responses, DropBody(r)
  PROVE  QueueInv'
<1> DEFINE p == home[r]
           d == ParkDiscards(queue[p], Capacity, r)
           q == Parked(queue[p], Capacity, r)
<1>1. /\ place[r] = "body" /\ home' = home /\ queue' = [queue EXCEPT ![p] = q]
      /\ place' = [s \in Responses |->
                     IF s \in d THEN "gone" ELSE IF s = r THEN "queue" ELSE place[s]]
  BY DEF DropBody, Moved
<1>2. /\ p \in Replicas /\ queue[p] \in Seq(Responses) /\ Len(queue[p]) <= Capacity
      /\ Distinct(queue[p]) /\ Futures(queue[p]) = ParkedAt(p)
  BY <1>1 DEF QueueInv
<1>3. r \notin Futures(queue[p])
  BY <1>1, <1>2 DEF ParkedAt
<1>4. /\ q \in Seq(Responses) /\ Len(q) <= Capacity /\ Distinct(q)
      /\ d \subseteq Futures(queue[p]) \cup {r}
      /\ Futures(q) = (Futures(queue[p]) \cup {r}) \ d
  BY <1>2, <1>3, ParkedQueue, TaskAssumption
<1> HIDE DEF d, q
<1>5. place' \in [Responses -> Places]
  BY <1>1 DEF QueueInv, Places
<1>6. Futures(q) = ParkedAt(p)'
  BY <1>1, <1>2, <1>4 DEF ParkedAt
<1>7. \A s \in Responses : home[s] # p => place'[s] = place[s]
  BY <1>1, <1>2, <1>4 DEF ParkedAt
<1>8. \A s \in Responses : (place'[s] # "gone" => place[s] # "gone")
                           /\ (place'[s] = "drain" => Capacity > 0)
  BY <1>1 DEF QueueInv
<1>9. QED
  BY <1>1, <1>2, <1>4, <1>5, <1>6, <1>7, <1>8, OneQueue

LEMMA CancelDrainQueues ==
  ASSUME QueueInv, NEW r \in Responses, CancelDrain(r)
  PROVE  QueueInv'
<1> DEFINE p == home[r]
           d == RequeueDiscards(queue[p], Capacity)
           q == Requeued(queue[p], Capacity, r)
<1>1. /\ place[r] = "drain" /\ home' = home /\ queue' = [queue EXCEPT ![p] = q]
      /\ place' = [s \in Responses |->
                     IF s \in d THEN "gone" ELSE IF s = r THEN "queue" ELSE place[s]]
  BY DEF CancelDrain, Moved
<1>2. /\ p \in Replicas /\ queue[p] \in Seq(Responses) /\ Len(queue[p]) <= Capacity
      /\ Distinct(queue[p]) /\ Futures(queue[p]) = ParkedAt(p) /\ Capacity > 0
  BY <1>1 DEF QueueInv
<1>3. r \notin Futures(queue[p])
  BY <1>1, <1>2 DEF ParkedAt
<1>4. /\ q \in Seq(Responses) /\ Len(q) <= Capacity /\ Distinct(q)
      /\ d \subseteq Futures(queue[p])
      /\ Futures(q) = (Futures(queue[p]) \ d) \cup {r}
  BY <1>2, <1>3, RequeuedQueue, TaskAssumption
<1> HIDE DEF d, q
<1>5. place' \in [Responses -> Places]
  BY <1>1 DEF QueueInv, Places
<1>6. Futures(q) = ParkedAt(p)'
  BY <1>1, <1>2, <1>3, <1>4 DEF ParkedAt
<1>7. \A s \in Responses : home[s] # p => place'[s] = place[s]
  BY <1>1, <1>2, <1>4 DEF ParkedAt
<1>8. \A s \in Responses : (place'[s] # "gone" => place[s] # "gone")
                           /\ (place'[s] = "drain" => Capacity > 0)
  BY <1>1 DEF QueueInv
<1>9. QED
  BY <1>1, <1>2, <1>4, <1>5, <1>6, <1>7, <1>8, OneQueue

LEMMA DrainTakesQueues ==
  ASSUME QueueInv, NEW p \in Replicas, DrainTakes(p)
  PROVE  QueueInv'
<1> DEFINE h == Head(queue[p])
           q == Tail(queue[p])
<1>1. /\ queue[p] # <<>> /\ home' = home /\ queue' = [queue EXCEPT ![p] = q]
      /\ place' = [place EXCEPT ![h] = "drain"]
  BY DEF DrainTakes
<1>2. /\ queue[p] \in Seq(Responses) /\ Len(queue[p]) <= Capacity
      /\ Distinct(queue[p]) /\ Futures(queue[p]) = ParkedAt(p)
  BY DEF QueueInv
<1>3. /\ q \in Seq(Responses) /\ Len(q) = Len(queue[p]) - 1 /\ Distinct(q)
      /\ h \in Futures(queue[p]) /\ Futures(q) = Futures(queue[p]) \ {h}
  BY <1>1, <1>2, TailKeepsDistinct
<1>4. Len(queue[p]) \in Nat /\ Len(queue[p]) > 0 /\ Capacity \in Nat
  BY <1>1, <1>2, TaskAssumption
<1>5. Len(q) <= Capacity /\ Capacity > 0
  BY <1>2, <1>3, <1>4
<1> HIDE DEF h, q
<1>6. h \in Responses /\ home[h] = p /\ place[h] = "queue"
  BY <1>2, <1>3 DEF ParkedAt
<1>7. /\ place' \in [Responses -> Places] /\ place'[h] = "drain"
      /\ \A s \in Responses : s # h => place'[s] = place[s]
  BY <1>1, <1>6 DEF QueueInv, Places
<1>8. Futures(q) = ParkedAt(p)'
  BY <1>1, <1>2, <1>3, <1>7 DEF ParkedAt
<1>9. QED
  BY <1>1, <1>3, <1>5, <1>6, <1>7, <1>8, OneQueue DEF QueueInv

LEMMA CrashQueues ==
  ASSUME QueueInv, NEW p \in Replicas, Crash(p)
  PROVE  QueueInv'
<1>1. /\ home' = home /\ queue' = [queue EXCEPT ![p] = <<>>]
      /\ place' = [r \in Responses |-> IF home[r] = p /\ place[r] # "gone" THEN "gone" ELSE place[r]]
  BY DEF Crash
<1>2. Distinct(<<>>) /\ Futures(<<>>) = {} /\ Len(<<>>) <= Capacity /\ <<>> \in Seq(Responses)
  BY TaskAssumption DEF Distinct, Futures
<1>3. place' \in [Responses -> Places]
  BY <1>1 DEF QueueInv, Places
<1>4. ParkedAt(p)' = {}
  BY <1>1 DEF ParkedAt
<1>5. \A r \in Responses : (place'[r] # "gone" => place[r] # "gone")
                           /\ (place'[r] = "drain" => Capacity > 0)
                           /\ (home[r] # p => place'[r] = place[r])
  BY <1>1 DEF QueueInv
<1>6. QED
  BY <1>1, <1>2, <1>3, <1>4, <1>5, OneQueue

LEMMA StepQueues ==
  ASSUME QueueInv, [TaskNext]_taskVars
  PROVE  QueueInv'
<1>1. ASSUME NEW t \in Tasks, TaskEnds(t) \/ Forget(t)
      PROVE  QueueInv'
  BY <1>1, QueuesAlone DEF TaskEnds, Forget, futureVars, QueueInv
<1>2. ASSUME NEW r \in Responses, NEW p \in Replicas, NEW t \in Tasks, Respond(r, p, t)
      PROVE  QueueInv'
  BY <1>2, RespondQueues
<1>3. ASSUME NEW r \in Responses, StoreApplies(r) \/ StoreRejects(r)
      PROVE  QueueInv'
  BY <1>3, QueuesAlone DEF StoreApplies, StoreRejects, QueueInv
<1>4. ASSUME NEW r \in Responses, Accounting(r)
      PROVE  QueueInv'
  BY <1>4, AccountingQueues
<1>5. ASSUME NEW r \in Responses, Driving(r)
      PROVE  QueueInv'
  <2>1. CASE PanicDrain(r)
    <3>1. queue' = queue /\ home' = home /\ place[r] = "drain"
          /\ place' = [s \in Responses |-> IF s = r THEN "gone" ELSE place[s]]
      BY <2>1 DEF PanicDrain, Moved
    <3>2. QED
      BY <3>1, QueuesAlone DEF QueueInv, Places
  <2>2. CASE PanicBody(r)
    <3>1. queue' = queue /\ home' = home /\ place[r] = "body"
          /\ place' = [place EXCEPT ![r] = "gone"]
      BY <2>2 DEF PanicBody
    <3>2. QED
      BY <3>1, QueuesAlone DEF QueueInv, Places
  <2>3. QED
    BY <1>5, <2>1, <2>2, DropBodyQueues, CancelDrainQueues DEF Driving
<1>6. ASSUME NEW p \in Replicas, DrainTakes(p) \/ Crash(p)
      PROVE  QueueInv'
  BY <1>6, DrainTakesQueues, CrashQueues
<1>7. CASE UNCHANGED taskVars
  BY <1>7, QueuesAlone DEF taskVars, futureVars, QueueInv
<1>8. QED
  BY <1>1, <1>2, <1>3, <1>4, <1>5, <1>6, <1>7 DEF TaskNext

LEMMA QueuesHoldOnce ==
  ASSUME QueueInv
  PROVE  ParkedOnce
<1> SUFFICES ASSUME NEW p \in Replicas, NEW r \in Responses
             PROVE  /\ Len(queue[p]) <= Capacity
                    /\ Cardinality({i \in DOMAIN queue[p] : queue[p][i] = r})
                         = IF place[r] = "queue" /\ home[r] = p THEN 1 ELSE 0
  <2>1. \A p \in Replicas : Len(queue[p]) <= Capacity
    BY DEF QueueInv
  <2>2. QED
    BY <2>1, Zenon DEF ParkedOnce
<1> DEFINE at == {i \in DOMAIN queue[p] : queue[p][i] = r}
<1>1. /\ queue[p] \in Seq(Responses) /\ Len(queue[p]) <= Capacity
      /\ Distinct(queue[p]) /\ Futures(queue[p]) = ParkedAt(p)
  BY DEF QueueInv
<1>2. DOMAIN queue[p] = 1..Len(queue[p])
  BY <1>1
<1>3. CASE place[r] = "queue" /\ home[r] = p
  <2>1. r \in Futures(queue[p])
    BY <1>1, <1>3 DEF ParkedAt
  <2>2. PICK i \in 1..Len(queue[p]) : queue[p][i] = r
    BY <2>1 DEF Futures
  <2>3. at = {i}
    BY <1>1, <1>2, <2>2 DEF Distinct
  <2>4. QED
    BY <1>1, <1>3, <2>3, FS_Singleton
<1>4. CASE ~(place[r] = "queue" /\ home[r] = p)
  <2>1. r \notin Futures(queue[p])
    BY <1>1, <1>4 DEF ParkedAt
  <2>2. at = {}
    BY <1>2, <2>1 DEF Futures
  <2>3. QED
    BY <1>1, <1>4, <2>2, FS_EmptySet
<1>5. QED
  BY <1>3, <1>4

(***************************************************************************)
(* With any number of replicas and responses and any deferred_capacity,    *)
(* however parks, drains, cancellations, panics and crashes interleave: a  *)
(* parked future is in its own replica's queue, exactly once, and no queue *)
(* exceeds its bound.  park, drain_some, requeue_in_flight.                *)
(***************************************************************************)
THEOREM NoFutureIsParkedTwice == TaskSpec => []ParkedOnce
<1>1. QueueInv /\ [TaskNext]_taskVars => QueueInv'
  BY StepQueues
<1>2. QueueInv => ParkedOnce
  BY QueuesHoldOnce
<1>3. QED
  BY <1>1, <1>2, InitQueues, PTL DEF TaskSpec
-------------------------------------------------------------------------------
(***************************************************************************)
(* Where a price can be: with a future that holds it, on its way into the  *)
(* store, in the store, or charged.  A future that is gone with an         *)
(* operation still under way has been counted already.                     *)
(***************************************************************************)
LossInv ==
  /\ seen \in [Replicas -> SUBSET Tasks]
  /\ \A p \in Replicas : \A t \in seen[p] : charges[t] # 0
  /\ \A r \in Responses : place[r] = "gone" /\ answer[r] = "sent" => reply[r].task \in explained
  /\ \A r \in Responses : step[r] = "remove" => reply[r].status = "failed"
  /\ \A r \in Responses : reply[r].status = "failed" =>
       reply[r].task \in Tasks /\ life[reply[r].task] = "failed"
  /\ LossesAreExplained

LEMMA InitLosses == TaskInit => LossInv
<1> SUFFICES ASSUME TaskInit PROVE LossInv
  OBVIOUS
<1>1. \A r \in Responses : reply[r].status = "none"
  BY DEF TaskInit, NoReply
<1>2. \A t \in Tasks : ~Lost(t)
  BY DEF TaskInit, Lost
<1>3. QED
  BY <1>1, <1>2 DEF TaskInit, LossInv, LossesAreExplained

\* Whether the price of a task may be anywhere but in the store or charged.
Pending(t) == \E r \in Responses : reply[r].task = t /\ (Holds(r) \/ OnItsWay(r))

\* Nothing is lost where every price that was somewhere still is, or is explained.
LEMMA NothingLost ==
  ASSUME LossInv, explained \subseteq explained',
         \A t \in Tasks : life'[t] \in {"working", "completed"} /\ charges'[t] = 0
                          /\ t \notin stored' /\ t \notin explained' =>
           \/ life[t] \in {"working", "completed"} /\ charges[t] = 0 /\ t \notin stored
              /\ (Pending(t) => Pending(t)')
           \/ Pending(t)'
  PROVE  LossesAreExplained'
<1>1. \A t \in Tasks : Lost(t) <=> /\ life[t] \in {"working", "completed"}
                                   /\ charges[t] = 0 /\ t \notin stored /\ ~Pending(t)
  BY DEF Lost, Pending
<1>2. \A t \in Tasks : Lost(t)' <=> /\ life'[t] \in {"working", "completed"}
                                    /\ charges'[t] = 0 /\ t \notin stored' /\ ~Pending(t)'
  BY DEF Lost, Pending
<1>3. \A t \in Tasks : Lost(t) => t \in explained
  BY DEF LossInv, LossesAreExplained
<1>4. ASSUME NEW t \in Tasks, Lost(t)'
      PROVE  t \in explained'
  BY <1>1, <1>2, <1>3, <1>4
<1>5. QED
  BY <1>4 DEF LossesAreExplained

LEMMA RespondLosses ==
  ASSUME TokenInv, QueueInv, LossInv, NEW r \in Responses, NEW p \in Replicas, NEW t \in Tasks,
         Respond(r, p, t)
  PROVE  LossInv'
<1>1. PICK a \in Answers(t) : reply' = [reply EXCEPT ![r] = a]
  BY DEF Respond
<1>2. life[t] \in {"none", "working", "completed", "failed"}
  BY DEF TokenInv, Shape
<1>3. /\ a.task = t /\ (life[t] = "none" => a.result = "task" /\ a.status = "working")
      /\ (life[t] # "none" => a.status = life[t])
  BY DEF Answers
<1>4. /\ reply'[r] = a /\ step'[r] = "begin" /\ answer'[r] = "idle" /\ place'[r] # "gone"
      /\ \A s \in Responses : s # r =>
           /\ reply'[s] = reply[s] /\ step'[s] = step[s] /\ answer'[s] = answer[s]
           /\ (place'[s] = "gone" <=> place[s] = "gone")
  BY <1>1, <1>2 DEF Respond, TokenInv, Shape, QueueInv
<1>5. place[r] = "gone" /\ answer[r] # "sent" /\ UNCHANGED <<stored, seen, charges, explained>>
  BY DEF Respond
<1>6. /\ life'[t] = IF life[t] = "none" THEN "working" ELSE life[t]
      /\ \A u \in Tasks : u # t => life'[u] = life[u]
  BY DEF Respond, TokenInv, Shape
<1>7. ~Holds(r) /\ ~OnItsWay(r)
  BY <1>5 DEF Holds, OnItsWay
<1>8. \A s \in Responses : s # r => (Holds(s)' <=> Holds(s)) /\ (OnItsWay(s)' <=> OnItsWay(s))
  BY <1>4 DEF Holds, OnItsWay, Inserts
<1>9. \A u \in Tasks : Pending(u) => Pending(u)'
  BY <1>4, <1>7, <1>8 DEF Pending
<1>10. life[t] = "none" => Pending(t)'
  BY <1>3, <1>4 DEF Pending, Holds, Inserts
<1>11. LossesAreExplained'
  BY <1>5, <1>6, <1>9, <1>10, NothingLost
<1>12. \A s \in Responses : reply'[s].status = "failed" =>
          reply'[s].task \in Tasks /\ life'[reply'[s].task] = "failed"
  <2>1. ASSUME NEW s \in Responses, s # r, reply[s].status = "failed"
        PROVE  reply[s].task \in Tasks /\ life'[reply[s].task] = "failed"
    <3>1. reply[s].task \in Tasks /\ life[reply[s].task] = "failed"
      BY <2>1 DEF LossInv
    <3>2. QED
      BY <1>6, <3>1
  <2>2. QED
    BY <1>2, <1>3, <1>4, <1>6, <2>1
<1>13. QED
  BY <1>4, <1>5, <1>11, <1>12 DEF LossInv

LEMMA TaskEndsLosses ==
  ASSUME TokenInv, LossInv, NEW t \in Tasks, TaskEnds(t)
  PROVE  LossInv'
<1>1. life[t] = "working" /\ \A u \in Tasks : u # t => life'[u] = life[u]
  BY DEF TaskEnds, TokenInv, Shape
<1>2. UNCHANGED <<stored, reply, home, place, step, answer, seen, charges, explained>>
  BY DEF TaskEnds, futureVars
<1>3. \A u \in Tasks : Pending(u) => Pending(u)'
  BY <1>2 DEF Pending, Holds, OnItsWay, Inserts
<1>4. LossesAreExplained'
  BY <1>1, <1>2, <1>3, NothingLost
<1>5. QED
  BY <1>1, <1>2, <1>4 DEF LossInv

LEMMA ForgetLosses ==
  ASSUME TokenInv, LossInv, NEW t \in Tasks, Forget(t)
  PROVE  LossInv'
<1>1. UNCHANGED <<life, reply, home, place, step, answer, seen, charges>>
      /\ stored' = stored \ {t} /\ explained' = explained \cup {t}
  BY DEF Forget, Excuse, futureVars
<1>2. \A u \in Tasks : Pending(u) => Pending(u)'
  BY <1>1 DEF Pending, Holds, OnItsWay, Inserts
<1>3. LossesAreExplained'
  BY <1>1, <1>2, NothingLost
<1>4. QED
  BY <1>1, <1>3 DEF LossInv

\* A claim takes the price to a future that is live, or has been counted.
LEMMA StoreLosses ==
  ASSUME TokenInv, LossInv, NEW r \in Responses, StoreApplies(r) \/ StoreRejects(r)
  PROVE  LossInv'
<1> DEFINE t == reply[r].task
<1>1. /\ UNCHANGED <<life, reply, home, place, step, seen, charges>>
      /\ explained \subseteq explained' /\ answer[r] = "sent"
  BY DEF StoreApplies, StoreRejects, Excuse
<1>2. step[r] \in {"insert", "claim", "restore", "remove"} /\ t \in Tasks
  BY <1>1 DEF TokenInv, SentByAnOperation
<1>3. PICK a \in {"ok", "found", "error"} : answer' = [answer EXCEPT ![r] = a]
  BY DEF StoreApplies, StoreRejects, Found
<1>4. answer'[r] = a /\ \A s \in Responses : s # r => answer'[s] = answer[s]
  BY <1>3 DEF TokenInv, Shape
<1>5. \A s \in Responses : s # r => (Holds(s)' <=> Holds(s)) /\ (OnItsWay(s)' <=> OnItsWay(s))
  BY <1>1, <1>4 DEF Holds, OnItsWay, Inserts
<1>6. place[r] = "gone" => t \in explained
  BY <1>1 DEF LossInv
<1>7. \A u \in Tasks : u # t => (Pending(u) => Pending(u)')
  BY <1>1, <1>5 DEF Pending
<1>8. \A u \in Tasks : u # t => (u \in stored => u \in stored' \cup explained')
  BY <1>2 DEF StoreApplies, StoreRejects, Effect, Inserted, Claimed, Excuse
<1>9. life[t] \in {"working", "completed"} /\ charges[t] = 0 /\ t \notin stored' /\ t \notin explained' =>
        \/ t \notin stored /\ (Pending(t) => Pending(t)')
        \/ Pending(t)'
  <2> SUFFICES ASSUME life[t] \in {"working", "completed"}, charges[t] = 0,
                      t \notin stored', t \notin explained'
               PROVE  \/ t \notin stored /\ (Pending(t) => Pending(t)')
                      \/ Pending(t)'
    OBVIOUS
  <2>1. place'[r] # "gone" /\ reply'[r].task = t
    BY <1>1, <1>6
  <2>2. CASE step[r] \in {"insert", "restore"}
    <3>1. StoreRejects(r)
      <4>1. StoreApplies(r) => t \in stored' \cup explained'
        BY <2>2 DEF StoreApplies, Effect, Inserted, Excuse
      <4>2. QED
        BY <4>1
    <3>2. answer'[r] = "error"
      BY <3>1 DEF StoreRejects, TokenInv, Shape
    <3>3. Holds(r)'
      BY <1>1, <2>1, <2>2, <3>2 DEF Holds
    <3>4. QED
      BY <2>1, <3>3 DEF Pending
  <2>3. CASE step[r] = "claim"
    <3>1. CASE t \in stored
      <4>1. Found(r) = "found" /\ StoreApplies(r)
        BY <2>3, <3>1 DEF Found, StoreRejects
      <4>2. answer'[r] \in {"found", "error"}
        BY <4>1 DEF StoreApplies, TokenInv, Shape
      <4>3. Holds(r)'
        BY <1>1, <2>1, <2>3, <4>2 DEF Holds
      <4>4. QED
        BY <2>1, <4>3 DEF Pending
    <3>2. CASE t \notin stored
      <4>1. ~Holds(r) /\ ~OnItsWay(r)
        BY <1>1, <2>3 DEF Holds, OnItsWay
      <4>2. Pending(t) => Pending(t)'
        BY <1>1, <1>5, <4>1 DEF Pending
      <4>3. QED
        BY <3>2, <4>2
    <3>3. QED
      BY <3>1, <3>2
  <2>4. CASE step[r] = "remove"
    <3>1. life[t] = "failed"
      BY <2>4 DEF LossInv
    <3>2. QED
      BY <3>1
  <2>5. QED
    BY <1>2, <2>2, <2>3, <2>4
<1>10. LossesAreExplained'
  BY <1>1, <1>7, <1>8, <1>9, NothingLost
<1>11. QED
  BY <1>1, <1>4, <1>10 DEF LossInv
-------------------------------------------------------------------------------
(***************************************************************************)
(* A step of one future's accounting: it ends or awaits the store, and     *)
(* what it held is on its way back, counted, or charged.                   *)
(***************************************************************************)
LEMMA AccountingLosses ==
  ASSUME TokenInv, QueueInv, LossInv, NEW r \in Responses, place[r] # "gone",
         NEW op \in {"insert", "claim", "restore", "remove", "end"},
         step' = [step EXCEPT ![r] = op],
         answer' = [answer EXCEPT ![r] = IF op = "end" THEN "idle" ELSE "sent"],
         reply' = IF op = "end" THEN [reply EXCEPT ![r] = NoReply] ELSE reply,
         place' = IF op = "end" THEN [place EXCEPT ![r] = "gone"] ELSE place,
         UNCHANGED <<life, stored>>, explained \subseteq explained',
         op = "remove" => reply[r].status = "failed",
         \A t \in Tasks : charges[t] # 0 => charges'[t] # 0,
         seen' \in [Replicas -> SUBSET Tasks],
         \A p \in Replicas : \A t \in seen'[p] : charges'[t] # 0,
         Holds(r) \/ OnItsWay(r) => \/ op \in {"insert", "restore"}
                                   \/ reply[r].task \in explained'
                                   \/ charges'[reply[r].task] # 0
  PROVE  LossInv'
<1>1. /\ step'[r] = op /\ answer'[r] = (IF op = "end" THEN "idle" ELSE "sent")
      /\ \A s \in Responses : s # r =>
           step'[s] = step[s] /\ answer'[s] = answer[s] /\ reply'[s] = reply[s]
           /\ place'[s] = place[s]
      /\ reply'[r] = (IF op = "end" THEN NoReply ELSE reply[r])
      /\ place'[r] = (IF op = "end" THEN "gone" ELSE place[r])
  BY DEF TokenInv, Shape, QueueInv
<1>2. \A s \in Responses : s # r => (Holds(s)' <=> Holds(s)) /\ (OnItsWay(s)' <=> OnItsWay(s))
  BY <1>1 DEF Holds, OnItsWay, Inserts
<1>3. op \in {"insert", "restore"} => OnItsWay(r)' /\ reply'[r] = reply[r]
  BY <1>1 DEF OnItsWay
<1>4. ASSUME NEW t \in Tasks, Pending(t), charges'[t] = 0, t \notin explained'
      PROVE  Pending(t)'
  BY <1>1, <1>2, <1>3, <1>4 DEF Pending
<1>5. LossesAreExplained'
  BY <1>4, NothingLost
<1>6. \A s \in Responses : place'[s] = "gone" /\ answer'[s] = "sent" => reply'[s].task \in explained'
  BY <1>1 DEF LossInv
<1>7. /\ \A s \in Responses : step'[s] = "remove" => reply'[s].status = "failed"
      /\ \A s \in Responses : reply'[s].status = "failed" =>
            reply'[s].task \in Tasks /\ life'[reply'[s].task] = "failed"
  BY <1>1 DEF LossInv, NoReply
<1>8. QED
  BY <1>5, <1>6, <1>7 DEF LossInv

LEMMA StepsLosses ==
  ASSUME TokenInv, QueueInv, LossInv, NEW r \in Responses, Accounting(r)
  PROVE  LossInv'
<1> DEFINE t == reply[r].task
<1>1. place[r] # "gone" /\ answer[r] # "sent" /\ ~OnItsWay(r) /\ UNCHANGED <<life, stored>>
  BY DEF Accounting, StartAccounting, AfterInsert, NothingClaimed, Charged, Refused, FreeVerdict,
         Finish, Polled, OnItsWay
<1>2. PICK op \in {"insert", "claim", "restore", "remove", "end"} :
        /\ step' = [step EXCEPT ![r] = op]
        /\ answer' = [answer EXCEPT ![r] = IF op = "end" THEN "idle" ELSE "sent"]
        /\ reply' = IF op = "end" THEN [reply EXCEPT ![r] = NoReply] ELSE reply
        /\ place' = IF op = "end" THEN [place EXCEPT ![r] = "gone"] ELSE place
        /\ (op = "remove" => reply[r].status = "failed")
        /\ (StartAccounting(r) /\ Inserts(r) => op = "insert")
        /\ (Refused(r) \/ FreeVerdict(r) => op = "restore")
  <2>1. CASE StartAccounting(r)
    BY <2>1 DEF StartAccounting, ClaimOrFree, CleanUp, Await, End, Refused, FreeVerdict
  <2>2. CASE AfterInsert(r)
    BY <2>2 DEF AfterInsert, ClaimOrFree, CleanUp, Await, End, Refused, FreeVerdict,
                StartAccounting
  <2>3. CASE NothingClaimed(r) \/ Charged(r) \/ Finish(r)
    BY <2>3 DEF NothingClaimed, Charged, Finish, End, Refused, FreeVerdict, Await,
                StartAccounting
  <2>4. CASE Refused(r) \/ FreeVerdict(r)
    BY <2>4 DEF Refused, FreeVerdict, Await, StartAccounting
  <2>5. QED
    BY <2>1, <2>2, <2>3, <2>4 DEF Accounting
<1>3. CASE Charged(r)
  <2>1. step[r] # "end" /\ home[r] \in Replicas
    BY <1>1, <1>3 DEF Charged, QueueInv
  <2>2. t \in Tasks /\ explained' = explained
    BY <1>3, <2>1 DEF TokenInv, SentByAnOperation, Charged
  <2>3. seen' = [seen EXCEPT ![home[r]] = @ \cup {t}]
        /\ charges' = [charges EXCEPT ![t] = IF t \in seen[home[r]] \/ @ = 2 THEN @ ELSE @ + 1]
    BY <1>3 DEF Charged
  <2>4. charges'[t] # 0 /\ \A u \in Tasks : u # t => charges'[u] = charges[u]
    BY <2>1, <2>2, <2>3 DEF TokenInv, Shape, LossInv
  <2>5. seen' \in [Replicas -> SUBSET Tasks]
        /\ \A p \in Replicas : \A u \in seen'[p] : charges'[u] # 0
    BY <2>1, <2>2, <2>3, <2>4 DEF LossInv
  <2>6. \A u \in Tasks : charges[u] # 0 => charges'[u] # 0
    BY <2>4
  <2>7. QED
    BY <1>1, <1>2, <2>2, <2>4, <2>5, <2>6, AccountingLosses
<1>4. CASE ~Charged(r)
  <2>1. UNCHANGED <<seen, charges>> /\ explained \subseteq explained'
    BY <1>4 DEF Accounting, StartAccounting, AfterInsert, NothingClaimed, Refused, FreeVerdict,
                Finish, Report
  <2>2. Holds(r) => op \in {"insert", "restore"} \/ t \in explained'
    <3>1. CASE StartAccounting(r)
      BY <1>2, <3>1 DEF StartAccounting, Holds
    <3>2. CASE AfterInsert(r) \/ NothingClaimed(r) \/ Finish(r)
      <4>1. Holds(r) => r \in Failed
        BY <3>2 DEF Holds, Failed, AfterInsert, NothingClaimed, Finish
      <4>2. r \in Failed => t \in explained'
        BY <3>2 DEF Report, AfterInsert, NothingClaimed, Finish
      <4>3. QED
        BY <4>1, <4>2
    <3>3. QED
      BY <1>2, <1>4, <3>1, <3>2 DEF Accounting
  <2>3. seen' \in [Replicas -> SUBSET Tasks]
        /\ \A p \in Replicas : \A u \in seen'[p] : charges'[u] # 0
    BY <2>1 DEF LossInv
  <2>4. QED
    BY <1>1, <1>2, <2>1, <2>2, <2>3, AccountingLosses
<1>5. QED
  BY <1>3, <1>4

\* Parking, draining and dying: whatever is discarded is counted.
LEMMA DrivingLosses ==
  ASSUME LossInv, UNCHANGED <<life, stored, charges, reply, step, answer>>,
         seen' \in [Replicas -> SUBSET Tasks], \A p \in Replicas : seen'[p] \subseteq seen[p],
         explained \subseteq explained',
         \A r \in Responses : place'[r] = "gone" => place[r] = "gone" \/ reply[r].task \in explained'
  PROVE  LossInv'
<1>1. \A r \in Responses : Holds(r) => Holds(r)' \/ reply[r].task \in explained'
  BY DEF Holds, Inserts
<1>2. \A t \in Tasks : Pending(t) /\ t \notin explained' => Pending(t)'
  BY <1>1 DEF Pending, OnItsWay
<1>3. LossesAreExplained'
  BY <1>2, NothingLost
<1>4. QED
  BY <1>3 DEF LossInv

LEMMA StepLosses ==
  ASSUME TokenInv, QueueInv, LossInv, [TaskNext]_taskVars
  PROVE  LossInv'
<1>1. ASSUME NEW t \in Tasks, TaskEnds(t) \/ Forget(t)
      PROVE  LossInv'
  BY <1>1, TaskEndsLosses, ForgetLosses
<1>2. ASSUME NEW r \in Responses, NEW p \in Replicas, NEW t \in Tasks, Respond(r, p, t)
      PROVE  LossInv'
  BY <1>2, RespondLosses
<1>3. ASSUME NEW r \in Responses, StoreApplies(r) \/ StoreRejects(r)
      PROVE  LossInv'
  BY <1>3, StoreLosses
<1>4. ASSUME NEW r \in Responses, Accounting(r)
      PROVE  LossInv'
  BY <1>4, StepsLosses
<1>5. ASSUME NEW r \in Responses, Driving(r)
      PROVE  LossInv'
  <2>1. ASSUME NEW to, to # "gone", NEW discards, Moved(r, to, discards)
        PROVE  /\ explained \subseteq explained'
               /\ \A s \in Responses : place'[s] = "gone" =>
                     place[s] = "gone" \/ reply[s].task \in explained'
    BY <2>1 DEF Moved, Report
  <2>2. UNCHANGED <<life, stored, charges, reply, step, answer, seen>>
    BY <1>5 DEF Driving, DropBody, CancelDrain, PanicDrain, PanicBody
  <2>3. seen' \in [Replicas -> SUBSET Tasks] /\ \A p \in Replicas : seen'[p] \subseteq seen[p]
    BY <2>2 DEF LossInv
  <2>4. CASE PanicDrain(r)
    <3>1. /\ explained' = explained \cup {reply[s].task : s \in {r}}
          /\ place' = [s \in Responses |-> IF s = r THEN "gone" ELSE place[s]]
      BY <2>4 DEF PanicDrain, Moved, Report
    <3>2. QED
      BY <2>2, <2>3, <3>1, DrivingLosses
  <2>5. CASE DropBody(r) \/ CancelDrain(r)
    <3>1. \E discards : Moved(r, "queue", discards)
      BY <2>5 DEF DropBody, CancelDrain
    <3>2. QED
      BY <2>1, <2>2, <2>3, <3>1, DrivingLosses
  <2>6. CASE PanicBody(r)
    <3>1. explained' = explained \cup {reply[r].task} /\ place' = [place EXCEPT ![r] = "gone"]
      BY <2>6 DEF PanicBody, Excuse
    <3>2. QED
      BY <2>2, <2>3, <3>1, DrivingLosses DEF QueueInv
  <2>7. QED
    BY <1>5, <2>4, <2>5, <2>6 DEF Driving
<1>6. ASSUME NEW p \in Replicas, DrainTakes(p)
      PROVE  LossInv'
  <2>1. UNCHANGED <<life, stored, charges, reply, step, answer, seen, explained>>
        /\ place' = [place EXCEPT ![Head(queue[p])] = "drain"]
    BY <1>6 DEF DrainTakes
  <2>2. \A r \in Responses : place'[r] = "gone" => place[r] = "gone"
    BY <2>1 DEF QueueInv
  <2>3. QED
    BY <2>1, <2>2, DrivingLosses DEF LossInv
<1>7. ASSUME NEW p \in Replicas, Crash(p)
      PROVE  LossInv'
  <2>1. UNCHANGED <<life, stored, charges, reply, step, answer>>
        /\ seen' = [seen EXCEPT ![p] = {}]
        /\ explained' = explained \cup {reply[r].task : r \in {s \in Responses : home[s] = p /\ place[s] # "gone"}}
        /\ place' = [r \in Responses |-> IF home[r] = p /\ place[r] # "gone" THEN "gone" ELSE place[r]]
    BY <1>7 DEF Crash, Excuse
  <2>2. \A r \in Responses : place'[r] = "gone" => place[r] = "gone" \/ reply[r].task \in explained'
    BY <2>1
  <2>3. seen' \in [Replicas -> SUBSET Tasks] /\ \A o \in Replicas : seen'[o] \subseteq seen[o]
    BY <2>1 DEF LossInv
  <2>4. QED
    BY <2>1, <2>2, <2>3, DrivingLosses
<1>8. CASE UNCHANGED taskVars
  BY <1>8, DrivingLosses DEF taskVars, futureVars, LossInv
<1>9. QED
  BY <1>1, <1>2, <1>3, <1>4, <1>5, <1>6, <1>7, <1>8 DEF TaskNext

(***************************************************************************)
(* For any tasks, replicas and responses, an attribution that no crash, no *)
(* expiry or eviction in the store and no recorder panicking in a body has *)
(* taken is in the store, in a future that will put it back or charge it,  *)
(* or charged, or record_failure or record_drop has counted a future of    *)
(* its task.  Completion::finish, park, requeue_in_flight, InFlight::drop. *)
(***************************************************************************)
THEOREM NoChargeIsLostUnexplained == TaskSpec => []LossesAreExplained
<1>1. TokenInv /\ [TaskNext]_taskVars => TokenInv'
  BY StepTokens
<1>2. QueueInv /\ [TaskNext]_taskVars => QueueInv'
  BY StepQueues
<1>3. TokenInv /\ QueueInv /\ LossInv /\ [TaskNext]_taskVars => LossInv'
  BY StepLosses
<1>4. LossInv => LossesAreExplained
  BY DEF LossInv
<1>5. QED
  BY <1>1, <1>2, <1>3, <1>4, InitTokens, InitQueues, InitLosses, PTL DEF TaskSpec
===============================================================================
