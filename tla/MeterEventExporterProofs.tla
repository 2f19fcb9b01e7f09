----------------------- MODULE MeterEventExporterProofs -----------------------
(***************************************************************************)
(* Proofs about MeterEventExporter, for any callers, batches, dead letter  *)
(* capacity and number of late rejections.                                 *)
(*                                                                         *)
(* The lease is what the argument turns on: an export that awaits its      *)
(* outcomes is the only one, and nobody else writes the progress, so the   *)
(* outcomes it gets are written into the progress they were asked for.     *)
(*                                                                         *)
(* The lemmas about the dead letter queue, and about quarantining one      *)
(* rejected aggregate after the other, are for ReplicaLifecycleProofs.     *)
(***************************************************************************)
EXTENDS MeterEventExporter, FiniteSetTheorems, TLAPS

Stages == {"idle", "awaiting", "ok", "err", "refused"}

Aggregates == UNION Batches

Shape ==
  /\ retry_progress \in [active : BOOLEAN, batch : SUBSET Aggregates,
                         completed : SUBSET Aggregates]
  /\ exporting \in BOOLEAN
  /\ stage \in [Callers -> Stages]
  /\ unresolved \in [Callers -> SUBSET Aggregates]

LeaseInv == Shape /\ LeaseProtectsProgress
-------------------------------------------------------------------------------
LEMMA IdleProgress ==
  Idle \in [active : BOOLEAN, batch : SUBSET Aggregates, completed : SUBSET Aggregates]
BY DEF Idle

LEMMA InitLease == MeterInit => LeaseInv
<1> SUFFICES ASSUME MeterInit PROVE LeaseInv
  OBVIOUS
<1>1. stage = [c \in Callers |-> "idle"] /\ unresolved = [c \in Callers |-> {}]
  BY DEF MeterInit
<1>2. stage \in [Callers -> Stages] /\ unresolved \in [Callers -> SUBSET Aggregates]
  BY <1>1 DEF Stages
<1>3. Shape
  BY <1>2, IdleProgress DEF MeterInit, Shape
<1>4. LeaseProtectsProgress
  BY <1>1 DEF MeterInit, LeaseProtectsProgress
<1>5. QED
  BY <1>3, <1>4 DEF LeaseInv

\* Steps that leave the export futures alone leave the invariant alone.
LEMMA UnchangedLease ==
  LeaseInv /\ UNCHANGED <<retry_progress, exporting, stage, unresolved>> => LeaseInv'
BY DEF LeaseInv, Shape, LeaseProtectsProgress

LEMMA BeginRefusedLease ==
  ASSUME LeaseInv, NEW c \in Callers, NEW b \in Batches, BeginRefused(c, b)
  PROVE  LeaseInv'
BY DEF LeaseInv, Shape, Stages, LeaseProtectsProgress, BeginRefused

LEMMA BeginLease ==
  ASSUME LeaseInv, NEW c \in Callers, NEW b \in Batches, Begin(c, b)
  PROVE  LeaseInv'
<1> DEFINE progress == Progress(b)
           left == b \ progress.completed
<1>1. b \subseteq Aggregates
  BY DEF Aggregates
<1>2. progress \in [active : BOOLEAN, batch : SUBSET Aggregates, completed : SUBSET Aggregates]
  BY <1>1 DEF LeaseInv, Shape, Progress
<1>3. progress.active /\ progress.batch = b
  BY DEF Begin, Progress, LeaseInv, Shape
<1>4. \A d \in Callers : stage[d] # "awaiting"
  BY DEF Begin, LeaseInv, LeaseProtectsProgress
<1>5. CASE left = {}
  <2>1. /\ retry_progress' = Idle
        /\ stage' = [stage EXCEPT ![c] = "ok"]
        /\ UNCHANGED <<exporting, unresolved>>
    BY <1>5 DEF Begin
  <2>2. Shape'
    BY <2>1, IdleProgress DEF LeaseInv, Shape, Stages
  <2>3. \A d \in Callers : stage'[d] # "awaiting"
    BY <1>4, <2>1 DEF LeaseInv, Shape
  <2>4. exporting' = FALSE
    BY <1>4, <2>1 DEF LeaseInv, Shape, LeaseProtectsProgress
  <2>5. QED
    BY <2>2, <2>3, <2>4 DEF LeaseInv, LeaseProtectsProgress
<1>6. CASE left # {}
  <2> HIDE DEF progress
  <2>1. /\ retry_progress' = progress
        /\ exporting' = TRUE
        /\ stage' = [stage EXCEPT ![c] = "awaiting"]
        /\ unresolved' = [unresolved EXCEPT ![c] = left]
    BY <1>6 DEF Begin, progress
  <2>2. Shape'
    BY <1>1, <1>2, <2>1 DEF LeaseInv, Shape, Stages
  <2>3. \A d \in Callers : stage'[d] = "awaiting" <=> d = c
    BY <1>4, <2>1 DEF LeaseInv, Shape
  <2>4. unresolved'[c] = left
    BY <2>1 DEF LeaseInv, Shape
  <2>5. LeaseProtectsProgress'
    BY <1>3, <2>1, <2>3, <2>4 DEF LeaseProtectsProgress
  <2>6. QED
    BY <2>2, <2>5 DEF LeaseInv
<1>7. QED
  BY <1>5, <1>6

\* However an export ends, the lease goes with it and nobody else held it.
LEMMA LeaveLease ==
  ASSUME LeaseInv, NEW c \in Callers, stage[c] = "awaiting",
         NEW result \in {"ok", "err"}, Leave(c, result),
         retry_progress' \in [active : BOOLEAN, batch : SUBSET Aggregates,
                              completed : SUBSET Aggregates]
  PROVE  LeaseInv'
<1>1. \A d \in Callers : stage'[d] # "awaiting"
  BY DEF Leave, LeaseInv, Shape, LeaseProtectsProgress
<1>2. Shape'
  BY DEF Leave, LeaseInv, Shape, Stages
<1>3. exporting' = FALSE
  BY DEF Leave
<1>4. QED
  BY <1>1, <1>2, <1>3 DEF LeaseInv, LeaseProtectsProgress

\* What an answer does to the export it is for and to the progress.
Ends(c, outcome) ==
  /\ stage[c] = "awaiting"
  /\ \/ Leave(c, "ok") /\ retry_progress' = Idle
     \/ /\ Leave(c, "err")
        /\ retry_progress' = [retry_progress EXCEPT !.completed =
             @ \cup Given(c, outcome, "Accepted") \cup Given(c, outcome, "PermanentRejection")]

LEMMA OutcomesEnd == ASSUME NEW c, NEW outcome, Outcomes(c, outcome) PROVE Ends(c, outcome)
BY DEF Outcomes, Ends

LEMMA OutcomesLease ==
  ASSUME LeaseInv, NEW c \in Callers, NEW outcome, Ends(c, outcome)
  PROVE  LeaseInv'
<1> DEFINE given == Given(c, outcome, "Accepted") \cup Given(c, outcome, "PermanentRejection")
<1>1. stage[c] = "awaiting"
  BY DEF Ends
<1>2. given \subseteq Aggregates
  BY DEF Given, LeaseInv, Shape
<1>3. \/ Leave(c, "ok") /\ retry_progress' = Idle
      \/ /\ Leave(c, "err")
         /\ retry_progress' = [retry_progress EXCEPT !.completed =
              @ \cup Given(c, outcome, "Accepted") \cup Given(c, outcome, "PermanentRejection")]
  BY DEF Ends
<1>4. retry_progress' \in [active : BOOLEAN, batch : SUBSET Aggregates,
                           completed : SUBSET Aggregates]
  <2>1. CASE retry_progress' = Idle
    BY <2>1, IdleProgress
  <2>2. CASE retry_progress' = [retry_progress EXCEPT !.completed = @ \cup given]
    <3> HIDE DEF given
    <3>1. retry_progress \in [active : BOOLEAN, batch : SUBSET Aggregates,
                              completed : SUBSET Aggregates]
      BY DEF LeaseInv, Shape
    <3>2. retry_progress.completed \cup given \in SUBSET Aggregates
      BY <1>2, <3>1
    <3>3. QED
      BY <2>2, <3>1, <3>2
  <2>3. retry_progress.completed \cup given = (retry_progress.completed
          \cup Given(c, outcome, "Accepted")) \cup Given(c, outcome, "PermanentRejection")
    OBVIOUS
  <2>4. QED
    BY <1>3, <2>1, <2>2, <2>3
<1>5. QED
  BY <1>1, <1>3, <1>4, LeaveLease

LEMMA NextLease == LeaseInv /\ [MeterNext]_meterVars => LeaseInv'
<1> SUFFICES ASSUME LeaseInv, [MeterNext]_meterVars
             PROVE  LeaseInv'
  OBVIOUS
<1>1. ASSUME NEW c \in Callers, NEW b \in Batches, BeginRefused(c, b)
      PROVE  LeaseInv'
  BY <1>1, BeginRefusedLease
<1>2. ASSUME NEW c \in Callers, NEW b \in Batches, Begin(c, b)
      PROVE  LeaseInv'
  BY <1>2, BeginLease
<1>3. ASSUME NEW c \in Callers, Answer(c)
      PROVE  LeaseInv'
  <2>1. CASE NoOutcomes(c)
    <3>1. /\ stage[c] = "awaiting" /\ Leave(c, "err")
          /\ retry_progress' = retry_progress
      BY <2>1 DEF NoOutcomes
    <3>2. QED
      BY <3>1, LeaveLease DEF LeaseInv, Shape
  <2>2. QED
    BY <1>3, <2>1, OutcomesEnd, OutcomesLease DEF Answer
<1>4. ASSUME NEW c \in Callers, Return(c)
      PROVE  LeaseInv'
  BY <1>4 DEF LeaseInv, Shape, Stages, LeaseProtectsProgress, Return
<1>5. CASE Abandon
  BY <1>5 DEF LeaseInv, Shape, Idle, LeaseProtectsProgress, Abandon
<1>6. CASE MeterExternal
  BY <1>6, UnchangedLease
     DEF MeterExternal, ProviderApplies, ProviderRevokes, QuarantineAsync, TakeDeadLetters,
         exporterVars
<1>7. CASE UNCHANGED meterVars
  BY <1>7, UnchangedLease DEF meterVars, exporterVars
<1>8. QED
  BY <1>1, <1>2, <1>3, <1>4, <1>5, <1>6, <1>7 DEF MeterNext

(***************************************************************************)
(* Whoever awaits outcomes holds the lease alone, and the progress is its  *)
(* own: abandon_retry_progress never slips between a submission and its    *)
(* outcomes (acquire_lease, begin_export, apply_outcomes).                 *)
(***************************************************************************)
THEOREM ProgressIsProtected == MeterSpec => []LeaseProtectsProgress
<1>1. LeaseInv => LeaseProtectsProgress
  BY DEF LeaseInv
<1>2. QED
  BY InitLease, NextLease, <1>1, PTL DEF MeterSpec
-------------------------------------------------------------------------------
LEMMA InitAnswered == MeterInit => CompletedWereAnswered
BY DEF MeterInit, CompletedWereAnswered, Idle

LEMMA OutcomesAnswered ==
  ASSUME LeaseInv, CompletedWereAnswered, NEW c \in Callers, NEW outcome,
         Truthful(c, outcome), Ends(c, outcome), UNCHANGED ledger,
         refused' = refused \cup Given(c, outcome, "PermanentRejection")
  PROVE  CompletedWereAnswered'
<1>1. /\ Given(c, outcome, "Accepted") \subseteq ledger
      /\ ledger' = ledger
      /\ refused' = refused \cup Given(c, outcome, "PermanentRejection")
  BY DEF Truthful
<1>2. \/ retry_progress' = Idle
      \/ retry_progress' = [retry_progress EXCEPT !.completed =
           @ \cup Given(c, outcome, "Accepted") \cup Given(c, outcome, "PermanentRejection")]
  BY DEF Ends
<1>3. \/ retry_progress'.completed = {}
      \/ retry_progress'.completed = retry_progress.completed
           \cup Given(c, outcome, "Accepted") \cup Given(c, outcome, "PermanentRejection")
  BY <1>2 DEF Idle, LeaseInv, Shape
<1>4. QED
  BY <1>1, <1>3 DEF CompletedWereAnswered

LEMMA NextAnswered ==
  LeaseInv /\ CompletedWereAnswered /\ [MeterNext]_meterVars => CompletedWereAnswered'
<1> SUFFICES ASSUME LeaseInv, CompletedWereAnswered, [MeterNext]_meterVars
             PROVE  CompletedWereAnswered'
  OBVIOUS
<1> USE DEF CompletedWereAnswered, providerVars
<1>1. ASSUME NEW c \in Callers, NEW b \in Batches, BeginRefused(c, b)
      PROVE  CompletedWereAnswered'
  BY <1>1 DEF BeginRefused
<1>2. ASSUME NEW c \in Callers, NEW b \in Batches, Begin(c, b)
      PROVE  CompletedWereAnswered'
  BY <1>2 DEF Begin, Progress, Idle
<1>3. ASSUME NEW c \in Callers, Answer(c)
      PROVE  CompletedWereAnswered'
  BY <1>3, OutcomesEnd, OutcomesAnswered DEF Answer, Outcomes, Settle, NoOutcomes
<1>4. ASSUME NEW c \in Callers, Return(c)
      PROVE  CompletedWereAnswered'
  BY <1>4 DEF Return
<1>5. CASE Abandon
  BY <1>5 DEF Abandon, Idle
<1>6. CASE MeterExternal
  BY <1>6 DEF MeterExternal, ProviderApplies, ProviderRevokes, QuarantineAsync,
              TakeDeadLetters, exporterVars
<1>7. CASE UNCHANGED meterVars
  BY <1>7 DEF meterVars, exporterVars
<1>8. QED
  BY <1>1, <1>2, <1>3, <1>4, <1>5, <1>6, <1>7 DEF MeterNext

(***************************************************************************)
(* An aggregate is only skipped by later retries when the provider has     *)
(* applied or rejected it: no ambiguous failure marks one as completed     *)
(* (apply_outcomes, mark_completed_locked).                                *)
(***************************************************************************)
THEOREM SkippedWereAnswered == MeterSpec => []CompletedWereAnswered
BY InitLease, NextLease, InitAnswered, NextAnswered, PTL DEF MeterSpec
-------------------------------------------------------------------------------
(***************************************************************************)
(* The dead letter queue.  A sound queue is bounded, has one letter per    *)
(* identifier, and indexes exactly its letters: that is what an eviction   *)
(* relies on when it takes the evicted letter's identifier off the index.  *)
(***************************************************************************)
SoundQueue(queue, L) ==
  /\ queue \in [letters : Seq(L), identifiers : SUBSET {a.identifier : a \in L},
                dropped : Nat, entered : Nat]
  /\ Len(queue.letters) <= DeadLetterCapacity
  /\ queue.identifiers = {queue.letters[i].identifier : i \in DOMAIN queue.letters}
  /\ \A i, j \in DOMAIN queue.letters :
       queue.letters[i].identifier = queue.letters[j].identifier => i = j

\* The letters that entered and are neither queued nor dropped.
Gone(queue) == queue.entered - queue.dropped - Len(queue.letters)

\* A letter whose identifier is not in the queue may be added at its end.
LEMMA LetterAppended ==
  ASSUME NEW L, NEW s \in Seq(L), NEW a \in L,
         \A i, j \in DOMAIN s : s[i].identifier = s[j].identifier => i = j,
         a.identifier \notin {s[i].identifier : i \in DOMAIN s}
  PROVE  /\ Append(s, a) \in Seq(L) /\ Len(Append(s, a)) = Len(s) + 1
         /\ {Append(s, a)[i].identifier : i \in DOMAIN Append(s, a)} =
              {s[i].identifier : i \in DOMAIN s} \cup {a.identifier}
         /\ \A i, j \in DOMAIN Append(s, a) :
              Append(s, a)[i].identifier = Append(s, a)[j].identifier => i = j
<1> DEFINE t == Append(s, a)
<1>1. /\ t \in Seq(L) /\ Len(t) = Len(s) + 1 /\ Len(s) \in Nat
      /\ DOMAIN s = 1..Len(s) /\ DOMAIN t = 1..(Len(s) + 1)
      /\ \A i \in 1..Len(s) : t[i] = s[i]
      /\ t[Len(s) + 1] = a
  OBVIOUS
<1> HIDE DEF t
<1>2. DOMAIN t = DOMAIN s \cup {Len(s) + 1} /\ \A i \in DOMAIN s : i # Len(s) + 1
  BY <1>1
<1>3. {t[i].identifier : i \in DOMAIN t} = {s[i].identifier : i \in DOMAIN s} \cup {a.identifier}
  BY <1>1, <1>2
<1>4. \A i, j \in DOMAIN t : t[i].identifier = t[j].identifier => i = j
  BY <1>1, <1>2
<1> QED BY <1>1, <1>3, <1>4 DEF t

\* The oldest letter goes with its identifier, and no other letter has it.
LEMMA OldestEvicted ==
  ASSUME NEW L, NEW s \in Seq(L), s # <<>>,
         \A i, j \in DOMAIN s : s[i].identifier = s[j].identifier => i = j
  PROVE  /\ Tail(s) \in Seq(L) /\ Len(Tail(s)) = Len(s) - 1
         /\ {Tail(s)[i].identifier : i \in DOMAIN Tail(s)} =
              {s[i].identifier : i \in DOMAIN s} \ {Head(s).identifier}
         /\ \A i, j \in DOMAIN Tail(s) :
              Tail(s)[i].identifier = Tail(s)[j].identifier => i = j
<1> DEFINE t == Tail(s)
<1>1. /\ t \in Seq(L) /\ Len(s) \in Nat \ {0} /\ Len(t) = Len(s) - 1
      /\ DOMAIN s = 1..Len(s) /\ DOMAIN t = 1..(Len(s) - 1)
      /\ \A i \in 1..(Len(s) - 1) : t[i] = s[i + 1]
      /\ Head(s) = s[1]
  OBVIOUS
<1> HIDE DEF t
<1>2. ASSUME NEW i \in DOMAIN s, i # 1
      PROVE  i - 1 \in DOMAIN t /\ t[i - 1] = s[i]
  BY <1>1, <1>2
<1>3. ASSUME NEW i \in DOMAIN t
      PROVE  i + 1 \in DOMAIN s /\ i + 1 # 1 /\ t[i] = s[i + 1]
  BY <1>1, <1>3
<1>4. 1 \in DOMAIN s
  BY <1>1
<1>5. {t[i].identifier : i \in DOMAIN t} = {s[i].identifier : i \in DOMAIN s} \ {s[1].identifier}
  BY <1>2, <1>3, <1>4
<1>6. \A i, j \in DOMAIN t : t[i].identifier = t[j].identifier => i = j
  <2> SUFFICES ASSUME NEW i \in DOMAIN t, NEW j \in DOMAIN t, t[i].identifier = t[j].identifier
               PROVE  i = j
    OBVIOUS
  <2>1. i + 1 = j + 1
    BY <1>3
  <2> QED BY <1>1, <2>1
<1> QED BY <1>1, <1>5, <1>6 DEF t

\* One letter more: the queue stays sound, and no letter goes without being counted.
LEMMA QuarantineSound ==
  ASSUME DeadLetterCapacity \in Nat, NEW L, NEW q, SoundQueue(q, L), NEW a \in L
  PROVE  SoundQueue(Quarantine(q, a), L) /\ Gone(Quarantine(q, a)) = Gone(q)
<1>1. /\ q \in [letters : Seq(L), identifiers : SUBSET {x.identifier : x \in L},
                dropped : Nat, entered : Nat]
      /\ Len(q.letters) <= DeadLetterCapacity
      /\ q.identifiers = {q.letters[i].identifier : i \in DOMAIN q.letters}
      /\ \A i, j \in DOMAIN q.letters :
           q.letters[i].identifier = q.letters[j].identifier => i = j
      /\ q.letters \in Seq(L) /\ Len(q.letters) \in Nat
      /\ q.dropped \in Nat /\ q.entered \in Nat
      /\ a.identifier \in {x.identifier : x \in L}
  BY DEF SoundQueue
<1>2. CASE Known(q, a)
  BY <1>2 DEF Quarantine
<1>3. CASE ~Known(q, a) /\ DeadLetterCapacity = 0
  <2> DEFINE r == Quarantine(q, a)
  <2>1. r = [q EXCEPT !.dropped = q.dropped + 1, !.entered = q.entered + 1]
    BY <1>3 DEF Quarantine
  <2>2. /\ r \in [letters : Seq(L), identifiers : SUBSET {x.identifier : x \in L},
                  dropped : Nat, entered : Nat]
        /\ r.letters = q.letters /\ r.identifiers = q.identifiers
        /\ r.dropped = q.dropped + 1 /\ r.entered = q.entered + 1
    <3> DEFINE Ids == SUBSET {x.identifier : x \in L}
               Letters == Seq(L)
    <3>1. /\ q \in [letters : Letters, identifiers : Ids, dropped : Nat, entered : Nat]
          /\ q.dropped + 1 \in Nat /\ q.entered + 1 \in Nat
      BY <1>1
    <3> HIDE DEF Ids, Letters, r
    <3>2. r \in [letters : Letters, identifiers : Ids, dropped : Nat, entered : Nat]
      BY <2>1, <3>1
    <3>3. /\ r.letters = q.letters /\ r.identifiers = q.identifiers
          /\ r.dropped = q.dropped + 1 /\ r.entered = q.entered + 1
      BY <2>1, <3>1
    <3> QED BY <3>2, <3>3 DEF Ids, Letters
  <2> HIDE DEF r
  <2>3. SoundQueue(r, L)
    BY <1>1, <2>2 DEF SoundQueue
  <2>4. Gone(r) = Gone(q)
    BY <1>1, <2>2 DEF Gone
  <2> QED BY <2>3, <2>4 DEF r
<1>4. CASE ~Known(q, a) /\ DeadLetterCapacity # 0
  <2> DEFINE full == Len(q.letters) >= DeadLetterCapacity
             s == IF full THEN Tail(q.letters) ELSE q.letters
             forgotten == IF full THEN {Head(q.letters).identifier} ELSE {}
             t == Append(s, a)
             r == Quarantine(q, a)
  <2>1. r = [letters |-> t,
             identifiers |-> (q.identifiers \ forgotten) \cup {a.identifier},
             dropped |-> IF full THEN q.dropped + 1 ELSE q.dropped,
             entered |-> q.entered + 1]
    BY <1>4 DEF Quarantine, Entered
  <2>2. /\ s \in Seq(L)
        /\ Len(s) = IF full THEN Len(q.letters) - 1 ELSE Len(q.letters)
        /\ {s[i].identifier : i \in DOMAIN s} = q.identifiers \ forgotten
        /\ \A i, j \in DOMAIN s : s[i].identifier = s[j].identifier => i = j
    <3>1. CASE full
      <4>1. q.letters # <<>>
        BY <1>1, <1>4, <3>1
      <4>2. s = Tail(q.letters) /\ forgotten = {Head(q.letters).identifier}
        BY <3>1
      <4>3. /\ Tail(q.letters) \in Seq(L) /\ Len(Tail(q.letters)) = Len(q.letters) - 1
            /\ {Tail(q.letters)[i].identifier : i \in DOMAIN Tail(q.letters)} =
                 {q.letters[i].identifier : i \in DOMAIN q.letters} \ {Head(q.letters).identifier}
            /\ \A i, j \in DOMAIN Tail(q.letters) :
                 Tail(q.letters)[i].identifier = Tail(q.letters)[j].identifier => i = j
        BY <1>1, <4>1, OldestEvicted
      <4>4. {Tail(q.letters)[i].identifier : i \in DOMAIN Tail(q.letters)} =
              q.identifiers \ forgotten
        BY <1>1, <4>2, <4>3
      <4> HIDE DEF s, forgotten, full
      <4> QED BY <3>1, <4>2, <4>3, <4>4
    <3>2. CASE ~full
      BY <1>1, <3>2
    <3> QED BY <3>1, <3>2
  <2> HIDE DEF r, s, forgotten
  <2>3. a.identifier \notin {s[i].identifier : i \in DOMAIN s}
    BY <1>4, <2>2 DEF Known
  <2>4. /\ t \in Seq(L) /\ Len(t) = Len(s) + 1
        /\ {t[i].identifier : i \in DOMAIN t} = {s[i].identifier : i \in DOMAIN s} \cup {a.identifier}
        /\ \A i, j \in DOMAIN t : t[i].identifier = t[j].identifier => i = j
    BY <2>2, <2>3, LetterAppended
  <2> HIDE DEF t
  <2>5. /\ r.letters = t
        /\ r.identifiers = {t[i].identifier : i \in DOMAIN t}
        /\ r.dropped = IF full THEN q.dropped + 1 ELSE q.dropped
        /\ r.entered = q.entered + 1
    BY <2>1, <2>2, <2>4
  <2> HIDE DEF full
  <2>6. r \in [letters : Seq(L), identifiers : SUBSET {x.identifier : x \in L},
               dropped : Nat, entered : Nat]
    <3>1. (q.identifiers \ forgotten) \cup {a.identifier} \in SUBSET {x.identifier : x \in L}
      BY <1>1
    <3>2. q.dropped + 1 \in Nat /\ q.entered + 1 \in Nat
      BY <1>1
    <3> QED BY <1>1, <2>1, <2>4, <3>1, <3>2
  <2>7. Len(t) <= DeadLetterCapacity
    BY <1>1, <2>2, <2>4 DEF full
  <2>8. SoundQueue(r, L)
    BY <2>4, <2>5, <2>6, <2>7 DEF SoundQueue
  <2>9. Gone(r) = Gone(q)
    <3>1. CASE full
      BY <1>1, <2>2, <2>4, <2>5, <3>1 DEF Gone
    <3>2. CASE ~full
      <4>1. Len(r.letters) = Len(q.letters) + 1 /\ r.dropped = q.dropped /\ r.entered = q.entered + 1
        BY <1>1, <2>2, <2>4, <2>5, <3>2
      <4>2. Len(q.letters) \in Nat /\ q.dropped \in Nat /\ q.entered \in Nat
        BY <1>1
      <4> QED BY <4>1, <4>2 DEF Gone
    <3> QED BY <3>1, <3>2
  <2> QED BY <2>8, <2>9 DEF r
<1> QED BY <1>2, <1>3, <1>4


(***************************************************************************)
(* The fold over the rejected of one answer.  It is given by a recursive   *)
(* function over the subsets of what is rejected; such functions exist,    *)
(* agree where they are both defined, and keep what every step keeps.      *)
(***************************************************************************)
OneOf(s) == CHOOSE a \in s : TRUE

FoldsBelow(g, q, S) ==
  g = [s \in SUBSET S |-> IF s = {} THEN q ELSE Quarantine(g[s \ {OneOf(s)}], OneOf(s))]

LEMMA QuarantineAllUnfolds ==
  ASSUME NEW q, NEW S
  PROVE  QuarantineAll(q, S) = (CHOOSE g : FoldsBelow(g, q, S))[S]
BY DEF QuarantineAll, FoldSet, MapThenFoldSet, FoldsBelow, OneOf

\* A set of subsets of a finite set has a least one.
LEMMA LeastSubset ==
  ASSUME NEW S, IsFiniteSet(S), NEW T, T \subseteq SUBSET S, T # {}
  PROVE  \E s \in T : \A t \in T : t \subseteq s => t = s
<1>1. FiniteSubsetsOf(S) = SUBSET S
  BY FS_FiniteSubsetsOfFinite
<1>2. PICK s \in T : \A t \in T : <<t, s>> \notin StrictSubsetOrdering(S)
  BY <1>1, WFMin, FS_StrictSubsetOrderingWellFounded
<1>3. \A t \in T : t \subseteq s => t = s
  BY <1>2 DEF StrictSubsetOrdering
<1> QED BY <1>3

LEMMA OneOfIsOne ==
  ASSUME NEW S, NEW s \in SUBSET S, s # {}
  PROVE  /\ OneOf(s) \in s
         /\ s \ {OneOf(s)} \in SUBSET S /\ s \ {OneOf(s)} \subseteq s /\ s \ {OneOf(s)} # s
BY DEF OneOf

LEMMA FoldsAgree ==
  ASSUME NEW q, NEW A, NEW B, NEW g, NEW h, IsFiniteSet(A),
         FoldsBelow(g, q, A), FoldsBelow(h, q, B)
  PROVE  \A s \in SUBSET (A \cap B) : g[s] = h[s]
<1> DEFINE wrong == {s \in SUBSET (A \cap B) : g[s] # h[s]}
<1> SUFFICES ASSUME wrong # {} PROVE FALSE
  OBVIOUS
<1>1. IsFiniteSet(A \cap B)
  BY FS_Intersection
<1>2. PICK s \in wrong : \A t \in wrong : t \subseteq s => t = s
  <2> wrong \subseteq SUBSET (A \cap B)
    OBVIOUS
  <2> HIDE DEF wrong
  <2> QED BY <1>1, LeastSubset
<1> DEFINE r == s \ {OneOf(s)}
<1>3. /\ g[s] = IF s = {} THEN q ELSE Quarantine(g[r], OneOf(s))
      /\ h[s] = IF s = {} THEN q ELSE Quarantine(h[r], OneOf(s))
  BY DEF FoldsBelow
<1>4. CASE s # {}
  <2>1. r \in SUBSET (A \cap B) /\ r \subseteq s /\ r # s
    BY <1>4, OneOfIsOne
  <2>2. g[r] = h[r]
    BY <1>2, <2>1
  <2> HIDE DEF r
  <2> QED BY <1>3, <1>4, <2>2
<1> QED BY <1>3, <1>4

LEMMA FoldsExist ==
  ASSUME NEW q, NEW S, IsFiniteSet(S)
  PROVE  \E g : FoldsBelow(g, q, S)
<1> DEFINE wrong == {s \in SUBSET S : ~\E g : FoldsBelow(g, q, s)}
<1> SUFFICES ASSUME wrong # {} PROVE FALSE
  OBVIOUS
<1>1. PICK s \in wrong : \A t \in wrong : t \subseteq s => t = s
  <2> wrong \subseteq SUBSET S
    OBVIOUS
  <2> HIDE DEF wrong
  <2> QED BY LeastSubset
<1>2. \A t \in SUBSET s : t # s => \E h : FoldsBelow(h, q, t)
  BY <1>1
<1> DEFINE F(t) == CHOOSE h : FoldsBelow(h, q, t)
<1>3. ASSUME NEW t \in SUBSET s, t # s
      PROVE  FoldsBelow(F(t), q, t) /\ IsFiniteSet(t)
  BY <1>2, <1>3, FS_Subset
<1> HIDE DEF F
<1> DEFINE g == [t \in SUBSET s |-> IF t = {} THEN q
                                    ELSE Quarantine(F(t \ {OneOf(t)})[t \ {OneOf(t)}], OneOf(t))]
<1>4. ASSUME NEW t \in SUBSET s, t # s
      PROVE  F(t)[t] = g[t]
  <2> DEFINE r == t \ {OneOf(t)}
  <2>1. F(t)[t] = IF t = {} THEN q ELSE Quarantine(F(t)[r], OneOf(t))
    <3> DEFINE f == F(t)
    <3>1. FoldsBelow(f, q, t)
      BY <1>3, <1>4
    <3> HIDE DEF f
    <3>2. f[t] = IF t = {} THEN q ELSE Quarantine(f[t \ {OneOf(t)}], OneOf(t))
      BY <3>1 DEF FoldsBelow
    <3> QED BY <3>2 DEF f
  <2>2. g[t] = IF t = {} THEN q ELSE Quarantine(F(r)[r], OneOf(t))
    OBVIOUS
  <2> HIDE DEF g
  <2>3. CASE t # {}
    <3>1. r \in SUBSET t /\ r # t /\ r \in SUBSET s /\ r # s
      BY <2>3, OneOfIsOne
    <3>2. FoldsBelow(F(t), q, t) /\ FoldsBelow(F(r), q, r) /\ IsFiniteSet(t)
      BY <1>3, <1>4, <3>1
    <3>3. r \in SUBSET (t \cap r)
      BY <3>1
    <3> HIDE DEF r
    <3>4. F(t)[r] = F(r)[r]
      BY <3>2, <3>3, FoldsAgree
    <3> QED BY <2>1, <2>2, <2>3, <3>4
  <2> QED BY <2>1, <2>2, <2>3
<1>5. ASSUME NEW t \in SUBSET s
      PROVE  g[t] = IF t = {} THEN q ELSE Quarantine(g[t \ {OneOf(t)}], OneOf(t))
  <2> DEFINE r == t \ {OneOf(t)}
  <2>1. g[t] = IF t = {} THEN q ELSE Quarantine(F(r)[r], OneOf(t))
    OBVIOUS
  <2> HIDE DEF g
  <2>2. CASE t # {}
    <3>1. r \in SUBSET s /\ r # s
      BY <2>2, OneOfIsOne
    <3> QED BY <1>4, <2>1, <2>2, <3>1
  <2> QED BY <2>1, <2>2
<1>6. FoldsBelow(g, q, s)
  <2>1. g = [t \in SUBSET s |-> g[t]]
    OBVIOUS
  <2> HIDE DEF g
  <2> QED BY <1>5, <2>1 DEF FoldsBelow
<1> QED BY <1>1, <1>6

(***************************************************************************)
(* All the rejected of one answer: the queue stays sound, and no letter    *)
(* goes without being counted (quarantine_locked, called for each).        *)
(***************************************************************************)
LEMMA QuarantineAllSound ==
  ASSUME DeadLetterCapacity \in Nat, NEW L, NEW q, SoundQueue(q, L),
         NEW S \in SUBSET L, IsFiniteSet(S)
  PROVE  SoundQueue(QuarantineAll(q, S), L) /\ Gone(QuarantineAll(q, S)) = Gone(q)
<1> DEFINE g == CHOOSE g : FoldsBelow(g, q, S)
<1>1. FoldsBelow(g, q, S)
  BY FoldsExist
<1>2. QuarantineAll(q, S) = g[S]
  BY QuarantineAllUnfolds
<1> HIDE DEF g
<1> DEFINE wrong == {s \in SUBSET S : ~(SoundQueue(g[s], L) /\ Gone(g[s]) = Gone(q))}
<1>3. wrong = {}
  <2> SUFFICES ASSUME wrong # {} PROVE FALSE
    OBVIOUS
  <2>1. PICK s \in wrong : \A t \in wrong : t \subseteq s => t = s
    <3> wrong \subseteq SUBSET S
      OBVIOUS
    <3> HIDE DEF wrong
    <3> QED BY LeastSubset
  <2> DEFINE r == s \ {OneOf(s)}
  <2>2. g[s] = IF s = {} THEN q ELSE Quarantine(g[r], OneOf(s))
    BY <1>1 DEF FoldsBelow
  <2>3. CASE s # {}
    <3>1. r \in SUBSET S /\ r \subseteq s /\ r # s /\ OneOf(s) \in L
      BY <2>3, OneOfIsOne
    <3>2. SoundQueue(g[r], L) /\ Gone(g[r]) = Gone(q)
      BY <2>1, <3>1
    <3> HIDE DEF r
    <3>3. SoundQueue(Quarantine(g[r], OneOf(s)), L) /\ Gone(Quarantine(g[r], OneOf(s))) = Gone(g[r])
      BY <3>1, <3>2, QuarantineSound
    <3> QED BY <2>2, <2>3, <3>2, <3>3
  <2> QED BY <2>2, <2>3
<1> QED BY <1>2, <1>3

===============================================================================
