--------------------------- MODULE InMemoryTaskStore ---------------------------
(***************************************************************************)
(* InMemoryTaskStore (mcp-usage-tower, task.rs): a table of origins and a  *)
(* queue of keys in insertion order.  Claims and removals leave the queue  *)
(* alone, so that its entries go stale; a generation tells the entry of a  *)
(* live association from those of its key's earlier lives.  The queue is   *)
(* compacted when stale entries pile up.  Each operation runs under one    *)
(* lock and never awaits, hence is one step.  The generation is a u128: it *)
(* would wrap after 2^128 insertions, which no process reaches, and counts *)
(* in Nat here.                                                            *)
(***************************************************************************)
EXTENDS Naturals, Sequences, FiniteSets, Functions

CONSTANTS
  Keys,          \* pairs of tenant and task identifier
  Attributions,  \* prices with their origin category
  Capacity,      \* max_tasks
  MaxInsertions  \* bound: associations entered in one behaviour

ASSUME StoreAssumption == Capacity \in Nat /\ MaxInsertions \in Nat

VARIABLES
  tasks,            \* live key -> its attribution and generation
  insertion_order,  \* queue of [key, generation], oldest first, some stale
  next_generation,
  answer            \* what the last operation answered: an attribution or "none"

storeVars == <<tasks, insertion_order, next_generation, answer>>

Nothing == "none"

Live == DOMAIN tasks

Origin(key) == IF key \in Live THEN tasks[key].attribution ELSE Nothing

\* The queue entry e is that of a live association of table.
Current(table, e) == e.key \in DOMAIN table /\ table[e.key].generation = e.generation

\* Where queue holds the entries of the live associations of table.
CurrentIn(table, queue) == {i \in DOMAIN queue : Current(table, queue[i])}

\* The elements of s at the positions ps, in their order.
Nth(ps, n) == CHOOSE i \in ps : Cardinality({j \in ps : j <= i}) = n
Retain(s, ps) == [n \in 1..Cardinality(ps) |-> s[Nth(ps, n)]]

StoreInit ==
  /\ tasks = <<>>
  /\ insertion_order = <<>>
  /\ next_generation = 0
  /\ answer = Nothing
-------------------------------------------------------------------------------
(***************************************************************************)
(* Making room: entries are taken from the front of the queue until one of *)
(* them is live, and that association is dropped.                          *)
(***************************************************************************)
Evict ==
  LET current == CurrentIn(tasks, insertion_order)
      first == CHOOSE i \in current : \A j \in current : i <= j
  IN
  IF current = {}
  THEN [table |-> tasks, order |-> <<>>]
  ELSE [table |-> Restrict(tasks, Live \ {insertion_order[first].key}),
        order |-> SubSeq(insertion_order, first + 1, Len(insertion_order))]

Room ==
  IF Cardinality(Live) >= Capacity THEN Evict
  ELSE [table |-> tasks, order |-> insertion_order]

With(table, key, entry) ==
  [k \in DOMAIN table \cup {key} |-> IF k = key THEN entry ELSE table[k]]

Enter(key, attribution) ==
  /\ next_generation < MaxInsertions
  /\ tasks' = With(Room.table, key, [attribution |-> attribution, generation |-> next_generation])
  /\ insertion_order' = Append(Room.order, [key |-> key, generation |-> next_generation])
  /\ next_generation' = next_generation + 1

InsertReplacing(key, attribution) ==
  /\ IF Capacity = 0 THEN UNCHANGED <<tasks, insertion_order, next_generation>>
     ELSE Enter(key, attribution)
  /\ answer' = Nothing

\* A task's origin is immutable: a reused identifier changes nothing.
Insert(key, attribution) ==
  /\ IF Capacity = 0 \/ key \in Live
     THEN UNCHANGED <<tasks, insertion_order, next_generation>>
     ELSE Enter(key, attribution)
  /\ answer' = Nothing

Get(key) ==
  /\ answer' = Origin(key)
  /\ UNCHANGED <<tasks, insertion_order, next_generation>>
-------------------------------------------------------------------------------
CompactedNever(table) == insertion_order

\* compact_order_if_needed(): the stale entries go once there may be too many.
Compacted(table) ==
  IF Len(insertion_order) > 2 * Capacity
  THEN Retain(insertion_order, CurrentIn(table, insertion_order))
  ELSE insertion_order

Forget(key) ==
  LET table == Restrict(tasks, Live \ {key}) IN
  tasks' = table /\ insertion_order' = Compacted(table)

Claim(key) ==
  /\ answer' = Origin(key)
  /\ IF key \in Live THEN Forget(key) ELSE UNCHANGED <<tasks, insertion_order>>
  /\ UNCHANGED next_generation

Remove(key) ==
  /\ answer' = Nothing
  /\ Forget(key)
  /\ UNCHANGED next_generation

StoreNext ==
  \E key \in Keys :
    \/ \E attribution \in Attributions : Insert(key, attribution)
    \/ Get(key)
    \/ Claim(key)
    \/ Remove(key)

StoreSpec == StoreInit /\ [][StoreNext]_storeVars
-------------------------------------------------------------------------------
(***************************************************************************)
(* The queue never holds more than 2 * max_tasks stale entries beside the  *)
(* live ones, although insert() never compacts it and a claim compacts it  *)
(* only above its threshold.  compact_order_if_needed, insert.             *)
(***************************************************************************)
OrderBounded == Len(insertion_order) <= 2 * Capacity + Cardinality(Live)

\* The associations in insertion order.
LiveIn(table, queue) ==
  LET entries == Retain(queue, CurrentIn(table, queue)) IN
  [i \in DOMAIN entries |->
     [key |-> entries[i].key, attribution |-> table[entries[i].key].attribution]]

LiveInOrder == LiveIn(tasks, insertion_order)

Promise == INSTANCE OriginStore WITH live <- LiveInOrder

(***************************************************************************)
(* Table and queue implement the store of the last max_tasks origins: the  *)
(* task forgotten is the oldest, the first origin given is the one         *)
(* claimed, and a claim answers it once.                                   *)
(***************************************************************************)
ImplementsOriginStore == Promise!OriginSpec
===============================================================================
