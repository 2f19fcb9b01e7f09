----------------------------- MODULE OriginStore -----------------------------
(***************************************************************************)
(* What a process-local attribution store promises: the origins of the     *)
(* last max_tasks durable tasks, oldest first.  The first origin given for *)
(* a task stays; a full store forgets its oldest task for a new one; a     *)
(* claim hands an origin to one caller.                                    *)
(***************************************************************************)
EXTENDS Naturals, Sequences

CONSTANTS
  Keys,          \* pairs of tenant and task identifier
  Attributions,  \* prices with their origin category
  Capacity       \* max_tasks

VARIABLES
  live,   \* the associations [key, attribution], oldest first
  answer  \* what the last operation answered: an attribution or "none"

Nothing == "none"

Has(key) == \E i \in DOMAIN live : live[i].key = key

Origin(key) ==
  IF Has(key) THEN (CHOOSE e \in {live[i] : i \in DOMAIN live} : e.key = key).attribution
  ELSE Nothing

Room == IF Len(live) = Capacity THEN Tail(live) ELSE live

Without(key) ==
  LET at == CHOOSE i \in DOMAIN live : live[i].key = key IN
  IF Has(key) THEN SubSeq(live, 1, at - 1) \o SubSeq(live, at + 1, Len(live)) ELSE live

OriginInit == live = <<>> /\ answer = Nothing

Insert(key, attribution) ==
  /\ live' = IF Capacity = 0 \/ Has(key) THEN live
             ELSE Append(Room, [key |-> key, attribution |-> attribution])
  /\ answer' = Nothing

Get(key) == answer' = Origin(key) /\ UNCHANGED live

Claim(key) == answer' = Origin(key) /\ live' = Without(key)

Remove(key) == answer' = Nothing /\ live' = Without(key)

OriginNext ==
  \E key \in Keys :
    \/ \E attribution \in Attributions : Insert(key, attribution)
    \/ Get(key) \/ Claim(key) \/ Remove(key)

OriginSpec == OriginInit /\ [][OriginNext]_<<live, answer>>
===============================================================================
