-------------------------- MODULE DeferredCompletions --------------------------
(***************************************************************************)
(* The bounded queue of terminal accounting that could not finish without  *)
(* awaiting (mcp-usage-tower, deferred.rs), as operators on one queue: a   *)
(* sequence of futures with its capacity, oldest first.  Each operator     *)
(* names the queue afterwards and the futures it discards; the caller      *)
(* counts one drop for each of those.                                      *)
(***************************************************************************)
EXTENDS Naturals, Sequences

\* park(): the oldest makes room for the newest; a queue without capacity takes nothing.
Parked(queue, capacity, future) ==
  IF capacity = 0 THEN queue
  ELSE IF Len(queue) >= capacity THEN Append(Tail(queue), future)
  ELSE Append(queue, future)

ParkDiscards(queue, capacity, future) ==
  IF capacity = 0 THEN {future}
  ELSE IF Len(queue) >= capacity THEN {Head(queue)}
  ELSE {}

\* requeue_in_flight(): a cancelled drain puts its future first; the newest makes room.
Requeued(queue, capacity, future) ==
  <<future>> \o (IF Len(queue) >= capacity THEN SubSeq(queue, 1, Len(queue) - 1) ELSE queue)

RequeueDiscards(queue, capacity) ==
  IF Len(queue) >= capacity THEN {queue[Len(queue)]} ELSE {}
================================================================================
