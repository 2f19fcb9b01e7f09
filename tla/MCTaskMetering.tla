---------------------------- MODULE MCTaskMetering ----------------------------
(***************************************************************************)
(* Small instances of TaskMetering for TLC.                                *)
(***************************************************************************)
EXTENDS TaskMetering

CONSTANTS t1, p1, p2, r1, r2

OneTask == {t1}
TwoReplicas == {p1, p2}
TwoResponses == {r1, r2}
===============================================================================
