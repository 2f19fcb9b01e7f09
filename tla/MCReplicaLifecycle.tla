-------------------------- MODULE MCReplicaLifecycle --------------------------
(***************************************************************************)
(* Small instances of ReplicaLifecycle for TLC.                            *)
(***************************************************************************)
EXTENDS ReplicaLifecycle

CONSTANTS b1, b2, c1, lp, fl

TwoBuckets == {b1, b2}
OneConnection == {c1}
LoopAndFinal == {lp, fl}
OneUnit == {1}
OneTime == {1}
NoKeys == {}
NoBucket == {}
NoSinks == {}
================================================================================
