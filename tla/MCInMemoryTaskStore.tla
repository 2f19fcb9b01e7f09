-------------------------- MODULE MCInMemoryTaskStore --------------------------
(***************************************************************************)
(* A small instance of InMemoryTaskStore for TLC: more keys than room.     *)
(***************************************************************************)
EXTENDS InMemoryTaskStore, TLC

CONSTANTS k1, k2, k3, a1, a2

ThreeKeys == {k1, k2, k3}
TwoAttributions == {a1, a2}
===============================================================================
