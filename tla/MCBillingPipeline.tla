-------------------------- MODULE MCBillingPipeline --------------------------
(***************************************************************************)
(* A small instance of BillingPipeline for TLC.                            *)
(***************************************************************************)
EXTENDS BillingPipeline

CONSTANTS b1, b2, k1, k2, f1, f2

UpToOneUnit == {0, 1}
TwoTimes == {1, 2}
TwoBuckets == {b1, b2}
TwoKeys == {k1, k2}
TwoFlushers == {f1, f2}
OnlyB1 == {b1}
===============================================================================
