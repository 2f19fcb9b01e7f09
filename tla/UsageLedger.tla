----------------------------- MODULE UsageLedger -----------------------------
(***************************************************************************)
(* What the metered pipeline promises a customer, without batches, queues, *)
(* retries or identifiers: the units invoiced on a bucket are those of     *)
(* accepted calls, each of them charged at most once, and a call the       *)
(* provider has refused is never charged again.                            *)
(*                                                                         *)
(* A call is a record with at least the fields bucket and units.           *)
(***************************************************************************)
EXTENDS Naturals, FiniteSetsExt

CONSTANTS Buckets

VARIABLES
  accepted,  \* calls the pipeline has answered Recorded
  charged,   \* those on the invoice
  waived,    \* those the provider refused for good
  invoice    \* bucket -> units invoiced

ledgerVars == <<accepted, charged, waived, invoice>>

Units(these) == MapThenSumSet(LAMBDA call : call.units, these)

LedgerInit ==
  /\ accepted = {}
  /\ charged = {}
  /\ waived = {}
  /\ invoice = [b \in Buckets |-> 0]

Accept ==
  /\ \E call \in accepted' \ accepted : accepted' = accepted \cup {call}
  /\ UNCHANGED <<charged, waived, invoice>>

\* Some calls of one bucket, none charged before, appear on its invoice together.
Charge ==
  LET these == charged' \ charged IN
  /\ charged \subseteq charged' /\ these # {}
  /\ these \subseteq accepted \ waived
  /\ \E b \in Buckets :
       /\ \A call \in these : call.bucket = b
       /\ invoice' = [invoice EXCEPT ![b] = @ + Units(these)]
  /\ UNCHANGED <<accepted, waived>>

\* Calls that were never charged are given up.
Waive ==
  /\ waived \subseteq waived'
  /\ waived' \subseteq accepted \ charged
  /\ UNCHANGED <<accepted, charged, invoice>>

\* Calls of one bucket are taken off the invoice, and for good.
Refund ==
  LET these == charged \ charged' IN
  /\ charged' \subseteq charged /\ these # {}
  /\ waived' = waived \cup these
  /\ \E b \in Buckets :
       /\ \A call \in these : call.bucket = b
       /\ invoice' = [invoice EXCEPT ![b] = @ - Units(these)]
  /\ UNCHANGED accepted

LedgerNext == Accept \/ Charge \/ Waive \/ Refund

LedgerSpec == LedgerInit /\ [][LedgerNext]_ledgerVars
==============================================================================
