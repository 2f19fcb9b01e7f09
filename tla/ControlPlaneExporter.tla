------------------------- MODULE ControlPlaneExporter -------------------------
(***************************************************************************)
(* The provider behind a sidecar's metered exporter: it posts the          *)
(* aggregates to the operator's control plane and reads the plane's        *)
(* acknowledgement (control_plane.rs of mcp-usage-edge).                   *)
(*                                                                         *)
(* An acknowledgement has one entry per aggregate, in the order of the     *)
(* batch: each says which aggregate it is about and how that one fared.    *)
(* The plane is external.  It tells the truth about the aggregates it      *)
(* names, but may name them in another order, or one of them twice.        *)
(***************************************************************************)
EXTENDS MeteredExport

Words == {"accepted", "rejected", "unknown word"}

Acks(f) == [unresolved[f] -> [about : unresolved[f], word : Words]]

\* External: what the plane answers is so.
Honest(f, ack) ==
  \A a \in unresolved[f] :
    /\ ack[a].word = "accepted" => ack[a].about \in ledger
    /\ ack[a].word = "rejected" => ack[a].about \notin ledger

\* The plane's entries are taken by their position alone.
AlignedByCount(f, ack) == DOMAIN ack = unresolved[f]

\* Each entry is about the aggregate at its place.
Aligned(f, ack) == \A a \in unresolved[f] : ack[a].about = a

\* A word the edge does not know leaves its aggregate unresolved.
OutcomeOf(word) ==
  CASE word = "accepted" -> "Accepted"
    [] word = "rejected" -> "PermanentRejection"
    [] OTHER -> "RetryableFailure"

Read(f, ack) == [a \in unresolved[f] |-> OutcomeOf(ack[a].word)]

\* call(): the plane is out of reach, late, refuses the token, or answers something else.
PostFails(f) == Exporter!NoOutcomes(f)

(***************************************************************************)
(* submit(): an acknowledgement that is not aligned settles nothing, nor   *)
(* does one with another number of outcomes.                               *)
(***************************************************************************)
Submits(f) ==
  /\ \/ \E ack \in Acks(f) :
          /\ Honest(f, ack)
          /\ IF Aligned(f, ack)
             THEN Exporter!Outcomes(f, Read(f, ack))
             ELSE Exporter!NoOutcomes(f)
     \/ PostFails(f)
  /\ UNCHANGED <<vars, abandons>>

(***************************************************************************)
(* The answer a liveness property asks for (ReplicaLifecycle): the plane   *)
(* answers a bucket for good, never mind which other buckets it answers    *)
(* for at once.                                                            *)
(***************************************************************************)
AnswersFor(f, b) ==
  /\ \E ack \in Acks(f) :
       /\ Honest(f, ack) /\ Aligned(f, ack)
       /\ \E a \in unresolved[f] : a.bucket = b /\ ack[a].word \in {"accepted", "rejected"}
       /\ Exporter!Outcomes(f, Read(f, ack))
  /\ UNCHANGED <<vars, abandons>>
===============================================================================
