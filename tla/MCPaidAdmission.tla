---------------------------- MODULE MCPaidAdmission ----------------------------
(***************************************************************************)
(* Small instances of PaidAdmission for TLC.                               *)
(***************************************************************************)
EXTENDS PaidAdmission, TLC

CONSTANTS p1, q1, q2, q3, c1

OneReplica == {p1}
ThreeRequests == {q1, q2, q3}
OneChallenge == {c1}

\* A tenant that goes over its cap.
Inside == [over |-> FALSE, units |-> 2, unit_price_micros |-> 5001]
Over == [over |-> TRUE, units |-> 2, unit_price_micros |-> 5001]
GoesOver == <<Inside, Over>>

AdmissionSymmetry == Permutations(Requests)
===============================================================================
