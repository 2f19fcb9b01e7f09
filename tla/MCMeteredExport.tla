--------------------------- MODULE MCMeteredExport ---------------------------
(***************************************************************************)
(* Small instances of MeteredExport for TLC.                               *)
(***************************************************************************)
EXTENDS MeteredExport

CONSTANTS b1, b2, f1

OneUnit == {1}
UpToTwoUnits == {1, 2}
OneTime == {1}
TwoBuckets == {b1, b2}
OneFlusher == {f1}
NoKeys == {}
NoBucket == {}
NoSinks == {}
OtherSinks == {"before", "after"}

\* A later sink that fails forever would have the same events rejected forever.
FewDeadLetters == dead.entered <= 2
===============================================================================
