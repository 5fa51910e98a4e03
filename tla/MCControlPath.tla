--------------------------- MODULE MCControlPath ---------------------------
(* Values of the constants of ControlPath for TLC.                         *)
EXTENDS ControlPath

\* Refused by both, accepted by the object only, accepted by both; each at its
\* boundary.
Boundaries == {59, 60, 100}

\* A newly built object may hold anything.
AnyMemory == {0}
=============================================================================
