--------------------------- MODULE MCRemediation ---------------------------
(***************************************************************************)
(* Remediation for TLC: who waits for whom at the beginning.               *)
(***************************************************************************)
EXTENDS Remediation

\* The second job waits for the first.
MCBefore == {<<2, 1>>}

NoneBefore == {}

=============================================================================
