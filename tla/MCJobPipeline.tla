--------------------------- MODULE MCJobPipeline ---------------------------
(***************************************************************************)
(* JobPipeline for TLC: which stages an operator may requeue at.           *)
(***************************************************************************)
EXTENDS JobPipeline

\* "queued" and "lint", of incident_analyst.REQUEUEABLE_STAGES: the job goes through
\* its gates once more.
Rework == {"QUEUED", "LINT"}

=============================================================================
