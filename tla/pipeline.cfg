\* The pipeline with every budget small and real: two fixes, two rebases, one
\* time-out that is forgiven, a requeue by the janitor, two base advances, a crash.
SPECIFICATION Spec

CONSTANTS
    MaxFix = 2
    MaxRebase = 2
    MaxTimeouts = 2
    Steps = 2
    MaxRequeues = 1
    GateRecoveries = 1
    GateHistory = 1
    RequeueStages <- Rework
    DiesMidMerge = FALSE
    MaxAdvances = 2
    MaxCrashes = 1
    MaxAsked = 1

INVARIANTS
    TypeOK
    LandedTested
    DoneMeansLanded

PROPERTIES
    GatedLanding
    Settles

\* A settled job has no next step.
CHECK_DEADLOCK FALSE
