\* The merge may fail or die between absorbing the base and validating it.
SPECIFICATION Spec

CONSTANTS
    MaxFix = 1
    MaxRebase = 1
    MaxTimeouts = 2
    Steps = 2
    MaxRequeues = 1
    GateRecoveries = 1
    GateHistory = 1
    RequeueStages <- Rework
    DiesMidMerge = TRUE
    MaxAdvances = 1
    MaxCrashes = 1
    MaxAsked = 0

INVARIANTS
    LandedTested

\* A settled job has no next step.
CHECK_DEADLOCK FALSE
