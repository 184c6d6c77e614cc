\* An operator sends a failed job to REVIEW, whose handler is the security gate.
SPECIFICATION Spec

CONSTANTS
    MaxFix = 1
    MaxRebase = 1
    MaxTimeouts = 2
    Steps = 2
    MaxRequeues = 1
    GateRecoveries = 1
    GateHistory = 1
    RequeueStages = {"REVIEW"}
    DiesMidMerge = FALSE
    MaxAdvances = 1
    MaxCrashes = 1
    MaxAsked = 1

PROPERTIES
    GatedLanding

\* A settled job has no next step.
CHECK_DEADLOCK FALSE
