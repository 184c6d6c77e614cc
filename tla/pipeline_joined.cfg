\* The program joins a conflict after the gates have spoken: not what the gates saw lands.
SPECIFICATION Spec

CONSTANTS
    MaxFix = 1
    MaxRebase = 1
    MaxTimeouts = 2
    Steps = 2
    MaxRequeues = 1
    GateRecoveries = 1
    GateHistory = 1
    RequeueStages = {"QUEUED"}
    DiesMidMerge = FALSE
    MaxAdvances = 1
    MaxCrashes = 0
    MaxAsked = 0

PROPERTIES
    JudgedLanding

\* A settled job has no next step.
CHECK_DEADLOCK FALSE
