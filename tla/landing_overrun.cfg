\* A merge handler that needs longer than merge_lock_ttl.
SPECIFICATION LandSpec

CONSTANTS
    LandJobs = {a, b}
    SchemaJobs = {}
    Slots = {s, t}
    Nobody = nobody
    MergeTTL = 1
    SchemaTTL = 1
    InlockSteps = 2
    Overruns <- SlowMerge
    MaxPushes = 1
    MaxRounds = 1
    MaxDeaths = 0

INVARIANT OneMerger

CHECK_DEADLOCK FALSE
