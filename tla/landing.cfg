\* Two schema jobs, two slots; locks may be left behind by a death,
\* but nobody who is alive outlives one.
SPECIFICATION LandSpec

CONSTANTS
    LandJobs = {a, b}
    SchemaJobs = {a, b}
    Slots = {s, t}
    Nobody = nobody
    MergeTTL = 1
    SchemaTTL = 1
    InlockSteps = 2
    Overruns <- Timely
    MaxPushes = 1
    MaxRounds = 1
    MaxDeaths = 1

INVARIANTS
    LandTypeOK
    LandsOnLanded

PROPERTIES
    SchemaInOrder
    LandingSettles

\* Settled jobs have no next step.
CHECK_DEADLOCK FALSE
