\* A dependent of a job that is split into two overlaps with the first child only.
SPECIFICATION GraphSpec

CONSTANTS
    MaxJobs = 4
    Clash <- LateClash
    Vague = {}
    MaxBefore = 1
    MaxDeclared = 1
    MaxSurvey = 1
    MaxTroubles = 0
    MaxEffort = 8
    MaxStories = 1
    MaxPaths = 1
    MaxFiles = 1
    TestFiles = {}

PROPERTIES
    MinimizingKeepsOrder

CHECK_DEADLOCK FALSE
