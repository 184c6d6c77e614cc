\* The baseline gate closes a cycle that the janitor could repair.
SPECIFICATION GraphSpec

CONSTANTS
    MaxJobs = 3
    Clash <- MostClash
    Vague = {}
    MaxBefore = 1
    MaxDeclared = 1
    MaxSurvey = 1
    MaxTroubles = 2
    MaxEffort = 8
    MaxStories = 1
    MaxPaths = 1
    MaxFiles = 1
    TestFiles = {}

PROPERTIES
    CyclesRepaired

CHECK_DEADLOCK FALSE
