\* A wave of three jobs, of which the first is split; four jobs and two troubles.
SPECIFICATION GraphSpec

CONSTANTS
    MaxJobs = 4
    Clash <- EarlyClash
    Vague = {}
    MaxBefore = 0
    MaxDeclared = 0
    MaxSurvey = 0
    MaxTroubles = 2
    MaxEffort = 10
    MaxStories = 1
    MaxPaths = 1
    MaxFiles = 1
    TestFiles = {}

PROPERTY
    SplitsKeepOrder

CHECK_DEADLOCK FALSE
