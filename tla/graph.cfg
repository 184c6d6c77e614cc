\* Up to four jobs, two of them known to be disjoint: four undisturbed, three with
\* two troubles.
SPECIFICATION GraphSpec

CONSTANTS
    MaxJobs = 4
    Clash <- MostClash
    Vague = {}
    MaxBefore = 1
    MaxDeclared = 1
    MaxSurvey = 1
    MaxTroubles = 2
    MaxEffort = 8
    MaxStories = 3
    MaxPaths = 3
    MaxFiles = 2
    TestFiles = {3}

INVARIANTS
    GraphTypeOK
    GraphAcyclic
    PlansSplitInOrder

PROPERTIES
    OrderKept

\* Jobs may all be over.
CHECK_DEADLOCK FALSE
