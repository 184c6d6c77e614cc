\* A job that fails and two remediations that may be filed for it, as one wave or one after
\* the other; two processes, slots that may hang, a lock that may drop, a heartbeat that may
\* fail.
SPECIFICATION FleetFairSpec
CONSTANTS
    p1 = p1
    p2 = p2
    None = None
    Clone = Clone
    Proc <- MCProc
    Incident = {1}
    Fix = {2, 3}
    MaxBuilds = 2
    Trouble = 2
    Races = {"hang","lock_drop","beat_fails"}
PROPERTIES
    SourceKept
    TreeKept
    LeaderReturns
CHECK_DEADLOCK FALSE
