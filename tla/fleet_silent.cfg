SPECIFICATION FleetSpec
CONSTANTS
    p1 = p1
    p2 = p2
    None = None
    Clone = Clone
    Proc <- MCProc
    Incident = {1}
    Fix = {2, 3}
    MaxBuilds = 1
    Trouble = 3
    Races = {"hang"}
INVARIANT
    FleetTypeOK
PROPERTY
    WedgeSeen
CHECK_DEADLOCK FALSE
