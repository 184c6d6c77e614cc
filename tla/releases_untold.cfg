\* Two good releases offered or promoted one after the other by one process;
\* nobody dies and nothing fails late.
SPECIFICATION ReleaseSpec

CONSTANTS
    Versions = {1, 2}
    Signed = {1, 2}
    Healthy = {1, 2}
    Requesters = {x}
    Default = FALSE
    MaxPromotions = 2
    MaxBuilds = 0
    MaxTroubles = 0

INVARIANT
    DeployedIsCurrent

CHECK_DEADLOCK FALSE
