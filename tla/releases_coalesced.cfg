\* Two releases promoted one after the other while the base branch stands still.
SPECIFICATION ReleaseSpec

CONSTANTS
    Versions = {1, 2}
    Signed = {1, 2}
    Healthy = {1, 2}
    Requesters = {x}
    Default = FALSE
    MaxPromotions = 2
    MaxBuilds = 0
    MaxTroubles = 0

PROPERTIES
    DeployedWasServed

CHECK_DEADLOCK FALSE
