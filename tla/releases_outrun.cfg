\* A release promoted and another built in the default environment; nobody dies
\* and nothing fails late.
SPECIFICATION ReleaseSpec

CONSTANTS
    Versions = {1, 2}
    Signed = {1, 2}
    Healthy = {1, 2}
    Requesters = {x}
    Default = TRUE
    MaxPromotions = 2
    MaxBuilds = 1
    MaxTroubles = 0

INVARIANT
    CurrentIsNamedInTime

CHECK_DEADLOCK FALSE
