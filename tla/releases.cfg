\* Four releases, two of them good, one unsigned and one that never comes up
\* healthy; two deploys, one of which may be an ordinary one; a process that serves
\* requests, a trouble.
SPECIFICATION ReleaseSpec

CONSTANTS
    Versions = {1, 2, 3, 4}
    Signed = {1, 2, 3}
    Healthy = {1, 2, 4}
    Requesters = {x}
    Default = TRUE
    MaxPromotions = 2
    MaxBuilds = 1
    MaxTroubles = 1

INVARIANTS
    ReleaseTypeOK
    CutoverGated
    CurrentIsServed

\* Nothing happens once the rows are used up and every job is through.
CHECK_DEADLOCK FALSE
