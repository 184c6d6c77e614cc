\* Two jobs of one project and two environments; every mishap
\* may happen, the properties say what holds until one does.
SPECIFICATION DeploySpec

CONSTANTS
    DeployJobs = {1, 2}
    Envs = {prod, edge}
    Prod = prod
    InPlace = {prod}
    Commands = {prod}
    NoJob = 0
    Risks = {"cancel", "stale", "head", "dead"}
    AutoCap = 1
    MaxTip = 3
    MaxMishaps = 1
    MaxCrashes = 2

INVARIANTS
    OneDeploy
    DoneIsServed

PROPERTIES
    DeploysSettle

\* Settled jobs have no next step.
CHECK_DEADLOCK FALSE
