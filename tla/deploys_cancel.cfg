\* Two jobs of one environment, and a deploy that is cancelled while it runs.
SPECIFICATION DeploySpec

CONSTANTS
    DeployJobs = {1, 2}
    Envs = {prod, edge}
    Prod = prod
    InPlace = {prod}
    Commands = {}
    NoJob = 0
    Risks = {"cancel"}
    AutoCap = 1
    MaxTip = 2
    MaxMishaps = 1
    MaxCrashes = 0

INVARIANTS
    DeploysSerialized

CHECK_DEADLOCK FALSE
