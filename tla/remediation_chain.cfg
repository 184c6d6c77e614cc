\* The same; the claim is about a batch of two.
SPECIFICATION RemSpec

CONSTANTS
    MaxJobs = 4
    Before <- MCBefore

    Leader = {l1, l2}
    Worker = {w}
    Person = {p}
    Causes = {"transient", "merge", "environment", "gate", "deploy", "alembic", "judgment"}
    Cap = 1
    GateCap = 1
    FixCap = 2
    DiagnosisCap = 1
    MaxDepth = 1
    MaxTroubles = 2
    None = None

PROPERTIES
    ChainLandsFirst

CHECK_DEADLOCK FALSE
