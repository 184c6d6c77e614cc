\* Two jobs and two that are filed for them, two supervisors and a runner.
SPECIFICATION RemSpec

CONSTANTS
    MaxJobs = 4
    Before <- MCBefore

    Leader = {l1, l2}
    Worker = {w}
    Person = {p}
    Causes = {"transient", "merge", "environment", "gate", "deploy", "alembic", "judgment"}
    Cap = 1
    GateCap = 1
    FixCap = 2
    DiagnosisCap = 1
    MaxDepth = 1
    MaxTroubles = 2
    None = None

INVARIANTS
    RemTypeOK
    BudgetKept
    OneFixEach

PROPERTIES
    ClosedWhole

\* Jobs may all be over.
CHECK_DEADLOCK FALSE
