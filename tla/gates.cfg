\* Two jobs of one project, planned, built, gated and landed next to each other.
SPECIFICATION GatesSpec

CONSTANTS
    m1 = m1
    m2 = m2
    ui = ui
    s = s
    versions = versions
    ja = ja
    jb = jb
    GJobs = {ja, jb}
    Modules = {m1, m2, ui}
    Symbols = {s}
    Member <- MCMember
    Conventional = {}
    Frontend = {ui}
    Versions = versions
    Root = root
    Defs0 <- MCDefs0
    Answers <- MCAnswers
    Labelled <- MCLabelled
    ReadOnly <- MCReadOnly
    Companion <- MCCompanion
    Scope0 <- MCScope0
    MaxFiles = 2
    FixCap = 1
    MaxTroubles = 1
    None = None

INVARIANTS
    GatesTypeOK
    GateHolds
    ScopeFollowsPlan
    AgentsApart

\* Jobs may all be over.
CHECK_DEADLOCK FALSE
