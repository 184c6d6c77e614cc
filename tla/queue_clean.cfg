SPECIFICATION Spec
CONSTANTS
    j1 = j1
    j2 = j2
    w1 = w1
    w2 = w2
    None = None
    Job <- MCJob
    Worker <- MCWorker
    Allow <- AllowAll
    Deps <- Chain
    Overlap <- NoPairs
    Stage <- MCStage
    FirstStage = "QUEUED"
    DoneStage = "DONE"
    Agentic <- MCAgentic
    Target <- MCTarget
    YieldStage = {"DEPLOY"}
    TestStage = {"REVIEW", "DEPLOY"}
    DeployStage = {"DEPLOY"}
    SaveStage = {}
    BlockStage = {"REVIEW"}
    RequeueStage = {"QUEUED", "DEPLOY"}
    StartStage <- AllReview
    Agent <- OneAgent
    Skill <- MCSkill
    Provider <- MCProvider
    MaxConcurrency <- MCCapacity
    TTL = 1
    Beat = 1
    Backoff = 1
    Pause = 1
    Races = {"baseline_block"}
INVARIANTS
    TypeOK
    ExclusiveExecution
    ClaimHeld
    AgentCapacity
    DependenciesSettled
PROPERTIES
    StageMovedByHolder
    ImplementsService
    ImplementsTable
SYMMETRY WorkerSymmetry
