SPECIFICATION Spec
CONSTANTS
    j1 = j1
    j2 = j2
    w1 = w1
    w2 = w2
    None = None
    Job <- MCSolo
    Worker <- MCWorker
    Allow <- AllowAll
    Deps <- NoPairs
    Overlap <- NoPairs
    Stage <- MCStage
    FirstStage = "QUEUED"
    DoneStage = "DONE"
    Agentic <- MCAgentic
    Target <- MCTarget
    YieldStage = {"DEPLOY"}
    TestStage = {"REVIEW", "DEPLOY"}
    DeployStage = {"DEPLOY"}
    SaveStage = {}
    BlockStage = {"REVIEW"}
    RequeueStage = {"QUEUED", "DEPLOY"}
    StartStage <- SoloReview
    Agent <- OneAgent
    Skill <- MCSkill
    Provider <- MCProvider
    MaxConcurrency <- MCCapacity
    TTL = 1
    Beat = 1
    Backoff = 0
    Pause = 0
    Races = {"baseline_block"}
PROPERTIES
    CancelledStays
