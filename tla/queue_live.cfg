SPECIFICATION FairSpec
CONSTANTS
    j1 = j1
    j2 = j2
    w1 = w1
    w2 = w2
    None = None
    Job <- MCSolo
    Worker <- MCWorker
    Allow <- MixedAllow
    Deps <- NoPairs
    Overlap <- NoPairs
    Stage <- LeanStage
    FirstStage = "QUEUED"
    DoneStage = "DONE"
    Agentic <- LeanAgentic
    Target <- LeanTarget
    YieldStage = {"DEPLOY"}
    TestStage = {"DEPLOY"}
    DeployStage = {"DEPLOY"}
    SaveStage = {"DEPLOY"}
    BlockStage = {}
    RequeueStage = {"QUEUED"}
    StartStage <- SoloQueued
    Agent <- OneAgent
    Skill <- LeanSkill
    Provider <- MCProvider
    MaxConcurrency <- MCCapacity
    TTL = 1
    Beat = 1
    Backoff = 0
    Pause = 0
    Races = {"tail_error", "mid_save"}
PROPERTIES
    OrphansReclaimed
