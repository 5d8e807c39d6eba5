SPECIFICATION MCSpec
CONSTANTS
    None = None
    Files <- MCFiles
    Generations <- MCGenerations
    Grants <- MCGrants
    Kinds <- MCKinds
    MaxGrantSteps = 2
    GrantExecutionWindow = 1
    MaxAge = 1
    MaxNow = 2
    MaxBody = 8
    MaxTools = 2
    MaxStops = 2
    MaxText = 4
    MaxName = 2
    MaxInputs = 2
    MaxQuestions = 2
    MaxImages = 1
    MaxImageBytes = 2
    MaxFileBytes = 4
    MaxAudioMs = 4
    EmbeddingDimension = 3
    TotalBudget = 12
    ContextBudget = 8
    Requests <- MCRequests
    Headers <- MCHeaders
    Plans <- MCPlans
    Snapshot <- Inventory1
    Published <- MCPublished
    Oxy <- MCOxy
    Failures <- MCFailures
    Framing = 2
    MaxOutput = 2
    MaxAudio = 1
    MinuteOf <- MCMinuteOf
    ServerVAD = 1
    Credentials = {c1, c2}
    Burst = 2
    Rate = 1
    BucketLimit = 1
    Idle = 2
    CatalogueTTL = 2
    Origins = {o1}
    Declared <- MCDeclared
    Served <- Inventory1
    Accesses <- MCAccesses
    MaxAsking = 2
    MaxClock = 3
INVARIANTS PlanIsKept CatalogueIsHonest AnswerIsTruthful GateHolds
PROPERTY HeldIsSettled
CHECK_DEADLOCK FALSE
