SPECIFICATION MCSpec
CONSTANTS
    None = None
    MaxChars = 4
    MaxIdChars = 3
    MaxParts = 2
    MaxSessionTools = 2
    MaxFrameBytes = 2
    MaxDuration = 3
    MaxAudio = 3
    Arrivals <- MCArrivals
    Frames <- MCFrames
    MaxHeld = 2
    MaxHeldBytes = 3
    MaxConnections = 2
    MaxSteps = 3
    MaxInbox = 1
    Dialects <- MCDialects
    SignedConfigs <- MCSignedConfigs
    UpCommands <- MCUpCommands
    Usages <- MCUsages
    MaxCommands = 2
    MaxAnswers = 2
    MaxSpoken = 1
    Unknown = Unknown
    Continues = TRUE
    MaxItems = 2
    MaxWords = 2
    MaxTold = 3
    Nobody = Nobody
    Tasks = {t1, t2}
    LeaseDuration = 3
    MaxGenerations = 2
    MaxClaims = 3
INVARIANTS
    RelaysWhatWasAsked
CHECK_DEADLOCK FALSE
