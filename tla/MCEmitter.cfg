SPECIFICATION MCSpec
CONSTANTS
  Rooms <- MCRooms
  MaxAttempts = 3
  MaxSequence = 6
  Unstated = Unstated
  Requests <- MCRequests
  Refusals <- MCRefusals
  Counts <- MCCounts
  SinkRooms <- MCSinkRooms
  MaxCalls = 2
  MaxFragments = 2
  MaxTexts = 1
  MaxAudioHeld = 1
  MaxLost = 1
  Pinned <- MCPinned
  Limit = 3
  MaxRaces = 2
  MaxAge = 2
  Unmeasured = Unmeasured
INVARIANTS
  DeliveredIsCommitted
  AnswerIsWhole
  UsageIsTheProviders
  BlameIsRight
  SentAsAsked
  RaceIsDecided
PROPERTY ImplementsCustomerStream
CHECK_DEADLOCK FALSE
