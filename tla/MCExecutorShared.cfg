SPECIFICATION FairSpec
CONSTANTS
  Requests = {r1, r2}
  RouteLists <- MCShared
  Formats = {"embedding"}
  Rooms = {9}
  UpstreamErrors <- MCFewErrors
  MaxOutput = 0
  Exchanges = {0}
  Measured = {"reported"}
  MaxRetriesPerRoute = 0
  Backoff = 2
  Budget = 2
  Deployments = {"d1"}
  FailuresToOpen = 1
  Cooldown = 1
  MaxCooldown = 1
  SuccessesToClose = 1
  Scopes = {"s1"}
  RejectedCooldown = 1
  ThrottleCooldown = 1
  RetryAfters = {0}
  StaleAge = 0
PROPERTY EventuallyQuiet
CHECK_DEADLOCK FALSE
