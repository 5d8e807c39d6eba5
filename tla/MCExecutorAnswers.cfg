SPECIFICATION Spec
CONSTANTS
  Requests = {r1}
  RouteLists <- MCTwoRoutes
  Formats = {"stream", "decisions", "embedding"}
  Rooms = {1, 2, 9}
  UpstreamErrors <- MCAllErrors
  MaxOutput = 2
  Exchanges = {0, 1}
  Measured = {"reported", "estimated"}
  MaxRetriesPerRoute = 0
  Backoff = 2
  Budget = 3
  Deployments = {"d1", "d2"}
  FailuresToOpen = 2
  Cooldown = 1
  MaxCooldown = 1
  SuccessesToClose = 1
  Scopes = {"s1"}
  RejectedCooldown = 1
  ThrottleCooldown = 1
  RetryAfters = {0}
  StaleAge = 0
INVARIANTS AttemptsAreCosted DecisionsSentOnce
CHECK_DEADLOCK FALSE
