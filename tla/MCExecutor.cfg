SPECIFICATION Spec
CONSTANTS
  Requests = {r1}
  RouteLists <- MCRouteLists
  Formats = {"stream"}
  Rooms = {0, 1, 2, 9}
  UpstreamErrors <- MCErrors
  MaxOutput = 1
  Exchanges = {0}
  Measured = {"none", "reported"}
  MaxRetriesPerRoute = 1
  Backoff = 2
  Budget = 3
  Deployments = {"d1", "d2"}
  FailuresToOpen = 2
  Cooldown = 1
  MaxCooldown = 1
  SuccessesToClose = 1
  Scopes = {"s1"}
  RejectedCooldown = 1
  ThrottleCooldown = 1
  RetryAfters = {0}
  StaleAge = 0
INVARIANTS PermitsFollowRequests RoutesAsSigned ReportAgrees
PROPERTY NeverMovesAfterDelivery
CHECK_DEADLOCK FALSE
