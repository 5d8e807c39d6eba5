\* Two credential generations under three concurrent attempts; one connection
\* with three operations and two validations by two validators; a stream of two
\* events, two deployments, and a feed of two requests' attempts read for longer than
\* a write started at its beginning may take and be in time.
CONSTANTS
  Scopes = {s1, s2}
  Attempts = {a1, a2, a3}
  RejectedCooldown = 3
  ThrottleCooldown = 1
  RetryAfters = {0, 2}
  StaleAge = 2
  k1 = k1
  ada = ada
  h1 = h1
  s1 = s1
  s2 = s2
  o1 = o1
  o2 = o2
  o3 = o3
  t1 = t1
  EdgeKeys = {k1}
  MaxSkew = 1
  EdgeMessages <- MCEdgeMessages
  Deployments = {"d1", "d2"}
  MaxEvents = 2
  FeedRequests = {1, 2}
  AttemptsOf <- MCAttemptsOf
  SettleWindow = 1
  MaxNow = 4
  Connections = {ada}
  Handles = {h1}
  Operations = {o1, o2, o3}
  Validations = {t1}
  Validators = {w1, w2}
  Orders <- MCOrders
  Tasks <- MCTasks
  Foreign = {}
  QueueSize = 1
  Answers = {"served", "unauthorized", "billing", "rate_limited", "timed_out", "unreadable"}
  Fates = {"ready", "late", "unserved", "untranslatable"}
  MaxGeneration = 2
SPECIFICATION MCSpec
INVARIANTS TrialSlotHeld AnswersAreTrue VerdictsAreEarned EdgeAnswersWhole
PROPERTY NeverLockedOut
