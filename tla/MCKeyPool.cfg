\* Two keys and two requests on one pool; one key's ciphertext is rotated.
CONSTANTS
  Keys = {1, 2}
  FundingOf <- MCFunding
  Replicas = {r1}
  Pools = {p1}
  Walks = {1, 2}
  Pins <- MCPins
  Ceilings = {"none", "credit"}
  Failures <- MCFailures
  Headers <- MCNoHeaders
  OnSeparateAccounts = TRUE
  Retirement = 2
  LeaseTime = 1
  RecordTimeout = 1
  Rotatable = {2}
SPECIFICATION Spec
INVARIANT ToldTheLastAnswer
PROPERTY OlderEvidenceNeverWins
