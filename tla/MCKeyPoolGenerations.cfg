\* One key, two requests, two generations of the pool that are reloaded for ever.
\* A response may declare a reset no later than a slow write of it, so that a
\* retirement can replace a lease by less than is left of it.
CONSTANTS
  Keys = {1}
  FundingOf <- MCFunding
  Replicas = {r1}
  Pools = {p1, p2}
  Walks = {1, 2}
  Pins <- MCPins
  Ceilings = {"none"}
  Failures <- MCNone
  Headers <- MCShort
  OnSeparateAccounts = TRUE
  Retirement = 2
  LeaseTime = 1
  RecordTimeout = 1
  Rotatable = {}
SPECIFICATION FairSpec
INVARIANT OneRecoveryAtATime
PROPERTY WalksAndKeysReturn
