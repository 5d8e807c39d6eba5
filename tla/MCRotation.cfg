\* Two deployments and three concurrent attempts.
CONSTANTS
  Deployments = {d1, d2}
  Attempts = {a1, a2, a3}
  FailuresToOpen = 2
  Cooldown = 1
  MaxCooldown = 3
  SuccessesToClose = 2
SPECIFICATION FairSpec
INVARIANT TrialSlotHeld
PROPERTIES FlappingKeepsBackoff NeverOutForGood
