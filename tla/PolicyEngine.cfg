SPECIFICATION Spec
CONSTANTS
  None = None
  trigger_matches <- TriggerMatches
  trigger_uses_sensor <- TriggerUsesSensor
  condition_matches <- ConditionMatches
  Lower <- SameCase
  DayLength = 24
  FileExists = {}
  Time <- CoreTime
  Kind <- CoreKinds
  Config <- CoreConfig
  Mode = {"low", "high"}
INVARIANTS RecoverySuspends NoPanic PlanConflictFree FailureRestricted SustainHonoured
PROPERTIES FiresOnce HighestPriorityWins CooldownSpacing
