SPECIFICATION Spec
CONSTANTS
  None = None
  trigger_matches <- TriggerMatches
  trigger_uses_sensor <- TriggerUsesSensor
  condition_matches <- ConditionMatches
  Lower <- SameCase
  DayLength = 24
  FileExists = {}
  Time <- ReloadTime
  Kind <- ReloadKinds
  Config <- ReloadConfig
  Mode = {"low", "high"}
INVARIANT NoPanic
