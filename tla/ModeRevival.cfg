SPECIFICATION Spec
CONSTANTS
  None = None
  Invalid = Invalid
  trigger_matches <- TriggerMatches
  trigger_uses_sensor <- TriggerUsesSensor
  condition_matches <- ConditionMatches
  Lower <- SameCase
  DayLength = 24
  FileExists = {}
  File <- ModeFiles
  SensedKind <- NoEvents
  Request <- ModeRequests
  EventBuffer = 1
  MaxSensed = 1
  MaxRequests = 3
  MaxDisturbances = 1
INVARIANTS StateSurvives
