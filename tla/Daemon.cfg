SPECIFICATION Spec
CONSTANTS
  None = None
  Invalid = Invalid
  trigger_matches <- TriggerMatches
  trigger_uses_sensor <- TriggerUsesSensor
  condition_matches <- ConditionMatches
  Lower <- SameCase
  DayLength = 24
  FileExists = {}
  File <- SequenceFiles
  SensedKind <- UsbEvents
  Request <- AllRequests
  EventBuffer = 1
  MaxSensed = 2
  MaxRequests = 2
  MaxDisturbances = 1
INVARIANTS AuditFirst NeverRepeated LedgerHonest StateSurvives
PROPERTIES Drains RecoveryHolds DryRunInert
