SPECIFICATION Spec
CONSTANTS
  Content = {"a", "b"}
  record_hash <- Digest
  GENESIS_HASH <- Genesis
  Limits = {0, 1, 2, 3}
  Requests = {0, 1, 3}
  RecentCap = 2
  MaxAppends = 5
INVARIANTS ChainVerifies DamageDetected
PROPERTIES ImplementsLog
