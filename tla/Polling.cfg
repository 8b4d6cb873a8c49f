SPECIFICATION Spec
CONSTANTS
  None = None
  Net = Net
  Device = Device
  Path = Path
  Name = Name
  Required = {"mounts", "ports", "sessions", "integrity"}
  Value <- MCValue
  RequiredPorts <- MCPorts
  Buffer = 1
  MaxDisturbances = 3
INVARIANTS TypeOK SnapshotMirrors FailuresShow
PROPERTIES ProbeFailureOnce Converges TamperNoticed
