SPECIFICATION Spec
CONSTANTS
  None = None
  Net = Net
  Device = Device
  Path = Path
  Name = Name
  Required = {"mounts"}
  Value <- MCValue
  RequiredPorts <- MCPorts
  Buffer = 1
  MaxDisturbances = 2
PROPERTIES MountsConverge
