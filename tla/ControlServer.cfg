SPECIFICATION Spec
CONSTANTS
  Client = {c1, c2}
  None = None
  MaxClients = 1
  ControlBuffer = 1
  MaxStops = 2
CHECK_DEADLOCK FALSE
INVARIANT PermitsConserved
PROPERTIES ImplementsService PermitsReturn ShutdownEnds
