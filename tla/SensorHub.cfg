SPECIFICATION Spec
CONSTANTS
  None = None
  Nil = Nil
  Lower <- SameCase
  DayLength = 24
  FileExists = {}
  Text <- SmallText
  Configuration <- Configurations
  Accepted <- Valid
  Requires <- Required
  Hotkeys <- HotkeyCount
  Wanted <- WantedEvents
  Missed <- MissedEvents
  Covers <- Reports
  HostEvent <- HostEvents
  EventBuffer = 1
  MaxStarts = 2
  MaxTouches = 2
INVARIANTS TypeOK NeverBlind
PROPERTIES Delivered OnePathStarts
