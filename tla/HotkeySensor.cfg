SPECIFICATION Spec
CONSTANTS
  Keys <- Doubled
  Within = 1
  Pressed = {29, 45}
  EventBuffer = 1
  MaxPresses = 6
  MaxTime = 2
INVARIANT FiresExactly
PROPERTY EventsArrive
