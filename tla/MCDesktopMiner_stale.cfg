\* A reaper that slept through a Stop and a Start.
SPECIFICATION Spec
CONSTANTS
  Flows = {f1}
  NoFlow = NoFlow
  MaxSession = 5
  MaxRequests = 3
  MaxExits = 1

PROPERTIES StaleReaperHarmless
CHECK_DEADLOCK FALSE
