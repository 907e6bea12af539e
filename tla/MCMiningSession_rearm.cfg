\* A Stop lands while a policy resume is about to arm.
SPECIFICATION Spec
CONSTANTS
  Callers = {ui}
  WorkIds = {w1, w2}
  NoWork = NoWork
  Survivor = Survivor
  MaxPolls = 1
  MaxCalls = 2
  MaxStops = 1
  MaxChanges = 0
  MaxCrashes = 0
  Requests = {"start", "stop"}
  Conditions = {"hot"}
PROPERTIES OnlyStartClearsStop
CHECK_DEADLOCK FALSE
