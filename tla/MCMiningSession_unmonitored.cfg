\* A monitor pauses an old session while a new Start is under way.
SPECIFICATION Spec
CONSTANTS
  Callers = {ui}
  WorkIds = {w1, w2}
  NoWork = NoWork
  Survivor = Survivor
  MaxPolls = 1
  MaxCalls = 2
  MaxStops = 1
  MaxChanges = 0
  MaxCrashes = 0
  Requests = {"start"}
  Conditions = {"hot"}
INVARIANTS MonitoredMining
CHECK_DEADLOCK FALSE
