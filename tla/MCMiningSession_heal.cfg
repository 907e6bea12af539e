\* A crash in the middle of a Stop.
SPECIFICATION FairSpec
CONSTANTS
  Callers = {ui}
  WorkIds = {w1, w2}
  NoWork = NoWork
  Survivor = Survivor
  MaxPolls = 1
  MaxCalls = 2
  MaxStops = 1
  MaxChanges = 0
  MaxCrashes = 1
  Requests = {"start", "dream", "stop"}
  Conditions = {"good", "hot", "capped"}
INVARIANTS StopSticks
PROPERTIES MonitorHeals NoRevival
CHECK_DEADLOCK FALSE
