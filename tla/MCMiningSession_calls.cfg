\* Every kind of request from two callers at once; the device warms up or cools down.
SPECIFICATION Spec
CONSTANTS
  Callers = {ui, remote}
  WorkIds = {w1, w2}
  NoWork = NoWork
  Survivor = Survivor
  MaxPolls = 1
  MaxCalls = 2
  MaxStops = 1
  MaxChanges = 2
  MaxCrashes = 0
  Requests = {"start", "remote", "dream", "stop", "quickStop", "quickPause", "automation"}
  Conditions = {"good", "warm"}
SYMMETRY Symmetry
INVARIANTS TypeOK StopSticks
PROPERTIES NoRevival
CHECK_DEADLOCK FALSE
