\* The charger comes and goes: pauses, resumes and Stops run to their end.
SPECIFICATION FairSpec
CONSTANTS
  Callers = {ui}
  WorkIds = {w1, w2}
  NoWork = NoWork
  Survivor = Survivor
  MaxPolls = 2
  MaxCalls = 2
  MaxStops = 1
  MaxChanges = 2
  MaxCrashes = 0
  Requests = {"start", "stop"}
  Conditions = {"good", "unpowered"}
PROPERTIES StopDrains ResumeRestarts OneMinerInTheEnd
CHECK_DEADLOCK FALSE
