\* The page, the tray and quitting, with an XMRig that exits by itself.
SPECIFICATION FairSpec
CONSTANTS
  Flows = {f1}
  NoFlow = NoFlow
  MaxSession = 5
  MaxRequests = 3
  MaxExits = 1
INVARIANTS TypeOK NoOrphan TruthfulState StopIsFinal QuitLeavesNothing
PROPERTIES SupervisorSpec ExitNoticed
CHECK_DEADLOCK FALSE
