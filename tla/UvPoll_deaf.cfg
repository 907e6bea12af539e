SPECIFICATION PollSpec
CONSTANTS
  Watchers = {u1, u2}
  NoWatcher = NoWatcher
  SignalWatcher = sg
  MaxFd = 1
  NoFd = NoFd
  MaxOps = 8
  MaxRounds = 1
INVARIANTS StartedIsArmed
CHECK_DEADLOCK FALSE
