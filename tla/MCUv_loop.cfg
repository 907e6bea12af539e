SPECIFICATION Spec
CONSTANTS
  Asyncs = {wa, aa}
  NoAsync = NoAsync
  PipeSize = 1
  Senders <- MCSenders
  Workers = {t1, t2}
  Loop = loop
  NoThread = NoThread
  Works = {c1, s1, s2}
  SlowWorks = {s1, s2}
  NoWork = NoWork
  SlowMessage = slow
  ExitMessage = exit
  WqAsync = wa
  MaxCalls = 3
  Watchers = {u1, u2, sg}
  NoWatcher = NoWatcher
  SignalWatcher = sg
  MaxFd = 1
  NoFd = NoFd
  MaxOps = 6
  MaxRounds = 1
  Timers = {m1, m2}
  Idles = {i1}
  Prepares = {}
  Checks = {}
  NoHandle = NoHandle
  Io = Io
  Modes = {"default", "once"}
  MaxClock = 1
  MaxDelay = 1
  MaxUses = 3
  MaxReqs = 1
  Writes = {r1, r2}
  MaxSize = 1
  Batch = 1
  Sends = {d1, d2, d3}
  RecvBatch = 2
  Signals = {h1, h2}
  NoSignal = NoSignal
  Numbers = {n1}
  NoNumber = NoNumber
  SignalPipeSize = 2
  MaxArrivals = 2
  MaxSignalUses = 3
  MaxStarts = 3
  Conns = {k1, k2, k3}
  NoConn = NoConn
  MaxFiles = 3
  Parties = {p1, p2, p3}
  MaxWaits = 3
  MaxKey = 6
INVARIANTS TypesOK NoWakeupIsLost NoWakeAfterClose PollAsserts EventReachesItsOwner TurnAndCount BarrierHolds RequestsAreAccounted
PROPERTIES WorkPromiseSpec PoolAnswers ClosedIsSilent NothingIsLeftBehind CallbacksCome
CHECK_DEADLOCK FALSE
