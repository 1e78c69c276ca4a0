SPECIFICATION MCSpec
CHECK_DEADLOCK FALSE
INVARIANTS NothingLost TerminalAgrees StatusIsShown
PROPERTIES TerminalsAreTracked DrainWaitsForWork EveryDrainReturns RemoteIsFollowed
CONSTANTS
  None = None
  Key = {ka, kb}
  NoKey = NoKey
  Caller = {c1, c2}
  MaxEnqueues = 2
  Fibers = {"f1", "f2", "f3"}
  MaxChunks = 3
  MaxOps = 2
  Streams = {"s1", "s2"}
  Refreshes = {"r1"}
  MaxChanges = 1
