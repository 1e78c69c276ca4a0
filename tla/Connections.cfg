SPECIFICATION MCSpec
CHECK_DEADLOCK FALSE
INVARIANTS ReconnectIsSafe CacheIsBounded SavedAgrees
PROPERTIES EndsOnTheSession InUseKept
CONSTANTS
  None = None
  Caller = {c1, c2}
  MaxBreaks = 1
  MaxFaults = 1
  Thread = {"t1", "t2"}
  View = {"v1", "v2"}
  Ttl = 1
  MaxCached = 1
  MaxEntries = 3
  Ensures = {"e1", "e2", "e3"}
  Adds = {"a1", "a2"}
  Removes = {"r1", "r2"}
  Listed = TRUE
