SPECIFICATION MCSpec
CHECK_DEADLOCK FALSE
INVARIANT RejectedForGood
CONSTANTS
  None = None
  MaxThreadMessages = 10
  MaxThreadCheckpoints = 10
  MaxThreadPlans = 10
  MaxThreadActivities = 10
  CommandId = {"project", "thread", "delete"}
  Call = {"k1", "k2", "k3", "k4"}
  CommandIdOf <- MCCommandIdOf
  CommandOf <- MCCommandOf
  Faults = {"lookup", "transaction", "commit", "reconcile", "record"}
  ReadLimit = 10
  MaxFaults = 2
  MaxCrashes = 1
