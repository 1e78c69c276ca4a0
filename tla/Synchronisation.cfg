SPECIFICATION MCSpec
CHECK_DEADLOCK FALSE
INVARIANTS ThreadAgrees ListIsApplied
PROPERTIES ListFollows
CONSTANTS
  None = None
  MaxThreadMessages = 10
  MaxThreadCheckpoints = 10
  MaxThreadPlans = 10
  MaxThreadActivities = 10
  ProjectId = {"p1"}
  ThreadId = {"th1"}
  TurnId = {"t1"}
  UserMessageId = {"u1"}
  PlanId = {}
  ActivityId = {}
  RequestId = {}
  Meta = {"m1"}
  Mode = {"o1"}
  AssistantMessage <- MCAssistantMessage
  CommandTypes <- OneTurn
  AtomicDispatchers = TRUE
  TurnsInSequence = TRUE
  MaxSequence = 7
  Open = "th1"
  MaxLag = 2
  MaxBreaks = 1
  Thread = {"s1", "s2"}
  Time = {1, 2}
  MaxEvents = 3
  MaxDrops = 1
  MaxFaults = 1
