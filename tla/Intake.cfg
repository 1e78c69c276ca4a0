SPECIFICATION MCSpec
CHECK_DEADLOCK FALSE
INVARIANTS GateKeepsOrder FailureLeavesNothing
PROPERTIES EveryoneIsServed SendArrives
CONSTANTS
  None = None
  Sends = {s1, s2, s3}
  Command = {c1, c2, c3}
  NoCommand = NoCommand
  MayFail = {"create", "meta", "start", "delete"}
  MaxDrops = 1
