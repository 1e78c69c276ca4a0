SPECIFICATION MCSpec
CHECK_DEADLOCK FALSE
INVARIANTS SessionsAreTrue AnswerIsWhole
PROPERTIES EveryTurnIsAnswered StopsTheRightOnes
CONSTANTS
  None = None
  Turn = {m1, m2}
  Process = {m1, m2, "worker", "deletion", "reaper"}
  Mode = {full, supervised}
  FullAccess = full
  MaxModes = 1
  MaxStops = 1
  MaxInterrupts = 1
  MaxDeletes = 1
  MaxDeaths = 1
  MaxFaults = 1
  MaxBuffer = 2
  MaxItems = 2
  MaxDeltas = 5
  MaxPauses = 2
