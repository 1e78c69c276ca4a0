SPECIFICATION MCSpec
CHECK_DEADLOCK FALSE
INVARIANTS DrainIsSafe CheckpointsAreTrue
PROPERTIES EveryItemIsHandled RevertRestores EveryRevertIsAnswered
CONSTANTS
  None = None
  Items = {x1, x2, x3}
  Drains = {d1, d2}
  MayEnd = TRUE
  MayClose = TRUE
  MaxTurns = 3
  MaxEdits = 3
  MaxReverts = 2
  MaxFaults = 1
