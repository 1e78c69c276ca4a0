SPECIFICATION MCSpec
CHECK_DEADLOCK FALSE
INVARIANTS CursorsAgree FilesMatchRows
PROPERTIES FilesAreKept
CONSTANTS
  None = None
  Delete = Delete
  m1 = m1
  m2 = m2
  m3 = m3
  Order <- MCOrder
  Required = {"projects", "plans", "threads"}
  Older = {"projects", "turns", "threads"}
  ReadLimit = 2
  MaxEvents = 5
  MaxStops = 3
  Threads = {"t1", "t2"}
  Messages = {m1, m2, m3}
  Owner <- MCOwner
  Parts = 2
  Cuts <- MCCuts
  Segmentations <- MCSegmentations
