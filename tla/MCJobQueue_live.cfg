SPECIFICATION RestartSpec
CONSTANTS
  Workload = {w1}
  Superseding = {}
  MaxJobs = 2
  Poll = {p1, p2}
  Reporter = {r1}
  MaxParallel = 1
  Batch = 2
  MaxAttempts = 1
  MaxCrashes = 1
  Lossy = TRUE
  Overlap = TRUE
  Overrun = FALSE
  None = None
  w1 = w1
  p1 = p1
  p2 = p2
  r1 = r1
INVARIANTS CapacityKept
PROPERTIES EveryJobEnds NoLateStart
CHECK_DEADLOCK FALSE
