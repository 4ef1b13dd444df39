SPECIFICATION Spec
CONSTANTS
  Workload = {w1, dns}
  Superseding = {dns}
  MaxJobs = 2
  Poll = {p1, p2}
  Reporter = {r1}
  MaxParallel = 2
  Batch = 2
  MaxAttempts = 2
  MaxCrashes = 0
  Lossy = TRUE
  Overlap = TRUE
  Overrun = FALSE
  None = None
  w1 = w1
  dns = dns
  p1 = p1
  p2 = p2
  r1 = r1
INVARIANTS OneRunning
SYMMETRY Alike
CHECK_DEADLOCK FALSE
