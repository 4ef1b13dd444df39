SPECIFICATION Spec
CONSTANTS
  Workload = {w1, dns}
  Superseding = {dns}
  MaxJobs = 2
  Poll = {p1}
  Reporter = {r1}
  MaxParallel = 2
  Batch = 2
  MaxAttempts = 2
  MaxCrashes = 1
  Lossy = TRUE
  Overlap = FALSE
  Overrun = FALSE
  None = None
  w1 = w1
  dns = dns
  p1 = p1
  r1 = r1
INVARIANTS IInv OneRunning OneExecuting StartedOnce OutcomeOnce FifoStart HonestSuccess
PROPERTIES SettledStays ImplementsSerial
CHECK_DEADLOCK FALSE
