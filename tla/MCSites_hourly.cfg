SPECIFICATION SitesSpec
CONSTANTS
  Site = {a}
  Copy = {c1}
  Handler = {h1}
  MaxCopies = 1
  MaxRequests = 3
  MaxFailures = 1
  Rash = FALSE
  NoSite = NoSite
  MaxDeployments = 5
  MaxUpdates = 1
  RollbackDepth = 2
  Sick = {3}
  Moody = {}
  MaxDeaths = 1
  Impatient = FALSE
  MaxBackups = 3
  MaxContent = 1
  MaxDays = 2
  MaxTrouble = 1
  MaxAsked = 2
  KeepScheduled = 1
  KeepLocal = FALSE
  Hourly = TRUE
  DumpsWork = TRUE
  Branch = {b1, b2}
  Hook = {w1}
  MaxPreviews = 1
  MaxRows = 2
  MaxPushes = 4
  MaxSwitches = 2
  MaxUnbuilt = 1
  Hasty = FALSE
CHECK_DEADLOCK FALSE
PROPERTY KeptAsConfigured
