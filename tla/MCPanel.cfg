SPECIFICATION PanelSpec
CONSTANTS
  Service = {s1}
  Hand = {h1}
  Run = {r1}
  Cycle = 1
  DaysBefore = 0
  SuspendAfter = 0
  EndAfter = 1
  MaxDay = 4
  MaxInvoices = 3
  MaxWishes = 2
  MaxMisfires = 1
  Eager = FALSE
  Name = {n1}
  Caller = {c1}
  MaxNameOrders = 2
  MaxYear = 4
  MaxLostAnswers = 1
  MaxKills = 1
  MaxChanges = 1
  GuardsExpiry = TRUE
  Ns = {ns1}
  Editor = {e1}
  Nothing = Nothing
  Own = own
  Base = base
  Apart = TRUE
  SnapshotsKept = 1
  MaxEdits = 3
  MaxNsFailed = 1
  MaxToggles = 1
CHECK_DEADLOCK FALSE
INVARIANTS
  PanelTypeOK  SoldIsRegistered DnsRight
PROPERTIES
  StaffHoldStays PanelEnds
