SPECIFICATION OfficeSpec
CONSTANTS
  Server = {n1, n2, n3}
  Address = {i1}
  Client = {o1, o2}
  Keeper = keeper
  Staff = staff
  MaxServers = 2
  PerServer = 2
  MinFree = 2
  MaxPlaced = 2
  MaxRemoved = 1
  MaxOdd = 1
  Hasty = FALSE
  Rushed = FALSE
  Member = {m1, m2}
  Shared = FALSE
  MaxCart = 2
  MaxUses = 1
  MaxBegun = 2
  MaxAborts = 1
  MaxAdded = 1
  Late = FALSE
  Doc = {d1}
  Hand = {sender, cron}
  Cron = {cron}
  TwoCalls = {d1}
  MaxSends = 3
  MaxRefused = 1
  Overlap = FALSE
  Sender = {e1, e2}
  MaxFailing = 2
  MaxSent = 5
  Block = {k1}
  Officer = {f1, f2}
  MaxOrders = 3
  MaxEnds = 1
  MaxMisses = 2
  Rival = FALSE
  Customer = {u1, u2}
  Contract = {a1, a2}
  Name = {z1, z2}
  Importer = {r1, r2}
  MaxRuns = 3
  MaxStops = 2
  Early = FALSE
  Side = FALSE
  Task = {t1}
  MaxMinutes = 3
  MaxWaiting = 2
  MaxOps = 2
  MaxLapses = 2
CHECK_DEADLOCK FALSE
INVARIANTS
  OfficeTypeOK PlacesRight OfficeRight
PROPERTIES
  ReserveSurvives OfficeEnd
