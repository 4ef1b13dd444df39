SPECIFICATION Spec
CONSTANTS
  Invoice = {i1}
  Service = {s1, s2}
  Leaving = {s1}
  Payment = {p1}
  Hosted = {}
  Run = {r1, r2}
  Charger = {c1}
  Price = 2
  Fee = 1
  Credit = 1
  MaxManual = 2
  MaxCrashes = 1
  MaxAttempts = 1
  Lossy = TRUE
  None = None
  c1 = c1
  i1 = i1
  p1 = p1
  r1 = r1
  r2 = r2
  s1 = s1
  s2 = s2
INVARIANTS MoneyMatches AsksForLines
SYMMETRY Alike
CHECK_DEADLOCK FALSE
