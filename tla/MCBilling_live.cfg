SPECIFICATION FairSpec
CONSTANTS
  Invoice = {i1, i2}
  Service = {s1}
  Leaving = {}
  Payment = {h1}
  Hosted = {h1}
  Run = {}
  Charger = {}
  Price = 2
  Fee = 1
  Credit = 3
  MaxManual = 2
  MaxCrashes = 0
  MaxAttempts = 3
  Lossy = FALSE
  None = None
  h1 = h1
  i1 = i1
  i2 = i2
  s1 = s1
INVARIANTS TypeOK OnceOnly CreditRight
PROPERTIES PaidIsFulfilled
CHECK_DEADLOCK FALSE
