SPECIFICATION CompanySpec
CONSTANTS
  Invoice = {i1}
  Service = {s1, s2}
  Leaving = {s1}
  Payment = {h1, p1, p2, p3}
  Hosted = {h1}
  Run = {}
  Charger = {c1}
  Price = 2
  Fee = 1
  Credit = 0
  MaxManual = 0
  MaxCrashes = 0
  MaxAttempts = 3
  Lossy = FALSE
  None = None
  Wp = {w1, w2}
  App = {a1}
  Twin = {t1}
  Host = {x1}
  Group = {g1}
  Desk = {d1}
  MaxTwins = 2
  MaxForms = 3
  MaxBroken = 1
  Plain = TRUE
  Sys = sys
  Nil = Nil
  Person = {m0, m1, m2}
  Founder = m0
  Seat = {q1, q2}
  MaxInvites = 2
  Together = FALSE
  Writer = {v1, v2}
  MaxSaid = 3
  MaxUnfiled = 1
  TalkOver = FALSE
  Card = {k1, k2, k3}
  Teller = {b1, b2}
  MaxSaves = 3
  MaxCuts = 1
  Abreast = FALSE
  Belated = FALSE
  Engine = {"mysql", "postgres", "redis"}
  Clerk = {e1}
  MaxVersion = 2
  MaxDbAsked = 3
  MaxWritten = 1
  MaxDbFailed = 1
  Crossing = FALSE
  Machine = {n1}
  Trouble = {"disk"}
  Watch = {u1, u2}
  MaxWatches = 4
  MaxChanges = 3
  Crowded = FALSE
  Space = 4
  BlockSize = {1, 4}
  Pool = {l1, l2}
  NoPool = NoPool
  Booker = {f1, f2}
  Attempts = 2
  Alone = TRUE
  Months = {1, 3}
  FirstMonth = {0, 23}
  FirstDay = {30, 31}
  Plan = {10, 25, 41}
  Ahead = {0, 1, 16, 30}
  Overdue = 9
  MaxPeriods = 2
  MaxMoves = 2
  Owing = FALSE
  Mover = {b1, b2}
  MaxMoveJobs = 4
  MaxUpsets = 1
  Hurried = FALSE
  Rack = {w1, w2}
  Admin = {v1, v2}
  MaxAsks = 3
  Newborn = FALSE
  a1 = a1
  b1 = b1
  b2 = b2
  c1 = c1
  d1 = d1
  e1 = e1
  f1 = f1
  f2 = f2
  g1 = g1
  h1 = h1
  i1 = i1
  k1 = k1
  k2 = k2
  k3 = k3
  m0 = m0
  m1 = m1
  m2 = m2
  l1 = l1
  l2 = l2
  n1 = n1
  p1 = p1
  p2 = p2
  p3 = p3
  q1 = q1
  q2 = q2
  s1 = s1
  s2 = s2
  sys = sys
  t1 = t1
  u1 = u1
  u2 = u2
  v1 = v1
  v2 = v2
  w1 = w1
  w2 = w2
  x1 = x1
INVARIANTS
 CompanyTypeOK ChargesRight CompanyRight UpkeepRight
SYMMETRY Alike
CHECK_DEADLOCK FALSE
