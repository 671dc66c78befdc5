SPECIFICATION Spec
CONSTANTS
  w1 = w1
  w2 = w2
  Wallets = {w1}
  Endpoints = {"score", "passport", "verify", "delegation"}
  Readers = {r1, r2}
  Writers = {p1}
  Touches <- MCEvent
  MaxEntries = 2
  TTL = 1
  MaxTime = 1
  MaxVersion = 1
SYMMETRY MCSymmetry
INVARIANTS
  TypeOK
  CacheKeepsTheRecent
  StaleOnlyFromARace
  JoinedFlightsSettle
