SPECIFICATION FairSpec
CONSTANTS
  w1 = w1
  w2 = w2
  w3 = w3
  NoWallet = NoWallet
  Wallets = {w1, w2, w3}
  Inputs <- MCReports
  Slots = {s1, s2}
  MaxDepth = 2
  MaxEndorsees = 2
  DedupTTL = 0
  DedupMax = 2
  MaxTime = 1
  MaxEvents = 3
  MaxCrashes = 1
INVARIANTS
  TypeOK
  GraphAsTaken
  CyclesOnlyFromRaces
PROPERTIES
  ForgottenOnlyAtTheCap
  DedupKeepsTheNewest
  RequestsEnd
CHECK_DEADLOCK FALSE
