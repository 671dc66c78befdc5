SPECIFICATION Spec
CONSTANTS
  w1 = w1
  w2 = w2
  w3 = w3
  NoWallet = NoWallet
  Wallets = {w1, w2}
  Inputs <- MCMutual
  Slots = {s1, s2}
  MaxDepth = 5
  MaxEndorsees = 500
  DedupTTL = 0
  DedupMax = 2
  MaxTime = 0
  MaxEvents = 2
  MaxCrashes = 0
INVARIANT NoCircularEndorsement
CHECK_DEADLOCK FALSE
