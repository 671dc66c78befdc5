SPECIFICATION FairSpec
CONSTANTS
  c1 = c1
  c2 = c2
  c3 = c3
  k1 = k1
  k2 = k2
  b1 = b1
  b2 = b2
  NoTx = NoTx
  KeyOf <- MCKeyOf
  BodyOf <- MCBodyOf
  OpOf <- MCOpOf
  Calls = {c1, c2}
  Retries <- MCRetries
  TTL = 1
  SkewMs = 0
  MaxStoreSize = 1
  MaxTime = 1
  MaxRound = 1
  MaxCrashes = 1
INVARIANTS
  TypeOK
  SuccessIsGenuine
PROPERTIES
  NoReexecutionOnRecord
  CallsAndHandlersEnd
