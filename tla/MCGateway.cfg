SPECIFICATION Spec
CONSTANTS
  c1 = c1
  c2 = c2
  k1 = k1
  k2 = k2
  b1 = b1
  b2 = b2
  whole = whole
  NoKey = NoKey
  NoBody = NoBody
  Calls = {c1, c2}
  Intents <- MCIntents
  Mixes <- MCMixes
  Posts <- MCPosts
  Priced <- MCPriced
  Signed <- MCSigned
  WrittenOtherwise = {whole}
  Bypass <- MCBypass
  MaxOf <- MCMaxOf
  WindowMs = 1
  SkewMs = 1
  SaveEvery = 2
  Retries = 1
  TTL = 1
  MaxStoreSize = 1
  MaxTime = 2
  MaxCrashes = 1
INVARIANTS
  TypeOK
  WindowHolds
  PaymentsBounded
  AnswersAreOwn
  KeylessPostsRefused
CHECK_DEADLOCK FALSE
