CONSTANTS
  ExposureJson = ExposureJson
  RateLimitJson = RateLimitJson
  Paths <- MCPaths
  NoFile = NoFile
  Torn = Torn
  Wallets = {w1, w2}
  MaxSystemExposure = 5
  MaxWalletShare = 3
  RawLimits <- MCRawLimits
  ExposureFile = ExposureJson
  OtherContent = OtherContent
  MaxCommits = 3
  MaxQueue = 2

SPECIFICATION Spec

INVARIANT CapHoldsAcrossRestarts
