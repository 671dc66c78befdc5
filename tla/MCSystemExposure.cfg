CONSTANTS
  ExposureJson = ExposureJson
  RateLimitJson = RateLimitJson
  Paths <- MCPaths
  NoFile = NoFile
  Torn = Torn
  Wallets = {w1, w2}
  MaxSystemExposure = 5
  MaxWalletShare = 3
  RawLimits <- MCRawLimits
  ExposureFile = ExposureJson
  OtherContent = OtherContent
  MaxCommits = 3
  MaxQueue = 2

SPECIFICATION FairSpec

INVARIANTS
  TypeOK
  CapsHold
  LedgerBalanced
  NeverTorn
  NewestSaveOnItsWay
  GrantsAccountedFor

PROPERTIES
  DiskMovesForward
  SaveReachesDisk
  ImplementsCreditLedger
