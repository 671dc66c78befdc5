SPECIFICATION Spec
CONSTANTS
  w = w
  a = a
  b = b
  c = c
  None = None
  Unread = Unread
  Unknown = Unknown
  PageSize = 2
  MaxPages = 2
  GenesisRound = 1000
  Branching = 2
  MaxCluster = 3
  CreationWindow = 1
  Wallets <- MCWallets
  Subject = w
  Accounts <- MCAccounts
  PageLimit = 2
  FirstDay = 1500
  Amounts <- MCAmounts
  Requested <- MCRequested
  Pauses <- MCPauses
  MaxSteps <- MCMaxSteps
  MaxFailures = 2
SYMMETRY MCSymmetry
INVARIANTS
  YoungAndIdleStayLow
  DelegationsAsRegistered
  LossNeverUnderstated
  GraphAlgorithmsAgree
  SybilSeesAStar
  DenialsStand
  RecordedAsEvidenced
  ExplanationsAgree
CHECK_DEADLOCK FALSE
