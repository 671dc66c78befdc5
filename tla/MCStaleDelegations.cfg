SPECIFICATION Spec
CONSTANTS
  w1 = w1
  w2 = w2
  Wallets = {w1, w2}
  Endpoints = {"delegation"}
  Readers = {r1}
  Writers = {p1}
  Touches <- MCDelegation
  MaxEntries = 2
  TTL = 1
  MaxTime = 1
  MaxVersion = 1
INVARIANT DelegationsClearedAfterRecording
