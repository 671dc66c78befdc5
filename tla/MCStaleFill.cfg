SPECIFICATION Spec
CONSTANTS
  w1 = w1
  w2 = w2
  Wallets = {w1}
  Endpoints = {"passport"}
  Readers = {r1}
  Writers = {p1}
  Touches <- MCEvent
  MaxEntries = 2
  TTL = 1
  MaxTime = 1
  MaxVersion = 1
INVARIANT FreshAfterAcknowledge
