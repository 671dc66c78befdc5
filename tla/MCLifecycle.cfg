CONSTANTS
  WebhooksJson = WebhooksJson
  Paths <- MCPaths
  NoFile = NoFile
  Torn = Torn
  Records = {e1}
  Reads = {q1}
  s1 = s1
  s2 = s2
  Subs = {s1, s2}
  UrlOf <- MCUrlOf
  Environments <- MCEnvironments
  MaxQueue = 2

SPECIFICATION FairSpec

INVARIANTS
  TypeOK
  SubscriptionsKept
  EventsReachSubscribers

PROPERTIES
  ShutdownEnds
