CONSTANTS
  Clients = {c1, c2, c3}
  Nobody = Nobody
  MaxBackoff = 3
  Count = 5
  BatchMax = 2
  Unknown = Unknown
SPECIFICATION MCSpec
INVARIANTS
  OnlyServedClients
  BurstInOrder
PROPERTIES
  BroadcastReachesAll
  ExitsWhenFeedIsLost
