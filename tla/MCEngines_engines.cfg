CONSTANTS
  NumPrompts = 2
  GroupSize = 1
  Offered <- MCOffered
  MaxTurns = 3
  MaxCalls = 2
  NumThreads = 2
  RateLimit = 1
  MaxBatches = 2
  Sessions <- MCSessions
  NumServers = 2
  MaxCacheSize = 2
  MaxRequests = 3
  MaxRestarts = 1
SPECIFICATION EnginesSpec
INVARIANTS
  RateKept
  InstancesFollowRequests
  SessionsStay
  SessionsSpread
PROPERTIES
  BatchEnds
