CONSTANTS
  NumPrompts = 2
  GroupSize = 1
  Offered <- MCOffered
  MaxTurns = 2
  MaxCalls = 1
  NumThreads = 1
  RateLimit = 1
  MaxBatches = 1
  Sessions <- MCSessions
  NumServers = 2
  MaxCacheSize = 2
  MaxRequests = 1
  MaxRestarts = 0
SPECIFICATION EnginesSpec
INVARIANTS
  ParamsFallBack
