CONSTANTS
  t1 = t1
  t2 = t2
  Threads <- MCThreads
  NumQueries = 3
  N = 2
  NumClients = 2
  MaxRetries = 2
  Unguided <- MCUnguided
  MaxGlitches = 1
  MaxRaises = 1
  MaxSteps = 5
  ChunkSizes <- MCChunkSizes
  Overlaps <- MCOverlaps
  Milestones <- MCMilestones
  Unknown = 9
SPECIFICATION ScoringSpec
INVARIANTS
  RoundRobin
  DefaultNeedsManyFailures
  PhisOfOwnQuery
  OnePhiPerStep
PROPERTIES
  FailureKeepsProgress
  EveryTrajectoryIsJudged
