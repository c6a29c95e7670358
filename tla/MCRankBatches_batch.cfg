CONSTANTS
  Trajs = 2
  MaxLength = 3
  RowLengths <- MCRowLengths
  Divisor = 8
  World = 2
  Balancing <- EitherWay
  MaxTokenLen = 9
  LogProbMicro = 2
  MiniBatch = 2
  MicroBatch = 2
  DynamicBsz <- EitherWay
  ResponseLength = 3
  ResponseTokens <- MCResponseTokens
SPECIFICATION RankSpec
INVARIANTS
  EvenAndComplete
  ReturnsOfOwnStep
  PhiSharedOut
  RanksInStep
  LogProbsOfOwnRow
  MicroBatchesNearBudget
  RowsWeighAlike
  RanksBalanced
