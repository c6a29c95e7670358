CONSTANTS
  BatchSize = 2
  N = 2
  Modes <- AllModes
  MaxTries = 3
  Rewards <- MCRewards
  Types <- MCTypes
SPECIFICATION Spec
INVARIANTS
  EnoughWholeGroups
  QueryOfOwnGame
