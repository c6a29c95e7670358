CONSTANTS
  BatchSize = 2
  N = 2
  Modes <- AllModes
  MaxTries = 2
  Rewards <- MCRewards
  Types <- MCTypes
SPECIFICATION Spec
INVARIANTS
  SourcesAligned
