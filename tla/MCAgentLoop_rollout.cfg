CONSTANTS
  e1 = e1
  e2 = e2
  Rows <- MCRows
  MaxSteps = 3
  SuccessReward = 10
  Scores <- MCScores
SPECIFICATION Spec
INVARIANTS
  RowsAddUpToEpisode
PROPERTIES
  PlaysIndependentEpisodes
