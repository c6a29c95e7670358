CONSTANTS
  EnvNum = 2
  N = 2
  MaxSteps = 3
  PlanActions <- MCPlanActions
  MaxEpisodes = 2
  WorkersPerJvm = 8
  GoldPaths <- MCGoldPaths
  Digits <- MCDigits
  MaxFailures = 1
SPECIFICATION EnvSpec
INVARIANTS
  ExpertOfOwnGame
  RowsDriveOwnWorker
  PaddingIsCut
  SolutionOfOwnTask
  LoadsAlone
PROPERTIES
  CommandsEnd
