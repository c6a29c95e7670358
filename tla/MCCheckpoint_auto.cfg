CONSTANTS
  k1 = k1
  k2 = k2
  Ranks <- MCRanks
  Roles <- Both
  MaxKeep <- KeepTwoOrAll
  SaveFreq = 2
  TotalSteps = 5
  MaxStep = 9
  ResumeModes <- AutoMode
  MaxLives = 4
SPECIFICATION FairSpec
INVARIANTS
  IInv
  TrackerNamesCoherent
  OnlyTornTrackerFails
  DataloaderInStep
  KeepsAtMost
  OneStepPerLaunchPastTheEnd
PROPERTIES
  TrackerMonotone
  LosesAtMost
  ResumesAsPromised
  Finishes
