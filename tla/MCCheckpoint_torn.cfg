CONSTANTS
  k1 = k1
  k2 = k2
  Ranks <- MCRanks
  Roles <- ActorOnly
  MaxKeep <- Keep2A
  SaveFreq = 1
  TotalSteps = 3
  MaxStep = 5
  ResumeModes <- AutoMode
  MaxLives = 3
SYMMETRY MCSym
SPECIFICATION Spec
INVARIANTS
  AutoFindsOrStartsFromScratch
