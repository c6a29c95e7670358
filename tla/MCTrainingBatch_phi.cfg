CONSTANTS
  Trajs = 2
  MaxLength = 3
  RowLengths <- MCRowLengths
  Divisor = 6
  World = 2
  Balancing <- EitherWay
SPECIFICATION Spec
INVARIANTS
  PhiOfOwnStep
