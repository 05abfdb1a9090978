SPECIFICATION Spec
CONSTANTS
  MaxTask = 2
  MaxBoot = 1
  MaxCalls = 2
  MaxLost = 1
  MaxProbe = 2
  OneCard = TRUE
CHECK_DEADLOCK FALSE
INVARIANTS ActiveIsFollowedOnce SuccessWasReal RestartWasReal
PROPERTIES VerdictComes
