SPECIFICATION Spec
CONSTANTS
  MaxVer = 2
  MaxStep = 4
  MaxCalls = 2
  MaxSession = 2
  CalmChat = TRUE
INVARIANTS ChatShowsItsSession SeedAskedOnce
PROPERTIES ViewsCatchUp
CHECK_DEADLOCK FALSE
