SPECIFICATION Spec
CONSTANTS
  d1 = d1
  d2 = d2
  Keys <- MCKeys
  MaxTask = 2
  Slots = 1
  History = 1
  MaxPoll = 2
  MaxBoot = 1
  SingleSubmit = TRUE
INVARIANTS OneIssuing ShownIsFollowedOnce SuccessWasIssued
PROPERTIES IssuingEnds
CHECK_DEADLOCK FALSE
