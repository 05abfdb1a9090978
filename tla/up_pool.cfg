SPECIFICATION PoolFairSpec
CONSTANTS
  q1 = q1  q2 = q2
  Weight <- TwoToOne
  Threshold = 2
  Cooldown = 1
  Active = TRUE
  Proxied <- TwoRequests
  MaxFlap = 1
INVARIANTS NoNodeIsFlooded RoundIsFair
PROPERTIES RecoveredNodeServes
