SPECIFICATION Spec
CONSTANTS
  p1 = p1  p2 = p2  s1 = s1  s2 = s2  a = a  b = b  bad = bad  broken = broken
  webhook = webhook  shipper = shipper
  Builder <- OneBuilder
  Fallible <- None
  Publisher <- TwoPublishers
  Section <- LegacySection
  InPlaceSection <- LegacySection
  Value <- GoodBroken
  Invalid <- None
  Unbuildable <- Broken
  Default = a
  QueueCap = 1
  HistoryLimit = 3
  MaxRev = 3
  MaxCrash = 0
  MaxFlaky = 0
CHECK_DEADLOCK FALSE
SYMMETRY Symmetric
INVARIANTS ReplyIsHonest
