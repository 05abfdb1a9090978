SPECIFICATION FairSpec
CONSTANTS
  p1 = p1  p2 = p2  s1 = s1  s2 = s2  a = a  b = b  bad = bad  broken = broken
  webhook = webhook  shipper = shipper
  Builder <- BothBuilders
  Fallible <- Shippers
  Publisher <- OnePublisher
  Section <- OneSite
  InPlaceSection <- NoSection
  Value <- AllValues
  Invalid <- Bad
  Unbuildable <- Broken
  Default = a
  QueueCap = 1
  HistoryLimit = 2
  MaxRev = 4
  MaxCrash = 1
  MaxFlaky = 1
CHECK_DEADLOCK FALSE
INVARIANTS TypeOK LiveConfigAlwaysValid PlaneRunsItsRevision CurrentIsNewest
PROPERTIES SideFollowsPlane RunningNeverRegresses ImplementsRevisionLog NewestRevisionRuns
