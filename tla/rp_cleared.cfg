SPECIFICATION Spec
CONSTANTS
  shop = shop
  blog = blog
  ann = ann
  bob = bob
  q1 = q1
  q2 = q2
  Site <- Sites
  Client <- Clients
  Kind <- Kinds
  Input <- Asked
  Revision <- Revisions
  Content <- Contents
  Boot = "first"
  Published <- Later
  Slot <- Slots
  AuditIsSQLite = TRUE
  Window = 2
  Ban = 1
  ThrottlePerMin = 1
  Minute = 1
  MaxRequests = 3
  MaxBuilds = 2
  MaxClock = 3
SYMMETRY SlotSymmetry
CHECK_DEADLOCK FALSE
INVARIANT PreferredAreNotPenalised
