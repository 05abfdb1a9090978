SPECIFICATION SessionSpec
CONSTANTS
  guest = guest
  User <- MCUser
  Admins <- MCAdmins
  None = None
  TTL = 1
  MaxClock = 3
  MaxRestart = 1
  Anchored = FALSE
PROPERTIES LogoutIsForGood DeadTabsLeave
