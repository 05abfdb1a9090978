SPECIFICATION SitesSpec
CONSTANTS
  Domain = {d1, d2}
  MaxRev = 4
  MaxEdits = 2
  MaxLoads = 2
SYMMETRY Symmetry
PROPERTIES DrawerKeepsCategories
CHECK_DEADLOCK FALSE
