SPECIFICATION SitesSpec
CONSTANTS
  Domain = {d1, d2}
  MaxRev = 3
  MaxEdits = 1
  MaxLoads = 1
SYMMETRY Symmetry
PROPERTIES SitePublishSparesOthers
CHECK_DEADLOCK FALSE
