SPECIFICATION SitesSpec
CONSTANTS
  Domain = {d1, d2}
  MaxRev = 3
  MaxEdits = 2
  MaxLoads = 2
SYMMETRY Symmetry
PROPERTIES FailedSaveIsNotMistaken
CHECK_DEADLOCK FALSE
