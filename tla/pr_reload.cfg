SPECIFICATION Spec
CONSTANTS
  s1 = s1  s2 = s2  d1 = d1  d2 = d2  g1 = g1  g2 = g2  q1 = q1
  Site <- TwoSites
  Def <- TwoDefs
  Group <- Groups
  Start <- Boot
  Document <- Documents
  Request <- OneRequest
  MaxReload = 3
  MaxWrite = 1
CHECK_DEADLOCK FALSE
INVARIANTS RouterMatchesConfig ServedPoolsProbed NoOrphanProber ReloadNoticesCert
