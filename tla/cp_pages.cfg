SPECIFICATION Spec
CONSTANTS
  Page = {p1}
  Call = {c1, c2}
  Name = {r1}
  NoName = NoName
  Views = {"policy", "settings", "chat"}
  Saves = {"tab", "log", "rule", "del", "group", "ungroup", "settings", "model", "key"}
  Others <- Rules
  MaxValue = 1
  MaxRev = 3
  MaxEdits = 1
SYMMETRY Symmetry
CHECK_DEADLOCK FALSE
INVARIANTS PagesShowARevision
PROPERTIES SavesCarryNothingStale RuleSavesFindTheirRule
