SPECIFICATION Spec
CONSTANTS
  Page = {p1}
  Call = {c1}
  Name = {r1, r2}
  NoName = NoName
  Views = {"policy"}
  Saves = {"rule"}
  Others <- Rules
  MaxValue = 1
  MaxRev = 3
  MaxEdits = 0
SYMMETRY Symmetry
CHECK_DEADLOCK FALSE
PROPERTIES SaveChangesItsRule
