SPECIFICATION Spec
CONSTANTS
  Pid = {p1, p2, p3, p4, p5}
  None = None
  MaxVersion = 3
  MaxKills = 1
  MaxErrors = 1
INVARIANTS UpdateInv
PROPERTIES PromotedIsInstalled UpdateEnds
CHECK_DEADLOCK FALSE
