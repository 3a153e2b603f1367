SPECIFICATION BoundedSpec
CONSTANTS
  Prompt = {p1, p2}
  Steer = {s1}
  Call = {c1, c2}
  NoTurn = NoTurn
  Window = 1
  AutoBudget = 1
  MaxFaults = 1
  MaxCompactions = 1
INVARIANTS RequestIsPaired NothingSaidIsLost SteerIsKept TurnInv
PROPERTIES StopSettles TurnEndsOrAsks
CHECK_DEADLOCK FALSE
