SPECIFICATION Spec
CONSTANTS
  Run = {r1, r2, r3}
  Agent = {a1}
  Session = {s1}
  Task = {t1, t2}
  Waiter = {}
  None = None
  MaxDepth = 1
  MaxActive = 1
  EventCap = 1
SYMMETRY Symmetry
INVARIANTS TypeOK CapacityBound CancellationInv SweepCancelsListedTrees
PROPERTIES TerminalIsFinal
