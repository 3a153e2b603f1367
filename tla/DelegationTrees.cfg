SPECIFICATION Spec
CONSTANTS
  Run = {r1, r2, r3, r4}
  Agent = {a1, a2, a3}
  Session = {s1}
  Task = {t1}
  Waiter = {}
  None = None
  MaxDepth = 1
  MaxActive = 2
  EventCap = 1
CONSTRAINT Fits
SYMMETRY Symmetry
INVARIANTS NoAncestryCycle DepthBound RetryIsChain
