SPECIFICATION FairSpec
CONSTANTS
  Run = {r1, r2}
  Agent = {a1}
  Session = {s1}
  Task = {t1}
  Waiter = {w1}
  None = None
  MaxDepth = 1
  MaxActive = 1
  EventCap = 1
PROPERTIES WaiterReturns AdmissionIsReleased
