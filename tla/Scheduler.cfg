SPECIFICATION BoundedSpec
CONSTANTS
  None = None
  Chat = {c1, c2}
  Broken = {c2}
  Run = {r1, r2}
  Outcome = {o1}
  Event = {r1, r2, o1}
  MaxPerTick = 3
  MaxActs = 2
  MaxDisturbances = 2
  MaxFaults = 1
  MaxCrashes = 1
INVARIANTS SchedulerInv ReportIsWanted
PROPERTIES JobFires RowArrives
CHECK_DEADLOCK FALSE
