SPECIFICATION BoundedSpec
CONSTANTS
  Procs = {p1}
  Agents = {ryuzi, a1}
  Ryuzi = ryuzi
  Profiles = {v0, v1}
  Default = v0
  Absent = Absent
  NoProc = NoProc
  Installs = {"existing", "fresh", "upgrade"}
  MaxCrashes = 2
  MaxErrors = 1
  MaxTx = 3
INVARIANTS RegistryInv MemoryIsTradedForRegistry
PROPERTIES ImplementsAtomicRegistry EventuallyServes
CHECK_DEADLOCK FALSE
