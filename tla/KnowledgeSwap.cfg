SPECIFICATION SwapSpec
CONSTANTS
    Worker = {loop, caller}
    Loop = loop
    NoOne = NoOne
    Gone = Gone
    MaxEvents = 3
    MaxCrashes = 0
    MaxErrors = 0
    MaxDeletes = 0
    SlowApply = FALSE
    MaxUpdates = 1
INVARIANT DeliveredIsRecorded
CHECK_DEADLOCK FALSE
