SPECIFICATION Spec
CONSTANTS
    Worker = {loop, caller}
    Loop = loop
    NoOne = NoOne
    Gone = Gone
    MaxEvents = 3
    MaxCrashes = 2
    MaxErrors = 2
    MaxDeletes = 1
    SlowApply = FALSE
INVARIANTS AppliedOnceInOrder DeliveredIsRecorded DeleteIsClean
PROPERTIES EventuallySettled
CHECK_DEADLOCK FALSE
