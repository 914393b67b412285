\* The fast lane refuses one refresh.
SPECIFICATION FairSpec
CONSTANTS
    Observer = {job}
    Job = job
    Sub = {s1}
    Watching = {s1}
    Value = {v1, v2}
    MaxRevision = 3
    MaxEpoch = 2
    MaxChange = 1
    Capacity = 5
    MaxExternal = 0
    MaxRefused = 1
    MaxPanic = 0
CHECK_DEADLOCK FALSE
PROPERTY
    FinalChangeDelivered
