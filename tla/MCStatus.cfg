\* A reader and the refresh job compete for captures while the status changes.
SPECIFICATION FairSpec
CONSTANTS
    Observer = {job, r1}
    Job = job
    Sub = {s1}
    Watching = {s1}
    Value = {v1, v2}
    MaxRevision = 2
    MaxEpoch = 2
    MaxChange = 2
    Capacity = 5
    MaxExternal = 1
    MaxRefused = 1
    MaxPanic = 1
CHECK_DEADLOCK FALSE
CONSTRAINT MCBound
PROPERTIES
    PublicationFresh
    EmissionsOrdered
    
