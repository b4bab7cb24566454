SPECIFICATION Spec
CONSTANTS
    MaxMessages = 2
    First = 1
    Old <- FirstIsOld
    MaxVersions = 2
    MaxJobs = 2
    MaxEpochs = 2
    Batch = 1
    Requests = {q1}
    Windows = {"reuse"}
INVARIANT PurgedIsKept
CHECK_DEADLOCK FALSE
