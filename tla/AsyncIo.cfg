SPECIFICATION Spec
CONSTANTS
    MaxRes = 2
    MaxOps = 2
    GenLimit = 65535
    SqLimit = 2
    FirstFd = 1
    MaxOpens = 2
    MaxStarts = 3
    MaxFails = 1
INVARIANTS EventsMatch OpsAccounted HandlesFaithful
CHECK_DEADLOCK FALSE
