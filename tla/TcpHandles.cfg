SPECIFICATION Spec
CONSTANTS
    GenBits = 3
    Capacity = 2
    MinFree = 2
    WriteSizes = {2, 3}
    Segment = 2
    NumConns = 3
    Leaving = {1, 2}
    MaxIn <- MCMaxIn
    MaxOut <- MCMaxOut
    MaxServers = 2
INVARIANT HandlesResolve
CHECK_DEADLOCK FALSE
