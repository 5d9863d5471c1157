SPECIFICATION MCSpec
CONSTANTS
    GenBits = 3
    Capacity = 2
    MinFree = 2
    WriteSizes = {2, 3}
    Segment = 2
    NumConns = 3
    Leaving = {1, 2}
    MaxIn <- MCMaxIn
    MaxOut <- MCMaxOut
    MaxServers = 2
    MaxClients = 2
    RecvRoom = 1
    MaxLinks = 5
    MaxFromPeer <- MCMaxFromPeer
    MaxToPeer <- MCMaxToPeer
    Quitting = {2}
INVARIANTS HandlesFaithful EventOrder BytesInOrder
           ClientTold ClientAborts
PROPERTIES CloseFlushes ClosedIsReleased
CHECK_DEADLOCK FALSE
