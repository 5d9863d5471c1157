SPECIFICATION Spec
CONSTANTS
    MAX_CLIENTS = 2
    Scripts <- MCScripts
    Leaving = {1}
    GenLimit = 65535
    MaxServed = 5
    MaxAppends = 1
INVARIANTS TablesAgree QueueFaithful ResponsesInOrder
CHECK_DEADLOCK FALSE
