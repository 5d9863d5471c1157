SPECIFICATION QueueSpec
CONSTANTS
    Cap = 4
    MaxBatch = 3
    MaxItems = 9
INVARIANTS InOrder DisjointAccess
