SPECIFICATION FairSpec
CONSTANTS
    p1 = p1
    p2 = p2
    c1 = c1
    c2 = c2
    a = a
    b = b
    Producers <- MCProducers
    Consumers <- MCConsumers
    Items <- MCItems
    None = None
    Size = 2
    IntRange = 4
    U64Range = 16
    MaxIndex = 3
INVARIANTS NoAbort Claims ExclusiveCells
PROPERTIES ImplementsFifo ClaimedCallReturns
