SPECIFICATION MCSpec
CONSTANTS
    t1 = t1
    t2 = t2
    t3 = t3
    Threads = {t1, t2, t3}
    Counts = {1}
    InitCounts <- MCInitCounts
    MaxSignals = 4
    c1 = c1
    c2 = c2
    w1 = w1
    w2 = w2
    Callers = {c1, c2}
    Workers = {w1, w2}
    Owner = owner
    Slots = 2
    MaxJobs = 3
SYMMETRY MCSymmetry
INVARIANTS NotOversold NoStuckWaiter JobsRunOnce SlotsAccounted IdsFaithful NoHang
CHECK_DEADLOCK FALSE
