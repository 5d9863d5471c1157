SPECIFICATION MCSpec
CONSTANTS
    k1 = k1
    k2 = k2
    k3 = k3
    k4 = k4
    Keys = {k1, k2, k3, k4}
    Values = {1, 2}
    Hash <- MCHash
    PertSteps = 2
    MinSize = 4
    MaxSize = 8
    Texts <- MCTexts
    NotUtf8 <- MCNotUtf8
    Capacities = {0, 5}
    MaxTotal = 5
    MaxNum = 3
    MaybeSize = 2
    MinLog2 = 1
    MaxLog2 = 3
    Memories <- MCMemories
    SizeofBuddy = 4
    AlignofBuddy = 4
    SizeofTree = 2
    AlignofTree = 2
    Lens = {0, 1, 3, 8, 9}
    Heads <- MCHeads
    MAX_HEADERS = 1
    SIZE_MAX = 31
    Queries <- MCQueries
    Key <- MCKey
    Rooms = {1, 3}
    Paths <- MCPaths
    Mounts <- MCMounts
    MAX_COMPS = 2
    PathRoom = 6
    DirLen = 2
    FileSizes = {0, 1, 2}
    MdRoom = 2
INVARIANTS KeysReachable SymbolsStayWhole LinesFaithful Partition NoFalseFailure HeadUnderstood QueryFaithful StaticServed
PROPERTIES ImplementsRefMap EditsAsRefText
CHECK_DEADLOCK FALSE
