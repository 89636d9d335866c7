SPECIFICATION QSpec
CONSTANTS
    init = init
    p2 = p2
    p3 = p3
    c0 = c0
    Proc <- ThreeProcs
    InitProc = init
    Cpu <- OneCpu
    BootCpu = c0
    K = 2
    Quantum <- MCQuantum
    BoostPeriod = 4
    Priority <- MCPriority
    None = None
SYMMETRY Exchange
PROPERTIES
    LowestLevelFirst
    LargestPriorityFirstUnlessResumed
    BoostRaisesAll
    DemotedAfterWholeQuantum
