SPECIFICATION Spec
CONSTANTS
    init = init
    p2 = p2
    p3 = p3
    p4 = p4
    c0 = c0
    c1 = c1
    Proc <- ThreeProcs
    InitProc = init
    Cpu <- TwoCpus
    BootCpu = c0
    K = 2
    Quantum <- MCShortQuantum
    BoostPeriod = 2
    Priority <- OnePriority
    None = None
SYMMETRY Exchange
INVARIANTS NoLostProcess LevelAgrees ResumeFinds NoDeadChildUnnoticed EmbryoHasOneOwner
