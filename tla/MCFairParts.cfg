SPECIFICATION MCSpec
CONSTANTS
    c0 = c0  c1 = c1
    Cpu <- TwoCpus
    MaxPid = 6
    Nproc = 5
    None = None
    caller1 = caller1  caller2 = caller2  caller3 = caller3  b1 = b1  b2 = b2
    Caller <- Callers
    Block <- TwoBlocks
    Data <- Bits
    InitialData = 0
    NotCached = NotCached
    MaxOpBlocks = 3
    OpBlocks = 2
    LogSize = 9
    Nlog = 9
    init = init  proc2 = proc2  proc3 = proc3  proc4 = proc4
INVARIANTS NoLostProcess
PROPERTIES
    FcfsOnlyWithoutRR PassedOverOnlyWhileParked RoundRobinRuns
    ImplementsAtomicDisk SleepersAreWoken
    EveryRunnableRuns
