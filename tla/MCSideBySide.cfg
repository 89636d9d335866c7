SPECIFICATION MCSpec
CONSTANTS
    Proc <- Processes
    InitProc = initproc
    Frames = 10
    DirFrames = 1
    PGSIZE = 2
    KERNBASE = 10
    UintSize = 16
    Increments <- Changes
    ProgramSizes <- OnePage
    StackSizes <- TwoPages
    Limits <- Bounds
    Cpu <- TwoCpus
    BootCpu = c1
    Victim <- Victims
    Job <- Jobs
    Id <- Names
    Root = root
    Password <- Passwords
    RootPassword = 0
    Nusers = 2
    None = None
    q1 = q1  q2 = q2  q3 = q3  q4 = q4  q5 = q5
    initproc = initproc  p1 = p1  p2 = p2  c1 = c1  c2 = c2
    j1 = j1  j2 = j2  alice = alice  bob = bob  root = root
SYMMETRY Exchange
INVARIANTS
    NoPanic InterruptsAsBefore NoLostWakeup
    FramesConserved SizeIsMapped LimitHolds
    StoredWhenQuiet
PROPERTIES
    ImplementsPriorityBag
    ImplementsAccounts
