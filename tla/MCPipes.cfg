SPECIFICATION Spec
CONSTANTS
    p1 = p1  p2 = p2
    Proc = {p1, p2}
    InitProc = p1
    NFILE = 2
    NOFILE = 2
    PIPESIZE = 2
    UintSize = 4
    Writes <- MCWrites
    Reads <- MCReads
    None = None
INVARIANTS FilesCounted
PROPERTIES ImplementsChannel EndReached
CHECK_DEADLOCK FALSE
