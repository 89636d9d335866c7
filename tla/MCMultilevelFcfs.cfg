SPECIFICATION Spec
CONSTANTS
    c0 = c0
    c1 = c1
    Cpu <- TwoCpus
    MaxPid = 5
    Nproc = 5
    None = None
PROPERTIES SmallestPidFirst
