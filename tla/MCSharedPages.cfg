CONSTANTS
    init = init  p1 = p1  p2 = p2  p3 = p3
    g1 = g1  g2 = g2  g3 = g3  g4 = g4
    Proc = {init, p1, p2, p3}
    initproc = init
    Page = {g1, g2, g3, g4}
    PageZero = PageZero
    Ncpu = 1
    None = None
SPECIFICATION Spec
SYMMETRY Symmetry
INVARIANTS FreePagesClosed EveryoneReadsEveryone OwnerWrites NoAccessAfterExit
PROPERTIES WriteOnlyThroughExec
CHECK_DEADLOCK FALSE
