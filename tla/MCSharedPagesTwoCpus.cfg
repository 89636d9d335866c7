CONSTANTS
    init = init  p1 = p1  p2 = p2  p3 = p3
    g1 = g1  g2 = g2  g3 = g3  g4 = g4
    Proc = {init, p1, p2}
    initproc = init
    Page = {g1, g2, g3}
    PageZero = PageZero
    Ncpu = 2
    None = None
SPECIFICATION Spec
SYMMETRY Symmetry
INVARIANT NoAccessAfterExit
CHECK_DEADLOCK FALSE
