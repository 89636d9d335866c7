CONSTANTS
    p1 = p1  p2 = p2  a = a  b = b  root = root  alice = alice
    Proc = {p1, p2}
    User = {root, alice}
    Root = root
    username <- MCUsername
    Ninodes = 3
    Name = {a, b}
    Request <- MCRequest
    MaxLeaks = 1
    None = None
SPECIFICATION Spec
INVARIANTS NoCircularWait
CHECK_DEADLOCK FALSE
