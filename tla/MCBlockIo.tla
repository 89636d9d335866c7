------------------------------ MODULE MCBlockIo -----------------------------
EXTENDS BlockIo
CONSTANTS p1, p2

\* More than the cache holds, as with the NBUF of the code: the pinned buffer
\* and the three the callers ask for are one more than there are.
MCLoad == {[pins |-> 1, depth |-> [p \in Proc |-> IF p = p1 THEN 2 ELSE 1]]}
=============================================================================
