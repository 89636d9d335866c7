------------------------------- MODULE MCPipes -------------------------------
EXTENDS Pipes
CONSTANTS p1, p2
MCWrites == {<<0, 1, 1>>}
MCReads == {2}
=============================================================================
