------------------------------- MODULE MCWeb -------------------------------
EXTENDS Web, TLC

CONSTANTS a, b

MCPaths == {a, b}
Symmetry == Permutations(MCPaths)
=============================================================================
