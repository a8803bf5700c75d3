----------------------------- MODULE MCRequests -----------------------------
EXTENDS Requests, TLC

CONSTANTS r1, r2, r3

MCRequests == {r1, r2, r3}
Symmetry == Permutations(MCRequests)
=============================================================================
