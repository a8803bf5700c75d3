--------------------------- MODULE MCSecretStore ---------------------------
\* Two paths so that a blob can be checked against the wrong path, two keys so
\* that a second setup or a rewrap could introduce another one, and a master
\* that is too short.
EXTENDS SecretStore, TLC

CONSTANTS p1, p2, v1, v2, k1, k2, mShort, mOld, mNew

MCPaths == {p1, p2}
MCValues == {v1, v2}
MCKeys == {k1, k2}
MCMasters == {mShort, mOld, mNew}
MCStrongMasters == {mOld, mNew}

Symmetry == Permutations(MCPaths) \cup Permutations(MCValues)
            \cup Permutations(MCKeys) \cup Permutations(MCStrongMasters)
=============================================================================
