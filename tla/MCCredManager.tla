--------------------------- MODULE MCCredManager ---------------------------
EXTENDS CredManager, TLC

CONSTANTS k1, k2, u, d, c1, c2

Symmetry == Permutations({k1, k2})
=============================================================================
