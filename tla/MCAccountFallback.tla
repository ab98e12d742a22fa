------------------------- MODULE MCAccountFallback -------------------------
EXTENDS AccountFallback, TLC

CONSTANTS c1, c2, r1, r2

MCConns == {c1, c2}
OneConn == {c1}
MCRequests == {r1, r2}
MCPriority == (c1 :> 0) @@ (c2 :> 1)
MCRowOrder == (c1 :> 1) @@ (c2 :> 2)
OnePriority == c1 :> 0
RequestSymmetry == Permutations(MCRequests)
=============================================================================
