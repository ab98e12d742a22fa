--------------------------- MODULE MCRoundRobin ---------------------------
EXTENDS RoundRobin, TLC

CONSTANTS c1, c2, c3

\* c1 and c2 share a priority, c3 ranks above them.
MCConns == {c1, c2, c3}
MCPriority == (c1 :> 0) @@ (c2 :> 0) @@ (c3 :> 1)
MCRowOrder == (c1 :> 1) @@ (c2 :> 2) @@ (c3 :> 3)
=============================================================================
