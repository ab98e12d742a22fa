--------------------------- MODULE RoundRobinOps ---------------------------
(***************************************************************************)
(* The choice of a connection among those available, as the account        *)
(* fallback makes it (internal/opensse/fallback/fallback.go): fill-first   *)
(* takes the first row of the store's listing, round-robin stays on the    *)
(* most recently used connection until it was chosen Limit times in a row  *)
(* and then moves to the least recently used one.                          *)
(*                                                                         *)
(* These are relations on data.  RoundRobin and AccountFallback hold the   *)
(* state they are applied to.                                              *)
(***************************************************************************)
EXTENDS Integers

CONSTANTS
    Conns,          \* the provider's rows of provider_connections
    Priority,       \* column priority
    RowOrder,       \* the order SQLite returns rows of equal priority in
    StickyLimit     \* the configured sticky limit; 0 means not configured

ASSUME ConnsAssumption ==
    /\ Priority \in [Conns -> Int]
    /\ RowOrder \in [Conns -> Int]
    /\ \A c, d \in Conns : RowOrder[c] = RowOrder[d] => c = d
    /\ StickyLimit \in Int

Limit == IF StickyLimit <= 0 THEN 3 ELSE StickyLimit

\* ORDER BY priority DESC
ListedBefore(c, d) ==
    \/ Priority[c] > Priority[d]
    \/ Priority[c] = Priority[d] /\ RowOrder[c] < RowOrder[d]

IsFirstListed(c, S) == \A d \in S \ {c} : ListedBefore(c, d)

\* The tie-break of the stable sort: ascending priority, then the order listed.
TiesBefore(c, d) ==
    \/ Priority[c] < Priority[d]
    \/ Priority[c] = Priority[d] /\ RowOrder[c] < RowOrder[d]

\* byRecency[0] and byOldest[0]; seq is 0 for a connection never used.
IsMostRecent(c, S, seq) ==
    \A d \in S \ {c} : seq[c] > seq[d] \/ (seq[c] = seq[d] /\ TiesBefore(c, d))

\* Mutant of IsLeastRecent: byOldest is not sorted by lastUsedSeq.
IsLeastRecentByPriority(c, S, seq) == \A d \in S \ {c} : TiesBefore(c, d)

IsLeastRecent(c, S, seq) ==
    \A d \in S \ {c} : seq[c] < seq[d] \/ (seq[c] = seq[d] /\ TiesBefore(c, d))

\* Mutant of StaysOn: the use count is compared with <= instead of <.
StaysOnOneTooMany(c, S, seq, count) ==
    IsMostRecent(c, S, seq) /\ seq[c] > 0 /\ count[c] <= Limit

\* Mutant of StaysOn: the use count is not compared at all.
StaysOnForever(c, S, seq, count) == IsMostRecent(c, S, seq) /\ seq[c] > 0

StaysOn(c, S, seq, count) ==
    IsMostRecent(c, S, seq) /\ seq[c] > 0 /\ count[c] < Limit

\* selectRoundRobin, under rrMu: the connection chosen among S, and the number of
\* consecutive uses it is left with.
Chooses(c, S, seq, count) ==
    IF \E d \in S : StaysOn(d, S, seq, count)
    THEN StaysOn(c, S, seq, count)
    ELSE IsLeastRecent(c, S, seq)

UseCount(c, S, seq, count) ==
    IF StaysOn(c, S, seq, count) THEN count[c] + 1 ELSE 1
=============================================================================
