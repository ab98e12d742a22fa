----------------------------- MODULE RoundRobin -----------------------------
(***************************************************************************)
(* The round-robin state of the account fallback (rr, rrSeq under rrMu)    *)
(* driven by an arbitrary sequence of selections.  Which connections a     *)
(* selection may choose from is decided by the store and by the request's  *)
(* excluded set before the mutex is taken, so each selection brings any    *)
(* non-empty set of connections.                                           *)
(***************************************************************************)
EXTENDS RoundRobinOps

CONSTANT MaxSelections      \* bound: selections in a behaviour

VARIABLES
    count,      \* rrConnState.consecutiveUseCount
    seq,        \* rrConnState.lastUsedSeq
    rrSeq,      \* Fallback.rrSeq
    passed,     \* history: passed[c][d], how often d was chosen while c was waiting:
                \* on offer in every selection since, and chosen in none
    streak      \* history: selections in a row that chose c with another one on offer

vars == <<count, seq, rrSeq, passed, streak>>

TypeOK ==
    /\ count \in [Conns -> 0..Limit]
    /\ seq \in [Conns -> 0..rrSeq]
    /\ rrSeq \in Nat
    /\ passed \in [Conns -> [Conns -> Nat]]
    /\ streak \in [Conns -> Nat]

Init ==
    /\ count = [c \in Conns |-> 0]
    /\ seq = [c \in Conns |-> 0]
    /\ rrSeq = 0
    /\ passed = [c \in Conns |-> [d \in Conns |-> 0]]
    /\ streak = [c \in Conns |-> 0]

touchRR(c, n) ==
    /\ count' = [count EXCEPT ![c] = n]
    /\ rrSeq' = rrSeq + 1
    /\ seq' = [seq EXCEPT ![c] = rrSeq']

Select(S) ==
    /\ rrSeq < MaxSelections
    /\ \E c \in S :
        /\ Chooses(c, S, seq, count)
        /\ touchRR(c, UseCount(c, S, seq, count))
        /\ passed' = [w \in Conns |-> IF w \in S \ {c}
                                      THEN [passed[w] EXCEPT ![c] = @ + 1]
                                      ELSE [d \in Conns |-> 0]]
        /\ streak' = [d \in Conns |-> IF d = c /\ S # {c} THEN streak[d] + 1 ELSE 0]

\* The process restarts: rr and rrSeq live in memory only.
Restart ==
    /\ rrSeq > 0
    /\ count' = [c \in Conns |-> 0]
    /\ seq' = [c \in Conns |-> 0]
    /\ rrSeq' = 0
    /\ passed' = [c \in Conns |-> [d \in Conns |-> 0]]
    /\ streak' = [c \in Conns |-> 0]

Next == (\E S \in (SUBSET Conns) \ {{}} : Select(S)) \/ Restart

Spec == Init /\ [][Next]_vars

-----------------------------------------------------------------------------
(* However the sets on offer vary, a connection is not chosen more than     *)
(* Limit times in a row while another one is on offer                       *)
(* (consecutiveUseCount, selectRoundRobin).                                 *)
StickyBound == \A c \in Conns : streak[c] <= Limit

(* While a connection waits, on offer in every selection, each other one is *)
(* chosen at most Limit times before it: the rotation by lastUsedSeq        *)
(* starves nobody, even when the sets on offer vary.                        *)
NoStarvation == \A c, d \in Conns : passed[c][d] <= Limit
=============================================================================
