------------------------- MODULE RoundRobin_proofs -------------------------
(***************************************************************************)
(* Proofs about RoundRobin for any connections, priorities and sticky      *)
(* limit.                                                                  *)
(***************************************************************************)
EXTENDS RoundRobin, TLAPS

USE ConnsAssumption

LEMMA LimitType == Limit \in Nat \ {0}
BY DEF Limit

(* StickyBound is not inductive: streak counts only the selections that    *)
(* had an alternative, and it is bounded because consecutiveUseCount       *)
(* counts those and more, and because a connection in the middle of a      *)
(* streak is the most recently used one, which the move to the least       *)
(* recently used one cannot choose again while it has an alternative.      *)
StreakCounted == \A c \in Conns : streak[c] <= count[c]

StreakIsLatest ==
    \A c, d \in Conns : streak[c] > 0 /\ d # c => seq[d] < seq[c]

(* Likewise a connection chosen while c waits was used after c, so that    *)
(* only its sticky uses, which the use count bounds, can come before c.    *)
PassesCounted ==
    \A c, d \in Conns : passed[c][d] > 0 => passed[c][d] <= count[d] /\ seq[c] < seq[d]

IInv == TypeOK /\ StreakCounted /\ StreakIsLatest /\ PassesCounted

LEMMA InitInv == Init => IInv
BY LimitType DEF Init, IInv, TypeOK, StreakCounted, StreakIsLatest, PassesCounted

\* What one selection does to the connection it chooses.
LEMMA ChoiceBounds ==
    ASSUME IInv, NEW S \in SUBSET Conns, NEW c \in S, Chooses(c, S, seq, count)
    PROVE  /\ UseCount(c, S, seq, count) \in 1..Limit
           /\ S # {c} => streak[c] + 1 <= UseCount(c, S, seq, count)
           /\ \A w \in S \ {c} : passed[w][c] + 1 <= UseCount(c, S, seq, count)
<1>. USE DEF IInv, TypeOK
<1>0. Limit \in Nat \ {0} BY LimitType
<1>1. CASE StaysOn(c, S, seq, count)
  <2>1. count[c] < Limit BY <1>1 DEF StaysOn
  <2>2. UseCount(c, S, seq, count) = count[c] + 1 BY <1>1 DEF UseCount
  <2>3. streak[c] <= count[c] BY DEF StreakCounted
  <2>4. \A w \in Conns : passed[w][c] <= count[c] BY DEF PassesCounted
  <2>. QED BY <1>0, <2>1, <2>2, <2>3, <2>4
<1>2. CASE ~ StaysOn(c, S, seq, count)
  <2>1. UseCount(c, S, seq, count) = 1 BY <1>2 DEF UseCount
  <2>2. IsLeastRecent(c, S, seq) BY <1>2 DEF Chooses
  <2>3. ASSUME S # {c} PROVE streak[c] = 0
    <3>1. PICK d \in S : d # c BY <2>3
    <3>2. seq[c] <= seq[d] BY <2>2, <3>1 DEF IsLeastRecent
    <3>3. ~ (streak[c] > 0) BY <3>1, <3>2 DEF StreakIsLatest
    <3>. QED BY <3>3
  <2>4. ASSUME NEW w \in S \ {c} PROVE passed[w][c] = 0
    <3>1. seq[c] <= seq[w] BY <2>2 DEF IsLeastRecent
    <3>2. ~ (passed[w][c] > 0) BY <3>1 DEF PassesCounted
    <3>3. passed[w][c] \in Nat OBVIOUS
    <3>. QED BY <3>2, <3>3
  <2>. QED BY <1>0, <2>1, <2>3, <2>4
<1>. QED BY <1>1, <1>2

LEMMA SelectInv ==
    ASSUME IInv, NEW S \in SUBSET Conns, Select(S)
    PROVE  IInv'
<1>. USE DEF IInv, TypeOK
<1>1. PICK c \in S :
        /\ Chooses(c, S, seq, count)
        /\ touchRR(c, UseCount(c, S, seq, count))
        /\ passed' = [w \in Conns |-> IF w \in S \ {c}
                                      THEN [passed[w] EXCEPT ![c] = @ + 1]
                                      ELSE [d \in Conns |-> 0]]
        /\ streak' = [d \in Conns |-> IF d = c /\ S # {c} THEN streak[d] + 1 ELSE 0]
  BY DEF Select
<1>. DEFINE n == UseCount(c, S, seq, count)
<1>2. /\ n \in 1..Limit
      /\ S # {c} => streak[c] + 1 <= n
      /\ \A w \in S \ {c} : passed[w][c] + 1 <= n
  BY <1>1, ChoiceBounds
<1>3. Limit \in Nat \ {0} BY LimitType
<1>. HIDE DEF n
<1>4. /\ count' = [count EXCEPT ![c] = n]
      /\ rrSeq' = rrSeq + 1
      /\ seq' = [seq EXCEPT ![c] = rrSeq + 1]
  BY <1>1 DEF touchRR, n
<1>5. TypeOK'
  <2>1. count' \in [Conns -> 0..Limit] BY <1>2, <1>3, <1>4
  <2>2. \A d \in Conns : seq[d] \in 0..(rrSeq + 1) OBVIOUS
  <2>3. seq' \in [Conns -> 0..rrSeq'] BY <1>4, <2>2
  <2>. QED BY <1>1, <1>4, <2>1, <2>3
<1>6. StreakCounted'
  <2>1. ASSUME NEW d \in Conns PROVE streak'[d] <= count'[d]
    <3>1. CASE d = c /\ S # {c} BY <1>1, <1>2, <1>3, <1>4, <3>1
    <3>2. CASE ~ (d = c /\ S # {c}) BY <1>1, <1>5, <1>3, <3>2
    <3>. QED BY <3>1, <3>2
  <2>. QED BY <2>1 DEF StreakCounted
<1>7. StreakIsLatest'
  <2>1. ASSUME NEW d \in Conns, NEW e \in Conns, streak'[d] > 0, e # d
        PROVE  seq'[e] < seq'[d]
    <3>1. d = c BY <1>1, <2>1
    <3>2. seq'[e] = seq[e] /\ seq'[d] = rrSeq + 1 BY <1>4, <2>1, <3>1
    <3>. QED BY <3>2
  <2>. QED BY <2>1 DEF StreakIsLatest
<1>8. PassesCounted'
  <2>1. ASSUME NEW w \in Conns, NEW d \in Conns, passed'[w][d] > 0
        PROVE  passed'[w][d] <= count'[d] /\ seq'[w] < seq'[d]
    <3>1. w \in S \ {c} BY <1>1, <2>1
    <3>2. passed'[w] = [passed[w] EXCEPT ![c] = @ + 1] BY <1>1, <3>1
    <3>3. seq'[w] = seq[w] /\ seq[w] <= rrSeq BY <1>4, <3>1
    <3>4. CASE d = c
      <4>1. passed'[w][d] = passed[w][c] + 1 BY <3>2, <3>4
      <4>2. count'[d] = n /\ seq'[d] = rrSeq + 1 BY <1>4, <3>4
      <4>. QED BY <1>2, <3>1, <3>3, <4>1, <4>2
    <3>5. CASE d # c
      <4>1. passed'[w][d] = passed[w][d] BY <3>2, <3>5
      <4>2. count'[d] = count[d] /\ seq'[d] = seq[d] BY <1>4, <3>5
      <4>. QED BY <2>1, <3>3, <4>1, <4>2 DEF PassesCounted
    <3>. QED BY <3>4, <3>5
  <2>. QED BY <2>1 DEF PassesCounted
<1>. QED BY <1>5, <1>6, <1>7, <1>8

LEMMA NextInv == IInv /\ [Next]_vars => IInv'
<1>. SUFFICES ASSUME IInv, [Next]_vars PROVE IInv'
  OBVIOUS
<1>1. ASSUME NEW S \in (SUBSET Conns) \ {{}}, Select(S) PROVE IInv' BY <1>1, SelectInv
<1>2. CASE Restart
  BY <1>2, LimitType DEF Restart, IInv, TypeOK, StreakCounted, StreakIsLatest, PassesCounted
<1>3. CASE UNCHANGED vars
  BY <1>3 DEF vars, IInv, TypeOK, StreakCounted, StreakIsLatest, PassesCounted
<1>. QED BY <1>1, <1>2, <1>3 DEF Next

THEOREM Invariance == Spec => []IInv
BY InitInv, NextInv, PTL DEF Spec

(* Use counts never exceed the sticky limit and no connection was used      *)
(* later than the latest selection (touchRR), for any sets on offer.        *)
THEOREM TypeCorrect == Spec => []TypeOK
<1>1. IInv => TypeOK BY DEF IInv
<1>. QED BY <1>1, Invariance, PTL

(* However the sets on offer vary, no connection is chosen more than Limit *)
(* times in a row while another one is on offer (selectRoundRobin).        *)
THEOREM Sticky == Spec => []StickyBound
<1>1. IInv => StickyBound
  <2>. SUFFICES ASSUME IInv, NEW c \in Conns PROVE streak[c] <= Limit
    BY DEF StickyBound
  <2>1. streak[c] <= count[c] /\ count[c] \in 0..Limit /\ streak[c] \in Nat
    BY DEF IInv, TypeOK, StreakCounted
  <2>. QED BY <2>1, LimitType
<1>. QED BY <1>1, Invariance, PTL

(* While a connection waits, each other one is chosen at most Limit times  *)
(* before it.                                                              *)
THEOREM Rotation == Spec => []NoStarvation
<1>1. IInv => NoStarvation
  <2>. SUFFICES ASSUME IInv, NEW c \in Conns, NEW d \in Conns PROVE passed[c][d] <= Limit
    BY DEF NoStarvation
  <2>1. count[d] \in 0..Limit /\ passed[c][d] \in Nat BY DEF IInv, TypeOK
  <2>2. passed[c][d] > 0 => passed[c][d] <= count[d] BY DEF IInv, PassesCounted
  <2>. QED BY <2>1, <2>2, LimitType
<1>. QED BY <1>1, Invariance, PTL
=============================================================================
