---------------------- MODULE AccountFallback_proofs ----------------------
(***************************************************************************)
(* Proofs about AccountFallback for any connections, requests, cooldowns   *)
(* and clock bound.                                                        *)
(***************************************************************************)
EXTENDS AccountFallback, TLAPS

USE ConnsAssumption, AccountAssumption

LEMMA LimitType == Limit \in Nat \ {0}
BY DEF Limit

\* The use count a selection leaves behind is within the sticky limit.
LEMMA UseCountType ==
    ASSUME NEW S \in SUBSET Conns, NEW c \in S,
           NEW sq, NEW ct \in [Conns -> 0..Limit]
    PROVE  UseCount(c, S, sq, ct) \in 0..Limit
<1>1. Limit \in Nat \ {0} BY LimitType
<1>2. ct[c] \in 0..Limit OBVIOUS
<1>3. StaysOn(c, S, sq, ct) => ct[c] < Limit BY DEF StaysOn
<1>. QED BY <1>1, <1>2, <1>3 DEF UseCount

LEMMA CooldownType ==
    ASSUME NEW l \in 0..MaxLevel
    PROVE  /\ NextLevel(l) \in 0..MaxLevel
           /\ GetQuotaCooldown(l) \in Int
<1>1. NextLevel(l) \in 0..MaxLevel BY DEF NextLevel
<1>2. (IF l > 1 THEN l - 1 ELSE 0) \in Nat OBVIOUS
<1>3. \A n \in Nat : 2 ^ n \in Int BY SMT
<1>4. Base * 2 ^ (IF l > 1 THEN l - 1 ELSE 0) \in Int BY <1>2, <1>3
<1>. QED BY <1>1, <1>4 DEF GetQuotaCooldown

LEMMA VerdictType ==
    ASSUME NEW l \in 0..MaxLevel, NEW v \in Verdicts(l)
    PROVE  v.cooldown \in Int /\ v.level \in 0..MaxLevel
<1>1. NextLevel(l) \in 0..MaxLevel BY CooldownType
<1>2. GetQuotaCooldown(NextLevel(l)) \in Int BY <1>1, CooldownType
<1>3. l \in 0..MaxLevel /\ Transient \in Int /\ Denials \subseteq Int /\ ResetDelays \subseteq Int
  OBVIOUS
<1>4. CASE v \in Announced(l) BY <1>3, <1>4 DEF Announced
<1>5. CASE v \in Denied(l) BY <1>3, <1>5 DEF Denied
<1>6. CASE v = QuotaError(l)
  <2>1. v.cooldown = GetQuotaCooldown(NextLevel(l)) BY <1>6 DEF QuotaError
  <2>2. v.level = NextLevel(l) BY <1>6 DEF QuotaError
  <2>. QED BY <1>1, <1>2, <2>1, <2>2
<1>7. CASE v = TransientError(l) BY <1>3, <1>7 DEF TransientError
<1>. QED BY <1>4, <1>5, <1>6, <1>7 DEF Verdicts

LEMMA UntilType ==
    ASSUME TypeOK, NEW cooldown \in Int
    PROVE  GetUnavailableUntil(cooldown) \in Int
<1>1. now + cooldown \in Int BY DEF TypeOK
<1>2. \A x \in Int : x \div Second \in Int BY SMT
<1>3. (now + cooldown) \div Second \in Int BY <1>1, <1>2
<1>. QED BY <1>3 DEF GetUnavailableUntil

\* What MarkUnavailable leaves behind, whichever verdict and store outcome.
LEMMA MarkType ==
    ASSUME TypeOK, NEW a \in Accounts, NEW v \in Verdicts(level[a]), MarkUnavailable(a, v)
    PROVE  /\ until' \in [Conns -> Int]
           /\ level' \in [Accounts -> 0..MaxLevel]
           /\ marked' \in [Requests -> SUBSET Accounts]
           /\ \A c \in Conns : c # a => until'[c] = until[c]
<1>1. level[a] \in 0..MaxLevel BY DEF TypeOK
<1>2. v.cooldown \in Int /\ v.level \in 0..MaxLevel BY <1>1, VerdictType
<1>3. GetUnavailableUntil(v.cooldown) \in Int BY <1>2, UntilType
<1>4. until' \in [Conns -> Int] BY <1>3 DEF MarkUnavailable, SetUntil, TypeOK
<1>5. level' \in [Accounts -> 0..MaxLevel] BY <1>2 DEF MarkUnavailable, TypeOK
<1>6. marked' \in [Requests -> SUBSET Accounts] BY DEF MarkUnavailable, TypeOK
<1>7. \A c \in Conns : c # a => until'[c] = until[c] BY DEF MarkUnavailable, SetUntil, TypeOK
<1>. QED BY <1>4, <1>5, <1>6, <1>7

LEMMA ClearType ==
    ASSUME TypeOK, NEW a \in Accounts, ClearError(a)
    PROVE  /\ until' \in [Conns -> Int]
           /\ level' \in [Accounts -> 0..MaxLevel]
           /\ \A c \in Conns : c # a => until'[c] = until[c]
           /\ \A c \in Conns : until'[c] = until[c] \/ until'[c] = 0
BY DEF ClearError, SetUntil, TypeOK

-----------------------------------------------------------------------------
(* Types.                                                                  *)

LEMMA StepType ==
    ASSUME TypeOK, LocalsSet, [Next]_vars
    PROVE  TypeOK'
<1>. USE DEF TypeOK, store, memory, local
<1>1. ASSUME NEW r \in Requests, Arrive(r) PROVE TypeOK'
  BY <1>1 DEF Arrive, Handlers
<1>2. ASSUME NEW r \in Requests, SelectFillFirst(r) PROVE TypeOK'
  <2>1. Available(excluded[r]) \subseteq Conns BY DEF Available
  <2>. QED BY <1>2, <2>1 DEF SelectFillFirst, Dispatch, ReadsStore, Accounts
<1>3. ASSUME NEW r \in Requests, ListAvailable(r) PROVE TypeOK'
  <2>1. Available(excluded[r]) \subseteq Conns BY DEF Available
  <2>. QED BY <1>3, <2>1 DEF ListAvailable, ReadsStore
<1>4. ASSUME NEW r \in Requests, Rotate(r) PROVE TypeOK'
  <2>1. PICK c \in listed[r] :
          /\ count' = [count EXCEPT ![c] = UseCount(c, listed[r], seq, count)]
          /\ rrSeq' = rrSeq + 1
          /\ seq' = [seq EXCEPT ![c] = rrSeq']
          /\ Dispatch(r, c)
    BY <1>4 DEF Rotate
  <2>2. listed[r] \in SUBSET Conns OBVIOUS
  <2>3. UseCount(c, listed[r], seq, count) \in 0..Limit BY <2>2, UseCountType
  <2>4. count' \in [Conns -> 0..Limit] BY <2>1, <2>3
  <2>5. rrSeq' \in Nat /\ \A d \in Conns : seq[d] \in 0..rrSeq' BY <2>1
  <2>6. seq' \in [Conns -> 0..rrSeq'] BY <2>1, <2>5
  <2>7. pc' \in [Requests -> {"idle", "select", "rotate", "execute", "relay", "done"}]
    BY <2>1 DEF Dispatch
  <2>8. conn' \in [Requests -> Accounts \cup {NoConn}] BY <2>1, <2>2 DEF Dispatch, Accounts
  <2>9. listed' \in [Requests -> SUBSET Conns] BY <1>4 DEF Rotate
  <2>. QED BY <1>4, <2>4, <2>5, <2>6, <2>7, <2>8, <2>9 DEF Rotate
<1>5. ASSUME NEW r \in Requests, Synthesize(r) PROVE TypeOK'
  BY <1>5 DEF Synthesize, Dispatch, ReadsStore, Accounts
<1>6. ASSUME NEW r \in Requests, NEW a \in Answers, Finish(r, a)
      PROVE  /\ pc' \in [Requests -> {"idle", "select", "rotate", "execute", "relay", "done"}]
             /\ answer' \in [Requests -> Answers]
             /\ kind' \in [Requests -> Handlers]
             /\ policy' \in [Requests -> {"fill-first", "round-robin"}]
             /\ excluded' \in [Requests -> SUBSET Accounts]
             /\ conn' \in [Requests -> Accounts \cup {NoConn}]
             /\ gone' \subseteq Requests
             /\ marked' \in [Requests -> SUBSET Accounts]
  BY <1>6 DEF Finish, Handlers
<1>7. ASSUME NEW r \in Requests, Exhaust(r) PROVE TypeOK'
  <2>1. PICK a \in Answers : Finish(r, a) BY <1>7, Zenon DEF Exhaust, Answers
  <2>. QED BY <1>7, <2>1, <1>6 DEF Exhaust
<1>8. ASSUME NEW r \in Requests, FailOver(r) PROVE TypeOK'
  <2>1. conn[r] \in Accounts BY <1>8 DEF FailOver, LocalsSet, InUse
  <2>2. PICK v \in Verdicts(level[conn[r]]) : MarkUnavailable(conn[r], v)
    BY <1>8 DEF FailOver, Verdicts
  <2>3. /\ until' \in [Conns -> Int]
        /\ level' \in [Accounts -> 0..MaxLevel]
        /\ marked' \in [Requests -> SUBSET Accounts]
    BY <2>1, <2>2, MarkType
  <2>. QED BY <1>8, <2>1, <2>3 DEF FailOver
<1>9. ASSUME NEW r \in Requests, PassError(r) PROVE TypeOK'
  <2>1. PICK a \in Answers : Finish(r, a) BY <1>9 DEF PassError, Answers
  <2>. QED BY <1>9, <2>1, <1>6 DEF PassError
<1>10. ASSUME NEW r \in Requests, Succeed(r) PROVE TypeOK'
  <2>1. conn[r] \in Accounts BY <1>10 DEF Succeed, LocalsSet, InUse
  <2>2. until' \in [Conns -> Int] /\ level' \in [Accounts -> 0..MaxLevel]
    BY <1>10, <2>1, ClearType DEF Succeed
  <2>3. CASE kind[r] = "media"
    BY <1>10, <2>2, <2>3, <1>6 DEF Succeed, Answers
  <2>4. CASE kind[r] # "media"
    BY <1>10, <2>2, <2>4 DEF Succeed
  <2>. QED BY <2>3, <2>4
<1>11. ASSUME NEW r \in Requests, FinishRelay(r) PROVE TypeOK'
  <2>1. conn[r] \in Accounts BY <1>11 DEF FinishRelay, LocalsSet, InUse
  <2>2. until' \in [Conns -> Int] /\ level' \in [Accounts -> 0..MaxLevel]
    BY <1>11, <2>1, ClearType DEF FinishRelay
  <2>. QED BY <1>11, <2>2, <1>6 DEF FinishRelay, Answers
<1>12. ASSUME NEW r \in Requests, Disconnect(r) PROVE TypeOK'
  BY <1>12 DEF Disconnect
<1>13. ASSUME NEW c \in Conns, EditConnection(c) PROVE TypeOK'
  BY <1>13 DEF EditConnection
<1>14. CASE Restart
  BY <1>14, LimitType DEF Restart, Handlers, Answers
<1>15. CASE Tick
  BY <1>15 DEF Tick
<1>16. CASE UNCHANGED vars
  BY <1>16 DEF vars
<1>. QED BY <1>1, <1>2, <1>3, <1>4, <1>5, <1>7, <1>8, <1>9, <1>10, <1>11, <1>12, <1>13,
            <1>14, <1>15, <1>16 DEF Next, Serve

-----------------------------------------------------------------------------
(* The handlers' local variables.                                          *)

LEMMA StepLocals ==
    ASSUME TypeOK, LocalsSet, [Next]_vars
    PROVE  LocalsSet'
<1>. USE DEF TypeOK, LocalsSet, InUse, store, memory, local
<1>1. ASSUME NEW r \in Requests, Arrive(r) PROVE LocalsSet' BY <1>1 DEF Arrive
<1>2. ASSUME NEW r \in Requests, SelectFillFirst(r) PROVE LocalsSet'
  BY <1>2 DEF SelectFillFirst, Dispatch, Available, Accounts
<1>3. ASSUME NEW r \in Requests, ListAvailable(r) PROVE LocalsSet' BY <1>3 DEF ListAvailable
<1>4. ASSUME NEW r \in Requests, Rotate(r) PROVE LocalsSet'
  BY <1>4 DEF Rotate, Dispatch, Accounts
<1>5. ASSUME NEW r \in Requests, Synthesize(r) PROVE LocalsSet'
  BY <1>5 DEF Synthesize, Dispatch, Accounts
<1>6. ASSUME NEW r \in Requests, NEW a, Finish(r, a), pc[r] # "rotate", listed' = listed
      PROVE  LocalsSet'
  BY <1>6 DEF Finish
<1>7. ASSUME NEW r \in Requests, Exhaust(r) PROVE LocalsSet' BY <1>7, <1>6 DEF Exhaust
<1>8. ASSUME NEW r \in Requests, FailOver(r) PROVE LocalsSet' BY <1>8 DEF FailOver
<1>9. ASSUME NEW r \in Requests, PassError(r) PROVE LocalsSet' BY <1>9, <1>6 DEF PassError
<1>10. ASSUME NEW r \in Requests, Succeed(r) PROVE LocalsSet'
  <2>1. CASE kind[r] = "media" BY <1>10, <2>1, <1>6 DEF Succeed
  <2>2. CASE kind[r] # "media" BY <1>10, <2>2 DEF Succeed
  <2>. QED BY <2>1, <2>2
<1>11. ASSUME NEW r \in Requests, FinishRelay(r) PROVE LocalsSet'
  BY <1>11, <1>6 DEF FinishRelay
<1>12. ASSUME NEW r \in Requests, Disconnect(r) PROVE LocalsSet' BY <1>12 DEF Disconnect
<1>13. ASSUME NEW c \in Conns, EditConnection(c) PROVE LocalsSet' BY <1>13 DEF EditConnection
<1>14. CASE Restart BY <1>14 DEF Restart, Serving
<1>15. CASE Tick BY <1>15 DEF Tick
<1>16. CASE UNCHANGED vars BY <1>16 DEF vars
<1>. QED BY <1>1, <1>2, <1>3, <1>4, <1>5, <1>7, <1>8, <1>9, <1>10, <1>11, <1>12, <1>13,
            <1>14, <1>15, <1>16 DEF Next, Serve

-----------------------------------------------------------------------------
(* The excluded set.                                                       *)

LEMMA StepNeverRetries ==
    ASSUME TypeOK, LocalsSet, NeverRetriesFailed, [Next]_vars
    PROVE  NeverRetriesFailed'
<1>. USE DEF TypeOK, LocalsSet, NeverRetriesFailed, InUse, store, memory, local
<1>1. ASSUME NEW r \in Requests, Arrive(r) PROVE NeverRetriesFailed' BY <1>1 DEF Arrive
<1>2. ASSUME NEW r \in Requests, SelectFillFirst(r) PROVE NeverRetriesFailed'
  BY <1>2 DEF SelectFillFirst, Dispatch, Available
<1>3. ASSUME NEW r \in Requests, ListAvailable(r) PROVE NeverRetriesFailed'
  BY <1>3 DEF ListAvailable, Available
<1>4. ASSUME NEW r \in Requests, Rotate(r) PROVE NeverRetriesFailed'
  BY <1>4 DEF Rotate, Dispatch
<1>5. ASSUME NEW r \in Requests, Synthesize(r) PROVE NeverRetriesFailed'
  BY <1>5 DEF Synthesize, Dispatch, MaySynthesize
<1>6. ASSUME NEW r \in Requests, NEW a, Finish(r, a), pc[r] # "rotate", listed' = listed
      PROVE  NeverRetriesFailed'
  BY <1>6 DEF Finish
<1>7. ASSUME NEW r \in Requests, Exhaust(r) PROVE NeverRetriesFailed' BY <1>7, <1>6 DEF Exhaust
<1>8. ASSUME NEW r \in Requests, FailOver(r) PROVE NeverRetriesFailed'
  <2>1. NoConn \notin Accounts BY DEF Accounts
  <2>2. conn[r] \in Accounts /\ listed[r] = {} BY <1>8 DEF FailOver
  <2>. QED BY <1>8, <2>1, <2>2 DEF FailOver
<1>9. ASSUME NEW r \in Requests, PassError(r) PROVE NeverRetriesFailed'
  BY <1>9, <1>6 DEF PassError
<1>10. ASSUME NEW r \in Requests, Succeed(r) PROVE NeverRetriesFailed'
  <2>1. CASE kind[r] = "media" BY <1>10, <2>1, <1>6 DEF Succeed
  <2>2. CASE kind[r] # "media" BY <1>10, <2>2 DEF Succeed
  <2>. QED BY <2>1, <2>2
<1>11. ASSUME NEW r \in Requests, FinishRelay(r) PROVE NeverRetriesFailed'
  BY <1>11, <1>6 DEF FinishRelay
<1>12. ASSUME NEW r \in Requests, Disconnect(r) PROVE NeverRetriesFailed'
  BY <1>12 DEF Disconnect
<1>13. ASSUME NEW c \in Conns, EditConnection(c) PROVE NeverRetriesFailed'
  BY <1>13 DEF EditConnection
<1>14. CASE Restart BY <1>14 DEF Restart
<1>15. CASE Tick BY <1>15 DEF Tick
<1>16. CASE UNCHANGED vars BY <1>16 DEF vars
<1>. QED BY <1>1, <1>2, <1>3, <1>4, <1>5, <1>7, <1>8, <1>9, <1>10, <1>11, <1>12, <1>13,
            <1>14, <1>15, <1>16 DEF Next, Serve

-----------------------------------------------------------------------------
(* The cooldowns.                                                          *)

\* A step that neither marks anyone nor moves a cooldown forward keeps the invariant
\* for every request it leaves where it was.
LEMMA StepNoDispatch ==
    ASSUME TypeOK, LocalsSet, NoDispatchIntoCooldown, [Next]_vars
    PROVE  NoDispatchIntoCooldown'
<1>. USE DEF TypeOK, LocalsSet, NoDispatchIntoCooldown, InUse, Cooling, store, memory, local
<1>1. ASSUME NEW r \in Requests, Arrive(r) PROVE NoDispatchIntoCooldown' BY <1>1 DEF Arrive
<1>2. ASSUME NEW r \in Requests, SelectFillFirst(r) PROVE NoDispatchIntoCooldown'
  BY <1>2 DEF SelectFillFirst, Dispatch, Available, ReadsStore
<1>3. ASSUME NEW r \in Requests, ListAvailable(r) PROVE NoDispatchIntoCooldown'
  BY <1>3 DEF ListAvailable, Available, ReadsStore
<1>4. ASSUME NEW r \in Requests, Rotate(r) PROVE NoDispatchIntoCooldown'
  BY <1>4 DEF Rotate, Dispatch
<1>5. ASSUME NEW r \in Requests, Synthesize(r) PROVE NoDispatchIntoCooldown'
  BY <1>5 DEF Synthesize, Dispatch, ReadsStore
<1>6. ASSUME NEW r \in Requests, NEW a, Finish(r, a), pc[r] # "rotate", listed' = listed,
             now' = now, \A c \in Conns : until'[c] = until[c] \/ until'[c] = 0
      PROVE  NoDispatchIntoCooldown'
  BY <1>6 DEF Finish
<1>7. ASSUME NEW r \in Requests, Exhaust(r) PROVE NoDispatchIntoCooldown'
  BY <1>7, <1>6 DEF Exhaust
<1>8. ASSUME NEW r \in Requests, FailOver(r) PROVE NoDispatchIntoCooldown'
  <2>1. conn[r] \in Accounts /\ listed[r] = {} BY <1>8 DEF FailOver
  <2>2. PICK v \in Verdicts(level[conn[r]]) : MarkUnavailable(conn[r], v)
    BY <1>8 DEF FailOver, Verdicts
  <2>3. \A c \in Conns : c # conn[r] => until'[c] = until[c]
    BY <2>1, <2>2, MarkType
  <2>4. /\ now' = now /\ listed' = listed
        /\ pc' = [pc EXCEPT ![r] = "select"] /\ conn' = [conn EXCEPT ![r] = NoConn]
    BY <1>8 DEF FailOver
  <2>5. marked' = [q \in Requests |->
           IF pc[q] \in {"rotate", "execute", "relay"} THEN marked[q] \cup {conn[r]} ELSE {}]
    BY <2>2 DEF MarkUnavailable
  <2>6. ASSUME NEW q \in Requests, InUse(q)', conn'[q] \in Conns, Cooling(conn[q])'
        PROVE  conn'[q] \in marked'[q]
    <3>1. q # r /\ InUse(q) /\ conn'[q] = conn[q] BY <2>4, <2>6
    <3>. QED BY <2>3, <2>4, <2>5, <2>6, <3>1
  <2>7. ASSUME NEW q \in Requests, NEW c \in listed'[q], Cooling(c)'
        PROVE  c \in marked'[q]
    <3>1. pc[q] = "rotate" /\ c \in listed[q] BY <2>4, <2>7
    <3>. QED BY <2>3, <2>4, <2>5, <2>7, <3>1
  <2>. QED BY <2>6, <2>7
<1>9. ASSUME NEW r \in Requests, PassError(r) PROVE NoDispatchIntoCooldown'
  BY <1>9, <1>6 DEF PassError
<1>10. ASSUME NEW r \in Requests, Succeed(r) PROVE NoDispatchIntoCooldown'
  <2>1. conn[r] \in Accounts /\ listed[r] = {} BY <1>10 DEF Succeed
  <2>2. \A c \in Conns : until'[c] = until[c] \/ until'[c] = 0
    BY <1>10, <2>1, ClearType DEF Succeed
  <2>3. CASE kind[r] = "media" BY <1>10, <2>2, <2>3, <1>6 DEF Succeed
  <2>4. CASE kind[r] # "media" BY <1>10, <2>1, <2>2, <2>4 DEF Succeed
  <2>. QED BY <2>3, <2>4
<1>11. ASSUME NEW r \in Requests, FinishRelay(r) PROVE NoDispatchIntoCooldown'
  <2>1. conn[r] \in Accounts BY <1>11 DEF FinishRelay
  <2>2. \A c \in Conns : until'[c] = until[c] \/ until'[c] = 0
    BY <1>11, <2>1, ClearType DEF FinishRelay
  <2>. QED BY <1>11, <2>2, <1>6 DEF FinishRelay
<1>12. ASSUME NEW r \in Requests, Disconnect(r) PROVE NoDispatchIntoCooldown'
  BY <1>12 DEF Disconnect
<1>13. ASSUME NEW c \in Conns, EditConnection(c) PROVE NoDispatchIntoCooldown'
  BY <1>13 DEF EditConnection
<1>14. CASE Restart BY <1>14 DEF Restart
<1>15. CASE Tick BY <1>15 DEF Tick
<1>16. CASE UNCHANGED vars BY <1>16 DEF vars
<1>. QED BY <1>1, <1>2, <1>3, <1>4, <1>5, <1>7, <1>8, <1>9, <1>10, <1>11, <1>12, <1>13,
            <1>14, <1>15, <1>16 DEF Next, Serve

-----------------------------------------------------------------------------
LEMMA InitInv == Init => IInv
<1>. USE LimitType DEF Init, IInv
<1>1. Init => TypeOK BY DEF TypeOK, Handlers, Answers, Accounts
<1>2. Init => LocalsSet BY DEF LocalsSet, InUse
<1>3. Init => NoDispatchIntoCooldown BY DEF NoDispatchIntoCooldown, InUse
<1>4. Init => NeverRetriesFailed BY DEF NeverRetriesFailed
<1>. QED BY <1>1, <1>2, <1>3, <1>4

THEOREM Invariance == Spec => []IInv
<1>1. Init => IInv BY InitInv
<1>2. IInv /\ [Next]_vars => IInv'
  BY StepType, StepLocals, StepNeverRetries, StepNoDispatch DEF IInv
<1>. QED BY <1>1, <1>2, PTL DEF Spec

(* TypeOK holds for every instance.                                        *)
THEOREM TypeCorrect == Spec => []TypeOK
<1>1. IInv => TypeOK BY DEF IInv
<1>. QED BY <1>1, Invariance, PTL

(* No request is ever sent to an account it could have known to be cooling *)
(* down: the circuit breaker of SelectAccountExcluding and                 *)
(* selectRoundRobin, for any number of concurrent requests.                *)
THEOREM CircuitBreaking == Spec => []NoDispatchIntoCooldown
<1>1. IInv => NoDispatchIntoCooldown BY DEF IInv
<1>. QED BY <1>1, Invariance, PTL

(* A request tries each account at most once (excludeIDs), which is why    *)
(* the loops of handleWithFallback and streamModel end.                    *)
THEOREM Exclusion == Spec => []NeverRetriesFailed
<1>1. IInv => NeverRetriesFailed BY DEF IInv
<1>. QED BY <1>1, Invariance, PTL

LEMMA StepShortens ==
    ASSUME IInv, Next, NEW c \in Conns, ShortensCooldown(c)
    PROVE  \E r \in Requests : InUse(r) /\ conn[r] = c /\ c \in marked[r] /\ pc'[r] # pc[r]
<1>. USE DEF IInv, TypeOK, LocalsSet, InUse
<1>1. until'[c] # until[c] BY DEF ShortensCooldown
<1>2. Cooling(c) BY DEF ShortensCooldown
<1>3. ASSUME NEW r \in Requests, FailOver(r) \/ Succeed(r) \/ FinishRelay(r)
      PROVE  InUse(r) /\ conn[r] = c /\ c \in marked[r] /\ pc'[r] # pc[r]
  <2>1. InUse(r) /\ conn[r] \in Accounts BY <1>3 DEF FailOver, Succeed, FinishRelay
  <2>2. pc'[r] # pc[r] BY <1>3 DEF FailOver, Succeed, FinishRelay, Finish
  <2>3. conn[r] = c
    <3>1. CASE FailOver(r)
      <4>1. PICK v \in Verdicts(level[conn[r]]) : MarkUnavailable(conn[r], v)
        BY <3>1 DEF FailOver, Verdicts
      <4>. QED BY <1>1, <2>1, <4>1, MarkType
    <3>2. CASE Succeed(r) BY <1>1, <2>1, <3>2, ClearType DEF Succeed
    <3>3. CASE FinishRelay(r) BY <1>1, <2>1, <3>3, ClearType DEF FinishRelay
    <3>. QED BY <1>3, <3>1, <3>2, <3>3
  <2>. QED BY <1>2, <2>1, <2>2, <2>3 DEF NoDispatchIntoCooldown
<1>4. ASSUME NEW r \in Requests,
             \/ Arrive(r) \/ SelectFillFirst(r) \/ ListAvailable(r) \/ Rotate(r)
             \/ Synthesize(r) \/ Exhaust(r) \/ PassError(r) \/ Disconnect(r)
      PROVE  until' = until
  BY <1>4 DEF Arrive, SelectFillFirst, ListAvailable, Rotate, Synthesize, Exhaust, PassError,
              Disconnect, store
<1>5. ASSUME NEW d \in Conns, EditConnection(d) PROVE until' = until
  BY <1>5 DEF EditConnection
<1>6. Restart \/ Tick => until' = until BY DEF Restart, Tick, store
<1>. QED BY <1>1, <1>3, <1>4, <1>5, <1>6 DEF Next, Serve

(* A cooldown in force ends early only through a request that was already  *)
(* on the account when it was marked: a late ClearError or a late, shorter *)
(* MarkUnavailable.                                                        *)
THEOREM CooldownOverrides == Spec => OnlyOlderRequestsShorten
<1>1. IInv /\ [Next]_vars =>
        [\A c \in Conns : ShortensCooldown(c) =>
            \E r \in Requests : InUse(r) /\ conn[r] = c /\ c \in marked[r] /\ pc'[r] # pc[r]]_vars
  BY StepShortens
<1>. QED BY <1>1, Invariance, PTL DEF Spec, OnlyOlderRequestsShorten
=============================================================================
