-------------------------- MODULE QuotaPage_proofs --------------------------
(***************************************************************************)
(* The quota page, for any accounts, filters and pages, and without the    *)
(* bound on what the user does: its type, its timer and its spinners.      *)
(***************************************************************************)
EXTENDS QuotaPage, TLAPS

LEMMA PageNumbers ==
    /\ 1 \in Numbers
    /\ Numbers \subseteq Nat \ {0}
    /\ \A n \in Numbers : 1..n \subseteq Numbers
    /\ \A f \in Filters : /\ Len(Pages[f]) \in Numbers
                          /\ \A p \in 1..Len(Pages[f]) : Pages[f][p] \subseteq Accounts
<1>1. \A f \in Filters : /\ Pages[f] \in Seq(SUBSET Accounts)
                         /\ Len(Pages[f]) \in Nat \ {0}
                         /\ DOMAIN Pages[f] = 1..Len(Pages[f])
  <2>1. TAKE f \in Filters
  <2>2. Pages[f] \in Seq(SUBSET Accounts) /\ Pages[f] # <<>>
    BY QuotaAssumption
  <2>3. QED
    BY <2>2
<1>2. \A f \in Filters : Len(Pages[f]) \in DOMAIN Pages[f] /\ 1 \in DOMAIN Pages[f]
  <2>1. TAKE f \in Filters
  <2>2. Len(Pages[f]) \in 1..Len(Pages[f]) /\ 1 \in 1..Len(Pages[f])
    BY <1>1
  <2>3. QED
    BY <1>1, <2>2
<1>3. 1 \in Numbers
  BY <1>2, QuotaAssumption DEF Numbers
<1>4. Numbers \subseteq Nat \ {0}
  BY <1>1 DEF Numbers
<1>5. \A n \in Numbers : 1..n \subseteq Numbers
  BY <1>1 DEF Numbers
<1>6. \A f \in Filters : Len(Pages[f]) \in Numbers
  BY <1>2 DEF Numbers
<1>7. \A f \in Filters : \A p \in 1..Len(Pages[f]) : Pages[f][p] \subseteq Accounts
  <2>1. TAKE f \in Filters
  <2>2. TAKE p \in 1..Len(Pages[f])
  <2>3. p \in DOMAIN Pages[f]
    BY <1>1
  <2>4. Pages[f][p] \subseteq UNION {Pages[f][q] : q \in DOMAIN Pages[f]}
    BY <2>3
  <2>5. QED
    BY <2>4 DEF Accounts
<1>8. QED
  BY <1>3, <1>4, <1>5, <1>6, <1>7

-----------------------------------------------------------------------------
(* Types.                                                                  *)

LEMMA TypeInit == Init => TypeOK
<1> SUFFICES ASSUME Init  PROVE TypeOK
    OBVIOUS
<1>1. List("init", filter, 1, TRUE) \in Requests
  BY PageNumbers, QuotaAssumption DEF Init, List, Requests
<1>2. timer \in Closure \cup {None}
  BY PageNumbers, QuotaAssumption DEF Init, Closure
<1>3. 1 \in 1..1 /\ 0 \in 0..(ClaudeEvery - 1) /\ 0 \in 0..MaxEvents
  BY QuotaAssumption
<1>4. lists \subseteq Requests
  BY <1>1 DEF Init
<1>5. filter \in Filters /\ page \in Numbers /\ total \in Numbers /\ shownPage \in 1..total
  BY <1>3, PageNumbers, QuotaAssumption DEF Init
<1>6. QED
  BY <1>2, <1>3, <1>4, <1>5 DEF Init, TypeOK

\* The timer and the requests a step adds have their types if the state it sets has.
LEMMA Retimed ==
    ASSUME TypeOK, Rearm, filter' \in Filters, page' \in Numbers, refreshingAll' \in BOOLEAN
    PROVE  timer' \in Closure \cup {None}
BY DEF TypeOK, Rearm, Closure

LEMMA Initialized ==
    ASSUME NEW others \in SUBSET Requests, NEW waiting \in BOOLEAN,
           filter' \in Filters, page' \in Numbers,
           InitializeData(others) \/ Initialize(others, waiting)
    PROVE  lists' \subseteq Requests /\ connectionsLoading' \in BOOLEAN
<1>1. List("init", filter', page', TRUE) \in Requests
  BY DEF List, Requests
<1>2. QED
  BY <1>1 DEF InitializeData, Initialize

LEMMA Turned ==
    ASSUME TypeOK, NEW p \in Targets
    PROVE  p \in Numbers
<1>1. /\ total \in Numbers /\ page \in Numbers /\ shownPage \in 1..total
      /\ total \in Nat \ {0} /\ page \in Nat \ {0}
  BY PageNumbers DEF TypeOK
<1>2. \/ p = 1
      \/ page > 1 /\ p = page - 1
      \/ page < total /\ p = page + 1
      \/ p = total
  BY <1>1 DEF Targets
<1>3. CASE page > 1 /\ p = page - 1
  <2>1. p \in 1..page
    BY <1>1, <1>3
  <2>2. QED
    BY <1>1, <2>1, PageNumbers
<1>4. CASE page < total /\ p = page + 1
  <2>1. p \in 1..total
    BY <1>1, <1>4
  <2>2. QED
    BY <1>1, <2>1, PageNumbers
<1>5. QED
  BY <1>1, <1>2, <1>3, <1>4, PageNumbers

\* What an answer to a request for a list sets.
LEMMA FetchedTypes ==
    ASSUME TypeOK, NEW l \in Requests, Fetched(l)
    PROVE  /\ connections' \subseteq Accounts
           /\ total' \in Numbers /\ shownPage' \in 1..total' /\ page' \in Numbers
<1> DEFINE n == Len(Pages[l.filter])
           p == IF l.page > n THEN n ELSE l.page
<1>1. l.filter \in Filters /\ l.page \in Numbers
  BY DEF Requests
<1>2. n \in Numbers /\ n \in Nat \ {0} /\ l.page \in Nat \ {0}
  BY <1>1, PageNumbers
<1>3. p \in 1..n
  BY <1>2
<1>4. p \in Numbers /\ Pages[l.filter][p] \subseteq Accounts
  BY <1>1, <1>2, <1>3, PageNumbers
<1>5. CASE /\ connections' = Pages[l.filter][p]
           /\ total' = n /\ shownPage' = p /\ page' = p
  BY <1>1, <1>2, <1>3, <1>4, <1>5
<1>6. CASE /\ connections' = {} /\ total' = 1 /\ shownPage' = 1 /\ UNCHANGED page
  BY <1>6, PageNumbers DEF TypeOK
<1>7. QED
  BY <1>5, <1>6 DEF Fetched, NotFetched, GivenPage

LEMMA TypeUser == TypeOK /\ User => TypeOK'
<1> SUFFICES ASSUME TypeOK, User  PROVE TypeOK'
    OBVIOUS
<1>1. events' = events + 1 /\ events < MaxEvents
  BY DEF User, ChangeFilter, ToggleExpiringFirst, TurnPage, SwitchRows, ToggleAutoRefresh,
     RefreshNow, Hide, Show, RefreshProvider, Click, Event
<1>2. events' \in 0..MaxEvents
  BY <1>1, QuotaAssumption DEF TypeOK
<1>3. ASSUME NEW f \in Filters, ChangeFilter(f)  PROVE TypeOK'
  <2>1. filter' \in Filters /\ page' \in Numbers /\ refreshingAll' \in BOOLEAN
    BY <1>3, PageNumbers DEF ChangeFilter, TypeOK
  <2>2. timer' \in Closure \cup {None}
    BY <1>3, <2>1, Retimed DEF ChangeFilter
  <2>3. lists' \subseteq Requests /\ connectionsLoading' \in BOOLEAN
    BY <1>3, <2>1, Initialized DEF ChangeFilter, TypeOK
  <2>4. QED
    BY <1>2, <1>3, <2>1, <2>2, <2>3 DEF ChangeFilter, TypeOK, shown, tab
<1>4. CASE ToggleExpiringFirst
  <2>1. lists' \subseteq Requests /\ connectionsLoading' \in BOOLEAN
    BY <1>4, Initialized DEF ToggleExpiringFirst, TypeOK
  <2>2. QED
    BY <1>2, <1>4, <2>1 DEF ToggleExpiringFirst, TypeOK, shown, tab
<1>5. CASE TurnPage
  <2>1. filter' \in Filters /\ page' \in Numbers /\ refreshingAll' \in BOOLEAN
    BY <1>5, Turned DEF TurnPage, TypeOK
  <2>2. timer' \in Closure \cup {None}
    BY <1>5, <2>1, Retimed DEF TurnPage
  <2>3. lists' \subseteq Requests /\ connectionsLoading' \in BOOLEAN
    BY <1>5, <2>1, Initialized DEF TurnPage, TypeOK
  <2>4. QED
    BY <1>2, <1>5, <2>1, <2>2, <2>3 DEF TurnPage, TypeOK, shown, tab
<1>6. CASE SwitchRows
  <2>1. List("storing", filter, page, FALSE) \in Requests
    BY DEF List, Requests, TypeOK
  <2>2. QED
    BY <1>2, <1>6, <2>1 DEF SwitchRows, TypeOK, shown, busy, tab
<1>7. CASE ToggleAutoRefresh
  <2>1. filter' = filter /\ page' = page /\ refreshingAll' = refreshingAll
    BY <1>7 DEF ToggleAutoRefresh, busy
  <2>2. timer' \in Closure \cup {None}
    BY <1>7, <2>1, Retimed DEF ToggleAutoRefresh, TypeOK
  <2>3. QED
    BY <1>2, <1>7, <2>2 DEF ToggleAutoRefresh, TypeOK, shown, busy, calls
<1>8. CASE RefreshNow
  <2>1. refreshingAll' = TRUE /\ filter' = filter /\ page' = page
    BY <1>8 DEF RefreshNow, RefreshAll
  <2>2. timer' \in Closure \cup {None}
    BY <1>8, <2>1, Retimed DEF RefreshNow, RefreshAll, TypeOK
  <2>3. tick' \in 0..(ClaudeEvery - 1)
    BY <1>8, QuotaAssumption DEF RefreshNow, RefreshAll, TypeOK
  <2>4. List("refresh", filter, page, TRUE) \in Requests
    BY DEF List, Requests, TypeOK
  <2>5. lists' = lists \cup {List("refresh", filter, page, TRUE)}
    BY <1>8 DEF RefreshNow, RefreshAll, List
  <2>6. QED
    BY <1>2, <1>8, <2>1, <2>2, <2>3, <2>4, <2>5 DEF RefreshNow, RefreshAll, TypeOK, shown, tab
<1>9. CASE Hide
  BY <1>2, <1>9 DEF Hide, TypeOK, shown, busy, calls
<1>10. CASE Show
  <2>1. [filter |-> filter, page |-> page, busy |-> refreshingAll] \in Closure
    BY DEF Closure, TypeOK
  <2>2. timer' \in Closure \cup {None} /\ strays' \subseteq Closure
    BY <1>10, <2>1 DEF Show, TypeOK
  <2>3. QED
    BY <1>2, <1>10, <2>2 DEF Show, TypeOK, shown, busy, calls
<1>11. ASSUME NEW c \in Accounts, RefreshProvider(c)  PROVE TypeOK'
  BY <1>2, <1>11 DEF RefreshProvider, TypeOK, shown, busy, tab
<1>12. QED
  BY <1>3, <1>4, <1>5, <1>6, <1>7, <1>8, <1>9, <1>10, <1>11 DEF User

LEMMA TypeTimers == TypeOK /\ Timers => TypeOK'
<1> SUFFICES ASSUME TypeOK, NEW closure \in Closure, Tick(closure)  PROVE TypeOK'
    BY DEF Timers, TypeOK
<1>1. refreshingAll' = TRUE /\ filter' = filter /\ page' = page
  BY DEF Tick, RefreshAll
<1>2. timer' \in Closure \cup {None}
  BY <1>1, Retimed DEF Tick, RefreshAll, TypeOK
<1>3. tick' \in 0..(ClaudeEvery - 1)
  BY QuotaAssumption DEF Tick, RefreshAll, TypeOK
<1>4. List("refresh", closure.filter, closure.page, FALSE \/ tick' = 0) \in Requests
  BY DEF List, Requests, Closure
<1>5. lists' \subseteq Requests
  BY <1>4 DEF Tick, RefreshAll, TypeOK
<1>6. QED
  BY <1>1, <1>2, <1>3, <1>5 DEF Tick, RefreshAll, TypeOK, shown, tab

LEMMA TypeListed == ASSUME TypeOK, NEW l \in lists, Listed(l)  PROVE TypeOK'
<1>1. l \in Requests /\ lists \ {l} \subseteq Requests
  BY DEF TypeOK
<1>2. /\ connections' \subseteq Accounts
      /\ total' \in Numbers /\ shownPage' \in 1..total' /\ page' \in Numbers
  BY <1>1, FetchedTypes DEF Listed
<1>3. filter' \in Filters
  BY DEF Listed, TypeOK
<1>4. lists' \subseteq Requests /\ connectionsLoading' \in BOOLEAN
  <2>1. /\ lists \ {l} \in SUBSET Requests
        /\ connectionsLoading \in BOOLEAN /\ FALSE \in BOOLEAN
    BY <1>1 DEF TypeOK
  <2>2. CASE Initialize(lists \ {l}, connectionsLoading)
    BY <1>2, <1>3, <2>1, <2>2, Initialized
  <2>3. CASE Initialize(lists \ {l}, FALSE)
    BY <1>2, <1>3, <2>1, <2>3, Initialized
  <2>4. QED
    BY <2>2, <2>3 DEF Listed
<1>5. /\ refreshingAll' \in BOOLEAN /\ loading' \subseteq Accounts
      /\ refreshes' \subseteq SUBSET Accounts /\ quotas' \subseteq Accounts
  <2>1. CASE l.for = "row"
    BY <2>1 DEF Listed, TypeOK
  <2>2. CASE l.for = "init"
    BY <1>2, <2>2 DEF Listed, TypeOK
  <2>3. CASE l.for = "refresh"
    <3> DEFINE asked == IF l.all THEN connections' ELSE connections' \ Claude
    <3>1. /\ loading' = connections' /\ quotas' = quotas
          /\ refreshes' = refreshes \cup ({asked} \ {{}})
          /\ refreshingAll' = (asked # {} /\ refreshingAll)
      BY <2>3 DEF Listed
    <3>2. asked \subseteq Accounts
      BY <1>2
    <3>3. refreshes' \subseteq SUBSET Accounts
      BY <3>1, <3>2 DEF TypeOK
    <3>4. QED
      BY <1>2, <3>1, <3>3 DEF TypeOK
  <2>4. QED
    BY <2>1, <2>2, <2>3 DEF Listed
<1>6. timer' \in Closure \cup {None}
  BY <1>2, <1>3, <1>5, Retimed DEF Listed
<1>7. QED
  BY <1>2, <1>3, <1>4, <1>5, <1>6 DEF Listed, TypeOK, tab

LEMMA TypeAnswers ==
    ASSUME TypeOK, Lists \/ Quotas \/ RefreshQuotas  PROVE TypeOK'
<1>1. ASSUME NEW l \in lists, Stored(l)  PROVE TypeOK'
  <2>1. [l EXCEPT !.for = "row"] \in Requests
    BY DEF TypeOK, Requests
  <2>2. lists' \subseteq Requests
    BY <1>1, <2>1 DEF Stored, TypeOK
  <2>3. QED
    BY <1>1, <2>2 DEF Stored, TypeOK, shown, busy, tab
<1>2. ASSUME NEW c \in quotas, Quota(c)  PROVE TypeOK'
  BY <1>2 DEF Quota, Spin, TypeOK, shown, busy, tab
<1>3. ASSUME NEW r \in refreshes, NEW c \in r, RefreshQuota(r, c)  PROVE TypeOK'
  <2>1. refreshingAll' \in BOOLEAN /\ refreshes' \subseteq SUBSET Accounts
    BY <1>3 DEF RefreshQuota, Done, TypeOK
  <2>2. timer' \in Closure \cup {None}
    BY <1>3, <2>1, Retimed DEF RefreshQuota, TypeOK
  <2>3. QED
    BY <1>3, <2>1, <2>2 DEF RefreshQuota, Spin, TypeOK, shown, tab
<1>4. QED
  BY <1>1, <1>2, <1>3, TypeListed DEF Lists, Quotas, RefreshQuotas

\* Type correctness: the page is one of those listed for some filter, also when the list of
\* another filter, with fewer pages, comes late.
THEOREM TypeCorrect == Spec => []TypeOK
<1>1. TypeOK /\ [Next]_vars => TypeOK'
  <2>1. CASE Next
    BY <2>1, TypeUser, TypeTimers, TypeAnswers DEF Next
  <2>2. CASE UNCHANGED vars
    BY <2>2 DEF vars, TypeOK, shown, busy, tab, calls
  <2>3. QED
    BY <2>1, <2>2
<1>2. QED
  BY TypeInit, <1>1, PTL DEF Spec

-----------------------------------------------------------------------------
(* The timer.                                                              *)

LEMMA TimerInit == Init => TimerIsCurrent
BY DEF Init, TimerIsCurrent

LEMMA TimerNext == TimerIsCurrent /\ [Next]_vars => TimerIsCurrent'
<1> SUFFICES ASSUME TimerIsCurrent, [Next]_vars
             PROVE  TimerIsCurrent'
    OBVIOUS
<1> USE DEF TimerIsCurrent
<1>1. ASSUME NEW f \in Filters, ChangeFilter(f)  PROVE TimerIsCurrent'
  BY <1>1 DEF ChangeFilter, Rearm
<1>2. CASE ToggleExpiringFirst
  BY <1>2 DEF ToggleExpiringFirst
<1>3. CASE TurnPage
  BY <1>3 DEF TurnPage, Rearm
<1>4. CASE SwitchRows
  BY <1>4 DEF SwitchRows, busy
<1>5. CASE ToggleAutoRefresh
  BY <1>5 DEF ToggleAutoRefresh, Rearm, busy
<1>6. CASE RefreshNow
  BY <1>6 DEF RefreshNow, RefreshAll, Rearm
<1>7. CASE Hide
  BY <1>7 DEF Hide
<1>8. CASE Show
  BY <1>8 DEF Show, busy
<1>9. ASSUME NEW c \in Accounts, RefreshProvider(c)  PROVE TimerIsCurrent'
  BY <1>9 DEF RefreshProvider, busy
<1>10. CASE Timers
  BY <1>10 DEF Timers, Tick, RefreshAll, Rearm
<1>11. ASSUME NEW l \in lists, Stored(l)  PROVE TimerIsCurrent'
  BY <1>11 DEF Stored, busy
<1>12. ASSUME NEW l \in lists, Listed(l)  PROVE TimerIsCurrent'
  BY <1>12 DEF Listed, Rearm
<1>13. ASSUME NEW c \in quotas, Quota(c)  PROVE TimerIsCurrent'
  BY <1>13 DEF Quota, busy
<1>14. ASSUME NEW r \in refreshes, NEW c \in r, RefreshQuota(r, c)  PROVE TimerIsCurrent'
  BY <1>14 DEF RefreshQuota, Rearm
<1>15. CASE UNCHANGED vars
  BY <1>15 DEF vars, busy
<1>16. QED
  BY <1>1, <1>2, <1>3, <1>4, <1>5, <1>6, <1>7, <1>8, <1>9, <1>10, <1>11, <1>12, <1>13, <1>14,
     <1>15 DEF Next, User, Lists, Quotas, RefreshQuotas

\* Whatever overlaps, the timer intervalRef knows has the page, the filter and the state of
\* refreshing of now: the effect that sets it depends on all that refreshAll closes over.
THEOREM TimerCurrent == Spec => []TimerIsCurrent
BY TimerInit, TimerNext, PTL DEF Spec

-----------------------------------------------------------------------------
(* The spinners.                                                           *)

LEMMA SpinnersInit == Init => SpinnersAreFetched
BY DEF Init, SpinnersAreFetched

LEMMA SpinnersNext == SpinnersAreFetched /\ [Next]_vars => SpinnersAreFetched'
<1> SUFFICES ASSUME SpinnersAreFetched, [Next]_vars
             PROVE  SpinnersAreFetched'
    OBVIOUS
<1> USE DEF SpinnersAreFetched
<1>1. ASSUME UNCHANGED <<loading, quotas, refreshes>>  PROVE SpinnersAreFetched'
  BY <1>1
<1>2. CASE User
  <2>1. ASSUME NEW c \in Accounts, RefreshProvider(c)  PROVE SpinnersAreFetched'
    BY <2>1 DEF RefreshProvider
  <2>2. QED
    BY <1>1, <1>2, <2>1 DEF User, ChangeFilter, ToggleExpiringFirst, TurnPage, SwitchRows,
       ToggleAutoRefresh, RefreshNow, RefreshAll, Hide, Show, calls
<1>3. CASE Timers
  BY <1>1, <1>3 DEF Timers, Tick, RefreshAll
<1>4. ASSUME NEW l \in lists, Stored(l)  PROVE SpinnersAreFetched'
  BY <1>1, <1>4 DEF Stored
<1>5. ASSUME NEW l \in lists, Listed(l)  PROVE SpinnersAreFetched'
  <2>1. CASE l.for = "row"
    BY <1>1, <1>5, <2>1 DEF Listed
  <2>2. CASE l.for = "init"
    BY <1>5, <2>2 DEF Listed
  <2>3. CASE l.for = "refresh"
    <3> DEFINE asked == IF l.all THEN connections' ELSE connections' \ Claude
    <3>1. /\ loading' = connections'
          /\ refreshes' = refreshes \cup ({asked} \ {{}})
      BY <1>5, <2>3 DEF Listed
    <3>2. asked \subseteq UNION refreshes'
      BY <3>1
    <3>3. connections' \subseteq asked \cup Claude
      OBVIOUS
    <3>4. QED
      BY <3>1, <3>2, <3>3
  <2>4. QED
    BY <1>5, <2>1, <2>2, <2>3 DEF Listed
<1>6. ASSUME NEW c \in quotas, Quota(c)  PROVE SpinnersAreFetched'
  BY <1>6 DEF Quota, Spin
<1>7. ASSUME NEW r \in refreshes, NEW c \in r, RefreshQuota(r, c)  PROVE SpinnersAreFetched'
  <2>1. /\ refreshes' = (refreshes \ {r}) \cup ({r \ {c}} \ {{}})
        /\ loading' = loading \ {c} /\ quotas' = quotas
    BY <1>7 DEF RefreshQuota, Spin
  <2>2. (UNION refreshes) \ {c} \subseteq UNION refreshes'
    <3>1. SUFFICES ASSUME NEW s \in refreshes, NEW d \in s \ {c}
                   PROVE  d \in UNION refreshes'
      OBVIOUS
    <3>2. CASE s = r
      <4>1. r \ {c} \in refreshes'
        BY <2>1, <3>1, <3>2
      <4>2. QED
        BY <3>1, <3>2, <4>1
    <3>3. CASE s # r
      BY <2>1, <3>1, <3>3
    <3>4. QED
      BY <3>2, <3>3
  <2>3. QED
    BY <2>1, <2>2
<1>8. CASE UNCHANGED vars
  BY <1>1, <1>8 DEF vars, calls
<1>9. QED
  BY <1>2, <1>3, <1>4, <1>5, <1>6, <1>7, <1>8 DEF Next, Lists, Quotas, RefreshQuotas

\* However fetches of pages, refreshes and single rows overlap, a row of another provider than
\* claude shows the spinner only while its quota is asked for.
THEOREM SpinnersEnd == Spec => []SpinnersAreFetched
BY SpinnersInit, SpinnersNext, PTL DEF Spec
=============================================================================
