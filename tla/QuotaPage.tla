----------------------------- MODULE QuotaPage -----------------------------
(***************************************************************************)
(* The dashboard's quota page (ProviderLimits): pages of accounts, chosen  *)
(* by filter and page number, whose quotas are fetched when the page       *)
(* changes, on demand and by a timer.  Requests overlap, are never         *)
(* cancelled and are answered in any order.                                *)
(*                                                                         *)
(* React: fetchConnections closes over the filter, refreshAll over the     *)
(* filter, the page number and refreshingAll, and the timer over           *)
(* refreshAll.  A step renders and runs the effects whose dependencies it  *)
(* has changed.                                                            *)
(*                                                                         *)
(* `filter' stands for everything the list depends on but its page: the    *)
(* provider, the account status and the page size.  The accounts do not    *)
(* change; equal requests under way are one.  Left out: the quotas         *)
(* themselves and their cache, deleting and editing accounts, Codex's      *)
(* reset credits, the settings for pings and hidden rows.                  *)
(***************************************************************************)
EXTENDS Integers, Sequences

CONSTANTS
    Filters,
    All,            \* the filter the page begins with
    Pages,          \* per filter, what the gateway lists: a sequence of sets of accounts
    Claude,         \* the accounts of provider claude
    ClaudeEvery,    \* CLAUDE_REFRESH_INTERVAL_MS / REFRESH_INTERVAL_MS
    MaxEvents,      \* bound: what the user does
    None

Accounts == UNION {UNION {Pages[f][p] : p \in DOMAIN Pages[f]} : f \in Filters}
Numbers == UNION {DOMAIN Pages[f] : f \in Filters}

ASSUME QuotaAssumption ==
    /\ All \in Filters
    /\ \A f \in Filters : Pages[f] \in Seq(SUBSET Accounts) /\ Pages[f] # <<>>
    /\ ClaudeEvery \in Nat \ {0} /\ MaxEvents \in Nat

VARIABLES
    filter, page,
    connections, total, shownPage,  \* connections, pagination.totalPages and .page
    connectionsLoading, refreshingAll,
    loading,                        \* accounts whose row shows the spinner
    autoRefresh, hidden,
    timer,                          \* what intervalRef's timer closes over, or None
    strays,                         \* timers that intervalRef has lost
    tick,                           \* tickCountRef, modulo ClaudeEvery
    lists,                          \* calls of fetchConnections, and what is to follow
    refreshes,                      \* calls of refreshAll that wait for quotas of these accounts
    quotas,                         \* accounts whose quota another caller waits for
    events

shown == <<connections, total, shownPage>>
busy == <<connectionsLoading, refreshingAll>>
tab == <<autoRefresh, hidden>>
calls == <<lists, refreshes, quotas>>
vars == <<filter, page, shown, busy, loading, tab, timer, strays, tick, calls, events>>

Closure == [filter : Filters, page : Numbers, busy : BOOLEAN]

\* A row's switch is stored first and then the list is fetched; `all' is for refreshes:
\* Claude's quotas too.
List(for, f, p, all) == [for |-> for, filter |-> f, page |-> p, all |-> all]

Requests == [for : {"init", "storing", "row", "refresh"}, filter : Filters, page : Numbers,
             all : BOOLEAN]

TypeOK ==
    /\ filter \in Filters /\ page \in Numbers
    /\ connections \subseteq Accounts /\ total \in Numbers /\ shownPage \in 1..total
    /\ connectionsLoading \in BOOLEAN /\ refreshingAll \in BOOLEAN
    /\ loading \subseteq Accounts
    /\ autoRefresh \in BOOLEAN /\ hidden \in BOOLEAN
    /\ timer \in Closure \cup {None} /\ strays \subseteq Closure
    /\ tick \in 0..(ClaudeEvery - 1)
    /\ lists \subseteq Requests
    /\ refreshes \subseteq SUBSET Accounts /\ quotas \subseteq Accounts
    /\ events \in 0..MaxEvents

\* The effects have run once: the timer is set, hidden tab or not.
Init ==
    /\ filter = All /\ page = 1
    /\ connections = {} /\ total = 1 /\ shownPage = 1
    /\ connectionsLoading = TRUE /\ refreshingAll = FALSE /\ loading = {}
    /\ autoRefresh \in BOOLEAN /\ hidden \in BOOLEAN
    /\ timer = IF autoRefresh THEN [filter |-> filter, page |-> 1, busy |-> FALSE] ELSE None
    /\ strays = {} /\ tick = 0
    /\ lists = {List("init", filter, 1, TRUE)} /\ refreshes = {} /\ quotas = {}
    /\ events = 0

-----------------------------------------------------------------------------
(* The effects, for the state a step has set.                              *)

\* Mutant of Rearm: the effect depends on autoRefresh only.
RearmOnToggle ==
    timer' = IF autoRefresh' = autoRefresh THEN timer
             ELSE IF autoRefresh'
             THEN [filter |-> filter', page |-> page', busy |-> refreshingAll'] ELSE None

\* refreshAll is another function now: a new timer for it, in a hidden tab as well
Rearm ==
    timer' = IF <<filter, page, refreshingAll, autoRefresh>>'
                   = <<filter, page, refreshingAll, autoRefresh>> THEN timer
             ELSE IF autoRefresh'
             THEN [filter |-> filter', page |-> page', busy |-> refreshingAll'] ELSE None

\* initializeData
InitializeData(others) ==
    /\ lists' = others \cup {List("init", filter', page', TRUE)}
    /\ connectionsLoading' = TRUE

\* It runs when fetchConnections or the page is another one; `others' are the requests of the
\* step itself, `waiting' what connectionsLoading becomes without it
Initialize(others, waiting) ==
    \/ <<filter, page>>' # <<filter, page>> /\ InitializeData(others)
    \/ /\ <<filter, page>>' = <<filter, page>>
       /\ lists' = others
       /\ connectionsLoading' = waiting

-----------------------------------------------------------------------------
(* The user.                                                               *)

Event == events < MaxEvents /\ events' = events + 1

\* The controls are there while the page loads and when it has accounts.
Click == Event /\ ~hidden /\ (connectionsLoading \/ connections # {})

\* A page size that is entered again leads to the first page, too.
ChangeFilter(f) ==
    /\ Click
    /\ filter' = f /\ page' = 1
    /\ UNCHANGED <<shown, refreshingAll, loading, tab, strays, tick, refreshes, quotas>>
    /\ Initialize(lists, connectionsLoading) /\ Rearm

\* expiringFirst: the gateway is asked for the same list, but fetchConnections depends on it
ToggleExpiringFirst ==
    /\ Click
    /\ UNCHANGED <<filter, page, shown, refreshingAll, loading, tab, timer, strays, tick, refreshes,
                   quotas>>
    /\ InitializeData(lists)

\* First Page, previous, next, Last Page
Targets ==
    (IF shownPage > 1 THEN {1, IF page > 1 THEN page - 1 ELSE 1} ELSE {})
    \cup (IF shownPage < total THEN {IF page < total THEN page + 1 ELSE total, total} ELSE {})

TurnPage ==
    /\ Click
    /\ ~connectionsLoading /\ ~refreshingAll
    /\ page' \in Targets
    /\ UNCHANGED <<filter, shown, refreshingAll, loading, tab, strays, tick, refreshes, quotas>>
    /\ Initialize(lists, connectionsLoading) /\ Rearm

\* A row is switched on or off, or all empty ones are
SwitchRows ==
    /\ Click /\ connections # {}
    /\ lists' = lists \cup {List("storing", filter, page, FALSE)}
    /\ UNCHANGED <<filter, page, shown, busy, loading, tab, timer, strays, tick, refreshes, quotas>>

RefreshProvider(c) ==
    /\ Click /\ c \in connections \ loading
    /\ loading' = loading \cup {c} /\ quotas' = quotas \cup {c}
    /\ UNCHANGED <<filter, page, shown, busy, tab, timer, strays, tick, lists, refreshes>>

ToggleAutoRefresh ==
    /\ Click
    /\ autoRefresh' = ~autoRefresh
    /\ UNCHANGED <<filter, page, shown, busy, loading, hidden, strays, tick, calls>>
    /\ Rearm

\* handleVisibilityChange: the timer goes, and comes back without a look at intervalRef
Hide ==
    /\ Event /\ ~hidden /\ hidden' = TRUE
    /\ timer' = None
    /\ UNCHANGED <<filter, page, shown, busy, loading, autoRefresh, strays, tick, calls>>

Show ==
    /\ Event /\ hidden /\ hidden' = FALSE
    /\ \/ /\ autoRefresh
          /\ timer' = [filter |-> filter, page |-> page, busy |-> refreshingAll]
          /\ strays' = strays \cup ({timer} \ {None})
       \/ ~autoRefresh /\ UNCHANGED <<timer, strays>>
    /\ UNCHANGED <<filter, page, shown, busy, loading, autoRefresh, tick, calls>>

-----------------------------------------------------------------------------
(* refreshAll.                                                             *)

RefreshAll(closure, force) ==
    /\ ~closure.busy
    /\ refreshingAll' = TRUE
    /\ tick' = (tick + 1) % ClaudeEvery
    /\ lists' = lists \cup {List("refresh", closure.filter, closure.page, force \/ tick' = 0)}
    /\ UNCHANGED <<filter, page, shown, connectionsLoading, loading, tab, strays, refreshes, quotas>>
    /\ Rearm

RefreshNow ==
    /\ Click /\ ~refreshingAll
    /\ RefreshAll([filter |-> filter, page |-> page, busy |-> refreshingAll], TRUE)

Tick(closure) ==
    /\ RefreshAll(closure, FALSE)
    /\ UNCHANGED events

-----------------------------------------------------------------------------
(* Answers of the gateway.                                                 *)

\* The switch is stored, or was refused
Stored(l) ==
    /\ l.for = "storing"
    /\ \/ lists' = (lists \ {l}) \cup {[l EXCEPT !.for = "row"]}
       \/ lists' = lists \ {l}
    /\ UNCHANGED <<filter, page, shown, busy, loading, tab, timer, strays, tick, refreshes, quotas,
                   events>>

\* The gateway takes a page number that is too large for the last one.
GivenPage(l) == IF l.page > Len(Pages[l.filter]) THEN Len(Pages[l.filter]) ELSE l.page

\* Mutant of NotFetched: the pagination keeps the page it had.
NotFetchedPageKept ==
    /\ connections' = {} /\ total' = 1 /\ UNCHANGED <<page, shownPage>>

\* The catch of fetchConnections
NotFetched ==
    /\ connections' = {} /\ total' = 1 /\ shownPage' = 1 /\ UNCHANGED page

\* fetchConnections
Fetched(l) ==
    \/ LET p == GivenPage(l)
       IN /\ connections' = Pages[l.filter][p]
          /\ total' = Len(Pages[l.filter]) /\ shownPage' = p /\ page' = p
    \/ NotFetched

Listed(l) ==
    /\ l.for # "storing"
    /\ Fetched(l)
    /\ UNCHANGED <<filter, tab, strays, tick, events>>
    /\ \/ /\ l.for = "row"
          /\ UNCHANGED <<refreshingAll, loading, refreshes, quotas>>
          /\ Initialize(lists \ {l}, connectionsLoading)
       \/ /\ l.for = "init"
          /\ loading' = connections' /\ quotas' = quotas \cup connections'
          /\ UNCHANGED <<refreshingAll, refreshes>>
          /\ Initialize(lists \ {l}, FALSE)
       \/ /\ l.for = "refresh"
          /\ loading' = connections'
          /\ LET asked == IF l.all THEN connections' ELSE connections' \ Claude
             IN /\ refreshes' = refreshes \cup ({asked} \ {{}})
                /\ refreshingAll' = (asked # {} /\ refreshingAll)
          /\ UNCHANGED quotas
          /\ Initialize(lists \ {l}, connectionsLoading)
    /\ Rearm

\* Mutant of Spin: a quota that is not there leaves its row as it is.
SpinUnlessFound(c) == loading' \in {loading, loading \ {c}}

\* fetchQuota returns or fails
Spin(c) == loading' = loading \ {c}

Quota(c) ==
    /\ quotas' = quotas \ {c}
    /\ Spin(c)
    /\ UNCHANGED <<filter, page, shown, busy, tab, timer, strays, tick, lists, refreshes, events>>

\* Mutant of Done: refreshAll forgets refreshingAll when the page was turned meanwhile.
DoneIfShown(left) == refreshingAll' = (refreshingAll /\ (left # {} \/ connectionsLoading))

\* Promise.all of a refreshAll, and its `finally'
Done(left) == refreshingAll' = (refreshingAll /\ left # {})

RefreshQuota(r, c) ==
    /\ refreshes' = (refreshes \ {r}) \cup ({r \ {c}} \ {{}})
    /\ Spin(c) /\ Done(r \ {c})
    /\ UNCHANGED <<filter, page, shown, connectionsLoading, tab, strays, tick, lists, quotas, events>>
    /\ Rearm

-----------------------------------------------------------------------------
User ==
    \/ \E f \in Filters : ChangeFilter(f)
    \/ ToggleExpiringFirst \/ TurnPage \/ SwitchRows \/ ToggleAutoRefresh \/ RefreshNow \/ Hide \/ Show
    \/ \E c \in Accounts : RefreshProvider(c)

Timers == \E closure \in strays \cup ({timer} \ {None}) : Tick(closure)

Lists == \E l \in lists : Stored(l) \/ Listed(l)

Quotas == \E c \in quotas : Quota(c)

RefreshQuotas == \E r \in refreshes : \E c \in r : RefreshQuota(r, c)

Next == User \/ Timers \/ Lists \/ Quotas \/ RefreshQuotas

\* What a refresh waits for is answered or fails; timers may be slow, and nobody else need come
\* back.
Fairness ==
    /\ \A l \in Requests : l.for = "refresh" => WF_vars(l \in lists /\ Listed(l))
    /\ \A r \in SUBSET Accounts : \A c \in r : WF_vars(r \in refreshes /\ RefreshQuota(r, c))

Spec == Init /\ [][Next]_vars /\ Fairness

-----------------------------------------------------------------------------
\* The timer intervalRef knows refreshes the page the user is at, with the filter of now, and
\* knows whether a refresh is under way: its closure is never an old one.
TimerIsCurrent ==
    timer # None => timer = [filter |-> filter, page |-> page, busy |-> refreshingAll]

\* A row shows the spinner only while its quota is asked for, however fetches of pages,
\* refreshes and single rows overlap.  Rows of claude are left out: an automatic refresh
\* starts their spinner and skips their quota.
SpinnersAreFetched == loading \subseteq quotas \cup (UNION refreshes) \cup Claude

\* A refresh of all ends: the pager and the button come back.
RefreshEnds == refreshingAll ~> ~refreshingAll
=============================================================================
