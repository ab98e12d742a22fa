-------------------------- MODULE AccountFallback --------------------------
(***************************************************************************)
(* Multi-account failover for one provider: the handlers that pick an      *)
(* account, call the upstream with it and retry with another one           *)
(* (opensse/handlers/chat.go: handleWithFallback and streamModel, the      *)
(* media handlers), the circuit breaking state they share                  *)
(* (opensse/fallback/fallback.go), its cooldowns (opensse/config/error.go) *)
(* and the columns of provider_connections it is kept in                   *)
(* (store/connections.go).                                                 *)
(*                                                                         *)
(* Requests run concurrently, one goroutine each.  A step of this module   *)
(* is a stretch of code between two points where another goroutine can     *)
(* change what it reads: a store query, a critical section of statesMu or  *)
(* rrMu, an upstream call.                                                 *)
(***************************************************************************)
EXTENDS RoundRobinOps, FiniteSets

CONSTANTS
    Requests,       \* concurrent client requests; each is served once
    HasFree,        \* the provider can be called without an account
    Synthetic,      \* the connection getFallbackConn makes up for it
    NoConn,
    Base,           \* BackoffConfig.Base
    MaxCooldown,    \* BackoffConfig.Max
    MaxLevel,       \* BackoffConfig.MaxLevel
    Transient,      \* TransientCooldownMs
    Denials,        \* CooldownMs of the rules without backoff (402, 401, 403)
    ResetDelays,    \* delays an upstream announces (Retry-After, resets_at, ...)
    Second,         \* clock ticks per second, the resolution of RFC 3339
    MaxTime         \* bound: last instant of the clock

ASSUME AccountAssumption ==
    /\ Synthetic \notin Conns /\ NoConn \notin Conns /\ Synthetic # NoConn
    /\ HasFree \in BOOLEAN
    /\ Base \in Nat \ {0} /\ MaxCooldown \in Nat \ {0} /\ MaxLevel \in Nat \ {0}
    /\ Transient \in Nat \ {0}
    /\ Denials \subseteq Nat \ {0} /\ ResetDelays \subseteq Nat \ {0}
    /\ Second \in Nat \ {0} /\ MaxTime \in Nat

VARIABLES
    now,        \* the clock
    active,     \* the rows of provider_connections with is_active = 1
    until,      \* column rate_limited_until; 0 is the empty string
    level,      \* AccountState.BackoffLevel
    count, seq, rrSeq,  \* Fallback.rr and rrSeq
    pc,         \* where each request is
    kind,       \* the handler serving it
    policy,     \* its account strategy
    excluded,   \* excludeIDs
    listed,     \* the available connections selectRoundRobin read from the store
    conn,       \* the connection in use
    gone,       \* requests whose client disconnected: their context is cancelled
    answer,     \* what the client was told
    marked      \* history: connections marked since the request last read the store

store == <<active, until>>
memory == <<level, count, seq, rrSeq>>
local == <<pc, kind, policy, excluded, listed, conn, gone, answer>>
vars == <<now, store, memory, local, marked>>

Accounts == Conns \cup {Synthetic}

Handlers == {"chat", "comboStream", "media"}

\* What a request ended with: a relayed success, the upstream's own error, the
\* 400 "no active connection", the 503 "all accounts unavailable", an error
\* returned to the combo with nothing written, or nothing, the process having died.
Answers == {"none", "ok", "upstream", "noActive", "exhausted", "failed", "lost"}

TypeOK ==
    /\ now \in 0..MaxTime
    /\ active \subseteq Conns
    /\ until \in [Conns -> Int]
    /\ level \in [Accounts -> 0..MaxLevel]
    /\ count \in [Conns -> 0..Limit]
    /\ seq \in [Conns -> 0..rrSeq]
    /\ rrSeq \in Nat
    /\ pc \in [Requests -> {"idle", "select", "rotate", "execute", "relay", "done"}]
    /\ kind \in [Requests -> Handlers]
    /\ policy \in [Requests -> {"fill-first", "round-robin"}]
    /\ excluded \in [Requests -> SUBSET Accounts]
    /\ listed \in [Requests -> SUBSET Conns]
    /\ conn \in [Requests -> Accounts \cup {NoConn}]
    /\ gone \subseteq Requests
    /\ answer \in [Requests -> Answers]
    /\ marked \in [Requests -> SUBSET Accounts]

Init ==
    /\ now = 0
    /\ active = Conns
    /\ until = [c \in Conns |-> 0]
    /\ level = [a \in Accounts |-> 0]
    /\ count = [c \in Conns |-> 0] /\ seq = [c \in Conns |-> 0] /\ rrSeq = 0
    /\ pc = [r \in Requests |-> "idle"]
    /\ kind = [r \in Requests |-> "chat"]
    /\ policy = [r \in Requests |-> "fill-first"]
    /\ excluded = [r \in Requests |-> {}]
    /\ listed = [r \in Requests |-> {}]
    /\ conn = [r \in Requests |-> NoConn]
    /\ gone = {}
    /\ answer = [r \in Requests |-> "none"]
    /\ marked = [r \in Requests |-> {}]

-----------------------------------------------------------------------------
(* Cooldowns.                                                              *)

\* IsAccountUnavailable
Cooling(c) == now < until[c]

\* GetUnavailableUntil: formatting as RFC 3339 drops the fraction of a second.
GetUnavailableUntil(cooldown) == ((now + cooldown) \div Second) * Second

GetQuotaCooldown(l) ==
    LET cooldown == Base * 2 ^ (IF l > 1 THEN l - 1 ELSE 0)
    IN  IF cooldown > MaxCooldown THEN MaxCooldown ELSE cooldown

NextLevel(l) == IF l < MaxLevel THEN l + 1 ELSE MaxLevel

(* The verdicts of ParseResetDelayFromError and CheckFallbackError on an   *)
(* error of an account with backoff level l.  A client error (another 4xx) *)
(* has none: it is the request's fault and does not lock out the account.  *)
Announced(l) == [cooldown : ResetDelays, level : {l}]
QuotaError(l) == [cooldown |-> GetQuotaCooldown(NextLevel(l)), level |-> NextLevel(l)]
Denied(l) == [cooldown : Denials, level : {l}]
TransientError(l) == [cooldown |-> Transient, level |-> l]

Verdicts(l) == Announced(l) \cup Denied(l) \cup {QuotaError(l), TransientError(l)}

(* MarkUnavailable in the branches that return true, and ClearError.  Their *)
(* update of the store is best effort: its error is ignored, and it        *)
(* matches no row for a connection that was deleted or made up.            *)
SetUntil(a, t) ==
    \/ a \in Conns /\ until' = [until EXCEPT ![a] = t]
    \/ until' = until

MarkUnavailable(a, v) ==
    /\ level' = [level EXCEPT ![a] = v.level]
    /\ SetUntil(a, GetUnavailableUntil(v.cooldown))
    /\ marked' = [q \in Requests |->
                    IF pc[q] \in {"rotate", "execute", "relay"} THEN marked[q] \cup {a} ELSE {}]

ClearError(a) ==
    /\ level' = [level EXCEPT ![a] = 0]
    /\ SetUntil(a, 0)

-----------------------------------------------------------------------------
(* Choosing an account.                                                    *)

\* Mutant of Available: the excluded set is not consulted.
AvailableAgain(excl) == {c \in active : ~ Cooling(c)}

\* Mutant of Available: the cooldown is not consulted.
AvailableEvenCooling(excl) == active \ excl

\* ListActiveByProvider and the filter on its rows.
Available(excl) == {c \in active \ excl : ~ Cooling(c)}

Arrive(r) ==
    /\ pc[r] = "idle"
    /\ \E k \in Handlers, p \in {"fill-first", "round-robin"} :
        /\ k # "chat" => p = "fill-first"
        /\ kind' = [kind EXCEPT ![r] = k]
        /\ policy' = [policy EXCEPT ![r] = p]
    /\ pc' = [pc EXCEPT ![r] = "select"]
    /\ UNCHANGED <<now, store, memory, excluded, listed, conn, gone, answer, marked>>

Dispatch(r, a) ==
    /\ conn' = [conn EXCEPT ![r] = a]
    /\ pc' = [pc EXCEPT ![r] = "execute"]

\* The request reads the store: marks made from now on are news to it.
ReadsStore(r) == marked' = [marked EXCEPT ![r] = {}]

SelectFillFirst(r) ==
    /\ pc[r] = "select" /\ policy[r] = "fill-first"
    /\ \E c \in Available(excluded[r]) :
        /\ IsFirstListed(c, Available(excluded[r]))
        /\ Dispatch(r, c)
    /\ ReadsStore(r)
    /\ UNCHANGED <<now, store, memory, kind, policy, excluded, listed, gone, answer>>

\* selectRoundRobin lists and filters before it takes rrMu ...
ListAvailable(r) ==
    /\ pc[r] = "select" /\ policy[r] = "round-robin"
    /\ Available(excluded[r]) # {}
    /\ listed' = [listed EXCEPT ![r] = Available(excluded[r])]
    /\ pc' = [pc EXCEPT ![r] = "rotate"]
    /\ ReadsStore(r)
    /\ UNCHANGED <<now, store, memory, kind, policy, excluded, conn, gone, answer>>

\* ... and chooses among what it listed while holding it.
Rotate(r) ==
    /\ pc[r] = "rotate"
    /\ \E c \in listed[r] :
        /\ Chooses(c, listed[r], seq, count)
        /\ count' = [count EXCEPT ![c] = UseCount(c, listed[r], seq, count)]
        /\ rrSeq' = rrSeq + 1
        /\ seq' = [seq EXCEPT ![c] = rrSeq']
        /\ Dispatch(r, c)
    /\ listed' = [listed EXCEPT ![r] = {}]
    /\ UNCHANGED <<now, store, level, kind, policy, excluded, gone, answer, marked>>

MaySynthesize(r) == kind[r] = "chat" /\ HasFree /\ excluded[r] = {}

Synthesize(r) ==
    /\ pc[r] = "select"
    /\ Available(excluded[r]) = {}
    /\ MaySynthesize(r)
    /\ Dispatch(r, Synthetic)
    /\ ReadsStore(r)
    /\ UNCHANGED <<now, store, memory, kind, policy, excluded, listed, gone, answer>>

\* The handler returns: its local variables are gone.
Finish(r, a) ==
    /\ pc' = [pc EXCEPT ![r] = "done"]
    /\ answer' = [answer EXCEPT ![r] = a]
    /\ kind' = [kind EXCEPT ![r] = "chat"]
    /\ policy' = [policy EXCEPT ![r] = "fill-first"]
    /\ excluded' = [excluded EXCEPT ![r] = {}]
    /\ conn' = [conn EXCEPT ![r] = NoConn]
    /\ gone' = gone \ {r}
    /\ marked' = [marked EXCEPT ![r] = {}]

\* No account is left: handleFallbackExhausted, errNoAccount, the media handlers' 400.
Exhaust(r) ==
    /\ pc[r] = "select"
    /\ Available(excluded[r]) = {}
    /\ ~ MaySynthesize(r)
    /\ Finish(r, CASE kind[r] = "comboStream" -> "failed"
                   [] kind[r] # "comboStream" /\ excluded[r] = {} -> "noActive"
                   [] OTHER -> "exhausted")
    /\ UNCHANGED <<now, store, memory, listed>>

-----------------------------------------------------------------------------
(* The upstream call.                                                      *)

(* An error with a verdict: the account is marked and excluded and the     *)
(* loop goes on.  The call of a client that disconnected fails with its    *)
(* context's error, which is treated as any transport error.               *)
FailOver(r) ==
    /\ pc[r] = "execute" /\ kind[r] # "media"
    /\ \E v \in IF r \in gone THEN {TransientError(level[conn[r]])} ELSE Verdicts(level[conn[r]]) :
        MarkUnavailable(conn[r], v)
    /\ excluded' = [excluded EXCEPT ![r] = @ \cup {conn[r]}]
    /\ pc' = [pc EXCEPT ![r] = "select"]
    /\ conn' = [conn EXCEPT ![r] = NoConn]
    /\ UNCHANGED <<now, active, count, seq, rrSeq, kind, policy, listed, gone, answer>>

\* A client error, and any error of a media request, is passed on as it is.
PassError(r) ==
    /\ pc[r] = "execute"
    /\ kind[r] = "media" \/ r \notin gone
    /\ Finish(r, IF kind[r] = "comboStream" THEN "failed" ELSE "upstream")
    /\ UNCHANGED <<now, store, memory, listed>>

\* Success: streamModel and the media handlers clear the error state at once,
\* handleWithFallback when the response was relayed.
Succeed(r) ==
    /\ pc[r] = "execute" /\ r \notin gone
    /\ IF kind[r] = "chat" THEN UNCHANGED <<until, level>> ELSE ClearError(conn[r])
    /\ IF kind[r] = "media"
       THEN Finish(r, "ok")
       ELSE /\ pc' = [pc EXCEPT ![r] = "relay"]
            /\ UNCHANGED <<kind, policy, excluded, conn, gone, answer, marked>>
    /\ UNCHANGED <<now, active, count, seq, rrSeq, listed>>

\* The upstream's body ended, or the client's context ended it.
FinishRelay(r) ==
    /\ pc[r] = "relay"
    /\ IF kind[r] = "chat" THEN ClearError(conn[r]) ELSE UNCHANGED <<until, level>>
    /\ Finish(r, "ok")
    /\ UNCHANGED <<now, active, count, seq, rrSeq, listed>>

Serve(r) ==
    \/ SelectFillFirst(r) \/ ListAvailable(r) \/ Rotate(r) \/ Synthesize(r) \/ Exhaust(r)
    \/ FailOver(r) \/ PassError(r) \/ Succeed(r) \/ FinishRelay(r)

-----------------------------------------------------------------------------
(* The environment.                                                        *)

Serving(r) == pc[r] \notin {"idle", "done"}

Disconnect(r) ==
    /\ Serving(r) /\ r \notin gone
    /\ gone' = gone \cup {r}
    /\ UNCHANGED <<now, store, memory, pc, kind, policy, excluded, listed, conn, answer, marked>>

\* The dashboard disables or enables a connection (UpdateConnection).  A deleted one
\* is one never enabled again.
EditConnection(c) ==
    /\ active' = IF c \in active THEN active \ {c} ELSE active \cup {c}
    /\ UNCHANGED <<now, until, memory, local, marked>>

\* The process dies and starts again: only the store survives.
Restart ==
    /\ level' = [a \in Accounts |-> 0]
    /\ count' = [c \in Conns |-> 0] /\ seq' = [c \in Conns |-> 0] /\ rrSeq' = 0
    /\ pc' = [r \in Requests |-> IF Serving(r) THEN "done" ELSE pc[r]]
    /\ answer' = [r \in Requests |-> IF Serving(r) THEN "lost" ELSE answer[r]]
    /\ kind' = [r \in Requests |-> "chat"]
    /\ policy' = [r \in Requests |-> "fill-first"]
    /\ excluded' = [r \in Requests |-> {}]
    /\ listed' = [r \in Requests |-> {}]
    /\ conn' = [r \in Requests |-> NoConn]
    /\ gone' = {}
    /\ marked' = [r \in Requests |-> {}]
    /\ UNCHANGED <<now, store>>

Tick ==
    /\ now < MaxTime
    /\ now' = now + 1
    /\ UNCHANGED <<store, memory, local, marked>>

Next ==
    \/ \E r \in Requests : Arrive(r) \/ Serve(r) \/ Disconnect(r)
    \/ \E c \in Conns : EditConnection(c)
    \/ Restart
    \/ Tick

Spec == Init /\ [][Next]_vars

(* Every goroutine keeps running, and every upstream call and response     *)
(* body ends.  The HTTP client has no timeout of its own                   *)
(* (opensse/executor/registry.go): that a call ends is up to the upstream, *)
(* the network, or the client, whose disconnection cancels it.             *)
FairSpec == Spec /\ \A r \in Requests : WF_vars(Serve(r))

-----------------------------------------------------------------------------
InUse(r) == pc[r] \in {"execute", "relay"}

(* Circuit breaking: a request is on an account that is cooling down, or   *)
(* about to choose it, only if the cooldown was recorded after the request *)
(* last read the store.  Nobody is sent to an account known to be down     *)
(* (SelectAccountExcluding, selectRoundRobin).                             *)
NoDispatchIntoCooldown ==
    /\ \A r \in Requests : InUse(r) /\ conn[r] \in Conns /\ Cooling(conn[r]) => conn[r] \in marked[r]
    /\ \A r \in Requests : \A c \in listed[r] : Cooling(c) => c \in marked[r]

(* A cooldown in force is lifted or shortened only by a request that was   *)
(* already using the account when the account was marked: by a late        *)
(* success (ClearError) or a late error with a shorter cooldown            *)
(* (MarkUnavailable), never by a request dispatched during it.             *)
ShortensCooldown(c) == Cooling(c) /\ until'[c] < until[c]

OnlyOlderRequestsShorten ==
    [][\A c \in Conns : ShortensCooldown(c) =>
            \E r \in Requests : InUse(r) /\ conn[r] = c /\ c \in marked[r] /\ pc'[r] # pc[r]]_vars

(* The retry loop never goes back to an account that failed this request,  *)
(* whatever other requests do to its cooldown in the meantime (excludeIDs).*)
NeverRetriesFailed ==
    \A r \in Requests : conn[r] \notin excluded[r] /\ listed[r] \cap excluded[r] = {}

(* What makes the three inductive: which of a handler's local variables    *)
(* are set at which point of its loop.                                     *)
LocalsSet ==
    \A r \in Requests :
        /\ InUse(r) => conn[r] \in Accounts
        /\ ~ InUse(r) => conn[r] = NoConn
        /\ pc[r] # "rotate" => listed[r] = {}

IInv == TypeOK /\ LocalsSet /\ NoDispatchIntoCooldown /\ NeverRetriesFailed

(* Every request that arrives ends, however the accounts change under it.  *)
EveryRequestEnds == \A r \in Requests : pc[r] = "select" ~> pc[r] = "done"

(* What the 400 response says: no connection of the provider is active.    *)
NoActiveMeansNoneActive ==
    [][\A r \in Requests : answer[r] = "none" /\ answer'[r] = "noActive" =>
            active = {}]_vars
=============================================================================
