---------------------------- MODULE CredManager ----------------------------
(***************************************************************************)
(* The refresh of OAuth tokens: RefreshIfNeeded and RefreshForce with      *)
(* their lock per connection (oauth/credential_manager.go) over the single *)
(* flight and result cache of tokenrefresh (dedup.go, refresh.go).         *)
(*                                                                         *)
(* Three parts of the program refresh, each with a manager of its own: the *)
(* chat handlers, the usage API and the resolvers of model lists; the last *)
(* call tokenrefresh directly.  The connections belong to one account, the *)
(* second one being a second import of it, so that their refresh tokens    *)
(* may coincide.  The provider rotates: it accepts the latest refresh      *)
(* token only and answers token t with t + 1.                              *)
(***************************************************************************)
EXTENDS Integers, FiniteSets

CONSTANTS
    Chats, Usages, Listings,    \* callers: goroutines of the three parts
    Conns,
    MaxRetryAttempts,
    Faults,         \* what may go wrong around the program: "reply", "read", "write", "crash"
    MaxIssued       \* bound: refresh tokens the provider issues

Callers == Chats \cup Usages \cup Listings
Managers == {"chat", "gateway", "models"}
Nobody == "nobody"
Tokens == 0..MaxIssued

ASSUME CredAssumption ==
    /\ Chats \cap Usages = {} /\ Chats \cap Listings = {} /\ Usages \cap Listings = {}
    /\ Conns # {}
    /\ MaxRetryAttempts \in Nat /\ MaxIssued \in Nat
    /\ Faults \subseteq {"reply", "read", "write", "crash"}

VARIABLES
    row,        \* the tokens of each connection's row: access, refresh and expiry together
    current,    \* the provider's latest refresh token
    horizon,    \* tokens up to this one are near expiry or over their maximum age
    cached,     \* per manager, the refresh tokens whose result is cached
    call,       \* per caller, the call it is in
    issuedTo,   \* history: the manager each token was exchanged by
    strayed     \* history: a call that had not read the row under its lock has put an
                \* older pair over a newer one

provider == <<current, issuedTo>>
vars == <<row, provider, horizon, cached, call, strayed>>

Manager(q) == IF q \in Chats THEN "chat" ELSE IF q \in Usages THEN "gateway" ELSE "models"

Waiting == {"idle", "lock", "quota"}
InDedup == {"wait", "send", "flight"}
Idle(c) == [pc |-> "idle", conn |-> c, given |-> 0, copy |-> 0, reread |-> FALSE, forced |-> FALSE, tries |-> 0]
NoCall == Idle(CHOOSE c \in Conns : TRUE)

TypeOK ==
    /\ row \in [Conns -> Tokens]
    /\ current \in Tokens
    /\ issuedTo \in [Tokens -> Managers \cup {Nobody}]
    /\ strayed \in BOOLEAN
    /\ horizon \in Tokens
    /\ cached \in [Managers -> SUBSET (0..(MaxIssued - 1))]
    /\ call \in [Callers -> [pc : Waiting \cup InDedup \cup {"lookup", "persist", "stamp"},
                             conn : Conns, given : Tokens, copy : Tokens,
                             reread : BOOLEAN, forced : BOOLEAN, tries : 0..MaxRetryAttempts]]

Init ==
    /\ row = [c \in Conns |-> 0]
    /\ current = 0
    /\ horizon = 0
    /\ cached = [m \in Managers |-> {}]
    /\ call = [q \in Callers |-> NoCall]
    /\ issuedTo = [t \in Tokens |-> Nobody]
    /\ strayed = FALSE

pc(q) == call[q].pc
copy(q) == call[q].copy

\* ShouldRefresh
Due(t) == t <= horizon

\* Who holds lockFor(conn.ID) of its manager.
Holds(q) == q \notin Listings /\ pc(q) \notin Waiting
Locked(q) == \E p \in Callers \ {q} :
    Holds(p) /\ Manager(p) = Manager(q) /\ call[p].conn = call[q].conn

\* The callers in one call of the dedup group, its leader and those in wg.Wait.
Together(q) == {p \in Callers :
    pc(p) \in InDedup /\ Manager(p) = Manager(q) /\ copy(p) = copy(q)}

-----------------------------------------------------------------------------
(* A call returns: chat goes on to the upstream, the usage API to the quota *)
(* after RefreshIfNeeded; an error leaves the caller the connection it gave.*)
Returned(q, t) ==
    IF q \in Usages /\ ~ call[q].forced
    THEN [call[q] EXCEPT !.pc = "quota", !.given = t, !.copy = t, !.reread = FALSE, !.tries = 0]
    ELSE NoCall

Goto(q, l) == call' = [call EXCEPT ![q].pc = l]
Return(q, t) == call' = [call EXCEPT ![q] = Returned(q, t)]
Fail(q) == Return(q, call[q].given)

\* The caller reads the row, and calls when it finds the tokens due (or, listing models,
\* when the provider turns them down).
Begin(q) ==
    /\ pc(q) = "idle"
    /\ \E c \in Conns :
        /\ q \in Chats => Due(row[c])
        /\ call' = [call EXCEPT ![q] = [NoCall EXCEPT
              !.conn = c, !.given = row[c], !.copy = row[c],
              !.pc = IF q \in Listings THEN "lookup" ELSE IF Due(row[c]) THEN "lock" ELSE "quota"]]
    /\ UNCHANGED <<row, provider, horizon, cached, strayed>>

\* Mutant of Reread: the row is not read again under the lock.
RereadNever(q) == [call[q] EXCEPT !.reread = TRUE]

\* GetConnection after the lock.
Reread(q) == [call[q] EXCEPT !.copy = row[call[q].conn], !.reread = TRUE]

\* RefreshIfNeeded up to executeRefresh
EnterIfNeeded(q) ==
    /\ pc(q) = "lock" /\ ~ call[q].forced /\ ~ Locked(q)
    /\ LET mine == Reread(q)
       IN  IF Due(mine.copy)
           THEN call' = [call EXCEPT ![q] = [mine EXCEPT !.pc = "lookup"]]
           ELSE Return(q, mine.copy)
    /\ UNCHANGED <<row, provider, horizon, cached, strayed>>

\* RefreshForce, or RefreshIfNeeded when the row cannot be read, up to executeRefresh
EnterBlindly(q) ==
    /\ pc(q) = "lock" /\ ~ Locked(q)
    /\ call[q].forced \/ "read" \in Faults
    /\ Goto(q, "lookup")
    /\ UNCHANGED <<row, provider, horizon, cached, strayed>>

Enter(q) == EnterIfNeeded(q) \/ EnterBlindly(q)

-----------------------------------------------------------------------------
(* DedupGroup.Do and refreshWithRetry.                                     *)

\* Those who call with the same token while a call is in flight wait for its result.
Joins(q) == Together(q) # {}

\* What is done with a result: resolvers of model lists use its access token and drop it.
Obtained(q) == IF q \in Listings THEN NoCall ELSE [call[q] EXCEPT !.pc = "persist", !.tries = 0]

\* The critical section at the start of Do.
Lookup(q) ==
    /\ pc(q) = "lookup"
    /\ call' = [call EXCEPT ![q] =
          IF Joins(q) THEN [@ EXCEPT !.pc = "wait"]
          ELSE IF copy(q) \in cached[Manager(q)] THEN Obtained(q)
          ELSE [@ EXCEPT !.pc = "send"]]
    /\ UNCHANGED <<row, provider, horizon, cached, strayed>>

\* Mutant of Complete: an error does not wake the waiters.
CompleteLeaderOnly(q, ok) ==
    call' = [p \in Callers |->
        IF p \in (IF ok THEN Together(q) ELSE {q})
        THEN (IF ok THEN Obtained(p) ELSE Returned(p, call[p].given)) ELSE call[p]]

\* wg.Done: the leader and the waiters get the result or the error.
Complete(q, ok) ==
    call' = [p \in Callers |->
        IF p \in Together(q)
        THEN (IF ok THEN Obtained(p) ELSE Returned(p, call[p].given)) ELSE call[p]]

\* Mutant of AttemptFailed: one attempt too many.
AttemptFailedOnceMore(q) ==
    \/ /\ call[q].tries <= MaxRetryAttempts
       /\ call' = [call EXCEPT ![q].pc = "send", ![q].tries = @ + 1]
    \/ Complete(q, FALSE)

\* An attempt failed: after a pause comes the next one, unless it was the last or the
\* leader's context is done.
AttemptFailed(q) ==
    \/ /\ call[q].tries < MaxRetryAttempts
       /\ call' = [call EXCEPT ![q].pc = "send", ![q].tries = @ + 1]
    \/ Complete(q, FALSE)

\* The provider accepts the refresh token and rotates it.
Issue(q) ==
    /\ pc(q) = "send" /\ copy(q) = current /\ current < MaxIssued
    /\ current' = current + 1
    /\ issuedTo' = [issuedTo EXCEPT ![current] = Manager(q)]
    /\ Goto(q, "flight")
    /\ UNCHANGED <<row, horizon, cached, strayed>>

\* It does not, because it cannot be reached or has rotated the token before.
Reject(q) ==
    /\ pc(q) = "send"
    /\ AttemptFailed(q)
    /\ UNCHANGED <<row, provider, horizon, cached, strayed>>

Reply(q) ==
    /\ pc(q) = "flight"
    /\ cached' = [cached EXCEPT ![Manager(q)] = @ \cup {copy(q)}]
    /\ Complete(q, TRUE)
    /\ UNCHANGED <<row, provider, horizon, strayed>>

\* The reply is lost: the connection breaks, or the leader's client has gone away.
LoseReply(q) ==
    /\ pc(q) = "flight" /\ "reply" \in Faults
    /\ AttemptFailed(q)
    /\ UNCHANGED <<row, provider, horizon, cached, strayed>>

-----------------------------------------------------------------------------
(* The rest of executeRefresh.                                             *)

\* UpdateConnectionTokens; an error returns.
Persist(q) ==
    /\ pc(q) = "persist"
    /\ \/ /\ row' = [row EXCEPT ![call[q].conn] = copy(q) + 1]
          /\ strayed' = (strayed \/ (~ call[q].reread /\ copy(q) + 1 < row[call[q].conn]))
          /\ Goto(q, "stamp")
       \/ /\ "write" \in Faults
          /\ Fail(q)
          /\ UNCHANGED <<row, strayed>>
    /\ UNCHANGED <<provider, horizon, cached>>

\* UpdateConnectionPSD; its error makes a refresh that is in the row a failed one.
Stamp(q) ==
    /\ pc(q) = "stamp"
    /\ Return(q, copy(q) + 1) \/ ("write" \in Faults /\ Fail(q))
    /\ UNCHANGED <<row, provider, horizon, cached, strayed>>

\* fetchConnQuota: the quota's server accepts the access token, or a forced refresh follows.
Quota(q) ==
    /\ pc(q) = "quota"
    /\ call' = [call EXCEPT ![q] = NoCall] \/
       call' = [call EXCEPT ![q].pc = "lock", ![q].forced = TRUE]
    /\ UNCHANGED <<row, provider, horizon, cached, strayed>>

-----------------------------------------------------------------------------
Forget(m, t) ==     \* ttl
    /\ t \in cached[m]
    /\ cached' = [cached EXCEPT ![m] = @ \ {t}]
    /\ UNCHANGED <<row, provider, horizon, call, strayed>>

Tick ==
    /\ horizon < current
    /\ horizon' = horizon + 1
    /\ UNCHANGED <<row, provider, cached, call, strayed>>

Restart ==
    /\ "crash" \in Faults
    /\ cached' = [m \in Managers |-> {}]
    /\ call' = [q \in Callers |-> NoCall]
    /\ UNCHANGED <<row, provider, horizon, strayed>>

Proceed(q) ==
    Lookup(q) \/ Issue(q) \/ Reject(q) \/ Reply(q) \/ LoseReply(q) \/ Persist(q) \/ Stamp(q) \/ Quota(q)

Next ==
    \/ \E q \in Callers : Begin(q) \/ Enter(q) \/ Proceed(q)
    \/ \E m \in Managers, t \in Tokens : Forget(m, t)
    \/ Tick
    \/ Restart

Spec == Init /\ [][Next]_vars

-----------------------------------------------------------------------------
(* Whatever two managers, retries, the cache and failures do, an older pair *)
(* is not put over a newer one by a RefreshIfNeeded that has read the row    *)
(* again ("another goroutine may have refreshed"); the first time it         *)
(* happens, it is the work of a call that had not.                           *)
NeverBack == [][\A c \in Conns : row'[c] < row[c] => strayed']_vars

(* Of the callers that refresh the same token by the same manager exactly   *)
(* one is at the provider, and nobody waits for a result that nobody will   *)
(* deliver, however the leader's attempts end (DedupGroup.Do).              *)
OneLeader ==
    \A q \in Callers : pc(q) \in InDedup =>
        \E p \in Together(q) : \A o \in Together(q) : pc(o) # "wait" <=> o = p
=============================================================================
