----------------------------- MODULE OAuthLogin -----------------------------
(***************************************************************************)
(* An OAuth login from the dashboard, with the authorization code flow:    *)
(* the modal of a provider's page (OAuthModal.tsx, a React component whose *)
(* effects run again whenever the page renders, since the page hands it a  *)
(* new onSuccess each time), the callback page, which relays the code over *)
(* three channels (useOAuthCallback.ts), and the gateway's proxy with its  *)
(* sessions (oauth/proxy.go).  codex and xai have a callback at a `fixed'  *)
(* port, served by the proxy, and the modal polls the session's status;    *)
(* the callback of the others is the callback page.                        *)
(*                                                                         *)
(* A login is one run of startOAuthFlow, known by its `state'.  A run is   *)
(* not cancelled when the modal closes.  The device-code flow, pasted      *)
(* tokens and wording are left out.                                        *)
(***************************************************************************)
EXTENDS Integers, FiniteSets

CONSTANTS
    Logins,
    MaxAttempts,    \* MAX_ATTEMPTS
    MaxRenders,     \* bound: renders of the page for reasons of its own
    MaxVisits,      \* bound: uses of callback URLs, visits, reloads and pastes
    None

ASSUME LoginAssumption ==
    /\ None \notin Logins
    /\ MaxAttempts \in Nat \ {0} /\ MaxRenders \in Nat /\ MaxVisits \in Nat

VARIABLES
    fixed,
    open, step, auth, processed,    \* isOpen, step, authData, callbackProcessedRef
    poll,       \* the loop of the poll effect that is not cancelled
    orphans,    \* poll requests under way of loops that were cancelled
    flow,       \* where startOAuthFlow is, per login
    requests,   \* calls of exchangeTokens
    mail,       \* callbacks under way to the modal
    stored,     \* localStorage's "oauth_callback"
    up, sess,   \* the proxy's listener and sessions
    serving,    \* per login, the proxy's handlers that exchange its code
    answer,     \* what the provider redirects the browser with
    used,       \* codes the provider has redeemed or refused
    saved,      \* logins whose connection is stored
    visits, renders,
    handed,     \* history: calls of exchangeTokens since the callback effect last ran
    late        \* history: a login reported its success after another one had begun

modal == <<open, step, auth, processed, poll, orphans, requests, handed, late>>
relay == <<mail, stored>>
proxy == <<up, sess, serving>>
provider == <<answer, used, saved, visits>>
vars == <<fixed, modal, flow, relay, proxy, provider, renders>>

NoLoop == [at |-> "none", login |-> None, left |-> 0, told |-> "nothing"]
Channels == {"message", "broadcast", "storage"}
SessionStates == {"none", "pending", "done", "error"}
Request(a, code, n) == [auth |-> a, code |-> code, n |-> n]
Fresh(sent) == CHOOSE n \in 0..Cardinality(sent) : \A r \in sent : r.n # n

TypeOK ==
    /\ fixed \in BOOLEAN /\ open \in BOOLEAN /\ processed \in BOOLEAN
    /\ late \in BOOLEAN /\ up \in BOOLEAN
    /\ step \in {"waiting", "input", "success", "error"}
    /\ auth \in {None} \cup {l \in Logins : flow[l] \in {"watched", "begun"}}
    /\ \/ poll = NoLoop
       \/ /\ auth # None /\ flow[auth] = "watched"
          /\ poll \in [at : {"asleep", "asking", "read", "told"}, login : {auth},
                       left : 0..MaxAttempts,
                       told : SessionStates \cup {"nothing", "unknown", "lost"}]
    /\ orphans \subseteq [at : {"asking", "read"}, login : Logins]
    /\ flow \in [Logins -> {"unused", "authorize", "proxy", "proxied", "unproxied",
                            "watched", "begun", "failed"}]
    /\ \A r \in requests : r.auth \in Logins /\ r.code \in Logins
    /\ mail \subseteq [by : Channels, login : Logins] /\ stored \in Logins \cup {None}
    /\ sess \in [Logins -> SessionStates] /\ serving \in [Logins -> Nat]
    /\ answer \in [Logins -> {"none", "code", "error"}]
    /\ used \subseteq Logins /\ saved \subseteq used
    /\ visits \in 0..MaxVisits /\ renders \in 0..MaxRenders
    /\ handed \in Nat

Init ==
    /\ fixed \in BOOLEAN
    /\ open = FALSE /\ step = "waiting" /\ auth = None /\ processed = FALSE
    /\ poll = NoLoop /\ orphans = {} /\ requests = {}
    /\ flow = [l \in Logins |-> "unused"]
    /\ mail = {} /\ stored = None
    /\ up = FALSE /\ sess = [l \in Logins |-> "none"] /\ serving = [l \in Logins |-> 0]
    /\ answer = [l \in Logins |-> "none"] /\ used = {} /\ saved = {}
    /\ visits = 0 /\ renders = 0
    /\ handed = 0 /\ late = FALSE

-----------------------------------------------------------------------------
(* The modal's effects.  They run in the order of the source: the poll     *)
(* effect looks at callbackProcessedRef before the callback effect resets  *)
(* it.  `shown' is the step the handler has set, `sent' the exchanges that *)
(* are under way.                                                          *)

\* Mutant of Handle: the callback counts as processed when the exchange is done only.
HandleUnmarked(k, a, shown, sent, before) ==
    /\ \/ /\ answer[k] = "error" /\ processed' = TRUE
          /\ step' = "error" /\ requests' = sent /\ handed' = before
       \/ /\ answer[k] = "code" /\ processed' = FALSE
          /\ step' = shown
          /\ handed' = before + 1
          /\ requests' = sent \cup {Request(a, k, Fresh(sent))}

\* handleCallback, for the callback of login k and an effect that ran for a
Handle(k, a, shown, sent, before) ==
    /\ processed' = TRUE
    /\ \/ /\ answer[k] = "error"
          /\ step' = "error" /\ requests' = sent /\ handed' = before
       \/ /\ answer[k] = "code"
          /\ step' = shown
          /\ handed' = before + 1
          /\ requests' = sent \cup {Request(a, k, Fresh(sent))}

\* Mutant of Listen: the item stays in localStorage.
ListenKeeps(a, shown, sent) ==
    /\ mail' = {m \in mail : m.by # "broadcast"}
    /\ stored' = stored
    /\ \/ stored # None /\ Handle(stored, a, shown, sent, 0)
       \/ processed' = FALSE /\ step' = shown /\ requests' = sent /\ handed' = 0

\* The callback effect: listeners anew, which loses what the old BroadcastChannel
\* had not delivered, then the stored callback unless it is older than 30 s.
Listen(a, shown, sent) ==
    /\ mail' = {m \in mail : m.by # "broadcast"}
    /\ stored' = None
    /\ \/ stored # None /\ Handle(stored, a, shown, sent, 0)
       \/ processed' = FALSE /\ step' = shown /\ requests' = sent /\ handed' = 0

\* The cleanup of the poll effect: what the cancelled loop has asked is answered all the same
Cancel ==
    orphans' = IF poll.at \in {"asking", "read"}
               THEN orphans \cup {[at |-> poll.at, login |-> poll.login]} ELSE orphans

\* Mutant of Loop: the effect has no cleanup, the loop of the login before goes on.
LoopOnce(a, watched, seen) ==
    poll' = IF poll # NoLoop THEN poll
            ELSE IF watched /\ ~seen
            THEN [at |-> "asleep", login |-> a, left |-> MaxAttempts, told |-> "nothing"]
            ELSE NoLoop

\* The poll effect, when callbackProcessedRef is `seen'
Loop(a, watched, seen) ==
    poll' = IF watched /\ ~seen
            THEN [at |-> "asleep", login |-> a, left |-> MaxAttempts, told |-> "nothing"]
            ELSE NoLoop

\* A render with a new onSuccess runs both effects
Rerun(shown, seen, sent) ==
    \/ /\ auth # None
       /\ Cancel /\ Loop(auth, flow[auth] = "watched", seen)
       /\ Listen(auth, shown, sent)
    \/ /\ auth = None
       /\ step' = shown /\ processed' = seen /\ requests' = sent
       /\ UNCHANGED <<poll, orphans, relay, handed>>

\* onSuccess: the page closes the modal, and renders if it was open.  `loop' is the poll
\* effect's loop after the caller.
Succeed(seen, sent, loop) ==
    /\ open' = FALSE
    /\ \/ open /\ Rerun("success", seen, sent)
       \/ /\ ~open /\ step' = "success" /\ processed' = seen /\ requests' = sent
          /\ poll' = loop /\ UNCHANGED <<orphans, relay, handed>>

-----------------------------------------------------------------------------
(* The user and the page.                                                  *)

StartOAuthFlow ==
    /\ \E l \in Logins : flow[l] = "unused"
    /\ LET l == CHOOSE l \in Logins : flow[l] = "unused"
       IN flow' = [flow EXCEPT ![l] = "authorize"]

Open ==
    /\ ~open /\ open' = TRUE
    /\ StartOAuthFlow
    /\ Cancel /\ poll' = NoLoop
    /\ auth' = None
    /\ \/ auth # None /\ Listen(auth, step, requests)
       \/ auth = None /\ UNCHANGED <<processed, step, requests, handed, relay>>
    /\ UNCHANGED <<fixed, late, proxy, provider, renders>>

TryAgain ==
    /\ open /\ step = "error"
    /\ StartOAuthFlow
    /\ UNCHANGED <<fixed, modal, relay, proxy, provider, renders>>

Close ==
    /\ open /\ open' = FALSE
    /\ Rerun(step, processed, requests)
    /\ UNCHANGED <<fixed, auth, late, flow, proxy, provider, renders>>

Render ==
    /\ renders < MaxRenders /\ renders' = renders + 1
    /\ auth # None
    /\ Rerun(step, processed, requests)
    /\ UNCHANGED <<fixed, open, auth, late, flow, proxy, provider>>

\* handleManualSubmit: the callback URL pasted by the user; it does not look at
\* callbackProcessedRef
Submit ==
    /\ open /\ step \in {"waiting", "input"} /\ auth # None
    /\ visits < MaxVisits /\ visits' = visits + 1
    /\ \/ /\ answer[auth] = "error" /\ step' = "error" /\ UNCHANGED requests
       \/ /\ answer[auth] = "code" /\ UNCHANGED step
          /\ requests' = requests \cup {Request(auth, auth, Fresh(requests))}
    /\ UNCHANGED <<fixed, open, auth, processed, poll, orphans, handed, late,
                   flow, relay, proxy, answer, used, saved, renders>>

-----------------------------------------------------------------------------
(* startOAuthFlow.                                                         *)

FlowStep(l, from, to) ==
    /\ flow[l] = from
    /\ flow' = [flow EXCEPT ![l] = to]

Authorize(l) ==
    /\ FlowStep(l, "authorize", IF fixed THEN "proxy" ELSE "unproxied")
    /\ UNCHANGED <<fixed, modal, relay, proxy, provider, renders>>

\* A request failed; a busy port is an error for xai only
FlowFails(l) ==
    /\ \/ FlowStep(l, "authorize", "failed")
       \/ fixed /\ FlowStep(l, "unproxied", "failed")
    /\ step' = "error"
    /\ UNCHANGED <<fixed, open, auth, processed, poll, orphans, requests, handed, late,
                   relay, proxy, provider, renders>>

\* StartOAuthProxy and RegisterProxySession.  The reply may be lost; the request may be, too,
\* or another process hold the port.
StartProxy(l) ==
    /\ \/ /\ \E to \in {"proxied", "unproxied"} : FlowStep(l, "proxy", to)
          /\ up' = TRUE
          /\ sess' = [sess EXCEPT ![l] = "pending"]
       \/ /\ FlowStep(l, "proxy", "unproxied")
          /\ UNCHANGED <<up, sess>>
    /\ UNCHANGED <<fixed, modal, relay, serving, provider, renders>>

\* setAuthData, and the popup, which may be blocked
Begin(l) ==
    /\ auth' = l /\ late' = FALSE
    /\ \/ /\ FlowStep(l, "proxied", "watched")
          /\ Cancel /\ Loop(l, TRUE, processed)
          /\ \E shown \in {"waiting", "input"} : Listen(l, shown, requests)
       \/ /\ FlowStep(l, "unproxied", "begun")
          /\ Cancel /\ Loop(l, FALSE, processed)
          /\ \E shown \in {"waiting", "input"} :
                (fixed => shown = "input") /\ Listen(l, shown, requests)
    /\ UNCHANGED <<fixed, open, proxy, provider, renders>>

-----------------------------------------------------------------------------
(* The provider, the callback page and the proxy.                          *)

Answer(l) ==
    /\ flow[l] \in {"watched", "begun"} /\ answer[l] = "none"
    /\ \E a \in {"code", "error"} : answer' = [answer EXCEPT ![l] = a]
    /\ UNCHANGED <<fixed, modal, flow, relay, proxy, used, saved, visits, renders>>

\* useOAuthCallback
Relay(l) ==
    /\ mail' = mail \cup [by : {c \in Channels : auth = None => c # "broadcast"}, login : {l}]
    /\ stored' = l

\* serve: a session's callback is exchanged here, another one redirected
Serve(l) ==
    /\ up
    /\ \/ /\ sess[l] = "none" /\ Relay(l)
          /\ up' = FALSE /\ UNCHANGED <<sess, serving>>
       \/ /\ sess[l] # "none" /\ answer[l] = "error"
          /\ sess' = [sess EXCEPT ![l] = "error"]
          /\ up' = FALSE /\ UNCHANGED <<serving, relay>>
       \/ /\ sess[l] # "none" /\ answer[l] = "code"
          /\ serving' = [serving EXCEPT ![l] = @ + 1]
          /\ UNCHANGED <<up, sess, relay>>

Visit(l) ==
    /\ answer[l] # "none"
    /\ visits < MaxVisits /\ visits' = visits + 1
    /\ \/ fixed /\ Serve(l)
       \/ ~fixed /\ Relay(l) /\ UNCHANGED proxy
    /\ UNCHANGED <<fixed, modal, flow, answer, used, saved, renders>>

\* Mutant of Settle: the outcome is stored under the state, whether or not the session is there.
SettleAnyway(l, outcome) == sess' = [sess EXCEPT ![l] = outcome]

\* The handler writes to the session it has found, which may be out of the map by now
Settle(l, outcome) ==
    sess' = IF sess[l] = "none" THEN sess ELSE [sess EXCEPT ![l] = outcome]

\* handleSessionExchange: the code can be redeemed once; the store may fail after that
ServerExchange(l) ==
    /\ serving[l] > 0 /\ serving' = [serving EXCEPT ![l] = @ - 1]
    /\ \/ /\ l \notin used
          /\ used' = used \cup {l} /\ saved' = saved \cup {l}
          /\ Settle(l, "done")
       \/ /\ used' \in {used, used \cup {l}} /\ UNCHANGED saved
          /\ Settle(l, "error")
    /\ up' = FALSE
    /\ UNCHANGED <<fixed, modal, flow, relay, answer, visits, renders>>

\* StopOAuthProxy by the idle timer, and by every render of a page of this
\* provider, in this tab or another, whose modal is closed
StopProxy ==
    /\ up /\ up' = FALSE
    /\ UNCHANGED <<fixed, modal, flow, relay, sess, serving, provider, renders>>

-----------------------------------------------------------------------------
(* What reaches the modal.                                                 *)

Deliver(m) ==
    /\ mail' = mail \ {m}
    /\ stored' = IF m.by = "storage" /\ auth # None THEN None ELSE stored
    /\ \/ auth # None /\ ~processed /\ Handle(m.login, auth, step, requests, handed)
       \/ /\ auth = None \/ processed
          /\ UNCHANGED <<processed, step, requests, handed>>
    /\ UNCHANGED <<fixed, open, auth, poll, orphans, late, flow, proxy, provider, renders>>

\* exchangeTokens: the code verifier is that of the login at hand.  It goes on in whatever
\* state the modal is by then.
ExchangeReturns(r) ==
    /\ \/ /\ r.code = r.auth /\ r.code \notin used
          /\ used' = used \cup {r.code} /\ saved' = saved \cup {r.code}
          /\ late' = (late \/ r.auth # auth)
          /\ Succeed(processed, requests \ {r}, poll)
       \/ /\ used' \in {used, used \cup {r.code}} /\ UNCHANGED saved
          /\ step' = "error" /\ requests' = requests \ {r}
          /\ UNCHANGED <<open, processed, poll, orphans, relay, handed, late>>
    /\ UNCHANGED <<fixed, auth, flow, proxy, answer, visits, renders>>

PollSends ==
    /\ poll.at = "asleep"
    /\ poll' = IF processed THEN NoLoop ELSE [poll EXCEPT !.at = "asking", !.left = @ - 1]
    /\ UNCHANGED <<fixed, open, step, auth, processed, orphans, requests, handed, late,
                   flow, relay, proxy, provider, renders>>

Final == {"done", "error"}
Status(l) == IF sess[l] = "none" THEN "unknown" ELSE sess[l]

\* handleOAuthPollStatus looks at the session, and removes one whose outcome it has read
\* (ClearProxySession) under another lock.  Requests and answers may be lost.
PollRead ==
    /\ poll.at = "asking"
    /\ poll' \in
          {[poll EXCEPT !.at = "told", !.told = "lost"],
           [poll EXCEPT !.at = IF Status(poll.login) \in Final THEN "read" ELSE "told",
                        !.told = Status(poll.login)]}
    /\ UNCHANGED <<fixed, open, step, auth, processed, orphans, requests, handed, late,
                   flow, relay, proxy, provider, renders>>

ClearProxySession(l) == sess' = [sess EXCEPT ![l] = "none"]

PollServed ==
    /\ poll.at = "read"
    /\ ClearProxySession(poll.login)
    /\ \E told \in {"lost", poll.told} : poll' = [poll EXCEPT !.at = "told", !.told = told]
    /\ UNCHANGED <<fixed, open, step, auth, processed, orphans, requests, handed, late,
                   flow, relay, up, serving, provider, renders>>

\* The same two steps for a request of a loop that was cancelled
OrphanServed(o) ==
    /\ \/ /\ o.at = "asking" /\ UNCHANGED sess
          /\ orphans' \in {orphans \ {o},
                           IF Status(o.login) \in Final
                           THEN (orphans \ {o}) \cup {[o EXCEPT !.at = "read"]}
                           ELSE orphans \ {o}}
       \/ /\ o.at = "read" /\ ClearProxySession(o.login)
          /\ orphans' = orphans \ {o}
    /\ UNCHANGED <<fixed, open, step, auth, processed, poll, requests, handed, late,
                   flow, relay, up, serving, provider, renders>>

\* Mutant of Again: attempts that failed do not count.
AgainForEver ==
    /\ poll' = [poll EXCEPT !.at = "asleep", !.left = MaxAttempts, !.told = "nothing"]
    /\ UNCHANGED <<step, processed>>

\* No final answer: another round, or MAX_ATTEMPTS are over
Again ==
    \/ /\ poll.left > 0
       /\ poll' = [poll EXCEPT !.at = "asleep", !.told = "nothing"]
       /\ UNCHANGED <<step, processed>>
    \/ /\ poll.left = 0
       /\ poll' = NoLoop /\ processed' = TRUE /\ step' = "error"

PollReturns ==
    /\ poll.at = "told"
    /\ \/ /\ processed /\ poll' = NoLoop
          /\ UNCHANGED <<open, step, processed, orphans, requests, handed, relay>>
       \/ /\ ~processed /\ poll.told = "done"
          /\ Succeed(TRUE, requests, NoLoop)
       \/ /\ ~processed /\ poll.told = "error"
          /\ processed' = TRUE /\ step' = "error" /\ poll' = NoLoop
          /\ UNCHANGED <<open, orphans, requests, handed, relay>>
       \/ /\ ~processed /\ poll.told \notin {"done", "error"}
          /\ Again
          /\ UNCHANGED <<open, orphans, requests, handed, relay>>
    /\ UNCHANGED <<fixed, auth, late, flow, proxy, provider, renders>>

-----------------------------------------------------------------------------
User == Open \/ TryAgain \/ Close \/ Render \/ Submit

Flow(l) == Authorize(l) \/ FlowFails(l) \/ StartProxy(l) \/ Begin(l)

World(l) == Answer(l) \/ Visit(l) \/ ServerExchange(l)

Next ==
    \/ User
    \/ \E l \in Logins : Flow(l) \/ World(l)
    \/ StopProxy
    \/ \E m \in mail : Deliver(m)
    \/ \E r \in requests : ExchangeReturns(r)
    \/ \E o \in orphans : OrphanServed(o)
    \/ PollSends \/ PollRead \/ PollServed \/ PollReturns

\* Timers fire and requests of the modal are answered or fail; nothing is assumed of the
\* user, the provider or the page.
Fairness ==
    /\ WF_vars(PollSends) /\ WF_vars(PollRead) /\ WF_vars(PollServed) /\ WF_vars(PollReturns)
    /\ WF_vars(\E r \in requests : ExchangeReturns(r))

Spec == Init /\ [][Next]_vars /\ Fairness

-----------------------------------------------------------------------------
\* The modal reports the success of the login it shows: that login's connection is stored,
\* unless the exchange of an earlier login returned after this one had begun, which
\* exchangeTokens does not notice.
SuccessIsTheLogins == step = "success" /\ auth # None => auth \in saved \/ late

\* The three channels and the stored item bring one callback several times: between two runs
\* of the callback effect at most one of them is handed to the provider.
OnceProcessed == handed <= 1

\* What may still bring the code of a login to the provider: the calls that do, the callbacks
\* under way to the modal and the stored one.
Copies(l) ==
    Cardinality({r \in requests : r.code = l}) + Cardinality({m \in mail : m.login = l})
        + (IF stored = l THEN 1 ELSE 0)

\* However often the page renders and its effects forget that a callback was processed, each
\* call of exchangeTokens uses up the copy that led to it: only the user's visits and pastes
\* make copies, four at most.
CarriedOnce == [][\A l \in Logins : Copies(l)' <= Copies(l) + 4 * (visits' - visits)]_vars

\* A session whose outcome was read never comes back: a handler still at work for a second
\* visit writes to a session that nobody finds any more.
ConsumedStaysGone ==
    [][\A l \in Logins : sess[l] = "none" /\ flow[l] # "proxy" => sess'[l] = "none"]_vars

\* While it is polled for, a login that is shown as waiting does not wait for ever: it
\* succeeds, fails or times out, whatever becomes of callbacks, sessions and answers.
WaitEnds ==
    open /\ step = "waiting" /\ poll # NoLoop ~> ~(open /\ step = "waiting")
=============================================================================
