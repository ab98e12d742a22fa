# FlameRouter in TLA+

FlameRouter is a local gateway between coding tools and AI providers: a Go
server (`src/internal`, `src/cmd`) with a Next.js dashboard (`src/src`). A
request names a model or a *combo* (a list of models); the router picks one of
the provider's accounts, translates the request, calls the upstream and relays
the response, failing over to other accounts and other models. Around this core
run OAuth token refresh, usage accounting, child processes and a MITM proxy.

The modules here are written from the code. Paths below are relative to
`src/internal`, those of the dashboard to `src/src`.

## 1. Inventory

| component | state | operations | interacts with |
|---|---|---|---|
| account fallback (`opensse/fallback`, `opensse/config/error.go`) | per account: back-off level, use count, sequence number; a global sequence | `MarkUnavailable`, `ClearError`, `SelectAccountExcluding`, `selectRoundRobin` | called by every handler; keeps cooldowns in the store |
| store (`store`) | SQLite, one connection: provider rows, settings, usage | queries and updates, each atomic | everything |
| chat handler (`opensse/handlers/chat.go`) | per request: excluded accounts, connection in use | `handleWithFallback`, `streamModel`, relays | fallback, credential manager, executors |
| media handlers (`opensse/handlers/*.go`) | per request: connection in use | select, one call, relay | fallback |
| combo (`opensse/combo`) | per combo: rotation index and use count; per request: models left, response | `Execute` of fallback, round-robin, fusion | runs the chat handler's single-model runner |
| fusion panel (`opensse/combo/fusion.go`) | answers, quorum, grace timer | `executePanel` | runs the combo's runner concurrently |
| credential manager (`oauth/credential_manager.go`, `tokenrefresh`) | per-connection locks, in-flight refreshes, cached results | `RefreshIfNeeded`, `RefreshForce`, `DedupGroup.Do` | store, token endpoints |
| usage (`usage`) | bounded queue, ring, subscribers | `Track`, `loop`, `Close`, `Subscribe` | handlers, store, dashboard |
| login limiter, sessions (`auth`) | per client: failures, lock | `CheckLock`, `RecordFail`, `RecordSuccess` | gateway |
| OAuth callback proxy (`oauth/proxy.go`) | sessions, server, idle timer | start, stop, callback | credential exchange, dashboard |
| OAuth login of the dashboard (`shared/components/OAuthModal.tsx`, `shared/hooks/useOAuthCallback.ts`, the provider's page) | the login shown, a processed flag, a polling loop, messages under way, localStorage | open, retry, close, submit, poll, callback, exchange | proxy, gateway, the provider |
| chat page (`app/(dashboard)/dashboard/basic-chat`) | chats, the one shown, sending flag and controller, localStorage | new, select, delete, send, stop, stream | gateway |
| quota page (`.../usage/components/ProviderLimits`) | list and page of accounts, filters, spinners, a timer, refreshing flag | filter, page, refresh, switch, hide, answers | gateway |
| MCP bridge (`mcp/bridge.go`) | plugins, subscribers | `Start`, `Send`, `Subscribe`, `readLoop` | plugin processes |
| supervisors (`infra/headroom`, `pxpipe`, `tunnel`) | process handle, status | `Start`, `Stop`, `Restart`, waiter, watchdog | child processes |
| MITM server (`infra/mitm`) | listener, restart budget | `Start`, `Stop`, `serveListener`, restarter | DNS, TLS |
| model engine (`opensse/models`) | cache, in-flight fetches | `ResolveModels`, `tryRefresh` of its resolvers | provider APIs, `tokenrefresh` |
| translators, executors, token savers, CLI tools, gateway routes, the rest of the dashboard | none shared | data mappings and I/O | - |

What is hard. Requests run concurrently, one goroutine each, and share accounts
whose state lives half in the store (cooldown) and half in memory (level,
rotation), under different locks. What a request knows of an account is old by
the time the upstream answers: a late success clears, and a late error replaces,
a cooldown recorded meanwhile. Clients disconnect, the process restarts, the
dashboard edits accounts. Models of a combo write to one response. Three parts of
the program refresh the same tokens, each with locks and a cache of its own, while
the provider kills a refresh token as soon as it has been used. A child process
ends in a goroutine that was started with it and finds the manager in a later
state. A login runs in a browser component whose effects run again at every render,
with one callback arriving over several channels. Pages of the dashboard keep requests
under way that are never cancelled, answered in any order and handled by functions that
closed over an older state. What makes each component correct:

* fallback: no request is sent to an account known to be down; none goes back to
  an account that failed it; only a request that used the account before it was
  marked overrides the mark; rotation is bounded and starves nobody; every
  request ends.
* combo: rotation is fair; each entry of the list is tried once; no response holds two
  answers, and a stream sent as it comes is one answer or one error; every request ends.
* credential manager: of those who want one token refreshed exactly one is at the
  provider and the others get its result or its error; a row never goes back to
  older tokens.
* supervisors: what runs is what the manager would stop, unless the waiter of an earlier
  process came in between; one watchdog; a process that is wanted comes back.
* login: a success shown is that of the login shown; each exchange uses up a copy of its
  callback; an outcome that was read is gone; waiting ends.
* chat page: an answer under way can be stopped and is the only one; what is shown stays
  as long as it can be stored; an answer comes to rest; a conversation keeps its model.
* quota page: the timer refreshes the page of now; spinners and refreshes end, whatever
  overlaps.
* usage: every record is written or counted as dropped.

`PROJECT.json` lists the hazards at their lines.

## 2. Modules

| module | models | composed of |
|---|---|---|
| `RoundRobinOps` | the choice among available accounts, as relations on data | - |
| `RoundRobin` | `rr`, `rrSeq` and any sequence of selections among any sets | `RoundRobinOps` |
| `AccountFallback` | requests, accounts, store and fallback together | `RoundRobinOps` |
| `ComboContract` | what a combo promises, abstractly | - |
| `ComboDispatch` | combo rotation, capacity adapter, sequential loop, response; implements `ComboContract` | outcomes of `AccountFallback`, `ComboContract` |
| `CredManager` | refreshes: callers, locks, single flight, caches, rows, the provider's rotation | - |
| `Supervisor` | a child process, its waiters and watchdogs | - |
| `OAuthLogin` | the login modal, the callback page and the proxy together | - |
| `BasicChat` | the chat page: chats, streamed answers, Stop, reloads | - |
| `QuotaPage` | the quota page and the gateway's list of accounts | - |
| `*_proofs` | proofs about the module of that name | that module |
| `MC*` | instances for TLC | that module |

### RoundRobin

`count` and `seq` are `rrConnState`'s `consecutiveUseCount` and `lastUsedSeq`,
`rrSeq` the manager's. `Select(S)` is `selectRoundRobin` from `rrMu.Lock` on and
`touchRR`: the most recent connection of `S` while its count is below the limit,
else the least recent. `S` is any set, because excluded sets and cooldowns make
consecutive selections see different ones; that is what a unit test with a fixed
list does not reach. The sorts are modelled by what their first element is (both
break ties by ascending priority, then by the order listed). `passed` and
`streak` are history.

### AccountFallback

A step is a stretch of code between two points where another goroutine can change
what it reads: a store query, a critical section, an upstream call.

| step | code |
|---|---|
| `Arrive` | a chat, media or combo-stream request begins, with its account strategy |
| `SelectFillFirst` | `SelectAccountExcluding`: one query, first available row |
| `ListAvailable`, `Rotate` | `selectRoundRobin` before and under `rrMu`: marks may fall between |
| `Synthesize` | `getFallbackConn`'s made-up connection of a free provider |
| `Exhaust` | `handleFallbackExhausted`, `errNoAccount`, the media handlers' 400 |
| `FailOver` | `MarkUnavailable` with a verdict, `excludeIDs`, next round |
| `PassError` | an error without a verdict goes to the client |
| `Succeed`, `FinishRelay` | `ClearError` at once (streams of combos, media) or after the relay (chat) |
| `Disconnect`, `EditConnection`, `Restart`, `Tick` | client, dashboard, process, clock |

Cooldowns are computed as the code does: doubling with a cap on level and length,
fixed ones for denials, announced ones, and the truncation to whole seconds by
RFC 3339 (`Second` ticks). Matching error texts is abstracted to the set of
verdicts. The update of the store by a mark or a clear may be lost (its error is
ignored) while the level changes. A restart keeps the store and loses memory.
A mark on a row deleted meanwhile, or on the made-up connection, changes no row.
`marked` is history: the accounts marked since the request last read the store.

Abstractions: one provider; `ensureFreshConn` (token refresh), which fails open, is
in `CredManager`; a query that fails is treated by the code as one that finds
nothing, which disabling every account covers.

### ComboDispatch

`Start` is `PrepareModelsWithCapacityAdapter`, of which only `GetRotatedModels`
is under `rotMu`. What a request holds decides which models are able to serve it:
when none of the combo's is, the adapter's models are put in front (so requests of
one combo can have lists of different lengths), and able models are sorted first.
The other actions are the ways one attempt ends, with what it leaves on the
response writer and whether it returns an error: the interface between
`handleWithFallback`/`streamModel` and `runSequential`. One status stands for all
those a failed model may write. The SSE branch of `runSequential` is left out:
`streamModel` sets its headers only after an upstream has accepted, and then
returns nil. Request slots are reused, so a behaviour has any number of requests,
two at a time.

Any list may be stored as a combo, with a model in it twice, and the loop tries such
a model twice. Lists, rotation and loop are therefore of *entries*, the numbered
places of the combo and, after them, of the adapter. An empty name, which the loop
passes over, is an entry that fails silently; a list of nothing but empty names is
left out.

`Captured` are the requests of `POST /v1/api/chat`: `vercel_ai.go` collects the whole
response in a `captureWriter`. It is no `http.Flusher`, so `runComboModel` serves streams
there with `handleWithFallback` too (`Flushed` is what it asks), and a failed model's
error is in front of the next model's answer. On a live writer net/http keeps the
first status, a `captureWriter` the last, 200 until one is set (`Write`).

`ComboContract` says the same of any strategy without rotation, lists or responses:
a set of entries, asked one at a time and none twice, the end by the one asked last
or, with none left, by the combo. The mapping takes `left` from the rest of the
list and `ender` from the last piece of the response, so that `KeepsContract` fails
when the loop skips an entry, repeats one, or closes with the wrong one's output.

### CredManager

Tokens are numbers: the provider accepts `current` only and answers it with
`current + 1`. A row holds one number for the access token, refresh token and
expiry that are written together; `horizon` says how far tokens are due. A caller's
`pc` follows the code:

| step | code |
|---|---|
| `Begin` | `ensureFreshConn`, `fetchConnQuota`, a resolver's `tryRefresh`: the row is read and found due (or turned down) |
| `EnterIfNeeded`, `EnterBlindly` | the lock of the connection is taken; `RefreshIfNeeded` reads the row again, `RefreshForce` does not, nor does a `GetConnection` that fails |
| `Lookup` | the first critical section of `DedupGroup.Do`: join, take the cached result, or lead |
| `Issue`, `Reject`, `Reply`, `LoseReply` | `refreshWithRetry` and the provider; `Complete` wakes leader and waiters |
| `Persist`, `Stamp` | `UpdateConnectionTokens`, `UpdateConnectionPSD`; either may fail |
| `Quota` | the usage API's second, forced refresh when the quota's server answers 401 |
| `Forget`, `Tick`, `Restart` | the cache's ttl, the clock, the process |

Locks and cache belong to a manager and there are three of them (`getCredMgr`,
`gateway.New`, `models/registry.go`). Two connections may hold the tokens of one
account, imported twice, so that the single flight is by token and the lock by
connection. Which faults occur is a constant. `NeverBack` says how far the re-read
under the lock protects a row against results that other managers overtook; its
exception, `strayed`, is `RefreshForce` and a failed re-read, which do put an older
pair over a newer one.

### Supervisor

`cmd`, `wantRun` and `stopWatch` are the managers' fields (`watching` is
`stopWatch # None`), `proc` the processes the operating system and the waiters know,
`dog` the watchdog goroutines between their two critical sections. headroom and
pxpipe have `Restart`, cloudflared and tailscale a watchdog; what is otherwise
different is a guard: `cloudflared` looks at `cmd` again before it restarts,
tailscale does not. A watchdog's channel that is closed does not keep `select` from
choosing the tick. The waiter sets `cmd = nil` without looking whose it is, which takes
the handle of a process that was started meanwhile. Three histories tell which those are:
`earlier` (the processes still to be waited for when one was started), `outlived` (the
processes since whose start an earlier one has been waited for) and `replaced` (those a
start put another over). `Managed` says that a running process is the manager's, or
outlived, or with tailscale replaced: there is no other way to lose one, and a process
started when all before it have been waited for stays in hand. Section 5 says what
happens to the outlived ones.

### OAuthLogin

One modal, one browser, one gateway. A login is a run of `startOAuthFlow`, named by
its `state`; a run goes on after the modal closes, and an answer reaches the modal
in whatever state it is by then.

| step | code |
|---|---|
| `Open`, `TryAgain`, `Close`, `Submit` | the user: the open effect, the buttons, `handleManualSubmit` |
| `Render` | the page renders for its own reasons and hands the modal a new `onSuccess` |
| `Authorize`, `StartProxy`, `Begin`, `FlowFails` | `startOAuthFlow` at its awaits, `StartOAuthProxy`, `RegisterProxySession` |
| `Loop`, `Listen`, `Cancel`, `Rerun` | the poll effect and the callback effect in the order React runs them, with their cleanups |
| `Answer`, `Visit` | the provider redirects; the callback page relays (`Relay`) or the proxy serves (`Serve`) |
| `ServerExchange`, `StopProxy` | `handleSessionExchange`; the listener's stops |
| `Deliver`, `ExchangeReturns` | `handleCallback` for each channel, `exchangeTokens` |
| `PollSends`, `PollReturns` | `tick` before and after its await |
| `PollRead`, `PollServed`, `OrphanServed` | the gateway's `poll-status`: the session is looked up under one lock and, with a final outcome, removed under the next (`ClearProxySession`); the same for a loop that was cancelled |

`fixed` chooses between codex or xai (callback at a fixed port, sessions, polling)
and the other providers (callback page). The request for `start-proxy`, or its reply after
the listener runs and the session is registered, may be lost: codex then asks for a manual
input and xai shows an error, while the callback is still served. A request or an answer of
`poll-status` may be lost as well, with the outcome in it. The proxy's listener may be stopped at any
time, by its timer or by any open page of the provider whose modal is closed. What
is exchanged and redeemed at the provider and stored in the database is one step;
that it is redeemed and not stored is possible. Left out: the device-code flow,
pasted tokens, the proxy flow of trae, windsurf and zed (the gateway answers it with
400), the restart of the gateway in the middle of a login.

### BasicChat

`sessions` and `sending` are React's state with all queued updates applied, `seen` what the
last render saw, which handlers close over, `stored` what localStorage holds. Clicks and keys
render at once (React flushes them synchronously); what a running call of `sendMessage` sets
waits for `Render`, so that a click can fall between an answer's end and the render that knows
of it.

The effect that stores what was rendered ignores errors of `setItem`, and chats hold their
attachments as data URLs, so that the quota can be met. `Stored` writes everything, or the
chats and not which one is shown, or nothing, at each render anew, and `Reload` begins from
`stored`, however old that is: it may take questions away and bring an ended answer back as
`streaming`.

| step | code |
|---|---|
| `Load`, `Reload` | `loadData`, the first choice of chat and model; the page begins anew from localStorage |
| `Render`, `Stored` | a render of what calls have set; the effect that stores |
| `NewChat`, `SelectSession`, `SelectModel`, `DeleteCurrentChat` | the handlers of that name |
| `SendMessage`, `Stop` | `sendMessage` up to its request, `handleStop` |
| `Chunk`, `Ends`, `Aborts` | the reader's loop, its end or error, an `AbortError`; `Finally` is the `finally` of all three |

`cut` is history: the exchanges the user stopped, which a reload cut off, or which a reload or
a deletion between two renders put back to an older copy (`PutBack`). Leaving the page for
another one of the dashboard and coming back is a `Reload` too: nothing aborts the call of the
page that was left, but what it sets reaches no mounted component. A question and its answer are one exchange and an answer's text is a number
of chunks. The page is not linked from the sidebar but it is routed.

### QuotaPage

| step | code |
|---|---|
| `ChangeFilter`, `ToggleExpiringFirst`, `TurnPage` | the controls, with `initializeData` and the timer when their dependencies change |
| `SwitchRows`, `RefreshProvider`, `RefreshNow`, `ToggleAutoRefresh` | bulk and single switches, a row's and the page's refresh, the toggle |
| `Hide`, `Show` | `handleVisibilityChange` |
| `Tick` | `refreshAll` by a timer, with the state it closed over |
| `Stored`, `Listed`, `Quota`, `RefreshQuota` | answers: a switch, a list (`fetchConnections` and what its caller does next), a quota |

Requests carry what their caller closed over. `timer` is the closure of the timer
`intervalRef` knows, `strays` those of timers it has lost. `filter` stands for provider,
status and page size; `GivenPage` is the gateway's clamping of page numbers. Two equal
requests under way are one; the accounts do not change, so that what goes wrong is nobody's
but the page's.

## 3. Runs

| run | bounds | shows |
|---|---|---|
| `round_robin` | 3 connections, two of equal priority, limit 2, 7 selections | `StickyBound`, `NoStarvation` |
| `account_fallback` | 2 accounts, 2 requests, instants 0..2, levels 0..2, one delay per kind of verdict | `NoDispatchIntoCooldown`, `NeverRetriesFailed`, `OnlyOlderRequestsShorten` |
| `account_fallback_live` | 1 account and the made-up one, 2 requests | `EveryRequestEnds` |
| `account_fallback_no_active` | the same without the made-up one | violated, see section 5 |
| `combo` | a combo listing one model twice, 1 adapter model, a live and a captured request at a time, limit 2, 5 rotations | `FairLeads`, `TriesEachOnce`, `OneAnswerAtMost`, `EveryRequestEnds`, `KeepsContract` |
| `combo_skipping`, `combo_rotation` | the same with two different models; limit 1 in the second | violated, see section 5 |
| `cred` | 2 chat requests, 1 usage request, 2 connections, 1 retry, 2 tokens issued, all faults | `OneLeader`, `NeverBack` |
| `supervisor` | 3 kinds of child, 3 processes, 2 watchdogs | `Managed`, `OneWatchdog`, `NeverReplaced`, `StaysUp` |
| `oauth_login` | 2 logins, 2 polling attempts, 1 render, 2 uses of callback URLs | `SuccessIsTheLogins`, `OnceProcessed`, `CarriedOnce`, `ConsumedStaysGone`, `WaitEnds` |
| `basic_chat` | 2 models, 2 chats, 2 questions, 1 chunk each, 1 reload, any number of failed writes | `StopReaches`, `AnswersSettle`, `ShownStays`, `ChatKeepsModel`, `StopEnds` |
| `quota_page` | 3 accounts on 2 pages, a filter that leaves one, 2 acts of the user | `TimerIsCurrent`, `SpinnersAreFetched`, `RefreshEnds` |

Why the bounds are enough. Seven selections take three connections through a full
turn and into the next, with one withdrawn and offered again at any point. Two
requests are enough for every pairwise race on an account, two accounts for
failing over; cooldowns of 2 to 4 ticks with a clock of 2 and a truncation of 2
give marks that are over at once, that expire during the run, and that outlive it.
Five rotations with a limit of 2 wrap around the two entries; with the same model in both,
a property that speaks of models where the code goes by places would fail. Two chat requests share
a lock and a single flight, or hold different locks and share the flight; the usage
request overtakes them with another manager; two tokens are enough for a row to be
overtaken and written by the slower one, and for a dead token to be retried. In
`cred` the resolvers of model lists, which write no row, are left out for the number of
states (a listing at a manager of its own makes it too many); the proofs have them.
Three processes let one be killed, one die and one run, two watchdogs an old and a
new one. In `oauth_login` two logins are one that is late and
one that is shown, two attempts a round that goes on and one that times out, and two
visits a reload of the callback or a callback of each login; `Render` once more than
the renders of opening, closing and success cause is enough to run the effects
between any two other steps. In `basic_chat` two questions are one that streams into a chat
that is not shown and one that is stopped or asked after a reload, and with two chats, a
deletion and writes that fail at any of the renders the copy a reload finds may lack one, two
or none of the questions and may have stopped short of any answer's end; a third question
makes too many states and is left to the proofs. One chunk makes an answer that
is empty, partly and wholly there. In `quota_page` two acts are enough to have lists of two
pages or of two filters and a refresh by the timer under way at once; claude's accounts are
refreshed every second round there, every third in the code. The proofs of section 4 have none of these bounds.
`MaxSelections`, `MaxTime`, `MaxRotations`, `MaxIssued`, `Procs`, `Dogs`,
`MaxRenders`, `MaxVisits`, `MaxChunks`, `MaxSends`, `MaxChats`, `MaxReloads` and `MaxEvents`
are the bounds in guards. Requests are symmetric in
`account_fallback` and chat requests in `cred`, which check no liveness. Deadlock is
not checked where the bounded system really stops: when all requests are served and
the clock is at its end, and in the modules of the dashboard, where the user may leave.

In the request modules fairness is weak fairness of each request's own steps, and
nothing else: accounts, clients and the clock owe nothing. That a goroutine at a lock or a query goes on is
the Go scheduler's and SQLite's business. That an upstream call ends is an
assumption: the executors' HTTP client has no timeout (`opensse/executor/registry.go`),
so it is up to the upstream, the network or the client's disconnection. In
`ComboDispatch` an attempt ends because in `AccountFallback` every request does.

In `Supervisor` the waiters go on once the process has ended and the watchdogs' ticker
ticks. Strong fairness of `Revive` says that a start which is tried again and again
succeeds at some time; it is needed since between two ticks the process may be up
and die again, and without it no code could promise that a tunnel comes back. In
`OAuthLogin` timers fire, and requests of the modal are answered or fail; nothing is
assumed of the user, the provider or the page. In `BasicChat` the browser rejects what an
aborted request waits for and React renders what is queued; the gateway need not end an
answer. In `QuotaPage` what a refresh of all accounts waits for, its list and its
quotas, is answered or fails; timers, the user and other requests owe nothing.

Each property of a passing run has a mutant in `PROJECT.json`: a plausible bug in a
definition that makes TLC report that property (a limit compared with `<=`, a
filter that forgets the cooldown or the excluded set, a sort by the wrong key, a
rotation that resets late, a loop that does not advance or skips two).

## 4. Proofs

For any set of accounts, priorities, requests, limits and delays (with the named
assumptions `ConnsAssumption` and `AccountAssumption`, which TLC evaluates):

* `RoundRobin_proofs`: `Sticky` and `Rotation`. `StickyBound` is not inductive:
  the invariant relates the streak of a connection to its `count`, and says of each
  connection waiting that those that passed it are more recent, so that the
  least-recent choice comes to the waiting one before it comes to them again.
  `ChoiceBounds` is the fact about `Chooses` both need; `Select` and `Restart`
  preserve the invariant.
* `AccountFallback_proofs`: `IInv` is `TypeOK`, `LocalsSet` (which local variables
  of a handler are set where), `NoDispatchIntoCooldown` and `NeverRetriesFailed`.
  Each conjunct has a lemma with one step per action. `LocalsSet` is there because
  a request outside `execute` and `relay` holds no connection, without which a mark
  could fall on a connection nobody accounts for. `TypeCorrect`, `CircuitBreaking`
  and `Exclusion` follow, and the action property `OnlyOlderRequestsShorten`
  (`CooldownOverrides`) by cases on the actions that touch `until`.
* `RoundRobin_proofs` has `TypeCorrect` too: the use count stays within the limit.
* `ComboDispatch_proofs`, from `ComboAssumption`, has everything the run checks but liveness.
  First come the operators on lists: that choosing the able adapters (`Selected`), putting them
  in front, sorting able models first and rotating neither lose nor repeat a model
  (`SelectedElements`, `AugmentedElements`, `AbleFirstElements`, `RotatedElements`,
  `StartOrder`), with which `TypeCorrect` follows. They need induction over a list, which is
  done by the least counterexample: a set of numbers that holds 0 and the successor of each of
  its members is `Nat` (`SetInduction`, from `LeastNumber`).
    The elements are entries, so nothing is assumed of the models a combo lists.
  - `OneAnswer` (`OneAnswerAtMost`): an answer is the last piece of its response, a live stream
    is one piece, and the status of a captured response that is no stream tells how it ended. A
    step of one request leaves the others alone (`OneRequest`), and each way an attempt ends is a
    case, which adds an error before the end (`ErrorBetween`) or the last piece (`LastOfAll`).
  - `EachModelOnce` (`TriesEachOnce`) from `LInv`: what a request under way has tried and what is
    left of its list are disjoint and together the entries of its augmented list, so that when
    the list is empty all were tried.
  - `FairTurns` (`FairLeads`) from `InTurn`: while the combo serves every request itself, each
    entry before the index has led one turn of `Limit` more than each after it, the one at the
    index is in between by the use count, and the common base is a number of whole turns.
    That shares differ by a turn at most does not survive a step without it.
  - `ContractKept`: under the mapping of `ComboDispatch`, initial states are initial states of
    `ComboContract` and a step is a step of the contract or a stutter. A start maps to `Open`
    because no list is empty, an attempt to `AskNext` because the head of a list is not in its
    tail, the end of a list to `GiveUp` because what is left is empty then.
* `CredManager_proofs`, from `CredAssumption`: `TypeCorrect`, `SingleFlight`,
  `RowsDoNotGoBack`. `NeverBack` needs most: that holders of one manager are at
  different connections (`Exclusive`), that a result in flight or cached belongs to
  the manager that exchanged its token (`Answered`, `CachedByIssuer`, by the history
  `issuedTo`), and that when a row has moved on after a caller read it under the
  lock, the token read was exchanged by another manager (`Overtaken`) - so that this
  caller will be rejected and cannot write. This is the argument why locks that are
  not shared between managers are still enough for `RefreshIfNeeded`.
* `Supervisor_proofs`, from `SupervisorAssumption`: `TypeCorrect`, `LostToEarlier`
  (`Managed`), `WatchdogsEnd`, `StartsFindNone`. `Latest` says that the manager's process is
  the last that was started, so that whatever is waited for and takes the handle is either the
  process itself or an earlier one; `Unwatched` that headroom and pxpipe have no watchdog.
* `OAuthLogin_proofs`, from `LoginAssumption`: `TypeCorrect`, `CopiesUsedUp`,
  `SuccessIsStored`, `GoneForGood`. `SuccessIsTheLogins` rests on what sessions and
  loops say being stored (`DoneIsSaved`, `ToldIsSaved`) and on a loop being for the
  login shown. `CopiesUsedUp` (`CarriedOnce`) goes through the actions with three numbers for
  each login: its exchanges under way (`requests` is finite, which the invariant keeps), its
  messages (three channels, three at most) and the stored item. An action that makes an
  exchange takes a message, the item or a paste for it (`HandleCarries`, `ListenCarries`), a
  visit adds four at most, and the rest adds none.
* `BasicChat_proofs`, from `ChatAssumption`, has everything the run checks but liveness.
  - `Stoppable` and `OneAnswer`. `StopReaches` holds because a question is asked only when the
    last render saw no sending (`CanSend`) and a render never sees that too early (`SeenInTime`),
    so that there is one call at a time (`OneFlight`) and its `finally` takes the controller from
    nobody.
  - `TypeCorrect`: what every handler makes of the chats is a sequence of chats again, whose
    talks are sequences of exchanges.
  - `SettledAlways` (`AnswersSettle`), `ShownForGood` (`ShownStays`) and `ModelKept`
    (`ChatKeepsModel`) follow from `CInv`, each conjunct of which the others need. Handlers take
    some chats from the last render and others from the updates queued since; `Advance` says
    that the two differ by what has streamed in only, and `InStep` that with no answer under way
    they are the same, which is when `sendMessage` replaces a talk by what it saw. `Static` (ids
    and numbers are given once, a chat's model is that of its last question) makes an update find
    its exchange and no other, `Flying` (a call's exchange is in its own chat, still streaming,
    or gone) makes it one that can only grow. `Settled` is `AnswersSettle` in terms of places,
    and `AbortedCut` what an aborted call leaves behind. `Follows` relates the page's model to
    the chat shown. `SInv` adds the stored copy: its ids and numbers were given once too, and it
    is `Behind` what the page shows, each chat of it an earlier state of the chat of that id, so
    that a reload leads back to a state the page was in. Both were checked by TLC on the instance
    of `basic_chat` before they were proved.
  - The lemmas of each handler show `CInv'` and, of what the user sees, that talks have grown or
    one question was added (`Shows`); the two action properties are that, said for one chat. For a reload `ShownForGood` says that
    a chat goes back, if at all, to what it was before, and only when the last writes had failed.
* `QuotaPage_proofs`, from `QuotaAssumption`: `TypeCorrect`, `TimerCurrent`, `SpinnersEnd`, each
  by one step per action. Type correctness has content: page numbers are computed from totals
  of lists that may be late, and `Turned` and `FetchedTypes` show that they stay within what
  some filter lists.

Only model-checked: liveness (`EveryRequestEnds`, `StaysUp`, `WaitEnds`, `StopEnds`,
`RefreshEnds`), which is outside the prover, the three violated properties, and
`OnceProcessed`, which says of the processed flag what it does between two runs of the callback
effect and no more. Every other invariant, action property and refinement that a passing run
checks is proved. `until` is
typed as an integer since the powers of two in the back-off are opaque to the arithmetic
prover. The modules with theorems declare no recursive operator; `Selected` in `ComboDispatch`
is a recursive function over the places of a list, and `Without` in `BasicChat` removes the
one chat with an id, where the code filters the list: ids are unique (`Static`), and what
`SelectSeq` computes could not be reasoned about. Where a set of subsets is followed by a set
difference it is in parentheses: `SUBSET S \ T` is read in two ways by the two tools.

## 5. Where code and text disagree

* `NoActiveMeansNoneActive`: "no active connection for provider" is also answered,
  with status 400, when an account is active and cooling down; whether 400 or 503
  is sent depends on whether this request itself excluded an account.
* `FailedModelsAreSkipped`: "skipping to next on error" fails for requests without
  streaming: a model without an available account ends the combo with that 400, and
  a model that fails has written its error to the client before the next is tried.
* `RotatesThroughModels`: one rotation index is shared by lists of different
  lengths, so alternating text and file requests stick to one model.

Seen while modelling `ComboDispatch`, whose `OneAnswerAtMost` says what does hold:

* `POST /v1/api/chat` with a combo: the errors of models that failed precede the answer in the
  captured response, even when a stream was asked for; that a stream is one answer or one error
  holds on live writers only. A streamed answer sets no status of its own (`WriteSSEHeaders`), so the
  response keeps the failed model's, and a status of 400 or more passes it on as a failure
  (`opensse/handlers/vercel_ai.go:47`). Without streaming the status is 200, but an error and an
  answer one behind the other are not one JSON value, so that the body is passed on
  untransformed (68).

Seen while modelling `CredManager` and `Supervisor`, whose properties say what does hold:

* "Automatic background OAuth token refreshing" (`src/README.md:177`): listing the models of
  grok-cli, kiro or copilot refreshes through a manager of its own and keeps the new pair in
  a copy (`opensse/models/grok_cli.go:277`). If the provider rotates refresh tokens, the row
  is left with a dead one, and after the cache's ttl no part of the program has a live one.
* "Stop terminates the running headroom process." (`infra/headroom/process.go:90`): the waiter
  of an earlier process sets `p.cmd = nil` whichever process that is by then (83; the same in
  pxpipe, cloudflared and tailscale). A process started after the kill and before the waiter
  has the lock loses its handle, and Stop finds nothing to stop. `Restart` (108) starts the
  next one right after the kill. `Managed` says that this is, tailscale's watchdog aside, the
  only way to lose one.

Seen while modelling `QuotaPage` (`ProviderLimits/index.tsx`):

* "Pause auto-refresh when tab is hidden" (754): hiding clears the timer, but the effect that
  sets it (736) runs again whenever an answer changes the page or ends a refresh, without a
  look at `document.hidden`, and a page opened in a background tab has its timer from the
  start. Showing the tab sets a second timer, and `intervalRef` forgets the first (768), so
  that neither the toggle nor leaving the page clears it: the `strays` of the model.
* Lists of two pages under way at once turn the page to and fro for ever, with the user gone,
  since each answer sets the page (227) and the page's effect asks for the list again (596).
* The list of the filter before, when it arrives last, replaces the one of the filter chosen
  (223); nothing cancels or ignores it.

Seen while modelling `BasicChat` (`BasicChatPageClient.tsx`):

* "Ignore storage errors." (542): after a write that failed, a reload takes questions away that
  the user has seen and brings back as `streaming` an answer that had ended, which then nothing
  ends. `ShownStays` and `AnswersSettle` say when: only for what the last writes left behind,
  and only back to what the page once showed.

Seen while modelling `OAuthLogin`, where properties say what does hold:

* "poll status until the proxy auto-exchanges and saves the connection"
  (`OAuthModal.tsx:591`): after an error the processed flag is still set when Try Again
  has a new login; the poll effect runs before the callback effect resets the flag and
  starts no loop. The login is noticed only when the page renders again. This is why
  `WaitEnds` speaks of a login that is polled for.
* "only process once" (`OAuthModal.tsx:651`) and "Reset when authData changes" (649): the
  flag is reset at each render of the page, because `onSuccess` is new each time. A
  callback that arrives on a second channel after a render is exchanged a second time,
  and the second exchange's failure replaces the success shown. `CarriedOnce` bounds it: each
  exchange uses up a message, the stored item or a paste, four a visit at worst.
  `OnceProcessed` is what holds between two runs of the effect.
* "removes session after client consumes done/error" (`oauth/proxy.go:261`): it is removed
  when the answer is sent. An answer to a loop that was cancelled, or that is lost,
  takes the outcome with it, and the modal times out although the connection is stored.
* An exchange that returns when another login is shown reports its success for that one
  (`late`).
* `StartOAuthProxy` on a running listener does not wind its five-minute timer up again;
  any page of the provider with a closed modal stops the listener of another's login.

And elsewhere: `app/layout.tsx:9` imports `shared/services/bootstrap` to "Auto-run
initializeApp (watchdog, auto-resume tunnel)", but that file is empty;
`EndpointPageClient.tsx` reads `settingsEnabled`, `enabled` and `tunnelUrl` of the
tunnel's status, none of which the gateway sends.

Where invariants say less than one might wish, because the code does it: a late
success or late error overrides a newer cooldown (`OnlyOlderRequestsShorten` says by
whom); a client's disconnection cools every account in turn (`FailOver`);
`RefreshForce` may put a cached, older pair over a newer one (`NeverBack` says who);
the tailscale watchdog may replace a process that runs (`NeverReplaced` leaves it out).

## 6. Not modelled

Everything in the plan of this project that has state which steps of two actors can
disagree on is modelled, with these exceptions:

* fusion panel: workers write to slots of their own and are joined; what is delicate,
  cancelled stragglers cooling their accounts, is `Disconnect` in `AccountFallback`;
* usage tracker: one consumer of a bounded queue with best-effort inserts; `Close` has
  no caller outside tests;
* login limiter: one counter under one mutex; no text promises a bound for concurrent
  attempts;
* MCP bridge: whether its one deadlock happens depends on a plugin's reading habits
  and the sizes of pipes, which the repository does not determine;
* MITM server: the shape of `Supervisor`, with listeners for processes;
* model engine: `InvalidateCache` has no caller outside tests; what remains is one
  step of one caller;
* OAuth device flow and imports: sequential, without shared state.

Translators, executors, token savers, CLI tool configuration and the gateway's other
routes map data or do I/O.

The dashboard is by far the largest body of TypeScript, and the share of its lines that
is modelled is small. Most of it is tables of providers, models and prices, markup, and
libraries of an earlier version (`lib/db`, `lib/oauth`, `lib/tunnel`, `lib/mcp`,
`lib/updater`, `mitm`) that are reached only from `shared/services/initializeApp.ts`, which
nothing calls since the Go gateway does that work. Code that does not run has no behaviour to
be faithful to, and rendering has no property that a model would settle. Of the pages with
behaviour of their own, the login, the chat page and the quota page are modelled. Left out:

* the endpoint page (`EndpointPageClient.tsx`): its handling of tunnels turns on fields of the
  status (`tunnelUrl`, `enabled`, `settingsEnabled`) that the gateway does not send
  (`gateway/tunnel_api.go`), so that most of it cannot be reached;
* the provider's page, proxy pools and profile: forms that store and fetch again, with the
  overtaking of answers that `QuotaPage` shows for one list;
* the quota page's deletion and editing of accounts, reset credits and stored settings.
