-------------------------- MODULE OAuthLogin_proofs --------------------------
(***************************************************************************)
(* Proofs about OAuthLogin, for any logins and bounds: type correctness,   *)
(* that a reported success is that of the login shown, that each call of   *)
(* exchangeTokens uses up a copy of its callback, and that a session whose *)
(* outcome was read is gone.                                               *)
(***************************************************************************)
EXTENDS OAuthLogin, FiniteSetTheorems, TLAPS

Steps == {"waiting", "input", "success", "error"}
Orphans == [at : {"asking", "read"}, login : Logins]
Asleep(a) == [at |-> "asleep", login |-> a, left |-> MaxAttempts, told |-> "nothing"]
PollTyped(p, a, f) ==
    \/ p = NoLoop
    \/ /\ a # None /\ f[a] = "watched"
       /\ p \in [at : {"asleep", "asking", "read", "told"}, login : {a}, left : 0..MaxAttempts,
                 told : SessionStates \cup {"nothing", "unknown", "lost"}]

\* What the modal and the proxy say is done is stored.
DoneIsSaved == \A l \in Logins : sess[l] = "done" => l \in saved
ToldIsSaved == poll.told = "done" => poll.login \in saved
\* A loop that sleeps has an attempt left.
Rounds == poll.at = "asleep" => poll.left > 0

IInv ==
    /\ TypeOK /\ Rounds
    /\ DoneIsSaved /\ ToldIsSaved
    /\ IsFiniteSet(requests)
    /\ SuccessIsTheLogins

\* What a run of the callback effect leaves, whatever it finds stored.
LEMMA Listens ==
    ASSUME TypeOK, NEW a \in Logins, NEW shown, NEW sent,
           \A r \in sent : r.auth \in Logins /\ r.code \in Logins,
           Listen(a, shown, sent)
    PROVE  /\ mail' \subseteq mail /\ stored' = None
           /\ processed' \in BOOLEAN
           /\ step' \in {shown, "error"}
           /\ handed' \in {0, 1}
           /\ \A r \in requests' : r.auth \in Logins /\ r.code \in Logins
<1>1. mail' \subseteq mail /\ stored' = None
    BY DEF Listen
<1>2. CASE stored # None /\ Handle(stored, a, shown, sent, 0)
    <2>1. stored \in Logins
        BY <1>2 DEF TypeOK
    <2>2. processed' = TRUE /\ handed' \in {0, 1} /\ step' \in {shown, "error"}
        BY <1>2 DEF Handle
    <2>3. \A r \in requests' : r.auth \in Logins /\ r.code \in Logins
        <3>1. requests' = sent \/ requests' = sent \cup {Request(a, stored, Fresh(sent))}
            BY <1>2 DEF Handle
        <3>2. /\ Request(a, stored, Fresh(sent)).auth = a
              /\ Request(a, stored, Fresh(sent)).code = stored
            BY DEF Request
        <3> QED BY <2>1, <3>1, <3>2
    <2> QED BY <1>1, <2>2, <2>3
<1>3. CASE processed' = FALSE /\ step' = shown /\ requests' = sent /\ handed' = 0
    BY <1>1, <1>3
<1> QED BY <1>2, <1>3 DEF Listen

\* The poll effect leaves a fresh loop for its login, or none.
LEMMA Loops ==
    ASSUME LoginAssumption, TypeOK, NEW a \in Logins, NEW watched \in BOOLEAN,
           NEW seen \in BOOLEAN, NEW f, watched => f[a] = "watched",
           Cancel, Loop(a, watched, seen)
    PROVE  /\ PollTyped(poll', a, f) /\ poll'.told = "nothing" /\ Rounds'
           /\ orphans' \subseteq Orphans
<1>1. poll' = NoLoop \/ (watched /\ poll' = Asleep(a))
    BY DEF Loop, Asleep
<1>2. PollTyped(poll', a, f) /\ poll'.told = "nothing" /\ Rounds'
    <2>1. CASE poll' = NoLoop
        BY <2>1 DEF PollTyped, NoLoop, Rounds
    <2>2. CASE watched /\ poll' = Asleep(a)
        <3>1. a # None
            BY DEF LoginAssumption
        <3>2. MaxAttempts \in 0..MaxAttempts /\ MaxAttempts > 0
            BY DEF LoginAssumption
        <3> QED BY <2>2, <3>1, <3>2 DEF PollTyped, Asleep, SessionStates, Rounds
    <2> QED BY <1>1, <2>1, <2>2
<1>3. orphans' \subseteq Orphans
    <2>1. poll.at \in {"asking", "read"} => poll.login \in Logins
        BY DEF TypeOK, NoLoop
    <2> QED BY <2>1 DEF TypeOK, Cancel, Orphans
<1> QED BY <1>2, <1>3

\* What a render leaves, and what the page leaves when it closes the modal.
LEMMA Reruns ==
    ASSUME LoginAssumption, TypeOK, Rounds, NEW shown, NEW seen \in BOOLEAN, NEW sent,
           \A r \in sent : r.auth \in Logins /\ r.code \in Logins,
           Rerun(shown, seen, sent)
    PROVE  /\ PollTyped(poll', auth, flow) /\ Rounds'
           /\ poll'.told = "nothing" \/ (auth = None /\ poll' = poll)
           /\ orphans' \subseteq Orphans
           /\ mail' \subseteq mail /\ stored' \in Logins \cup {None}
           /\ processed' \in BOOLEAN
           /\ step' \in {shown, "error"}
           /\ handed' \in {0, 1} \/ (auth = None /\ handed' = handed)
           /\ \A r \in requests' : r.auth \in Logins /\ r.code \in Logins
<1>1. CASE auth # None /\ Cancel /\ Loop(auth, flow[auth] = "watched", seen)
                /\ Listen(auth, shown, sent)
    <2>1. auth \in Logins
        BY <1>1 DEF TypeOK
    <2>2. /\ PollTyped(poll', auth, flow) /\ poll'.told = "nothing" /\ Rounds'
          /\ orphans' \subseteq Orphans
        <3>1. (flow[auth] = "watched") \in BOOLEAN
            OBVIOUS
        <3> QED BY <1>1, <2>1, <3>1, Loops
    <2>3. /\ mail' \subseteq mail /\ stored' = None
          /\ processed' \in BOOLEAN
          /\ step' \in {shown, "error"}
          /\ handed' \in {0, 1}
          /\ \A r \in requests' : r.auth \in Logins /\ r.code \in Logins
        BY <1>1, <2>1, Listens
    <2> QED BY <2>2, <2>3
<1>2. CASE auth = None /\ step' = shown /\ processed' = seen /\ requests' = sent
                /\ UNCHANGED <<poll, orphans, relay, handed>>
    BY <1>2 DEF TypeOK, PollTyped, relay, Rounds, Orphans
<1> QED BY <1>1, <1>2 DEF Rerun

LEMMA Succeeds ==
    ASSUME LoginAssumption, TypeOK, Rounds, NEW seen \in BOOLEAN, NEW sent, NEW loop,
           \A r \in sent : r.auth \in Logins /\ r.code \in Logins,
           loop \in {poll, NoLoop},
           Succeed(seen, sent, loop)
    PROVE  /\ open' = FALSE
           /\ PollTyped(poll', auth, flow) /\ Rounds'
           /\ poll'.told = "nothing" \/ poll' = poll
           /\ orphans' \subseteq Orphans
           /\ mail' \subseteq mail /\ stored' \in Logins \cup {None}
           /\ processed' \in BOOLEAN
           /\ step' \in {"success", "error"}
           /\ handed' \in {0, 1} \/ handed' = handed
           /\ \A r \in requests' : r.auth \in Logins /\ r.code \in Logins
<1>1. CASE open /\ Rerun("success", seen, sent)
    <2>1. open' = FALSE
        BY DEF Succeed
    <2> QED BY <1>1, <2>1, Reruns
<1>2. CASE ~open /\ step' = "success" /\ processed' = seen /\ requests' = sent
                /\ poll' = loop /\ UNCHANGED <<orphans, relay, handed>>
    <2>1. PollTyped(poll', auth, flow) /\ Rounds'
        BY <1>2 DEF TypeOK, PollTyped, NoLoop, Rounds
    <2>2. poll'.told = "nothing" \/ poll' = poll
        BY <1>2 DEF NoLoop
    <2>3. open' = FALSE
        BY DEF Succeed
    <2> QED BY <1>2, <2>1, <2>2, <2>3 DEF TypeOK, relay, Orphans
<1> QED BY <1>1, <1>2 DEF Succeed

-----------------------------------------------------------------------------
\* A step of startOAuthFlow that ends nowhere near "watched" or "begun" leaves the login
\* at hand where it is.
LEMMA FlowKeeps ==
    ASSUME TypeOK, NEW l \in Logins, NEW from, NEW to, FlowStep(l, from, to),
           from \notin {"watched", "begun"},
           to \in {"authorize", "proxy", "proxied", "unproxied", "watched", "begun", "failed"}
    PROVE  /\ flow' \in [Logins -> {"unused", "authorize", "proxy", "proxied", "unproxied",
                                    "watched", "begun", "failed"}]
           /\ flow'[l] = to
           /\ auth # None => flow'[auth] = flow[auth]
    BY DEF TypeOK, FlowStep

\* TypeOK with the loop apart
RestOK ==
    /\ fixed \in BOOLEAN /\ open \in BOOLEAN /\ processed \in BOOLEAN
    /\ late \in BOOLEAN /\ up \in BOOLEAN
    /\ step \in Steps
    /\ auth \in {None} \cup {l \in Logins : flow[l] \in {"watched", "begun"}}
    /\ orphans \subseteq Orphans
    /\ flow \in [Logins -> {"unused", "authorize", "proxy", "proxied", "unproxied",
                            "watched", "begun", "failed"}]
    /\ \A r \in requests : r.auth \in Logins /\ r.code \in Logins
    /\ mail \subseteq [by : Channels, login : Logins] /\ stored \in Logins \cup {None}
    /\ sess \in [Logins -> SessionStates] /\ serving \in [Logins -> Nat]
    /\ answer \in [Logins -> {"none", "code", "error"}]
    /\ used \subseteq Logins /\ saved \subseteq used
    /\ visits \in 0..MaxVisits /\ renders \in 0..MaxRenders
    /\ handed \in Nat

LEMMA Apart == TypeOK <=> RestOK /\ PollTyped(poll, auth, flow)
    BY DEF TypeOK, RestOK, PollTyped, Steps, Orphans

LEMMA TypeStep ==
    ASSUME LoginAssumption, TypeOK, Rounds, Next
    PROVE  TypeOK' /\ Rounds'
<1>1. CASE Open
    <2>1. PICK l \in Logins : flow[l] = "unused" /\ flow' = [flow EXCEPT ![l] = "authorize"]
        BY <1>1 DEF Open, StartOAuthFlow
    <2>2. /\ open' = TRUE /\ poll' = NoLoop /\ auth' = None
          /\ UNCHANGED <<fixed, late, proxy, provider, renders>>
        BY <1>1 DEF Open
    <2>3. orphans' \subseteq Orphans
        BY <1>1 DEF Open, Cancel, TypeOK, NoLoop, Orphans
    <2>4. CASE auth # None /\ Listen(auth, step, requests)
        <3>1. auth \in Logins /\ \A r \in requests : r.auth \in Logins /\ r.code \in Logins
            BY <2>4 DEF TypeOK
        <3>2. /\ mail' \subseteq mail /\ stored' = None
              /\ processed' \in BOOLEAN
              /\ step' \in {step, "error"}
              /\ handed' \in {0, 1}
              /\ \A r \in requests' : r.auth \in Logins /\ r.code \in Logins
            BY <2>4, <3>1, Listens
        <3> QED BY <2>1, <2>2, <2>3, <3>2 DEF TypeOK, Rounds, NoLoop, Orphans, proxy, provider
    <2>5. CASE UNCHANGED <<processed, step, requests, handed, relay>>
        BY <2>1, <2>2, <2>3, <2>5 DEF TypeOK, Rounds, NoLoop, Orphans, proxy, provider, relay
    <2> QED BY <1>1, <2>4, <2>5 DEF Open
<1>2. CASE TryAgain
    BY <1>2 DEF TryAgain, StartOAuthFlow, TypeOK, Rounds, modal, relay, proxy, provider
<1>3. CASE Close \/ Render
    <2>1. /\ Rerun(step, processed, requests)
          /\ open' \in BOOLEAN /\ renders' \in 0..MaxRenders
          /\ UNCHANGED <<fixed, auth, late, flow, proxy, provider>>
        <3>1. CASE Close
            BY <3>1 DEF Close, TypeOK
        <3>2. CASE Render
            BY <3>2 DEF Render, TypeOK, LoginAssumption
        <3> QED BY <1>3, <3>1, <3>2
    <2>2. processed \in BOOLEAN /\ \A r \in requests : r.auth \in Logins /\ r.code \in Logins
        BY DEF TypeOK
    <2>3. /\ PollTyped(poll', auth, flow) /\ Rounds'
          /\ orphans' \subseteq Orphans
          /\ mail' \subseteq mail /\ stored' \in Logins \cup {None}
          /\ processed' \in BOOLEAN
          /\ step' \in {step, "error"}
          /\ handed' \in {0, 1} \/ handed' = handed
          /\ \A r \in requests' : r.auth \in Logins /\ r.code \in Logins
        BY <2>1, <2>2, Reruns
    <2> QED BY <2>1, <2>3 DEF TypeOK, PollTyped, Orphans, proxy, provider
<1>4. CASE Submit
    <2>1. auth \in Logins
        BY <1>4 DEF Submit, TypeOK
    <2>2. \A r \in requests' : r.auth \in Logins /\ r.code \in Logins
        BY <1>4, <2>1 DEF Submit, TypeOK, Request
    <2>3. visits' \in 0..MaxVisits /\ step' \in Steps
        BY <1>4 DEF Submit, TypeOK, LoginAssumption, Steps
    <2> QED BY <1>4, <2>2, <2>3 DEF Submit, TypeOK, Rounds, Steps, relay, proxy
<1>5. ASSUME NEW l \in Logins, Authorize(l)
      PROVE  TypeOK' /\ Rounds'
    <2>1. \E to \in {"proxy", "unproxied"} : FlowStep(l, "authorize", to)
        BY <1>5 DEF Authorize
    <2>2. /\ flow' \in [Logins -> {"unused", "authorize", "proxy", "proxied", "unproxied",
                                   "watched", "begun", "failed"}]
          /\ auth # None => flow'[auth] = flow[auth]
        BY <2>1, FlowKeeps
    <2> QED BY <1>5, <2>2 DEF Authorize, TypeOK, Rounds, modal, relay, proxy, provider
<1>6. ASSUME NEW l \in Logins, FlowFails(l)
      PROVE  TypeOK' /\ Rounds'
    <2>1. \E from \in {"authorize", "unproxied"} : FlowStep(l, from, "failed")
        BY <1>6 DEF FlowFails
    <2>2. /\ flow' \in [Logins -> {"unused", "authorize", "proxy", "proxied", "unproxied",
                                   "watched", "begun", "failed"}]
          /\ auth # None => flow'[auth] = flow[auth]
        BY <2>1, FlowKeeps
    <2> QED BY <1>6, <2>2 DEF FlowFails, TypeOK, Rounds, relay, proxy, provider
<1>7. ASSUME NEW l \in Logins, StartProxy(l)
      PROVE  TypeOK' /\ Rounds'
    <2>1. \E to \in {"proxied", "unproxied"} : FlowStep(l, "proxy", to)
        BY <1>7 DEF StartProxy
    <2>2. /\ flow' \in [Logins -> {"unused", "authorize", "proxy", "proxied", "unproxied",
                                   "watched", "begun", "failed"}]
          /\ auth # None => flow'[auth] = flow[auth]
        BY <2>1, FlowKeeps
    <2>3. up' \in BOOLEAN /\ sess' \in [Logins -> SessionStates]
        BY <1>7 DEF StartProxy, TypeOK, SessionStates
    <2> QED BY <1>7, <2>2, <2>3 DEF StartProxy, TypeOK, Rounds, modal, relay, provider
<1>8. ASSUME NEW l \in Logins, Begin(l)
      PROVE  TypeOK' /\ Rounds'
    <2>1. PICK watched \in BOOLEAN :
             /\ \E from \in {"proxied", "unproxied"} :
                   FlowStep(l, from, IF watched THEN "watched" ELSE "begun")
             /\ Cancel /\ Loop(l, watched, processed)
             /\ \E shown \in {"waiting", "input"} : Listen(l, shown, requests)
        BY <1>8 DEF Begin
    <2>2. /\ flow' \in [Logins -> {"unused", "authorize", "proxy", "proxied", "unproxied",
                                   "watched", "begun", "failed"}]
          /\ flow'[l] = IF watched THEN "watched" ELSE "begun"
        BY <2>1, FlowKeeps
    <2>3. processed \in BOOLEAN /\ \A r \in requests : r.auth \in Logins /\ r.code \in Logins
        BY DEF TypeOK
    <2>4. PollTyped(poll', l, flow') /\ Rounds' /\ orphans' \subseteq Orphans
        BY <2>1, <2>2, <2>3, Loops
    <2>5. /\ mail' \subseteq mail /\ stored' = None
          /\ processed' \in BOOLEAN
          /\ step' \in {"waiting", "input", "error"}
          /\ handed' \in {0, 1}
          /\ \A r \in requests' : r.auth \in Logins /\ r.code \in Logins
        BY <2>1, <2>3, Listens
    <2>6. /\ auth' = l /\ late' \in BOOLEAN
          /\ UNCHANGED <<fixed, open, proxy, provider, renders>>
        BY <1>8 DEF Begin
    <2>7. auth' \in {k \in Logins : flow'[k] \in {"watched", "begun"}}
        BY <2>2, <2>6
    <2>8. PollTyped(poll', auth', flow')
        BY <2>4, <2>6
    <2>9. RestOK
        BY Apart
    <2>10. RestOK'
        BY <2>2, <2>4, <2>5, <2>6, <2>7, <2>9 DEF RestOK, Steps, proxy, provider
    <2>11. TypeOK'
        BY <2>8, <2>10 DEF TypeOK, RestOK, PollTyped, Steps, Orphans
    <2> QED BY <2>4, <2>11
<1>9. ASSUME NEW l \in Logins, Answer(l)
      PROVE  TypeOK' /\ Rounds'
    BY <1>9 DEF Answer, TypeOK, Rounds, modal, relay, proxy
<1>10. ASSUME NEW l \in Logins, Visit(l)
      PROVE  TypeOK' /\ Rounds'
    <2>1. visits' \in 0..MaxVisits
        BY <1>10 DEF Visit, TypeOK, LoginAssumption
    <2>2. /\ up' \in BOOLEAN /\ sess' \in [Logins -> SessionStates]
          /\ serving' \in [Logins -> Nat]
        <3>1. CASE UNCHANGED proxy
            BY <3>1 DEF TypeOK, proxy
        <3>2. CASE Serve(l)
            <4>1. CASE up' = FALSE /\ UNCHANGED <<sess, serving>>
                BY <4>1 DEF TypeOK
            <4>2. CASE sess' = [sess EXCEPT ![l] = "error"] /\ up' = FALSE /\ UNCHANGED serving
                BY <4>2 DEF TypeOK, SessionStates
            <4>3. CASE serving' = [serving EXCEPT ![l] = @ + 1] /\ UNCHANGED <<up, sess>>
                BY <4>3 DEF TypeOK
            <4> QED BY <3>2, <4>1, <4>2, <4>3 DEF Serve, relay
        <3> QED BY <1>10, <3>1, <3>2 DEF Visit
    <2>3. mail' \subseteq [by : Channels, login : Logins] /\ stored' \in Logins \cup {None}
        <3>1. CASE Relay(l)
            BY <3>1 DEF Relay, TypeOK
        <3>2. CASE UNCHANGED relay
            BY <3>2 DEF relay, TypeOK
        <3> QED BY <1>10, <3>1, <3>2 DEF Visit, Serve
    <2> QED BY <1>10, <2>1, <2>2, <2>3 DEF Visit, TypeOK, Rounds, modal
<1>11. ASSUME NEW l \in Logins, ServerExchange(l)
      PROVE  TypeOK' /\ Rounds'
    <2>1. serving' \in [Logins -> Nat] /\ sess' \in [Logins -> SessionStates] /\ up' = FALSE
        BY <1>11 DEF ServerExchange, Settle, TypeOK, SessionStates
    <2>2. used' \subseteq Logins /\ saved' \subseteq used'
        BY <1>11 DEF ServerExchange, TypeOK
    <2>3. UNCHANGED <<fixed, modal, flow, relay, answer, visits, renders>>
        BY <1>11 DEF ServerExchange
    <2>4. PollTyped(poll', auth', flow') /\ Rounds'
        BY <2>3, Apart DEF modal, Rounds
    <2>5. RestOK'
        BY <2>1, <2>2, <2>3, Apart DEF RestOK, modal, relay
    <2> QED BY <2>4, <2>5 DEF TypeOK, RestOK, PollTyped, Steps, Orphans
<1>12. ASSUME NEW o \in orphans, OrphanServed(o)
      PROVE  TypeOK' /\ Rounds'
    <2>1. o \in [at : {"asking", "read"}, login : Logins]
        BY DEF TypeOK
    <2>2. [o EXCEPT !.at = "read"] \in [at : {"asking", "read"}, login : Logins]
        BY <2>1
    <2>3. orphans' \subseteq [at : {"asking", "read"}, login : Logins]
        BY <1>12, <2>2 DEF OrphanServed, TypeOK
    <2>4. sess' \in [Logins -> SessionStates]
        BY <1>12 DEF OrphanServed, ClearProxySession, TypeOK, SessionStates
    <2> QED BY <1>12, <2>3, <2>4 DEF OrphanServed, TypeOK, Rounds, relay, provider
<1>13. CASE StopProxy
    <2>1. up' = FALSE /\ UNCHANGED <<fixed, modal, flow, relay, sess, serving, provider, renders>>
        BY <1>13 DEF StopProxy
    <2>2. PollTyped(poll', auth', flow') /\ Rounds'
        BY <2>1, Apart DEF modal, Rounds
    <2>3. RestOK'
        BY <2>1, Apart DEF RestOK, modal, relay, provider
    <2> QED BY <2>2, <2>3 DEF TypeOK, RestOK, PollTyped, Steps, Orphans
<1>14. ASSUME NEW m \in mail, Deliver(m)
      PROVE  TypeOK' /\ Rounds'
    <2>1. mail' \subseteq mail /\ stored' \in Logins \cup {None} /\ m.login \in Logins
        BY <1>14 DEF Deliver, TypeOK
    <2>2. /\ processed' \in BOOLEAN /\ step' \in Steps /\ handed' \in Nat
          /\ \A r \in requests' : r.auth \in Logins /\ r.code \in Logins
        <3>1. CASE UNCHANGED <<processed, step, requests, handed>>
            BY <3>1 DEF TypeOK, Steps
        <3>2. CASE auth # None /\ Handle(m.login, auth, step, requests, handed)
            BY <2>1, <3>2 DEF Handle, TypeOK, Steps, Request
        <3> QED BY <1>14, <3>1, <3>2 DEF Deliver
    <2> QED BY <1>14, <2>1, <2>2 DEF Deliver, TypeOK, Rounds, Steps, proxy, provider
<1>15. ASSUME NEW r \in requests, ExchangeReturns(r)
      PROVE  TypeOK' /\ Rounds'
    <2>1. used' \subseteq Logins /\ saved' \subseteq used'
        BY <1>15 DEF ExchangeReturns, TypeOK
    <2>2. UNCHANGED <<fixed, auth, flow, proxy, answer, visits, renders>>
        BY <1>15 DEF ExchangeReturns
    <2>3. CASE Succeed(processed, requests \ {r}, poll) /\ late' = (late \/ r.auth # auth)
        <3>1. /\ processed \in BOOLEAN
              /\ \A q \in requests \ {r} : q.auth \in Logins /\ q.code \in Logins
            BY DEF TypeOK
        <3>2. /\ open' \in BOOLEAN
              /\ PollTyped(poll', auth, flow) /\ Rounds'
              /\ orphans' \subseteq Orphans
              /\ mail' \subseteq mail /\ stored' \in Logins \cup {None}
              /\ processed' \in BOOLEAN
              /\ step' \in {"success", "error"}
              /\ handed' \in {0, 1} \/ handed' = handed
              /\ \A q \in requests' : q.auth \in Logins /\ q.code \in Logins
            BY <2>3, <3>1, Succeeds
        <3>3. late' \in BOOLEAN
            BY <2>3
        <3>4. PollTyped(poll', auth', flow')
            BY <2>2, <3>2
        <3>5. RestOK
            BY Apart
        <3>6. RestOK'
            BY <2>1, <2>2, <3>2, <3>3, <3>5 DEF RestOK, Steps, proxy
        <3>7. TypeOK'
            BY <3>4, <3>6 DEF TypeOK, RestOK, PollTyped, Steps, Orphans
        <3> QED BY <3>2, <3>7
    <2>4. CASE /\ step' = "error" /\ requests' = requests \ {r}
               /\ UNCHANGED <<open, processed, poll, orphans, relay, handed, late>>
        BY <2>1, <2>2, <2>4 DEF TypeOK, Rounds, relay, proxy
    <2> QED BY <1>15, <2>3, <2>4 DEF ExchangeReturns
<1>16. CASE PollSends
    <2>1. PollTyped(poll', auth, flow) /\ Rounds'
        <3>1. CASE poll' = NoLoop
            BY <3>1 DEF PollTyped, Rounds, NoLoop
        <3>2. CASE poll' = [poll EXCEPT !.at = "asking", !.left = @ - 1]
            <4>1. poll # NoLoop /\ poll.left > 0
                BY <1>16 DEF PollSends, Rounds, NoLoop
            <4>2. auth # None /\ flow[auth] = "watched" /\ poll.left \in 0..MaxAttempts
                BY <4>1 DEF TypeOK
            <4>3. poll.left - 1 \in 0..MaxAttempts
                BY <4>1, <4>2 DEF LoginAssumption
            <4> QED BY <3>2, <4>1, <4>2, <4>3 DEF TypeOK, PollTyped, Rounds
        <3> QED BY <1>16, <3>1, <3>2 DEF PollSends
    <2> QED BY <1>16, <2>1 DEF PollSends, TypeOK, PollTyped, relay, proxy, provider
<1>17. CASE PollRead \/ PollServed
    <2>1. poll # NoLoop /\ poll.at \in {"asking", "read"}
        BY <1>17 DEF PollRead, PollServed, NoLoop
    <2>2. /\ auth # None /\ flow[auth] = "watched"
          /\ poll \in [at : {"asleep", "asking", "read", "told"}, login : {auth},
                       left : 0..MaxAttempts,
                       told : SessionStates \cup {"nothing", "unknown", "lost"}]
        BY <2>1 DEF TypeOK
    <2>3. auth \in Logins /\ poll.login = auth
        BY <2>2 DEF TypeOK
    <2>4. Status(poll.login) \in SessionStates \cup {"unknown"}
        BY <2>3 DEF Status, TypeOK
    <2>5. PICK at \in {"read", "told"}, told \in SessionStates \cup {"nothing", "unknown", "lost"} :
             poll' = [poll EXCEPT !.at = at, !.told = told]
        <3>1. CASE PollRead
            BY <3>1, <2>4 DEF PollRead
        <3>2. CASE PollServed
            BY <3>2, <2>2 DEF PollServed
        <3> QED BY <1>17, <3>1, <3>2
    <2>6. PollTyped(poll', auth, flow) /\ Rounds'
        BY <2>2, <2>5 DEF Rounds, PollTyped
    <2>7. sess' \in [Logins -> SessionStates]
        BY <1>17, <2>3 DEF PollRead, PollServed, ClearProxySession, TypeOK, SessionStates, proxy
    <2>8. UNCHANGED <<fixed, open, step, auth, processed, orphans, requests, handed, late,
                      flow, relay, up, serving, provider, renders>>
        BY <1>17 DEF PollRead, PollServed, proxy
    <2> QED BY <2>6, <2>7, <2>8 DEF TypeOK, PollTyped, relay, provider
<1>18. CASE PollReturns
    <2>1. UNCHANGED <<fixed, auth, late, flow, proxy, provider, renders>>
        BY <1>18 DEF PollReturns
    <2>2. CASE Succeed(TRUE, requests, NoLoop)
        <3>1. \A q \in requests : q.auth \in Logins /\ q.code \in Logins
            BY DEF TypeOK
        <3>2. /\ open' \in BOOLEAN
              /\ PollTyped(poll', auth, flow) /\ Rounds'
              /\ orphans' \subseteq Orphans
              /\ mail' \subseteq mail /\ stored' \in Logins \cup {None}
              /\ processed' \in BOOLEAN
              /\ step' \in {"success", "error"}
              /\ handed' \in {0, 1} \/ handed' = handed
              /\ \A q \in requests' : q.auth \in Logins /\ q.code \in Logins
            BY <2>2, <3>1, Succeeds
        <3>3. PollTyped(poll', auth', flow')
            BY <2>1, <3>2
        <3>4. RestOK
            BY Apart
        <3>5. RestOK'
            BY <2>1, <3>2, <3>4 DEF RestOK, Steps, proxy, provider
        <3>6. TypeOK'
            BY <3>3, <3>5 DEF TypeOK, RestOK, PollTyped, Steps, Orphans
        <3> QED BY <3>2, <3>6
    <2>3. CASE /\ UNCHANGED <<open, orphans, requests, handed, relay>>
               /\ poll' = NoLoop /\ processed' \in BOOLEAN /\ step' \in {step, "error"}
        BY <2>1, <2>3 DEF TypeOK, Rounds, NoLoop, relay, proxy, provider
    <2>4. CASE /\ UNCHANGED <<open, orphans, requests, handed, relay, step, processed>>
               /\ poll.left > 0
               /\ poll' = [poll EXCEPT !.at = "asleep", !.told = "nothing"]
        <3>1. poll # NoLoop
            BY <1>18 DEF PollReturns, NoLoop
        <3>2. PollTyped(poll', auth, flow) /\ Rounds'
            BY <2>4, <3>1 DEF TypeOK, Rounds, PollTyped
        <3> QED BY <2>1, <2>4, <3>2 DEF TypeOK, PollTyped, relay, proxy, provider
    <2> QED BY <1>18, <2>2, <2>3, <2>4 DEF PollReturns, Again, TypeOK
<1> QED
    BY <1>1, <1>2, <1>3, <1>4, <1>5, <1>6, <1>7, <1>8, <1>9, <1>10, <1>11, <1>12, <1>13,
       <1>14, <1>15, <1>16, <1>17, <1>18 DEF Next, User, Flow, World

-----------------------------------------------------------------------------
\* Whatever is called done, by a session or by an answer under way, is stored.
LEMMA SavedStep ==
    ASSUME LoginAssumption, TypeOK, Rounds, DoneIsSaved, ToldIsSaved, Next
    PROVE  DoneIsSaved' /\ ToldIsSaved'
<1> USE DEF DoneIsSaved, ToldIsSaved
<1>1. CASE Open
    <2>1. poll' = NoLoop /\ UNCHANGED <<sess, saved>>
        BY <1>1 DEF Open, proxy, provider
    <2> QED BY <2>1 DEF NoLoop
<1>2. CASE Close \/ Render
    <2>1. Rerun(step, processed, requests) /\ UNCHANGED <<sess, saved>>
        BY <1>2 DEF Close, Render, proxy, provider
    <2>2. processed \in BOOLEAN /\ \A r \in requests : r.auth \in Logins /\ r.code \in Logins
        BY DEF TypeOK
    <2>3. poll'.told = "nothing" \/ poll' = poll
        BY <2>1, <2>2, Reruns
    <2> QED BY <2>1, <2>3
<1>3. ASSUME NEW l \in Logins, Begin(l)
      PROVE  DoneIsSaved' /\ ToldIsSaved'
    <2>1. PICK watched \in BOOLEAN :
             /\ \E from \in {"proxied", "unproxied"} :
                   FlowStep(l, from, IF watched THEN "watched" ELSE "begun")
             /\ Cancel /\ Loop(l, watched, processed)
        BY <1>3 DEF Begin
    <2>2. poll'.told = "nothing"
        BY <2>1 DEF Loop, NoLoop
    <2>3. UNCHANGED <<sess, saved>>
        BY <1>3 DEF Begin, proxy, provider
    <2> QED BY <2>2, <2>3
<1>4. ASSUME NEW l \in Logins, StartProxy(l)
      PROVE  DoneIsSaved' /\ ToldIsSaved'
    <2>1. /\ sess' = [sess EXCEPT ![l] = "pending"] \/ sess' = sess
          /\ UNCHANGED <<poll, saved>>
        BY <1>4 DEF StartProxy, modal, provider
    <2> QED BY <2>1 DEF TypeOK
<1>5. ASSUME NEW l \in Logins, Visit(l)
      PROVE  DoneIsSaved' /\ ToldIsSaved'
    <2>1. sess' = [sess EXCEPT ![l] = "error"] \/ sess' = sess
        BY <1>5 DEF Visit, Serve, proxy
    <2>2. UNCHANGED <<poll, saved>>
        BY <1>5 DEF Visit, modal
    <2> QED BY <2>1, <2>2 DEF TypeOK
<1>6. ASSUME NEW l \in Logins, ServerExchange(l)
      PROVE  DoneIsSaved' /\ ToldIsSaved'
    <2>1. UNCHANGED poll
        BY <1>6 DEF ServerExchange, modal
    <2>2. CASE saved' = saved \cup {l} /\ Settle(l, "done")
        BY <2>1, <2>2 DEF Settle, TypeOK
    <2>3. CASE UNCHANGED saved /\ Settle(l, "error")
        BY <2>1, <2>3 DEF Settle, TypeOK
    <2> QED BY <1>6, <2>2, <2>3 DEF ServerExchange
<1>7. ASSUME NEW o \in orphans, OrphanServed(o)
      PROVE  DoneIsSaved' /\ ToldIsSaved'
    BY <1>7 DEF OrphanServed, ClearProxySession, TypeOK, provider
<1>8. ASSUME NEW r \in requests, ExchangeReturns(r)
      PROVE  DoneIsSaved' /\ ToldIsSaved'
    <2>1. sess' = sess /\ saved \subseteq saved'
        BY <1>8 DEF ExchangeReturns, proxy
    <2>2. poll'.told = "nothing" \/ poll' = poll
        <3>1. CASE Succeed(processed, requests \ {r}, poll)
            <4>1. /\ processed \in BOOLEAN
                  /\ \A q \in requests \ {r} : q.auth \in Logins /\ q.code \in Logins
                BY DEF TypeOK
            <4> QED BY <3>1, <4>1, Succeeds
        <3> QED BY <1>8, <3>1 DEF ExchangeReturns
    <2> QED BY <2>1, <2>2
<1>9. CASE PollSends
    <2>1. UNCHANGED <<sess, saved>>
        BY <1>9 DEF PollSends, proxy, provider
    <2>2. poll' = NoLoop \/ poll' = [poll EXCEPT !.at = "asking", !.left = @ - 1]
        BY <1>9 DEF PollSends
    <2>3. poll'.told = "nothing" \/ (poll'.told = poll.told /\ poll'.login = poll.login)
        <3>1. CASE poll' = NoLoop
            BY <3>1 DEF NoLoop
        <3>2. CASE poll' = [poll EXCEPT !.at = "asking", !.left = @ - 1]
            <4>1. poll # NoLoop
                BY <1>9 DEF PollSends, NoLoop
            <4> QED BY <3>2, <4>1 DEF TypeOK
        <3> QED BY <2>2, <3>1, <3>2
    <2> QED BY <2>1, <2>3
<1>10. CASE PollRead
    <2>1. poll # NoLoop
        BY <1>10 DEF PollRead, NoLoop
    <2>2. poll.login \in Logins
        BY <2>1 DEF TypeOK
    <2>3. UNCHANGED <<sess, saved>>
        BY <1>10 DEF PollRead, proxy, provider
    <2>4. /\ poll'.login = poll.login
          /\ poll'.told \in {"lost", "unknown", sess[poll.login]}
        BY <1>10, <2>1 DEF PollRead, Status, TypeOK
    <2> QED BY <2>2, <2>3, <2>4
<1>13. CASE PollServed
    <2>1. poll # NoLoop
        BY <1>13 DEF PollServed, NoLoop
    <2>2. poll'.login = poll.login /\ poll'.told \in {"lost", poll.told}
        BY <1>13, <2>1 DEF PollServed, TypeOK
    <2>3. UNCHANGED saved /\ \A l \in Logins : sess'[l] = "done" => sess[l] = "done"
        BY <1>13 DEF PollServed, ClearProxySession, TypeOK, provider
    <2> QED BY <2>2, <2>3
<1>11. CASE PollReturns
    <2>1. UNCHANGED <<sess, saved>>
        BY <1>11 DEF PollReturns, proxy, provider
    <2>2. poll'.told = "nothing" \/ poll' = poll
        <3>1. CASE Succeed(TRUE, requests, NoLoop)
            <4>1. \A q \in requests : q.auth \in Logins /\ q.code \in Logins
                BY DEF TypeOK
            <4> QED BY <3>1, <4>1, Succeeds
        <3>2. CASE poll' = NoLoop
            BY <3>2 DEF NoLoop
        <3>3. CASE Again
            BY <3>3, <3>2 DEF Again, TypeOK, NoLoop
        <3> QED BY <1>11, <3>1, <3>2, <3>3 DEF PollReturns
    <2> QED BY <2>1, <2>2
<1>12. CASE UNCHANGED <<poll, sess, saved>>
    BY <1>12
<1> QED
    BY <1>1, <1>2, <1>3, <1>4, <1>5, <1>6, <1>7, <1>8, <1>9, <1>10, <1>11, <1>12,
       <1>13
    DEF Next, User, Flow, World, TryAgain, Submit, Authorize, FlowFails, Answer, StopProxy,
        Deliver, modal, proxy, provider

-----------------------------------------------------------------------------
\* Only an exchange of an earlier login reports a success that is not that of the login shown.
LEMMA SuccessStep ==
    ASSUME LoginAssumption, TypeOK, Rounds, ToldIsSaved, SuccessIsTheLogins, Next
    PROVE  SuccessIsTheLogins'
<1> USE DEF SuccessIsTheLogins
<1>1. /\ late \in BOOLEAN /\ processed \in BOOLEAN
      /\ \A r \in requests : r.auth \in Logins /\ r.code \in Logins
    BY DEF TypeOK
<1>2. CASE Open
    BY <1>2 DEF Open
<1>3. CASE Close \/ Render
    <2>1. Rerun(step, processed, requests) /\ UNCHANGED <<auth, late, saved>>
        BY <1>3 DEF Close, Render, provider
    <2>2. step' \in {step, "error"}
        BY <1>1, <2>1, Reruns
    <2> QED BY <2>1, <2>2
<1>4. ASSUME NEW l \in Logins, Begin(l)
      PROVE  SuccessIsTheLogins'
    <2>1. PICK shown \in {"waiting", "input"} : Listen(l, shown, requests)
        BY <1>4 DEF Begin
    <2>2. step' \in {shown, "error"}
        BY <1>1, <2>1, Listens
    <2> QED BY <2>1, <2>2
<1>5. ASSUME NEW m \in mail, Deliver(m)
      PROVE  SuccessIsTheLogins'
    <2>1. step' \in {step, "error"} /\ UNCHANGED <<auth, late, saved>>
        BY <1>5 DEF Deliver, Handle, provider
    <2> QED BY <2>1
<1>6. ASSUME NEW r \in requests, ExchangeReturns(r)
      PROVE  SuccessIsTheLogins'
    <2>1. auth' = auth
        BY <1>6 DEF ExchangeReturns
    <2>2. CASE r.code = r.auth /\ saved' = saved \cup {r.code} /\ late' = (late \/ r.auth # auth)
        BY <2>1, <2>2
    <2>3. CASE step' = "error"
        BY <2>3
    <2> QED BY <1>6, <2>2, <2>3 DEF ExchangeReturns
<1>7. CASE PollReturns
    <2>1. UNCHANGED <<auth, late, saved>>
        BY <1>7 DEF PollReturns, provider
    <2>2. CASE poll.told = "done"
        <3>1. poll # NoLoop
            BY <2>2 DEF NoLoop
        <3>2. auth \in saved
            BY <2>2, <3>1 DEF TypeOK, ToldIsSaved
        <3> QED BY <2>1, <3>2
    <2>3. CASE step' \in {step, "error"}
        BY <2>1, <2>3
    <2> QED BY <1>7, <2>2, <2>3 DEF PollReturns, Again
<1>8. CASE step' \in {step, "error"} /\ UNCHANGED <<auth, late>> /\ saved \subseteq saved'
    BY <1>8
<1> QED
    BY <1>2, <1>3, <1>4, <1>5, <1>6, <1>7, <1>8
    DEF Next, User, Flow, World, TryAgain, Submit, Authorize, FlowFails, StartProxy, Answer, Visit,
        ServerExchange, OrphanServed, StopProxy, PollSends, PollRead, PollServed, modal, provider

-----------------------------------------------------------------------------
\* The three places where a code may be: calls, callbacks on their way, the stored item.
Calls(l, sent) == Cardinality({r \in sent : r.code = l})
Mailed(l, ms) == Cardinality({m \in ms : m.login = l})
Kept(l, item) == IF item = l THEN 1 ELSE 0
Total(l, sent, ms, item) == Calls(l, sent) + Mailed(l, ms) + Kept(l, item)

LEMMA CopiesAreThose ==
    ASSUME NEW l \in Logins
    PROVE  /\ Copies(l) = Total(l, requests, mail, stored)
           /\ Copies(l)' = Total(l, requests', mail', stored')
    BY DEF Copies, Total, Calls, Mailed, Kept

LEMMA KeptBounds ==
    ASSUME NEW l, NEW item
    PROVE  Kept(l, item) \in {0, 1} /\ Kept(l, item) \in Nat
    BY DEF Kept

LEMMA AtMostOneMore ==
    ASSUME NEW S, IsFiniteSet(S), NEW x
    PROVE  /\ IsFiniteSet(S \cup {x})
           /\ Cardinality(S \cup {x}) \in {Cardinality(S), Cardinality(S) + 1}
<1>1. IsFiniteSet(S \cup {x})
      /\ Cardinality(S \cup {x}) = IF x \in S THEN Cardinality(S) ELSE Cardinality(S) + 1
    BY FS_AddElement
<1> QED BY <1>1

\* At most one callback per channel is on its way.
LEMMA MailedBounds ==
    ASSUME NEW l \in Logins, NEW ms, ms \subseteq [by : Channels, login : Logins]
    PROVE  /\ IsFiniteSet({m \in ms : m.login = l})
           /\ Mailed(l, ms) \in Nat /\ Mailed(l, ms) <= 3
<1>1. PICK x, y, z : /\ x = [by |-> "message", login |-> l]
                     /\ y = [by |-> "broadcast", login |-> l]
                     /\ z = [by |-> "storage", login |-> l]
    OBVIOUS
<1>2. IsFiniteSet({x}) /\ Cardinality({x}) = 1
    BY FS_Singleton
<1>3. PICK S : S = {x} \cup {y}
    OBVIOUS
<1>4. IsFiniteSet(S) /\ Cardinality(S) \in {1, 2}
    <2>1. IsFiniteSet(S) /\ Cardinality(S) \in {Cardinality({x}), Cardinality({x}) + 1}
        BY <1>2, <1>3, AtMostOneMore
    <2> QED BY <1>2, <2>1
<1>5. PICK All : All = S \cup {z}
    OBVIOUS
<1>6. IsFiniteSet(All) /\ Cardinality(All) \in {1, 2, 3}
    <2>1. IsFiniteSet(All) /\ Cardinality(All) \in {Cardinality(S), Cardinality(S) + 1}
        BY <1>4, <1>5, AtMostOneMore
    <2> QED BY <1>4, <2>1
<1>7. {m \in ms : m.login = l} \subseteq All
    <2>1. SUFFICES ASSUME NEW m \in ms, m.login = l PROVE m \in All
        OBVIOUS
    <2>2. m \in [by : Channels, login : Logins]
        BY <2>1
    <2>3. m.by \in {"message", "broadcast", "storage"} /\ m = [by |-> m.by, login |-> l]
        BY <2>1, <2>2 DEF Channels
    <2> QED BY <1>1, <1>3, <1>5, <2>3
<1>8. /\ IsFiniteSet({m \in ms : m.login = l})
      /\ Cardinality({m \in ms : m.login = l}) <= Cardinality(All)
    BY <1>6, <1>7, FS_Subset
<1>9. Cardinality({m \in ms : m.login = l}) \in Nat
    BY <1>8, FS_CardinalityType
<1> QED BY <1>6, <1>8, <1>9 DEF Mailed

LEMMA FewerMailed ==
    ASSUME NEW l \in Logins, NEW ns, ns \subseteq [by : Channels, login : Logins],
           NEW ms, ms \subseteq ns
    PROVE  Mailed(l, ms) <= Mailed(l, ns)
<1>1. IsFiniteSet({m \in ns : m.login = l})
    BY MailedBounds
<1>2. {m \in ms : m.login = l} \in SUBSET {m \in ns : m.login = l}
    OBVIOUS
<1> QED BY <1>1, <1>2, FS_Subset DEF Mailed

LEMMA OneMailedLess ==
    ASSUME NEW ms, ms \subseteq [by : Channels, login : Logins], NEW m \in ms
    PROVE  Mailed(m.login, ms \ {m}) = Mailed(m.login, ms) - 1
<1> DEFINE Own == {k \in ms : k.login = m.login}
<1>1. m.login \in Logins
    OBVIOUS
<1>2. IsFiniteSet(Own) /\ m \in Own
    BY <1>1, MailedBounds
<1>3. {k \in ms \ {m} : k.login = m.login} = Own \ {m}
    OBVIOUS
<1>4. Cardinality(Own \ {m}) = Cardinality(Own) - 1
    <2> HIDE DEF Own
    <2> QED BY <1>2, FS_RemoveElement
<1> QED BY <1>3, <1>4 DEF Mailed

LEMMA CallsBounds ==
    ASSUME NEW l, NEW sent, IsFiniteSet(sent)
    PROVE  IsFiniteSet({r \in sent : r.code = l}) /\ Calls(l, sent) \in Nat
<1>1. {r \in sent : r.code = l} \in SUBSET sent
    OBVIOUS
<1>2. IsFiniteSet({r \in sent : r.code = l})
    BY <1>1, FS_Subset
<1> QED BY <1>2, FS_CardinalityType DEF Calls

LEMMA FewerCalls ==
    ASSUME NEW l, NEW sent, IsFiniteSet(sent), NEW r
    PROVE  IsFiniteSet(sent \ {r}) /\ Calls(l, sent \ {r}) <= Calls(l, sent)
<1>1. IsFiniteSet(sent \ {r})
    BY FS_RemoveElement
<1>2. {q \in sent \ {r} : q.code = l} \in SUBSET {q \in sent : q.code = l}
    OBVIOUS
<1>3. Cardinality({q \in sent \ {r} : q.code = l}) <= Cardinality({q \in sent : q.code = l})
    BY <1>2, CallsBounds, FS_Subset
<1> QED BY <1>1, <1>3 DEF Calls

LEMMA OneCallMore ==
    ASSUME NEW l, NEW sent, IsFiniteSet(sent), NEW x
    PROVE  /\ IsFiniteSet(sent \cup {x})
           /\ Calls(l, sent \cup {x}) <= Calls(l, sent) + Kept(l, x.code)
<1> DEFINE Own == {r \in sent : r.code = l}
<1>1. IsFiniteSet(sent \cup {x})
    BY FS_AddElement
<1>2. IsFiniteSet(Own) /\ Cardinality(Own) \in Nat
    BY CallsBounds, FS_CardinalityType
<1>3. CASE x.code = l
    <2>1. {r \in sent \cup {x} : r.code = l} = Own \cup {x}
        BY <1>3
    <2>2. Cardinality(Own \cup {x}) \in {Cardinality(Own), Cardinality(Own) + 1}
        <3> HIDE DEF Own
        <3> QED BY <1>2, AtMostOneMore
    <2>3. Calls(l, sent) = Cardinality(Own) /\ Calls(l, sent \cup {x}) = Cardinality(Own \cup {x})
        BY <2>1 DEF Calls
    <2> HIDE DEF Own
    <2> QED BY <1>1, <1>2, <1>3, <2>2, <2>3 DEF Kept
<1>4. CASE x.code # l
    <2>1. {r \in sent \cup {x} : r.code = l} = Own
        BY <1>4
    <2>2. Calls(l, sent \cup {x}) = Calls(l, sent) /\ Calls(l, sent) \in Nat
        BY <1>2, <2>1 DEF Calls
    <2> QED BY <1>1, <1>4, <2>2 DEF Kept
<1> QED BY <1>3, <1>4

\* handleCallback makes a call of the callback it is given, at most.
LEMMA HandleCarries ==
    ASSUME NEW k, NEW a, NEW shown, NEW sent, NEW before, IsFiniteSet(sent),
           Handle(k, a, shown, sent, before)
    PROVE  /\ IsFiniteSet(requests')
           /\ \A l \in Logins : Calls(l, requests') <= Calls(l, sent) + Kept(l, k)
<1>1. CASE requests' = sent
    <2>1. \A l \in Logins : Calls(l, sent) \in Nat /\ Kept(l, k) \in {0, 1}
        BY CallsBounds DEF Kept
    <2>2. \A l \in Logins : Calls(l, requests') = Calls(l, sent)
        BY <1>1
    <2>3. IsFiniteSet(requests')
        BY <1>1
    <2> QED BY <2>1, <2>2, <2>3
<1>2. CASE requests' = sent \cup {Request(a, k, Fresh(sent))}
    <2>1. PICK x : x = Request(a, k, Fresh(sent))
        OBVIOUS
    <2>2. x.code = k
        BY <2>1 DEF Request
    <2>3. requests' = sent \cup {x}
        BY <1>2, <2>1
    <2>4. /\ IsFiniteSet(sent \cup {x})
          /\ \A l \in Logins : Calls(l, sent \cup {x}) <= Calls(l, sent) + Kept(l, x.code)
        BY OneCallMore
    <2> QED BY <2>2, <2>3, <2>4
<1> QED BY <1>1, <1>2 DEF Handle

\* The callback effect takes the stored callback away when it hands it over.
LEMMA ListenCarries ==
    ASSUME LoginAssumption, TypeOK, NEW a, NEW shown, NEW sent, IsFiniteSet(sent),
           Listen(a, shown, sent)
    PROVE  /\ IsFiniteSet(requests')
           /\ \A l \in Logins :
                 Total(l, requests', mail', stored') <= Total(l, sent, mail, stored)
<1>1. mail' \subseteq mail /\ stored' = None /\ mail \subseteq [by : Channels, login : Logins]
    BY DEF Listen, TypeOK
<1>2. /\ IsFiniteSet(requests')
      /\ \A l \in Logins : Calls(l, requests') <= Calls(l, sent) + Kept(l, stored)
    <2>1. CASE stored # None /\ Handle(stored, a, shown, sent, 0)
        BY <2>1, HandleCarries
    <2>2. CASE requests' = sent
        <3>1. \A l \in Logins : Calls(l, sent) \in Nat /\ Kept(l, stored) \in {0, 1}
            BY CallsBounds DEF Kept
        <3>2. \A l \in Logins : Calls(l, requests') = Calls(l, sent)
            BY <2>2
        <3>3. IsFiniteSet(requests')
            BY <2>2
        <3> QED BY <3>1, <3>2, <3>3
    <2> QED BY <2>1, <2>2 DEF Listen
<1>3. ASSUME NEW l \in Logins
      PROVE  Total(l, requests', mail', stored') <= Total(l, sent, mail, stored)
    <2>1. Mailed(l, mail') <= Mailed(l, mail)
        BY <1>1, FewerMailed
    <2>2. mail' \subseteq [by : Channels, login : Logins]
        BY <1>1
    <2>6. Mailed(l, mail') \in Nat /\ Mailed(l, mail) \in Nat
        BY <1>1, <2>2, MailedBounds
    <2>3. Calls(l, requests') \in Nat /\ Calls(l, sent) \in Nat
        BY <1>2, CallsBounds
    <2>4. Kept(l, stored') = 0 /\ Kept(l, stored) \in {0, 1}
        BY <1>1 DEF Kept, LoginAssumption
    <2>5. Calls(l, requests') <= Calls(l, sent) + Kept(l, stored)
        BY <1>2
    <2> QED BY <2>1, <2>3, <2>4, <2>5, <2>6 DEF Total
<1> QED BY <1>2, <1>3

\* A call that is over is none any more.
LEMMA EndsCarry ==
    ASSUME LoginAssumption, TypeOK, NEW sent, IsFiniteSet(sent), NEW r,
           UNCHANGED relay, requests' = sent \/ requests' = sent \ {r}
    PROVE  /\ IsFiniteSet(requests')
           /\ \A l \in Logins :
                 Total(l, requests', mail', stored') <= Total(l, sent, mail, stored)
<1>1. mail' = mail /\ stored' = stored
    BY DEF relay
<1>2. IsFiniteSet(sent \ {r})
    BY FewerCalls
<1>3. IsFiniteSet(requests')
    BY <1>2
<1>4. ASSUME NEW l \in Logins
      PROVE  Total(l, requests', mail', stored') <= Total(l, sent, mail, stored)
    <2>1. Calls(l, sent \ {r}) <= Calls(l, sent)
        BY FewerCalls
    <2>2. Calls(l, sent) \in Nat /\ Calls(l, sent \ {r}) \in Nat
        BY <1>2, CallsBounds
    <2>3. Mailed(l, mail) \in Nat /\ Kept(l, stored) \in Nat
        <3>1. mail \subseteq [by : Channels, login : Logins]
            BY DEF TypeOK
        <3> QED BY <3>1, MailedBounds, KeptBounds
    <2>4. Calls(l, requests') \in {Calls(l, sent), Calls(l, sent \ {r})}
        OBVIOUS
    <2> QED BY <1>1, <2>1, <2>2, <2>3, <2>4 DEF Total
<1> QED BY <1>3, <1>4

LEMMA RerunCarries ==
    ASSUME LoginAssumption, TypeOK, NEW shown, NEW seen, NEW sent, IsFiniteSet(sent),
           Rerun(shown, seen, sent)
    PROVE  /\ IsFiniteSet(requests')
           /\ \A l \in Logins :
                 Total(l, requests', mail', stored') <= Total(l, sent, mail, stored)
<1>1. CASE Listen(auth, shown, sent)
    BY <1>1, ListenCarries
<1>2. CASE requests' = sent /\ UNCHANGED relay
    BY <1>2, EndsCarry
<1> QED BY <1>1, <1>2 DEF Rerun

LEMMA SucceedCarries ==
    ASSUME LoginAssumption, TypeOK, NEW seen, NEW sent, NEW loop, IsFiniteSet(sent),
           Succeed(seen, sent, loop)
    PROVE  /\ IsFiniteSet(requests')
           /\ \A l \in Logins :
                 Total(l, requests', mail', stored') <= Total(l, sent, mail, stored)
<1>1. CASE Rerun("success", seen, sent)
    BY <1>1, RerunCarries
<1>2. CASE requests' = sent /\ UNCHANGED relay
    BY <1>2, EndsCarry
<1> QED BY <1>1, <1>2 DEF Succeed

\* No step but a visit or a paste adds to the copies of a callback, and those add four at most.
Carried == \A l \in Logins : Copies(l)' <= Copies(l) + 4 * (visits' - visits)

LEMMA Unvisited ==
    ASSUME TypeOK, UNCHANGED visits,
           \A l \in Logins :
              Total(l, requests', mail', stored') <= Total(l, requests, mail, stored),
           IsFiniteSet(requests)
    PROVE  Carried
<1>1. visits' - visits = 0
    BY DEF TypeOK
<1>2. SUFFICES ASSUME NEW l \in Logins PROVE Copies(l)' <= Copies(l) + 4 * (visits' - visits)
    BY DEF Carried
<1>3. Calls(l, requests) \in Nat /\ Mailed(l, mail) \in Nat /\ Kept(l, stored) \in Nat
    <2>1. mail \subseteq [by : Channels, login : Logins]
        BY DEF TypeOK
    <2> QED BY <2>1, CallsBounds, MailedBounds, KeptBounds
<1>4. Total(l, requests, mail, stored) \in Nat
    BY <1>3 DEF Total
<1>5. Copies(l)' <= Copies(l) /\ Copies(l) \in Nat
    BY <1>4, CopiesAreThose
<1>6. 4 * (visits' - visits) = 0
    BY <1>1
<1> QED BY <1>5, <1>6

LEMMA CarryStep ==
    ASSUME LoginAssumption, TypeOK, IsFiniteSet(requests), Next
    PROVE  IsFiniteSet(requests') /\ Carried
<1>1. CASE Open \/ Close \/ Render
    <2>1. visits' = visits
        BY <1>1 DEF Open, Close, Render, provider
    <2>2. /\ IsFiniteSet(requests')
          /\ \A l \in Logins :
                Total(l, requests', mail', stored') <= Total(l, requests, mail, stored)
        <3>1. CASE Listen(auth, step, requests)
            BY <3>1, ListenCarries
        <3>2. CASE Rerun(step, processed, requests)
            BY <3>2, RerunCarries
        <3>3. CASE UNCHANGED <<requests, relay>>
            BY <3>3, EndsCarry
        <3> QED BY <1>1, <3>1, <3>2, <3>3 DEF Open, Close, Render
    <2> QED BY <2>1, <2>2, Unvisited
<1>2. ASSUME NEW k \in Logins, Begin(k)
      PROVE  IsFiniteSet(requests') /\ Carried
    <2>1. visits' = visits
        BY <1>2 DEF Begin, provider
    <2>2. PICK shown : Listen(k, shown, requests)
        BY <1>2 DEF Begin
    <2>3. /\ IsFiniteSet(requests')
          /\ \A l \in Logins :
                Total(l, requests', mail', stored') <= Total(l, requests, mail, stored)
        BY <2>2, ListenCarries
    <2> QED BY <2>1, <2>3, Unvisited
<1>3. CASE Submit
    <2>1. visits' - visits = 1 /\ UNCHANGED relay
        BY <1>3 DEF Submit, TypeOK
    <2>2. mail' = mail /\ stored' = stored
        BY <2>1 DEF relay
    <2>3. PICK x : requests' = requests \/ requests' = requests \cup {x}
        BY <1>3 DEF Submit
    <2>4. IsFiniteSet(requests \cup {x})
        BY OneCallMore
    <2>5. IsFiniteSet(requests')
        BY <2>3, <2>4
    <2>6. ASSUME NEW l \in Logins
          PROVE  Copies(l)' <= Copies(l) + 4 * (visits' - visits)
        <3>1. Calls(l, requests \cup {x}) <= Calls(l, requests) + Kept(l, x.code)
            BY OneCallMore
        <3>4. mail \subseteq [by : Channels, login : Logins]
            BY DEF TypeOK
        <3>2. /\ Calls(l, requests) \in Nat /\ Calls(l, requests') \in Nat
              /\ Mailed(l, mail) \in Nat /\ Kept(l, stored) \in Nat /\ Kept(l, x.code) \in {0, 1}
            BY <2>5, <3>4, CallsBounds, MailedBounds, KeptBounds
        <3>3. Calls(l, requests') <= Calls(l, requests) + 1
            <4>1. CASE requests' = requests
                BY <3>2, <4>1
            <4>2. CASE requests' = requests \cup {x}
                BY <3>1, <3>2, <4>2
            <4> QED BY <2>3, <4>1, <4>2
        <3> QED BY <2>1, <2>2, <3>2, <3>3, CopiesAreThose DEF Total
    <2> QED BY <2>5, <2>6 DEF Carried
<1>4. ASSUME NEW k \in Logins, Visit(k)
      PROVE  IsFiniteSet(requests') /\ Carried
    <2>1. visits' - visits = 1 /\ requests' = requests
        BY <1>4 DEF Visit, TypeOK, modal
    <2>2. mail' \subseteq [by : Channels, login : Logins]
        <3>1. CASE Relay(k)
            BY <3>1 DEF Relay, TypeOK
        <3>2. CASE UNCHANGED relay
            BY <3>2 DEF relay, TypeOK
        <3> QED BY <1>4, <3>1, <3>2 DEF Visit, Serve
    <2>3. ASSUME NEW l \in Logins
          PROVE  Copies(l)' <= Copies(l) + 4 * (visits' - visits)
        <3>1. /\ Calls(l, requests) \in Nat
              /\ Mailed(l, mail) \in Nat /\ Mailed(l, mail') \in Nat /\ Mailed(l, mail') <= 3
              /\ Kept(l, stored) \in {0, 1} /\ Kept(l, stored') \in {0, 1}
            <4>1. mail \subseteq [by : Channels, login : Logins]
                BY DEF TypeOK
            <4> QED BY <2>2, <4>1, CallsBounds, MailedBounds, KeptBounds
        <3> QED BY <2>1, <3>1, CopiesAreThose DEF Total
    <2> QED BY <2>1, <2>3 DEF Carried
<1>5. ASSUME NEW m \in mail, Deliver(m)
      PROVE  IsFiniteSet(requests') /\ Carried
    <2>1. /\ visits' = visits /\ mail' = mail \ {m} /\ stored' \in {None, stored}
          /\ mail \subseteq [by : Channels, login : Logins]
        BY <1>5 DEF Deliver, provider, TypeOK
    <2>2. /\ IsFiniteSet(requests')
          /\ \A l \in Logins : Calls(l, requests') <= Calls(l, requests) + Kept(l, m.login)
        <3>1. CASE Handle(m.login, auth, step, requests, handed)
            BY <3>1, HandleCarries
        <3>2. CASE requests' = requests
            <4>1. \A l \in Logins : Calls(l, requests) \in Nat /\ Kept(l, m.login) \in {0, 1}
                BY CallsBounds DEF Kept
            <4>2. \A l \in Logins : Calls(l, requests') = Calls(l, requests)
                BY <3>2
            <4>3. IsFiniteSet(requests')
                BY <3>2
            <4> QED BY <4>1, <4>2, <4>3
        <3> QED BY <1>5, <3>1, <3>2 DEF Deliver
    <2>4. mail' \subseteq [by : Channels, login : Logins]
        BY <2>1
    <2>3. ASSUME NEW l \in Logins
          PROVE  Total(l, requests', mail', stored') <= Total(l, requests, mail, stored)
        <3>5. Mailed(l, mail) \in Nat /\ Mailed(l, mail') \in Nat
            BY <2>1, <2>4, MailedBounds
        <3>1. Mailed(l, mail') <= Mailed(l, mail) - Kept(l, m.login)
            <4>1. CASE m.login = l
                <5>1. Mailed(m.login, mail \ {m}) = Mailed(m.login, mail) - 1
                    BY <2>1, OneMailedLess
                <5>2. Mailed(l, mail') = Mailed(l, mail) - 1 /\ Kept(l, m.login) = 1
                    BY <2>1, <4>1, <5>1 DEF Kept
                <5> QED BY <3>5, <5>2
            <4>2. CASE m.login # l
                <5>1. Mailed(l, mail') <= Mailed(l, mail)
                    BY <2>1, FewerMailed
                <5>2. Kept(l, m.login) = 0
                    BY <4>2 DEF Kept
                <5> QED BY <3>5, <5>1, <5>2
            <4> QED BY <4>1, <4>2
        <3>2. /\ Calls(l, requests) \in Nat /\ Calls(l, requests') \in Nat
              /\ Kept(l, m.login) \in {0, 1}
            BY <2>2, CallsBounds, KeptBounds
        <3>3. /\ Kept(l, stored') <= Kept(l, stored)
              /\ Kept(l, stored') \in {0, 1} /\ Kept(l, stored) \in {0, 1}
            BY <2>1 DEF Kept, LoginAssumption
        <3>4. Calls(l, requests') <= Calls(l, requests) + Kept(l, m.login)
            BY <2>2
        <3> QED BY <3>1, <3>2, <3>3, <3>4, <3>5 DEF Total
    <2> QED BY <2>1, <2>2, <2>3, Unvisited
<1>6. ASSUME NEW r \in requests, ExchangeReturns(r)
      PROVE  IsFiniteSet(requests') /\ Carried
    <2>1. visits' = visits
        BY <1>6 DEF ExchangeReturns
    <2>2. /\ IsFiniteSet(requests \ {r})
          /\ \A l \in Logins : Calls(l, requests \ {r}) <= Calls(l, requests)
        BY FewerCalls
    <2>3. /\ IsFiniteSet(requests')
          /\ \A l \in Logins :
                Total(l, requests', mail', stored') <= Total(l, requests, mail, stored)
        <3>1. CASE Succeed(processed, requests \ {r}, poll)
            <4>1. /\ IsFiniteSet(requests')
                  /\ \A l \in Logins : Total(l, requests', mail', stored')
                                          <= Total(l, requests \ {r}, mail, stored)
                BY <2>2, <3>1, SucceedCarries
            <4>2. ASSUME NEW l \in Logins
                  PROVE  Total(l, requests', mail', stored') <= Total(l, requests, mail, stored)
                <5>1. /\ Calls(l, requests \ {r}) \in Nat /\ Calls(l, requests) \in Nat
                      /\ Mailed(l, mail) \in Nat /\ Kept(l, stored) \in Nat
                      /\ Calls(l, requests') \in Nat
                      /\ Mailed(l, mail') \in Nat /\ Kept(l, stored') \in Nat
                    <6>1. mail' \subseteq mail
                        BY <3>1 DEF Succeed, Rerun, Listen, relay
                    <6>2. mail' \subseteq [by : Channels, login : Logins]
                        BY <6>1 DEF TypeOK
                    <6>3. mail \subseteq [by : Channels, login : Logins]
                        BY DEF TypeOK
                    <6>4. Kept(l, stored) \in Nat /\ Kept(l, stored') \in Nat
                        BY KeptBounds
                    <6>5. Mailed(l, mail) \in Nat /\ Mailed(l, mail') \in Nat
                        BY <6>2, <6>3, MailedBounds
                    <6>6. /\ Calls(l, requests \ {r}) \in Nat /\ Calls(l, requests) \in Nat
                          /\ Calls(l, requests') \in Nat
                        BY <2>2, <4>1, CallsBounds
                    <6> QED BY <6>4, <6>5, <6>6
                <5>2. /\ Total(l, requests', mail', stored')
                             <= Total(l, requests \ {r}, mail, stored)
                      /\ Calls(l, requests \ {r}) <= Calls(l, requests)
                    BY <2>2, <4>1
                <5> QED BY <5>1, <5>2 DEF Total
            <4> QED BY <4>1, <4>2
        <3>2. CASE requests' = requests \ {r} /\ UNCHANGED relay
            BY <3>2, EndsCarry
        <3> QED BY <1>6, <3>1, <3>2 DEF ExchangeReturns
    <2> QED BY <2>1, <2>3, Unvisited
<1>7. CASE PollReturns
    <2>1. visits' = visits
        BY <1>7 DEF PollReturns, provider
    <2>2. /\ IsFiniteSet(requests')
          /\ \A l \in Logins :
                Total(l, requests', mail', stored') <= Total(l, requests, mail, stored)
        <3>1. CASE Succeed(TRUE, requests, NoLoop)
            BY <3>1, SucceedCarries
        <3>2. CASE UNCHANGED <<requests, relay>>
            BY <3>2, EndsCarry
        <3> QED BY <1>7, <3>1, <3>2 DEF PollReturns
    <2> QED BY <2>1, <2>2, Unvisited
<1>8. CASE UNCHANGED <<requests, relay, visits>>
    <2>1. /\ IsFiniteSet(requests')
          /\ \A l \in Logins :
                Total(l, requests', mail', stored') <= Total(l, requests, mail, stored)
        BY <1>8, EndsCarry
    <2> QED BY <1>8, <2>1, Unvisited
<1>9. CASE TryAgain \/ PollSends \/ PollRead \/ PollServed \/ StopProxy
    <2>1. UNCHANGED <<requests, relay, visits>>
        BY <1>9 DEF TryAgain, PollSends, PollRead, PollServed, StopProxy, modal, provider
    <2> QED BY <1>8, <2>1
<1>10. ASSUME NEW l \in Logins,
              Authorize(l) \/ FlowFails(l) \/ StartProxy(l) \/ Answer(l) \/ ServerExchange(l)
       PROVE  IsFiniteSet(requests') /\ Carried
    <2>1. UNCHANGED <<requests, relay, visits>>
        BY <1>10 DEF Authorize, FlowFails, StartProxy, Answer, ServerExchange, modal, provider
    <2> QED BY <1>8, <2>1
<1>11. ASSUME NEW o \in orphans, OrphanServed(o)
       PROVE  IsFiniteSet(requests') /\ Carried
    <2>1. UNCHANGED <<requests, relay, visits>>
        BY <1>11 DEF OrphanServed, provider
    <2> QED BY <1>8, <2>1
<1> QED
    BY <1>1, <1>2, <1>3, <1>4, <1>5, <1>6, <1>7, <1>9, <1>10, <1>11
    DEF Next, User, Flow, World

-----------------------------------------------------------------------------
LEMMA Begins == ASSUME LoginAssumption, Init PROVE IInv
<1> USE DEF Init
<1>1. TypeOK
    <2>1. PollTyped(poll, auth, flow)
        BY DEF PollTyped
    <2>2. 0 \in 0..MaxVisits /\ 0 \in 0..MaxRenders
        BY DEF LoginAssumption
    <2>3. /\ flow \in [Logins -> {"unused", "authorize", "proxy", "proxied", "unproxied",
                                  "watched", "begun", "failed"}]
          /\ sess \in [Logins -> SessionStates] /\ serving \in [Logins -> Nat]
          /\ answer \in [Logins -> {"none", "code", "error"}]
        BY DEF SessionStates
    <2>4. RestOK
        BY <2>2, <2>3 DEF RestOK, Steps
    <2> QED BY <2>1, <2>4, Apart
<1>2. Rounds /\ ToldIsSaved
    BY DEF Rounds, ToldIsSaved, NoLoop
<1>3. DoneIsSaved /\ IsFiniteSet(requests) /\ SuccessIsTheLogins
    BY FS_EmptySet DEF DoneIsSaved, SuccessIsTheLogins
<1> QED BY <1>1, <1>2, <1>3 DEF IInv

LEMMA Invariance == Spec => []IInv
<1>1. Init => IInv
    BY Begins, LoginAssumption
<1>2. IInv /\ [Next]_vars => IInv'
    <2>1. SUFFICES ASSUME IInv, [Next]_vars PROVE IInv'
        OBVIOUS
    <2>2. CASE Next
        BY <2>1, <2>2, LoginAssumption, TypeStep, SavedStep, CarryStep, SuccessStep DEF IInv
    <2>3. CASE UNCHANGED vars
        BY <2>1, <2>3
        DEF vars, modal, relay, proxy, provider, IInv, TypeOK, Rounds, DoneIsSaved, ToldIsSaved,
            SuccessIsTheLogins
    <2> QED BY <2>1, <2>2, <2>3
<1> QED BY <1>1, <1>2, PTL DEF Spec

\* Type correctness, for any logins and bounds.
THEOREM TypeCorrect == Spec => []TypeOK
<1>1. IInv => TypeOK
    BY DEF IInv
<1> QED BY <1>1, Invariance, PTL

\* A success the modal shows is stored, except one reported late by an earlier login.
THEOREM SuccessIsStored == Spec => []SuccessIsTheLogins
<1>1. IInv => SuccessIsTheLogins
    BY DEF IInv
<1> QED BY <1>1, Invariance, PTL

\* A callback is carried to the provider at most once per copy that a visit or a paste made,
\* whatever the page does in between.
THEOREM CopiesUsedUp == Spec => CarriedOnce
<1>1. IInv /\ [Next]_vars => [Carried]_vars
    BY LoginAssumption, CarryStep DEF IInv
<1>2. CarriedOnce <=> [][Carried]_vars
    BY DEF CarriedOnce, Carried
<1> QED BY <1>1, <1>2, Invariance, PTL DEF Spec

\* A session is made by start-proxy only: once read for good it stays away, although its
\* handlers may still be at work.
THEOREM GoneForGood == Spec => ConsumedStaysGone
<1> DEFINE Gone == \A l \in Logins : sess[l] = "none" /\ flow[l] # "proxy" => sess'[l] = "none"
<1>1. TypeOK /\ [Next]_vars => Gone
    <2> SUFFICES ASSUME TypeOK, [Next]_vars,
                        NEW k \in Logins, sess[k] = "none", flow[k] # "proxy"
                 PROVE  sess'[k] = "none"
        OBVIOUS
    <2>1. ASSUME NEW l \in Logins, StartProxy(l)
          PROVE  sess'[k] = "none"
        BY <2>1 DEF StartProxy, FlowStep, TypeOK
    <2>2. ASSUME NEW l \in Logins, Visit(l)
          PROVE  sess'[k] = "none"
        BY <2>2 DEF Visit, Serve, TypeOK, proxy
    <2>3. ASSUME NEW l \in Logins, ServerExchange(l)
          PROVE  sess'[k] = "none"
        BY <2>3 DEF ServerExchange, Settle, TypeOK
    <2>4. ASSUME NEW o \in orphans, OrphanServed(o)
          PROVE  sess'[k] = "none"
        BY <2>4 DEF OrphanServed, ClearProxySession, TypeOK
    <2>5. CASE PollServed
        BY <2>5 DEF PollServed, ClearProxySession, TypeOK
    <2>6. CASE sess' = sess
        BY <2>6
    <2> QED
        BY <2>1, <2>2, <2>3, <2>4, <2>5, <2>6
        DEF Next, User, Flow, World, Open, TryAgain, Close, Render, Submit, Authorize, FlowFails,
            Begin, Answer, StopProxy, Deliver, ExchangeReturns, PollSends, PollRead, PollReturns,
            vars, proxy
<1>2. TypeOK /\ [Next]_vars => [Gone]_vars
    BY <1>1
<1> QED BY <1>2, TypeCorrect, PTL DEF Spec, ConsumedStaysGone
=============================================================================
