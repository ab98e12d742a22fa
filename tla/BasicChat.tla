----------------------------- MODULE BasicChat -----------------------------
(***************************************************************************)
(* The dashboard's chat page (BasicChatPageClient.tsx): chats kept by the  *)
(* browser, one streamed answer at a time, Stop, and changes of chat and   *)
(* model while an answer streams in.                                       *)
(*                                                                         *)
(* React: an update made outside an event is queued, and until the next    *)
(* render the handlers close over what the last one saw.  `sessions' and   *)
(* `sending' are the state with every queued update applied, `seen' is     *)
(* what the last render saw.  The handler of a click or a key is followed  *)
(* by its render at once.  A render stores the chats in localStorage, or   *)
(* fails to, which the page ignores: `stored' may lag behind `seen'.       *)
(*                                                                         *)
(* A question and its answer are one exchange; an answer's text is the     *)
(* number of its chunks.  Titles, drafts, attachments and providers, which *)
(* only group the models, are left out.                                    *)
(***************************************************************************)
EXTENDS Integers, SequencesExt

CONSTANTS
    Models,
    MaxChunks,      \* bound: chunks of an answer
    MaxSends,       \* bound: questions asked
    MaxChats,       \* bound: chats made
    MaxReloads,     \* bound: reloads of the page
    None

ASSUME ChatAssumption ==
    /\ None \notin Models
    /\ MaxChunks \in Nat /\ MaxSends \in Nat /\ MaxChats \in Nat /\ MaxReloads \in Nat

VARIABLES
    catalogue,      \* the models of modelIndex, none before loadData
    sessions, sending, seen,
    stored,         \* what localStorage holds
    active, activeModel,
    flights,        \* calls of sendMessage under way
    abort,          \* the exchange abortRef can stop, or 0
    sends, chats, reloads,
    cut             \* history: exchanges stopped, or put back by a reload or a deletion

asking == <<flights, abort, sends>>
vars == <<catalogue, sessions, sending, seen, stored, active, activeModel, asking, chats, reloads, cut>>

Statuses == {"streaming", "done", "error"}
Exchange == [n : 1..MaxSends, model : Models, text : 0..MaxChunks, status : Statuses]
Session == [id : 1..MaxChats, model : Models, talk : Seq(Exchange)]

Ids(ss) == {ss[i].id : i \in DOMAIN ss}
Chat(ss, c) == ss[CHOOSE i \in DOMAIN ss : ss[i].id = c]
Exchanges(ss) == UNION {{ss[i].talk[j] : j \in DOMAIN ss[i].talk} : i \in DOMAIN ss}

TypeOK ==
    /\ catalogue \subseteq Models
    /\ sessions \in Seq(Session) /\ sending \in BOOLEAN
    /\ seen.sessions \in Seq(Session) /\ seen.sending \in BOOLEAN
    /\ stored.sessions \in Seq(Session) /\ stored.active \in (1..MaxChats) \cup {None}
    /\ active \in (1..MaxChats) \cup {None} /\ activeModel \in Models \cup {None}
    /\ flights \subseteq [n : 1..MaxSends, chat : 1..MaxChats, text : 0..MaxChunks,
                          aborted : BOOLEAN]
    /\ abort \in 0..MaxSends
    /\ sends \in 0..MaxSends /\ chats \in 0..MaxChats /\ reloads \in 0..MaxReloads
    /\ cut \subseteq 1..MaxSends

Init ==
    /\ catalogue = {}
    /\ sessions = <<>> /\ sending = FALSE
    /\ seen = [sessions |-> <<>>, sending |-> FALSE]
    /\ stored = [sessions |-> <<>>, active |-> None]
    /\ active = None /\ activeModel = None
    /\ flights = {} /\ abort = 0
    /\ sends = 0 /\ chats = 0 /\ reloads = 0 /\ cut = {}

-----------------------------------------------------------------------------
(* Updates of the chats.                                                   *)

\* updateSession of the answer with number n
Answered(ss, c, n, text, status) ==
    [i \in DOMAIN ss |->
        IF ss[i].id # c THEN ss[i]
        ELSE [id |-> c, model |-> ss[i].model,
              talk |-> [j \in DOMAIN ss[i].talk |->
                           IF ss[i].talk[j].n # n THEN ss[i].talk[j]
                           ELSE [n |-> n, model |-> ss[i].talk[j].model,
                                 text |-> text, status |-> status]]]]

\* Mutant of Progress: the answer goes to the last exchange of the chat on the screen.
ProgressOfLast(f, text, status) ==
    sessions' = IF active \notin Ids(sessions) THEN sessions
                ELSE LET talk == Chat(sessions, active).talk
                     IN Answered(sessions, active,
                                 IF talk = <<>> THEN 0 ELSE talk[Len(talk)].n, text, status)

\* Mutant of Progress: an answer is kept only while its chat is on the screen.
ProgressWhileActive(f, text, status) ==
    sessions' = IF f.chat = active THEN Answered(sessions, f.chat, f.n, text, status) ELSE sessions

Progress(f, text, status) == sessions' = Answered(sessions, f.chat, f.n, text, status)

SetModel(ss, c, m) == [i \in DOMAIN ss |-> IF ss[i].id = c THEN [ss[i] EXCEPT !.model = m] ELSE ss[i]]

\* ensureSessionForModel, and the new chat put first and shown
Created(m, talk) ==
    /\ chats < MaxChats /\ chats' = chats + 1
    /\ sessions' = <<[id |-> chats + 1, model |-> m, talk |-> talk]>> \o sessions
    /\ active' = chats + 1

\* The effect that stores the chats, and after them which one is shown; an error at either is
\* ignored and leaves the rest as it was.
Stored ==
    \/ stored' = [sessions |-> sessions', active |-> active']
    \/ \E kept \in {stored.sessions, sessions'} :
          stored' = [sessions |-> kept, active |-> stored.active]

Rendered ==
    /\ seen' = [sessions |-> sessions', sending |-> sending']
    /\ Stored

\* The exchanges that are put back to what they were in an older copy
PutBack(ss) == {x.n : x \in Exchanges(ss) \ Exchanges(sessions)}

-----------------------------------------------------------------------------
(* Loading.                                                                *)

\* loadData, of which one counts that has found models
LoadData ==
    /\ catalogue = {}
    /\ catalogue' \in (SUBSET Models) \ {{}}

\* The page chooses a chat and a model.
Load ==
    /\ LoadData
    /\ \E first \in catalogue' :
          \/ /\ seen.sessions # <<>>
             /\ LET c == IF active \in Ids(seen.sessions) THEN active ELSE seen.sessions[1].id
                    m == Chat(seen.sessions, c).model
                IN /\ active' = c
                   /\ activeModel' = IF m \in catalogue' THEN m ELSE first
             /\ UNCHANGED <<sessions, chats>>
          \/ /\ seen.sessions = <<>>
             /\ Created(first, <<>>) /\ activeModel' = first
    /\ UNCHANGED <<sending, asking, reloads, cut>>
    /\ Rendered

\* The page begins anew with what is stored.  Of an answer under way it knows nothing: the
\* browser has ended the request, or, when the user only left the page for another one of the
\* dashboard and came back, its updates go to a component that is no longer mounted.
Reload ==
    /\ reloads < MaxReloads /\ reloads' = reloads + 1
    /\ catalogue' = {} /\ activeModel' = None
    /\ sessions' = stored.sessions /\ sending' = FALSE /\ active' = stored.active
    /\ flights' = {} /\ abort' = 0
    /\ cut' = cut \cup PutBack(stored.sessions) \cup {f.n : f \in flights}
    /\ UNCHANGED <<sends, chats>>
    /\ Rendered

Render ==
    /\ seen # [sessions |-> sessions, sending |-> sending]
    /\ UNCHANGED <<catalogue, sessions, sending, active, activeModel, asking, chats, reloads, cut>>
    /\ Rendered

-----------------------------------------------------------------------------
(* The chats and the model.                                                *)

\* Mutant of Usable: the model of the page need not be in the catalogue.
UsableUnchecked == {activeModel}

\* activeModel of the page, and what it falls back to
Usable ==
    IF activeModel \in catalogue THEN {activeModel}
    ELSE IF active \in Ids(seen.sessions) /\ Chat(seen.sessions, active).model \in catalogue
    THEN {Chat(seen.sessions, active).model}
    ELSE catalogue

NewChat ==
    /\ \E m \in Usable : Created(m, <<>>) /\ activeModel' = m
    /\ UNCHANGED <<catalogue, sending, asking, reloads, cut>>
    /\ Rendered

SelectSession(c) ==
    /\ c \in Ids(seen.sessions)
    /\ active' = c /\ activeModel' = Chat(seen.sessions, c).model
    /\ UNCHANGED <<catalogue, sessions, sending, asking, chats, reloads, cut>>
    /\ Rendered

\* The chats but for one, ids being unique
Without(ss, c) ==
    IF c \in Ids(ss) THEN RemoveAt(ss, CHOOSE i \in DOMAIN ss : ss[i].id = c) ELSE ss

\* It keeps the chats the last render saw, and with them drops what is queued.
DeleteCurrentChat ==
    /\ active # None /\ seen.sessions # <<>>
    /\ LET rest == Without(seen.sessions, active)
       IN /\ sessions' = rest
          /\ active' = IF rest = <<>> THEN None ELSE rest[1].id
          /\ activeModel' = IF rest = <<>> THEN None ELSE rest[1].model
    /\ cut' = cut \cup PutBack(seen.sessions)
    /\ UNCHANGED <<catalogue, sending, asking, chats, reloads>>
    /\ Rendered

\* Mutant of Switch: a chat with questions in it changes its model too.
SwitchInPlace(m) ==
    \/ /\ active \in Ids(seen.sessions)
       /\ sessions' = SetModel(sessions, active, m) /\ UNCHANGED <<active, chats>>
    \/ active \notin Ids(seen.sessions) /\ Created(m, <<>>)

\* Another model: in place in a chat nothing was asked in, in a new chat otherwise
Switch(m) ==
    \/ /\ active \in Ids(seen.sessions) /\ Chat(seen.sessions, active).talk = <<>>
       /\ sessions' = SetModel(sessions, active, m) /\ UNCHANGED <<active, chats>>
    \/ /\ active \in Ids(seen.sessions) => Chat(seen.sessions, active).talk # <<>>
       /\ Created(m, <<>>)

SelectModel(m) ==
    /\ m \in catalogue
    /\ Switch(m)
    /\ activeModel' = m
    /\ UNCHANGED <<catalogue, sending, asking, reloads, cut>>
    /\ Rendered

-----------------------------------------------------------------------------
(* A question and its answer.                                              *)

\* abortRef.current?.abort()
Abort == {[f EXCEPT !.aborted = f.aborted \/ f.n = abort] : f \in flights}

\* Mutant of CanSend: a question can be asked while an answer streams in.
CanSendAlways == TRUE

CanSend == ~seen.sending

SendMessage ==
    /\ CanSend
    /\ sends < MaxSends /\ sends' = sends + 1
    /\ \E m \in Usable :
          LET x == [n |-> sends', model |-> m, text |-> 0, status |-> "streaming"]
          IN \/ /\ active \in Ids(seen.sessions)
                /\ sessions' = [i \in DOMAIN sessions |->
                       IF sessions[i].id # active THEN sessions[i]
                       ELSE [id |-> active, model |-> m,
                             talk |-> Append(Chat(seen.sessions, active).talk, x)]]
                /\ UNCHANGED <<active, chats>>
             \/ active \notin Ids(seen.sessions) /\ Created(m, <<x>>)
    /\ sending' = TRUE /\ abort' = sends'
    /\ flights' = Abort \cup {[n |-> sends', chat |-> active', text |-> 0, aborted |-> FALSE]}
    /\ UNCHANGED <<catalogue, activeModel, reloads, cut>>
    /\ Rendered

Stop ==
    /\ seen.sending
    /\ flights' = Abort
    /\ cut' = cut \cup {f.n : f \in {g \in flights : g.n = abort}}
    /\ UNCHANGED <<catalogue, sessions, sending, active, activeModel, abort, sends, chats, reloads>>
    /\ Rendered

Chunk(f) ==
    /\ ~f.aborted /\ f.text < MaxChunks
    /\ flights' = (flights \ {f}) \cup {[f EXCEPT !.text = @ + 1]}
    /\ Progress(f, f.text + 1, "streaming")
    /\ UNCHANGED <<catalogue, sending, seen, stored, active, activeModel, abort, sends, chats,
                   reloads, cut>>

\* The block `finally'
Finally(f) ==
    /\ flights' = flights \ {f}
    /\ sending' = FALSE /\ abort' = 0

\* The stream ends or breaks
Ends(f) ==
    /\ ~f.aborted
    /\ \E status \in {"done", "error"} : Progress(f, f.text, status)
    /\ Finally(f)
    /\ UNCHANGED <<catalogue, seen, stored, active, activeModel, sends, chats, reloads, cut>>

\* Mutant of Aborts: an aborted call returns before `finally'.
AbortsEarly(f) ==
    /\ f.aborted
    /\ flights' = flights \ {f}
    /\ UNCHANGED <<catalogue, sessions, sending, seen, stored, active, activeModel, abort, sends,
                   chats, reloads, cut>>

\* An AbortError leaves the answer as it is; when the body of an error is being read, it is
\* taken for an empty one
Aborts(f) ==
    /\ f.aborted
    /\ UNCHANGED sessions \/ (f.text = 0 /\ Progress(f, 0, "error"))
    /\ Finally(f)
    /\ UNCHANGED <<catalogue, seen, stored, active, activeModel, sends, chats, reloads, cut>>

-----------------------------------------------------------------------------
Next ==
    \/ Load \/ Reload \/ Render
    \/ NewChat \/ DeleteCurrentChat
    \/ \E c \in 1..MaxChats : SelectSession(c)
    \/ \E m \in Models : SelectModel(m)
    \/ SendMessage \/ Stop
    \/ \E f \in flights : Chunk(f) \/ Ends(f) \/ Aborts(f)

\* The browser rejects the reads of an aborted request and React renders; nothing is assumed
\* of the gateway, which may never end an answer.
Fairness == WF_vars(\E f \in flights : Aborts(f)) /\ WF_vars(Render)

Spec == Init /\ [][Next]_vars /\ Fairness

-----------------------------------------------------------------------------
\* An answer that streams in can be stopped: the page knows that it is sending, and abortRef
\* is the controller of that very request, whichever chat is shown and however often the user
\* has stopped, deleted and asked again.
StopReaches == \A f \in flights : sending /\ (f.aborted \/ abort = f.n)

\* No answer is left `streaming' behind the user's back: it streams in, or the user stopped it,
\* or a reload or the deletion of a chat has put it back to what was stored, or last rendered.
AnswersSettle ==
    \A x \in Exchanges(sessions) :
        x.status = "streaming" => x.n \in cut \/ \E f \in flights : f.n = x.n

\* A talk later on: no question has gone, no answer shrunk, and none changed that had ended.
Later(old, new) ==
    /\ Len(old) <= Len(new)
    /\ \A j \in DOMAIN old :
          /\ old[j].n = new[j].n /\ old[j].text <= new[j].text
          /\ old[j].status # "streaming" => old[j] = new[j]

\* What a chat has shown stays, in its place, whatever streams into which chat, is deleted or
\* fails to be stored.  Only a reload for which the last chats were not stored takes a chat
\* back, and then to what it was before, never to a mixture.
ShownStays ==
    [][\A c \in Ids(seen.sessions) \cap Ids(seen'.sessions) :
          LET old == Chat(seen.sessions, c).talk
              new == Chat(seen'.sessions, c).talk
          IN \/ Later(old, new)
             \/ reloads' # reloads /\ stored.sessions # seen.sessions /\ Later(new, old)]_vars

\* A chat goes on with the model that answered last unless the gateway has lost that model.
ChatKeepsModel ==
    [][\A c \in Ids(seen.sessions) \cap Ids(seen'.sessions) :
          LET old == Chat(seen.sessions, c).talk
              new == Chat(seen'.sessions, c).talk
          IN old # <<>> /\ Len(new) > Len(old) =>
                \/ new[Len(new)].model = old[Len(old)].model
                \/ old[Len(old)].model \notin catalogue]_vars

\* Stop works: the page takes questions again.
StopEnds == (\E f \in flights : f.aborted) ~> ~seen.sending
=============================================================================
