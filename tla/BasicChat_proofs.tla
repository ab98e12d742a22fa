-------------------------- MODULE BasicChat_proofs --------------------------
(***************************************************************************)
(* The chat page, for any models, chats, questions and reloads.            *)
(*                                                                         *)
(* A question is asked only when the last render saw no answer under way,  *)
(* so there is one at most, and nobody else has touched abortRef since it  *)
(* was asked: an answer can be stopped.                                    *)
(*                                                                         *)
(* A handler replaces the chats by what it makes of those the last render  *)
(* saw, or of the present ones.  The two differ by the text and the status *)
(* of one answer only (Advance), because only its stream updates chats     *)
(* without a render; so nothing is lost but what is queued, which a        *)
(* deletion counts as cut.  CInv says so, with what makes an answer find   *)
(* its exchange (Static: ids and numbers are given once; Flying: the       *)
(* exchange is in the chat of its call or nowhere) and a question its      *)
(* model (Follows).                                                        *)
(*                                                                         *)
(* What is stored is a copy of chats the page had at one time (SInv): of a *)
(* chat in both, the page's talk is the same or a later one (Behind).      *)
(***************************************************************************)
EXTENDS BasicChat, SequenceTheorems, TLAPS

\* What a render saw of `sending' is never FALSE too early.
SeenInTime == sending => seen.sending

\* One answer at a time.
OneFlight == \A f, g \in flights : f = g

\* What a call of sendMessage knows.
CallShape ==
    \A f \in flights :
        f = [n |-> f.n, chat |-> f.chat, text |-> f.text, aborted |-> f.aborted]

IInv == SeenInTime /\ OneFlight /\ CallShape /\ StopReaches

LEMMA Start == Init => IInv
BY DEF Init, IInv, SeenInTime, OneFlight, CallShape, StopReaches

\* A step that leaves the answers under way and their controller alone, and which renders
\* unless it leaves that alone too.
LEMMA Quiet ==
    ASSUME IInv, UNCHANGED <<flights, abort, sending>>, Rendered \/ UNCHANGED seen
    PROVE  IInv'
<1>1. seen'.sending = sending \/ seen' = seen
  BY DEF Rendered
<1>2. QED
  BY <1>1 DEF IInv, SeenInTime, OneFlight, CallShape, StopReaches

LEMMA Asked == IInv /\ SendMessage => IInv'
<1> SUFFICES ASSUME IInv, SendMessage  PROVE IInv'
    OBVIOUS
<1>1. flights = {}
  BY DEF IInv, SeenInTime, StopReaches, SendMessage, CanSend
<1>2. Abort = {}
  BY <1>1 DEF Abort
<1>3. /\ flights' = {[n |-> sends', chat |-> active', text |-> 0, aborted |-> FALSE]}
      /\ sending' = TRUE /\ abort' = sends' /\ seen'.sending = sending'
  BY <1>2 DEF SendMessage, Rendered
<1>4. QED
  BY <1>3 DEF IInv, SeenInTime, OneFlight, CallShape, StopReaches

LEMMA Stopped == IInv /\ Stop => IInv'
<1> SUFFICES ASSUME IInv, Stop  PROVE IInv'
    OBVIOUS
<1>1. /\ flights' = {[f EXCEPT !.aborted = f.aborted \/ f.n = abort] : f \in flights}
      /\ abort' = abort /\ sending' = sending /\ seen'.sending = sending
  BY DEF Stop, Abort, Rendered
<1>2. OneFlight'
  BY <1>1 DEF IInv, OneFlight
<1>3. ASSUME NEW g \in flights'  PROVE sending' /\ (g.aborted \/ abort' = g.n)
  <2>1. PICK f \in flights : g = [f EXCEPT !.aborted = f.aborted \/ f.n = abort]
    BY <1>1, <1>3
  <2>2. sending /\ (f.aborted \/ abort = f.n)
    BY <2>1 DEF IInv, StopReaches
  <2>3. f = [n |-> f.n, chat |-> f.chat, text |-> f.text, aborted |-> f.aborted]
    BY <2>1 DEF IInv, CallShape
  <2>4. g = [n |-> f.n, chat |-> f.chat, text |-> f.text, aborted |-> f.aborted \/ f.n = abort]
    BY <2>1, <2>3
  <2>5. QED
    BY <1>1, <2>2, <2>4
<1>4. CallShape'
  <2>1. SUFFICES ASSUME NEW g \in flights'
                 PROVE  g = [n |-> g.n, chat |-> g.chat, text |-> g.text, aborted |-> g.aborted]
    BY DEF CallShape
  <2>2. PICK f \in flights : g = [f EXCEPT !.aborted = f.aborted \/ f.n = abort]
    BY <1>1, <2>1
  <2>3. f = [n |-> f.n, chat |-> f.chat, text |-> f.text, aborted |-> f.aborted]
    BY <2>2 DEF IInv, CallShape
  <2>4. g = [n |-> f.n, chat |-> f.chat, text |-> f.text, aborted |-> f.aborted \/ f.n = abort]
    BY <2>2, <2>3
  <2>5. QED
    BY <2>4
<1>5. QED
  BY <1>1, <1>2, <1>3, <1>4 DEF IInv, SeenInTime, StopReaches

\* A chunk leaves the one answer under way as it is but for its text.
LEMMA Streamed == ASSUME IInv, NEW f \in flights, Chunk(f)  PROVE IInv'
<1>1. flights = {f}
  BY DEF IInv, OneFlight
<1>2. /\ flights' = {[f EXCEPT !.text = @ + 1]}
      /\ UNCHANGED <<abort, sending, seen>>
  BY <1>1 DEF Chunk
<1>3. /\ f = [n |-> f.n, chat |-> f.chat, text |-> f.text, aborted |-> f.aborted]
      /\ sending /\ (f.aborted \/ abort = f.n)
  BY DEF IInv, CallShape, StopReaches
<1>4. flights' = {[n |-> f.n, chat |-> f.chat, text |-> f.text + 1, aborted |-> f.aborted]}
  BY <1>2, <1>3
<1>5. QED
  BY <1>2, <1>3, <1>4 DEF IInv, SeenInTime, OneFlight, CallShape, StopReaches

\* The end of an answer is the end of the only one: `finally' takes the controller from nobody.
LEMMA Ended == ASSUME IInv, NEW f \in flights, Finally(f), UNCHANGED seen  PROVE IInv'
<1>1. flights = {f}
  BY DEF IInv, OneFlight
<1>2. flights' = {} /\ sending' = FALSE
  BY <1>1 DEF Finally
<1>3. QED
  BY <1>2 DEF IInv, SeenInTime, OneFlight, CallShape, StopReaches

LEMMA Step == IInv /\ [Next]_vars => IInv'
<1> SUFFICES ASSUME IInv, [Next]_vars  PROVE IInv'
    OBVIOUS
<1>1. CASE Reload
  BY <1>1 DEF Reload, Rendered, IInv, SeenInTime, OneFlight, CallShape, StopReaches
<1>2. CASE Load \/ Render \/ NewChat \/ DeleteCurrentChat
  BY <1>2, Quiet DEF Load, Render, NewChat, DeleteCurrentChat, asking
<1>3. ASSUME NEW c \in 1..MaxChats, SelectSession(c)  PROVE IInv'
  BY <1>3, Quiet DEF SelectSession, asking
<1>4. ASSUME NEW m \in Models, SelectModel(m)  PROVE IInv'
  BY <1>4, Quiet DEF SelectModel, asking
<1>5. ASSUME NEW f \in flights, Ends(f) \/ Aborts(f)  PROVE IInv'
  BY <1>5, Ended DEF Ends, Aborts
<1>6. CASE UNCHANGED vars
  BY <1>6, Quiet DEF vars, asking
<1>7. QED
  BY <1>1, <1>2, <1>3, <1>4, <1>5, <1>6, Asked, Stopped, Streamed DEF Next

\* An answer that streams in can be stopped, whichever chats the user shows, makes and deletes
\* meanwhile.
THEOREM Stoppable == Spec => []StopReaches
<1>1. IInv => StopReaches
  BY DEF IInv
<1>2. QED
  BY Start, Step, <1>1, PTL DEF Spec

\* At no time do two answers stream in.
THEOREM OneAnswer == Spec => []OneFlight
<1>1. IInv => OneFlight
  BY DEF IInv
<1>2. QED
  BY Start, Step, <1>1, PTL DEF Spec

-----------------------------------------------------------------------------
(* Sequences of chats.                                                     *)

LEMMA MapSeq ==
    ASSUME NEW T, NEW n \in Nat, NEW s \in [1..n -> T]
    PROVE  s \in Seq(T) /\ Len(s) = n
<1>1. s \in Seq(T)
  BY SeqDef
<1>2. DOMAIN s = 1..n /\ DOMAIN s = 1..Len(s) /\ Len(s) \in Nat
  BY <1>1, LenProperties
<1>3. QED
  BY <1>1, <1>2

LEMMA PutFirst ==
    ASSUME NEW T, NEW e \in T, NEW s \in Seq(T), NEW t, t = <<e>> \o s
    PROVE  /\ t \in Seq(T) /\ Len(t) = Len(s) + 1 /\ t[1] = e
           /\ \A i \in DOMAIN s : t[i + 1] = s[i]
           /\ \A i \in DOMAIN t : i # 1 => i - 1 \in DOMAIN s /\ t[i] = s[i - 1]
<1>1. Len(s) \in Nat /\ DOMAIN s = 1..Len(s)
  BY LenProperties
<1>2. <<e>> \in Seq(T) /\ Len(<<e>>) = 1 /\ <<e>>[1] = e
  OBVIOUS
<1>3. /\ t \in Seq(T) /\ Len(t) = 1 + Len(s)
      /\ \A i \in 1 .. 1 + Len(s) : t[i] = IF i <= 1 THEN <<e>>[i] ELSE s[i - 1]
  BY <1>2, ConcatProperties
<1>4. DOMAIN t = 1 .. 1 + Len(s)
  BY <1>3, LenProperties
<1>5. t[1] = e
  BY <1>1, <1>2, <1>3
<1>6. ASSUME NEW i \in DOMAIN s  PROVE t[i + 1] = s[i]
  <2>1. i + 1 \in 1 .. 1 + Len(s) /\ ~ (i + 1 <= 1) /\ (i + 1) - 1 = i
    BY <1>1
  <2>2. QED
    BY <1>3, <2>1
<1>7. ASSUME NEW i \in DOMAIN t, i # 1  PROVE i - 1 \in DOMAIN s /\ t[i] = s[i - 1]
  BY <1>1, <1>3, <1>4, <1>7
<1>8. t \in Seq(T) /\ Len(t) = Len(s) + 1
  BY <1>1, <1>3
<1>9. QED
  BY <1>5, <1>6, <1>7, <1>8

\* Without one of its elements a sequence holds the others at their places or one before.
LEMMA Removed ==
    ASSUME NEW T, NEW s \in Seq(T), NEW p \in DOMAIN s, NEW t, t = RemoveAt(s, p)
    PROVE  /\ t \in Seq(T)
           /\ \A i \in DOMAIN t :
                LET k == IF i < p THEN i ELSE i + 1
                IN  k \in DOMAIN s /\ k # p /\ t[i] = s[k]
<1> DEFINE a == SubSeq(s, 1, p - 1)
           b == SubSeq(s, p + 1, Len(s))
           n == Len(s)
<1>1. n \in Nat /\ DOMAIN s = 1..n /\ \A i \in 1..n : s[i] \in T
  BY LenProperties
<1>2. p \in 1..n /\ p \in Int /\ p - 1 \in Int /\ p + 1 \in Int /\ n \in Int
  BY <1>1
<1>3. /\ a \in Seq(T) /\ Len(a) = IF 1 <= p - 1 THEN (p - 1) - 1 + 1 ELSE 0
      /\ \A i \in 1 .. (p - 1) - 1 + 1 : a[i] = s[1 + i - 1]
  <2>1. \A i \in 1 .. p - 1 : s[i] \in T
    BY <1>1, <1>2
  <2>2. QED
    BY <1>2, <2>1, SubSeqProperties
<1>4. /\ b \in Seq(T) /\ Len(b) = IF p + 1 <= n THEN n - (p + 1) + 1 ELSE 0
      /\ \A i \in 1 .. n - (p + 1) + 1 : b[i] = s[p + 1 + i - 1]
  <2>1. \A i \in p + 1 .. n : s[i] \in T
    BY <1>1, <1>2
  <2>2. QED
    BY <1>2, <2>1, SubSeqProperties
<1>5. t = a \o b
  BY DEF RemoveAt
<1> HIDE DEF a, b, n
<1>6. Len(a) = p - 1 /\ \A i \in 1 .. p - 1 : a[i] = s[i]
  <2>1. CASE 1 <= p - 1
    BY <1>2, <1>3, <2>1
  <2>2. CASE ~ (1 <= p - 1)
    BY <1>2, <1>3, <2>2
  <2>3. QED
    BY <2>1, <2>2
<1>7. Len(b) = n - p /\ \A i \in 1 .. n - p : b[i] = s[p + i]
  <2>1. ASSUME NEW i \in 1 .. n - p  PROVE b[i] = s[p + i]
    <3>1. i \in 1 .. n - (p + 1) + 1 /\ p + 1 + i - 1 = p + i
      BY <1>1, <1>2
    <3>2. QED
      BY <1>4, <3>1
  <2>2. CASE p + 1 <= n
    <3>1. Len(b) = n - (p + 1) + 1
      BY <1>4, <2>2
    <3>2. QED
      BY <1>1, <1>2, <2>1, <3>1
  <2>3. CASE ~ (p + 1 <= n)
    <3>1. Len(b) = 0 /\ n - p = 0
      BY <1>1, <1>2, <1>4, <2>3
    <3>2. QED
      BY <2>1, <3>1
  <2>4. QED
    BY <2>2, <2>3
<1>8. /\ t \in Seq(T) /\ Len(t) = Len(a) + Len(b)
      /\ \A i \in 1 .. Len(a) + Len(b) : t[i] = IF i <= Len(a) THEN a[i] ELSE b[i - Len(a)]
  BY <1>3, <1>4, <1>5, ConcatProperties
<1>9. DOMAIN t = 1 .. n - 1
  <2>1. DOMAIN t = 1 .. Len(t)
    BY <1>8, LenProperties
  <2>2. Len(t) = n - 1
    BY <1>1, <1>2, <1>6, <1>7, <1>8
  <2>3. QED
    BY <2>1, <2>2
<1>10. ASSUME NEW i \in 1 .. n - 1, i < p  PROVE t[i] = s[i]
  <2>1. i \in 1 .. Len(a) + Len(b) /\ i <= Len(a) /\ i \in 1 .. p - 1
    BY <1>1, <1>2, <1>6, <1>7, <1>10
  <2>2. QED
    BY <1>6, <1>8, <2>1
<1>11. ASSUME NEW i \in 1 .. n - 1, ~ (i < p)  PROVE t[i] = s[i + 1]
  <2>1. /\ i \in 1 .. Len(a) + Len(b) /\ ~ (i <= Len(a))
        /\ i - Len(a) \in 1 .. n - p /\ p + (i - Len(a)) = i + 1
    BY <1>1, <1>2, <1>6, <1>7, <1>11
  <2>2. QED
    BY <1>7, <1>8, <2>1
<1>12. ASSUME NEW i \in DOMAIN t
       PROVE  LET k == IF i < p THEN i ELSE i + 1
              IN  k \in DOMAIN s /\ k # p /\ t[i] = s[k]
  <2>1. i \in 1 .. n - 1
    BY <1>9
  <2>2. CASE i < p
    BY <1>1, <1>2, <1>10, <2>1, <2>2
  <2>3. CASE ~ (i < p)
    BY <1>1, <1>2, <1>11, <2>1, <2>3
  <2>4. QED
    BY <2>2, <2>3
<1>13. QED
  BY <1>8, <1>12

LEMMA TalkFacts ==
    ASSUME NEW q \in Seq(Exchange)
    PROVE  /\ Len(q) \in Nat /\ DOMAIN q = 1..Len(q)
           /\ \A j \in DOMAIN q :
                 /\ q[j] \in Exchange /\ q[j].n \in 1..MaxSends /\ q[j].model \in Models
                 /\ q[j].text \in 0..MaxChunks /\ q[j].n \in Int /\ q[j].text \in Int
<1>1. Len(q) \in Nat /\ DOMAIN q = 1..Len(q) /\ \A j \in DOMAIN q : q[j] \in Exchange
  BY LenProperties
<1>2. MaxSends \in Int /\ MaxChunks \in Int
  BY ChatAssumption
<1>3. \A x \in Exchange : /\ x.n \in 1..MaxSends /\ x.model \in Models
                          /\ x.text \in 0..MaxChunks
  BY DEF Exchange
<1>4. QED
  BY <1>1, <1>2, <1>3

LEMMA SessionFacts ==
    ASSUME NEW ss \in Seq(Session)
    PROVE  /\ Len(ss) \in Nat /\ DOMAIN ss = 1..Len(ss)
           /\ \A i \in DOMAIN ss :
                 /\ ss[i] \in Session /\ ss[i].id \in 1..MaxChats /\ ss[i].model \in Models
                 /\ ss[i].talk \in Seq(Exchange) /\ Len(ss[i].talk) \in Nat
                 /\ DOMAIN ss[i].talk = 1..Len(ss[i].talk)
                 /\ \A j \in DOMAIN ss[i].talk :
                       /\ ss[i].talk[j] \in Exchange
                       /\ ss[i].talk[j].n \in 1..MaxSends /\ ss[i].talk[j].model \in Models
                       /\ ss[i].talk[j].text \in 0..MaxChunks
                       /\ ss[i].talk[j].n \in Int /\ ss[i].talk[j].text \in Int
<1>1. Len(ss) \in Nat /\ DOMAIN ss = 1..Len(ss) /\ \A i \in DOMAIN ss : ss[i] \in Session
  BY LenProperties
<1>2. ASSUME NEW i \in DOMAIN ss
      PROVE  /\ ss[i].id \in 1..MaxChats /\ ss[i].model \in Models /\ ss[i].talk \in Seq(Exchange)
  BY <1>1 DEF Session
<1>3. QED
  BY <1>1, <1>2, TalkFacts

LEMMA ChatFacts ==
    ASSUME NEW ss, NEW c \in Ids(ss)
    PROVE  \E i \in DOMAIN ss : ss[i].id = c /\ Chat(ss, c) = ss[i]
BY DEF Ids, Chat

LEMMA ExchangesFacts ==
    ASSUME NEW ss, NEW x
    PROVE  x \in Exchanges(ss) <=>
              \E i \in DOMAIN ss : \E j \in DOMAIN ss[i].talk : x = ss[i].talk[j]
BY DEF Exchanges

-----------------------------------------------------------------------------
(* What holds of the chats.                                                *)

\* What never changes about chats as answers stream in: a chat has one id and a question one
\* number, of those given so far; a chat that was used has the model of its last question.
Static(ss, lastChat, lastSend) ==
    /\ \A i \in DOMAIN ss : ss[i].id <= lastChat
    /\ \A i, k \in DOMAIN ss : ss[i].id = ss[k].id => i = k
    /\ \A i \in DOMAIN ss : \A j \in DOMAIN ss[i].talk : ss[i].talk[j].n <= lastSend
    /\ \A i, k \in DOMAIN ss : \A j \in DOMAIN ss[i].talk, l \in DOMAIN ss[k].talk :
            ss[i].talk[j].n = ss[k].talk[l].n => i = k /\ j = l
    /\ \A i \in DOMAIN ss :
            ss[i].talk # <<>> => ss[i].model = ss[i].talk[Len(ss[i].talk)].model

\* An exchange after answers have streamed in
Grown(x, y) ==
    /\ y.n = x.n /\ y.model = x.model /\ x.text <= y.text
    /\ x.status # "streaming" => y = x

\* A talk after answers have streamed in
GrownTalk(old, new) ==
    /\ Len(new) = Len(old)
    /\ \A j \in DOMAIN old : Grown(old[j], new[j])

\* Chats after answers have streamed in
Advance(old, new) ==
    /\ Len(new) = Len(old)
    /\ \A i \in DOMAIN old : /\ new[i].id = old[i].id /\ new[i].model = old[i].model
                             /\ GrownTalk(old[i].talk, new[i].talk)

\* The chats that are in both have the same questions, and their answers have grown.
Same(old, new) ==
    \A i \in DOMAIN old, k \in DOMAIN new :
        old[i].id = new[k].id => GrownTalk(old[i].talk, new[k].talk)

\* An answer under way is in the chat it was asked in or nowhere, and not ahead of its stream.
Flying(ss, fs) ==
    \A f \in fs : \A i \in DOMAIN ss : \A j \in DOMAIN ss[i].talk :
        ss[i].talk[j].n = f.n =>
            ss[i].id = f.chat /\ ss[i].talk[j].status = "streaming" /\ ss[i].talk[j].text <= f.text

\* What AnswersSettle says
Settled(ss, c, fs) ==
    \A i \in DOMAIN ss : \A j \in DOMAIN ss[i].talk :
        ss[i].talk[j].status = "streaming" =>
            ss[i].talk[j].n \in c \/ \E f \in fs : f.n = ss[i].talk[j].n

\* The page's model is that of the chat shown, if the gateway has it.
Follows(ss, shown, model, cat) ==
    \A i \in DOMAIN ss :
        ss[i].id = shown /\ model \in cat => model = ss[i].model \/ ss[i].model \notin cat

LEMMA GrownRefl ==
    ASSUME NEW q \in Seq(Exchange)
    PROVE  GrownTalk(q, q)
<1>1. \A j \in DOMAIN q : q[j] \in Exchange
  BY LenProperties
<1>2. QED
  BY <1>1, ChatAssumption DEF GrownTalk, Grown, Exchange

LEMMA AdvanceRefl ==
    ASSUME NEW ss \in Seq(Session)
    PROVE  Advance(ss, ss)
BY GrownRefl, SessionFacts DEF Advance

LEMMA GrownTrans ==
    ASSUME NEW a \in Seq(Exchange), NEW b \in Seq(Exchange), NEW c \in Seq(Exchange),
           GrownTalk(a, b), GrownTalk(b, c)
    PROVE  GrownTalk(a, c)
<1>1. Len(b) = Len(a) /\ Len(c) = Len(a) /\ DOMAIN b = DOMAIN a /\ DOMAIN c = DOMAIN a
  BY LenProperties DEF GrownTalk
<1>2. \A j \in DOMAIN a : /\ a[j].text \in Int /\ b[j].text \in Int /\ c[j].text \in Int
  BY <1>1, TalkFacts
<1>3. ASSUME NEW j \in DOMAIN a  PROVE Grown(a[j], c[j])
  <2>1. Grown(a[j], b[j]) /\ Grown(b[j], c[j])
    BY <1>1 DEF GrownTalk
  <2>2. QED
    BY <1>2, <2>1 DEF Grown
<1>4. QED
  BY <1>1, <1>3 DEF GrownTalk

LEMMA AdvanceTrans ==
    ASSUME NEW a \in Seq(Session), NEW b \in Seq(Session), NEW c \in Seq(Session),
           Advance(a, b), Advance(b, c)
    PROVE  Advance(a, c)
<1>1. Len(b) = Len(a) /\ Len(c) = Len(a) /\ DOMAIN b = DOMAIN a /\ DOMAIN c = DOMAIN a
  BY LenProperties DEF Advance
<1>2. ASSUME NEW i \in DOMAIN a
      PROVE  /\ c[i].id = a[i].id /\ c[i].model = a[i].model
             /\ GrownTalk(a[i].talk, c[i].talk)
  <2>1. /\ b[i].id = a[i].id /\ b[i].model = a[i].model /\ GrownTalk(a[i].talk, b[i].talk)
        /\ c[i].id = b[i].id /\ c[i].model = b[i].model /\ GrownTalk(b[i].talk, c[i].talk)
    BY <1>1 DEF Advance
  <2>2. a[i].talk \in Seq(Exchange) /\ b[i].talk \in Seq(Exchange) /\ c[i].talk \in Seq(Exchange)
    BY <1>1, SessionFacts
  <2>3. QED
    BY <2>1, <2>2, GrownTrans
<1>3. QED
  BY <1>1, <1>2 DEF Advance

\* The places of the chats and exchanges are the same.
LEMMA AdvancePlaces ==
    ASSUME NEW ss \in Seq(Session), NEW tt \in Seq(Session), Advance(ss, tt)
    PROVE  /\ DOMAIN tt = DOMAIN ss
           /\ \A i \in DOMAIN ss :
                /\ DOMAIN tt[i].talk = DOMAIN ss[i].talk /\ Len(tt[i].talk) = Len(ss[i].talk)
                /\ tt[i].id = ss[i].id /\ tt[i].model = ss[i].model
                /\ tt[i].talk = <<>> <=> ss[i].talk = <<>>
                /\ \A j \in DOMAIN ss[i].talk : Grown(ss[i].talk[j], tt[i].talk[j])
<1>1. DOMAIN tt = DOMAIN ss
  BY LenProperties DEF Advance
<1>2. ASSUME NEW i \in DOMAIN ss
      PROVE  /\ tt[i].id = ss[i].id /\ tt[i].model = ss[i].model
             /\ Len(tt[i].talk) = Len(ss[i].talk)
             /\ \A j \in DOMAIN ss[i].talk : Grown(ss[i].talk[j], tt[i].talk[j])
  BY DEF Advance, GrownTalk
<1>3. ASSUME NEW i \in DOMAIN ss
      PROVE  /\ DOMAIN tt[i].talk = DOMAIN ss[i].talk
             /\ tt[i].talk = <<>> <=> ss[i].talk = <<>>
  <2>1. ss[i].talk \in Seq(Exchange) /\ tt[i].talk \in Seq(Exchange)
    BY <1>1, SessionFacts
  <2>2. DOMAIN tt[i].talk = DOMAIN ss[i].talk
    BY <1>2, <2>1, LenProperties
  <2>3. tt[i].talk = <<>> <=> ss[i].talk = <<>>
    BY <1>2, <2>1, EmptySeq
  <2>4. QED
    BY <2>2, <2>3
<1>4. QED
  BY <1>1, <1>2, <1>3

LEMMA StaticAdvance ==
    ASSUME NEW ss \in Seq(Session), NEW tt \in Seq(Session), Advance(ss, tt),
           NEW c, NEW n, Static(ss, c, n)
    PROVE  Static(tt, c, n)
<1>1. /\ DOMAIN tt = DOMAIN ss
      /\ \A i \in DOMAIN ss :
            /\ DOMAIN tt[i].talk = DOMAIN ss[i].talk /\ Len(tt[i].talk) = Len(ss[i].talk)
            /\ tt[i].id = ss[i].id /\ tt[i].model = ss[i].model
            /\ tt[i].talk = <<>> <=> ss[i].talk = <<>>
            /\ \A j \in DOMAIN ss[i].talk :
                  /\ tt[i].talk[j].n = ss[i].talk[j].n
                  /\ tt[i].talk[j].model = ss[i].talk[j].model
  BY AdvancePlaces DEF Grown
<1>2. ASSUME NEW i \in DOMAIN ss, ss[i].talk # <<>>
      PROVE  tt[i].model = tt[i].talk[Len(tt[i].talk)].model
  <2>1. Len(ss[i].talk) \in DOMAIN ss[i].talk
    <3>1. ss[i].talk \in Seq(Exchange)
      BY SessionFacts
    <3>2. Len(ss[i].talk) \in Nat \ {0} /\ DOMAIN ss[i].talk = 1..Len(ss[i].talk)
      BY <1>2, <3>1, EmptySeq, LenProperties
    <3>3. QED
      BY <3>2
  <2>2. ss[i].model = ss[i].talk[Len(ss[i].talk)].model
    BY <1>2 DEF Static
  <2>3. QED
    BY <1>1, <2>1, <2>2
<1>3. /\ \A i \in DOMAIN tt : tt[i].id <= c
      /\ \A i, k \in DOMAIN tt : tt[i].id = tt[k].id => i = k
      /\ \A i \in DOMAIN tt : \A j \in DOMAIN tt[i].talk : tt[i].talk[j].n <= n
  BY <1>1 DEF Static
<1>4. ASSUME NEW i \in DOMAIN tt, NEW k \in DOMAIN tt, NEW j \in DOMAIN tt[i].talk,
             NEW l \in DOMAIN tt[k].talk, tt[i].talk[j].n = tt[k].talk[l].n
      PROVE  i = k /\ j = l
  <2>1. /\ i \in DOMAIN ss /\ k \in DOMAIN ss /\ j \in DOMAIN ss[i].talk
        /\ l \in DOMAIN ss[k].talk /\ ss[i].talk[j].n = ss[k].talk[l].n
    BY <1>1, <1>4
  <2>2. QED
    BY <2>1 DEF Static
<1>5. QED
  BY <1>1, <1>2, <1>3, <1>4 DEF Static

LEMMA SameAdvance ==
    ASSUME NEW ss \in Seq(Session), NEW tt \in Seq(Session), Advance(ss, tt),
           NEW c, NEW n, Static(ss, c, n)
    PROVE  Same(ss, tt)
BY AdvancePlaces DEF Same, Static, Advance

LEMMA FlyingBack ==
    ASSUME NEW ss \in Seq(Session), NEW tt \in Seq(Session), Advance(ss, tt),
           NEW fs, \A f \in fs : f.text \in Int, Flying(tt, fs)
    PROVE  Flying(ss, fs)
<1>1. SUFFICES ASSUME NEW f \in fs, NEW i \in DOMAIN ss, NEW j \in DOMAIN ss[i].talk,
                      ss[i].talk[j].n = f.n
               PROVE  /\ ss[i].id = f.chat /\ ss[i].talk[j].status = "streaming"
                      /\ ss[i].talk[j].text <= f.text
  BY DEF Flying
<1>2. /\ i \in DOMAIN tt /\ j \in DOMAIN tt[i].talk /\ tt[i].id = ss[i].id
      /\ Grown(ss[i].talk[j], tt[i].talk[j])
  BY AdvancePlaces
<1>3. tt[i].id = f.chat /\ tt[i].talk[j].status = "streaming" /\ tt[i].talk[j].text <= f.text
  BY <1>1, <1>2 DEF Flying, Grown
<1>4. ss[i].talk[j].text \in Int /\ tt[i].talk[j].text \in Int /\ f.text \in Int
  BY <1>2, SessionFacts, ChatAssumption
<1>5. QED
  BY <1>2, <1>3, <1>4 DEF Grown

LEMMA FollowsAdvance ==
    ASSUME NEW ss \in Seq(Session), NEW tt \in Seq(Session), Advance(ss, tt),
           NEW a, NEW m, NEW cat, Follows(ss, a, m, cat)
    PROVE  Follows(tt, a, m, cat)
BY AdvancePlaces DEF Follows

\* What is put back to an older copy is settled when it is counted as cut.
LEMMA SettledBack ==
    ASSUME NEW ss, NEW tt, NEW c, NEW fs, Settled(tt, c, fs)
    PROVE  Settled(ss, c \cup {x.n : x \in Exchanges(ss) \ Exchanges(tt)}, fs)
<1>1. SUFFICES ASSUME NEW i \in DOMAIN ss, NEW j \in DOMAIN ss[i].talk,
                      ss[i].talk[j].status = "streaming",
                      ss[i].talk[j].n \notin {x.n : x \in Exchanges(ss) \ Exchanges(tt)}
               PROVE  ss[i].talk[j].n \in c \/ \E f \in fs : f.n = ss[i].talk[j].n
  BY DEF Settled
<1>2. ss[i].talk[j] \in Exchanges(tt)
  BY <1>1, ExchangesFacts
<1>3. PICK k \in DOMAIN tt : \E l \in DOMAIN tt[k].talk : ss[i].talk[j] = tt[k].talk[l]
  BY <1>2, ExchangesFacts
<1>4. QED
  BY <1>1, <1>3 DEF Settled

-----------------------------------------------------------------------------
(* What the operations make of the chats.                                  *)

\* The exchange with the number, in the chat with the id, has been replaced, and nothing else.
Replaced(ss, c, n, text, status, tt) ==
    /\ Len(tt) = Len(ss) /\ DOMAIN tt = DOMAIN ss
    /\ \A i \in DOMAIN ss :
          /\ tt[i].id = ss[i].id /\ tt[i].model = ss[i].model
          /\ Len(tt[i].talk) = Len(ss[i].talk) /\ DOMAIN tt[i].talk = DOMAIN ss[i].talk
          /\ \A j \in DOMAIN ss[i].talk :
                tt[i].talk[j] =
                    IF ss[i].id = c /\ ss[i].talk[j].n = n
                    THEN [n |-> n, model |-> ss[i].talk[j].model, text |-> text, status |-> status]
                    ELSE ss[i].talk[j]

LEMMA AnsweredFacts ==
    ASSUME NEW ss \in Seq(Session), NEW c, NEW n \in 1..MaxSends, NEW text \in 0..MaxChunks,
           NEW status \in Statuses, NEW tt, tt = Answered(ss, c, n, text, status)
    PROVE  tt \in Seq(Session) /\ Replaced(ss, c, n, text, status, tt)
<1>1. /\ Len(ss) \in Nat /\ DOMAIN ss = 1..Len(ss)
      /\ tt = [i \in DOMAIN ss |-> tt[i]]
  BY SessionFacts DEF Answered
<1> DEFINE New(i, j) == IF ss[i].id = c /\ ss[i].talk[j].n = n
                        THEN [n |-> n, model |-> ss[i].talk[j].model, text |-> text,
                              status |-> status]
                        ELSE ss[i].talk[j]
<1>2. ASSUME NEW i \in DOMAIN ss
      PROVE  /\ tt[i] \in Session /\ tt[i].id = ss[i].id /\ tt[i].model = ss[i].model
             /\ Len(tt[i].talk) = Len(ss[i].talk) /\ DOMAIN tt[i].talk = DOMAIN ss[i].talk
             /\ \A j \in DOMAIN ss[i].talk : tt[i].talk[j] = New(i, j)
  <2>1. /\ ss[i] \in Session /\ ss[i].id \in 1..MaxChats /\ ss[i].model \in Models
        /\ ss[i].talk \in Seq(Exchange) /\ Len(ss[i].talk) \in Nat
        /\ DOMAIN ss[i].talk = 1..Len(ss[i].talk)
        /\ \A j \in DOMAIN ss[i].talk : ss[i].talk[j] \in Exchange
                                        /\ ss[i].talk[j].model \in Models
    BY SessionFacts
  <2>2. CASE ss[i].id # c
    <3>1. tt[i] = ss[i]
      BY <2>2 DEF Answered
    <3>2. QED
      BY <2>1, <2>2, <3>1
  <2>3. CASE ss[i].id = c
    <3> DEFINE q == [j \in DOMAIN ss[i].talk |->
                        IF ss[i].talk[j].n # n THEN ss[i].talk[j]
                        ELSE [n |-> n, model |-> ss[i].talk[j].model, text |-> text,
                              status |-> status]]
    <3>1. tt[i] = [id |-> c, model |-> ss[i].model, talk |-> q]
      BY <2>3 DEF Answered
    <3>2. ASSUME NEW j \in DOMAIN ss[i].talk  PROVE q[j] = New(i, j) /\ q[j] \in Exchange
      BY <2>1, <2>3 DEF Exchange
    <3>3. q \in [1..Len(ss[i].talk) -> Exchange]
      <4>1. q = [j \in 1..Len(ss[i].talk) |-> q[j]]
        BY <2>1
      <4> HIDE DEF q
      <4>2. QED
        BY <2>1, <3>2, <4>1
    <3> HIDE DEF q
    <3>4. q \in Seq(Exchange) /\ Len(q) = Len(ss[i].talk)
      BY <2>1, <3>3, MapSeq
    <3>5. DOMAIN q = DOMAIN ss[i].talk
      BY <2>1, <3>3
    <3>6. tt[i] \in Session
      BY <2>1, <2>3, <3>1, <3>4 DEF Session
    <3>7. tt[i].id = c /\ tt[i].model = ss[i].model /\ tt[i].talk = q
      BY <3>1
    <3>8. QED
      BY <2>3, <3>2, <3>4, <3>5, <3>6, <3>7
  <2>4. QED
    BY <2>2, <2>3
<1>3. tt \in [1..Len(ss) -> Session]
  BY <1>1, <1>2
<1>4. tt \in Seq(Session) /\ Len(tt) = Len(ss) /\ DOMAIN tt = DOMAIN ss
  BY <1>1, <1>3, MapSeq
<1>5. QED
  BY <1>2, <1>4 DEF Replaced

\* The exchange of a call has the text and the status given, the others are as they were.
OthersStay(ss, f, text, status, tt) ==
    \A i \in DOMAIN tt : \A j \in DOMAIN tt[i].talk :
        IF tt[i].talk[j].n = f.n
        THEN tt[i].id = f.chat /\ tt[i].talk[j].text = text /\ tt[i].talk[j].status = status
        ELSE /\ i \in DOMAIN ss /\ j \in DOMAIN ss[i].talk
             /\ tt[i].talk[j] = ss[i].talk[j]

\* An answer goes on: numbers are not touched, the text grows and nothing that has ended changes.
LEMMA AnsweredAdvance ==
    ASSUME NEW ss \in Seq(Session), NEW f, Flying(ss, {f}), f.n \in 1..MaxSends,
           NEW text \in 0..MaxChunks, f.text \in Int, f.text <= text,
           NEW status \in Statuses, NEW tt, tt = Answered(ss, f.chat, f.n, text, status)
    PROVE  /\ tt \in Seq(Session) /\ Advance(ss, tt)
           /\ OthersStay(ss, f, text, status, tt)
<1> DEFINE n == f.n
           c == f.chat
<1>1. /\ tt \in Seq(Session) /\ Len(tt) = Len(ss) /\ DOMAIN tt = DOMAIN ss
      /\ \A i \in DOMAIN ss :
            /\ tt[i].id = ss[i].id /\ tt[i].model = ss[i].model
            /\ Len(tt[i].talk) = Len(ss[i].talk) /\ DOMAIN tt[i].talk = DOMAIN ss[i].talk
            /\ \A j \in DOMAIN ss[i].talk :
                  tt[i].talk[j] =
                    IF ss[i].id = c /\ ss[i].talk[j].n = n
                    THEN [n |-> n, model |-> ss[i].talk[j].model, text |-> text, status |-> status]
                    ELSE ss[i].talk[j]
  <2>1. n \in 1..MaxSends /\ tt = Answered(ss, c, n, text, status)
    OBVIOUS
  <2> HIDE DEF n, c
  <2>2. tt \in Seq(Session) /\ Replaced(ss, c, n, text, status, tt)
    BY <2>1, AnsweredFacts
  <2>3. QED
    BY <2>2 DEF Replaced
<1>2. ASSUME NEW i \in DOMAIN ss, NEW j \in DOMAIN ss[i].talk
      PROVE  IF ss[i].talk[j].n = n
             THEN /\ ss[i].id = c /\ ss[i].talk[j].status = "streaming"
                  /\ ss[i].talk[j].text <= text
                  /\ tt[i].talk[j] = [n |-> n, model |-> ss[i].talk[j].model, text |-> text,
                                      status |-> status]
             ELSE tt[i].talk[j] = ss[i].talk[j]
  <2>1. CASE ss[i].talk[j].n = n
    <3>1. ss[i].id = c /\ ss[i].talk[j].status = "streaming" /\ ss[i].talk[j].text <= f.text
      BY <2>1 DEF Flying
    <3>2. ss[i].talk[j].text \in Int /\ text \in Int /\ f.text \in Int
      BY SessionFacts, ChatAssumption
    <3>3. ss[i].talk[j].text <= text
      BY <3>1, <3>2
    <3>4. QED
      BY <1>1, <2>1, <3>1, <3>3
  <2>2. CASE ss[i].talk[j].n # n
    BY <1>1, <2>2
  <2>3. QED
    BY <2>1, <2>2
<1> HIDE DEF n, c
<1>3. ASSUME NEW i \in DOMAIN ss, NEW j \in DOMAIN ss[i].talk
      PROVE  Grown(ss[i].talk[j], tt[i].talk[j])
  <2>1. ss[i].talk[j].text \in Int
    BY SessionFacts
  <2>2. CASE ss[i].talk[j].n = n
    <3>1. /\ ss[i].talk[j].status = "streaming" /\ ss[i].talk[j].text <= text
          /\ tt[i].talk[j] = [n |-> n, model |-> ss[i].talk[j].model, text |-> text,
                              status |-> status]
      BY <1>2, <2>2
    <3>2. QED
      BY <2>2, <3>1 DEF Grown
  <2>3. CASE ss[i].talk[j].n # n
    <3>1. tt[i].talk[j] = ss[i].talk[j]
      BY <1>2, <2>3
    <3>2. QED
      BY <2>1, <3>1 DEF Grown
  <2>4. QED
    BY <2>2, <2>3
<1>4. Advance(ss, tt)
  BY <1>1, <1>3 DEF Advance, GrownTalk
<1>5. ASSUME NEW i \in DOMAIN tt, NEW j \in DOMAIN tt[i].talk
      PROVE  IF tt[i].talk[j].n = n
             THEN /\ tt[i].id = c /\ tt[i].talk[j].text = text
                  /\ tt[i].talk[j].status = status
             ELSE /\ i \in DOMAIN ss /\ j \in DOMAIN ss[i].talk
                  /\ tt[i].talk[j] = ss[i].talk[j]
  <2>1. i \in DOMAIN ss /\ j \in DOMAIN ss[i].talk /\ tt[i].id = ss[i].id
    BY <1>1
  <2>2. CASE ss[i].talk[j].n = n
    <3>1. /\ tt[i].talk[j] = [n |-> n, model |-> ss[i].talk[j].model, text |-> text,
                              status |-> status]
          /\ ss[i].id = c
      BY <1>2, <2>1, <2>2
    <3>2. QED
      BY <2>1, <3>1
  <2>3. CASE ss[i].talk[j].n # n
    <3>1. tt[i].talk[j] = ss[i].talk[j]
      BY <1>2, <2>1, <2>3
    <3>2. QED
      BY <2>1, <2>3, <3>1
  <2>4. QED
    BY <2>2, <2>3
<1>6. QED
  BY <1>1, <1>4, <1>5 DEF n, c, OthersStay

\* A new chat is put before the others.
FirstIs(s, ss, tt) ==
    /\ tt \in Seq(Session) /\ 1 \in DOMAIN tt /\ tt[1] = s
    /\ \A i \in DOMAIN tt : i # 1 => i - 1 \in DOMAIN ss /\ tt[i] = ss[i - 1]

LEMMA CreatedFacts ==
    ASSUME NEW ss \in Seq(Session), NEW s \in Session, NEW tt, tt = <<s>> \o ss
    PROVE  FirstIs(s, ss, tt)
<1>1. /\ tt \in Seq(Session) /\ Len(tt) = Len(ss) + 1 /\ tt[1] = s
      /\ \A i \in DOMAIN tt : i # 1 => i - 1 \in DOMAIN ss /\ tt[i] = ss[i - 1]
  BY PutFirst
<1>2. 1 \in DOMAIN tt
  <2>1. Len(ss) \in Nat /\ DOMAIN tt = 1..Len(tt)
    BY <1>1, LenProperties
  <2>2. QED
    BY <1>1, <2>1
<1>3. QED
  BY <1>1, <1>2 DEF FirstIs

\* A chat with at most one question, numbered after all others
NewTalk(s, from, to) ==
    \/ s.talk = <<>>
    \/ /\ Len(s.talk) = 1 /\ DOMAIN s.talk = {1}
       /\ s.talk[1].n \in Int /\ from < s.talk[1].n /\ s.talk[1].n <= to
       /\ s.talk[1].model = s.model

LEMMA CreatedStatic ==
    ASSUME NEW ss \in Seq(Session), NEW s \in Session, NEW tt, FirstIs(s, ss, tt),
           NEW c \in Int, NEW n \in Int, NEW to \in Int, n <= to,
           Static(ss, c, n), s.id = c + 1, NewTalk(s, n, to)
    PROVE  Static(tt, c + 1, to)
<1>1. /\ tt \in Seq(Session) /\ 1 \in DOMAIN tt /\ tt[1] = s
      /\ \A i \in DOMAIN tt : i # 1 => i - 1 \in DOMAIN ss /\ tt[i] = ss[i - 1]
  BY DEF FirstIs
<1>2. \A i \in DOMAIN tt : i \in Int
  BY <1>1, SessionFacts
<1>3. \A i \in DOMAIN ss : i \in Int /\ ss[i].id \in Int /\ ss[i].id <= c
  BY SessionFacts, ChatAssumption DEF Static
<1>4. \A i \in DOMAIN ss : \A j \in DOMAIN ss[i].talk :
            ss[i].talk[j].n \in Int /\ ss[i].talk[j].n <= n
  BY SessionFacts DEF Static
<1>5. DOMAIN s.talk \subseteq {1} /\ \A j \in DOMAIN s.talk : /\ s.talk[j].n \in Int
                                                              /\ n < s.talk[j].n
                                                              /\ s.talk[j].n <= to
  BY DEF NewTalk
<1>6. ASSUME NEW i \in DOMAIN tt  PROVE tt[i].id <= c + 1
  <2>1. CASE i = 1
    BY <1>1, <2>1
  <2>2. CASE i # 1
    BY <1>1, <1>3, <2>2
  <2>3. QED
    BY <2>1, <2>2
<1>7. ASSUME NEW i \in DOMAIN tt, NEW k \in DOMAIN tt, tt[i].id = tt[k].id  PROVE i = k
  <2>1. CASE i = 1 /\ k = 1
    BY <2>1
  <2>2. ASSUME NEW h \in DOMAIN tt, h # 1  PROVE tt[h].id # c + 1
    BY <1>1, <1>3, <2>2
  <2>3. CASE i = 1 \/ k = 1
    BY <1>1, <1>7, <2>2, <2>3
  <2>4. CASE i # 1 /\ k # 1
    <3>1. i - 1 = k - 1
      BY <1>1, <1>7, <2>4 DEF Static
    <3>2. QED
      BY <1>2, <3>1
  <2>5. QED
    BY <2>3, <2>4
<1>8. ASSUME NEW i \in DOMAIN tt, NEW j \in DOMAIN tt[i].talk  PROVE tt[i].talk[j].n <= to
  <2>1. CASE i = 1
    BY <1>1, <1>5, <1>8, <2>1
  <2>2. CASE i # 1
    <3>1. i - 1 \in DOMAIN ss /\ tt[i] = ss[i - 1]
      BY <1>1, <2>2
    <3>2. tt[i].talk[j].n \in Int /\ tt[i].talk[j].n <= n
      BY <1>4, <1>8, <3>1
    <3>3. QED
      BY <3>2
  <2>3. QED
    BY <2>1, <2>2
<1>9. ASSUME NEW i \in DOMAIN tt, NEW k \in DOMAIN tt, NEW j \in DOMAIN tt[i].talk,
             NEW l \in DOMAIN tt[k].talk, tt[i].talk[j].n = tt[k].talk[l].n
      PROVE  i = k /\ j = l
  <2>1. CASE i = 1 /\ k = 1
    BY <1>1, <1>5, <1>9, <2>1
  <2>2. ASSUME NEW h \in DOMAIN tt, NEW g \in DOMAIN tt[h].talk, h # 1
        PROVE  tt[h].talk[g].n \in Int /\ tt[h].talk[g].n <= n
    BY <1>1, <1>4, <2>2
  <2>3. ASSUME NEW g \in DOMAIN tt[1].talk  PROVE tt[1].talk[g].n \in Int /\ n < tt[1].talk[g].n
    BY <1>1, <1>5, <2>3
  <2>4. CASE i = 1 /\ k # 1
    <3>1. tt[k].talk[l].n \in Int /\ tt[k].talk[l].n <= n
      BY <2>2, <2>4
    <3>2. n < tt[i].talk[j].n
      BY <2>3, <2>4
    <3>3. QED
      BY <1>9, <3>1, <3>2
  <2>5. CASE i # 1 /\ k = 1
    <3>1. tt[i].talk[j].n \in Int /\ tt[i].talk[j].n <= n
      BY <2>2, <2>5
    <3>2. n < tt[k].talk[l].n
      BY <2>3, <2>5
    <3>3. QED
      BY <1>9, <3>1, <3>2
  <2>6. CASE i # 1 /\ k # 1
    <3>1. i - 1 \in DOMAIN ss /\ k - 1 \in DOMAIN ss /\ tt[i] = ss[i - 1] /\ tt[k] = ss[k - 1]
      BY <1>1, <2>6
    <3>2. i - 1 = k - 1 /\ j = l
      BY <1>9, <3>1 DEF Static
    <3>3. QED
      BY <1>2, <3>2
  <2>7. QED
    BY <2>1, <2>4, <2>5, <2>6
<1>10. ASSUME NEW i \in DOMAIN tt, tt[i].talk # <<>>
       PROVE  tt[i].model = tt[i].talk[Len(tt[i].talk)].model
  <2>1. CASE i = 1
    BY <1>1, <1>10, <2>1 DEF NewTalk
  <2>2. CASE i # 1
    BY <1>1, <1>10, <2>2 DEF Static
  <2>3. QED
    BY <2>1, <2>2
<1>11. QED
  BY <1>6, <1>7, <1>8, <1>9, <1>10 DEF Static

\* The other claims are claims about every chat.
LEMMA CreatedFlying ==
    ASSUME NEW ss, NEW s, NEW tt, FirstIs(s, ss, tt), NEW fs, Flying(ss, fs),
           \A f \in fs : \A j \in DOMAIN s.talk : s.talk[j].n = f.n =>
                s.id = f.chat /\ s.talk[j].status = "streaming" /\ s.talk[j].text <= f.text
    PROVE  Flying(tt, fs)
<1>1. ASSUME NEW i \in DOMAIN tt, NEW f \in fs, NEW j \in DOMAIN tt[i].talk, tt[i].talk[j].n = f.n
      PROVE  /\ tt[i].id = f.chat /\ tt[i].talk[j].status = "streaming"
             /\ tt[i].talk[j].text <= f.text
  <2>1. CASE i = 1
    BY <1>1, <2>1 DEF FirstIs
  <2>2. CASE i # 1
    BY <1>1, <2>2 DEF FirstIs, Flying
  <2>3. QED
    BY <2>1, <2>2
<1>2. QED
  BY <1>1 DEF Flying

LEMMA CreatedSettled ==
    ASSUME NEW ss, NEW s, NEW tt, FirstIs(s, ss, tt), NEW c, NEW fs, Settled(ss, c, fs),
           \A j \in DOMAIN s.talk : \E f \in fs : f.n = s.talk[j].n
    PROVE  Settled(tt, c, fs)
<1>1. ASSUME NEW i \in DOMAIN tt, NEW j \in DOMAIN tt[i].talk, tt[i].talk[j].status = "streaming"
      PROVE  tt[i].talk[j].n \in c \/ \E f \in fs : f.n = tt[i].talk[j].n
  <2>1. CASE i = 1
    BY <1>1, <2>1 DEF FirstIs
  <2>2. CASE i # 1
    BY <1>1, <2>2 DEF FirstIs, Settled
  <2>3. QED
    BY <2>1, <2>2
<1>2. QED
  BY <1>1 DEF Settled

LEMMA CreatedSame ==
    ASSUME NEW old, NEW ss, NEW s, NEW tt, FirstIs(s, ss, tt), Same(old, ss),
           \A i \in DOMAIN old : old[i].id # s.id
    PROVE  Same(old, tt)
<1>1. ASSUME NEW i \in DOMAIN old, NEW k \in DOMAIN tt, old[i].id = tt[k].id
      PROVE  GrownTalk(old[i].talk, tt[k].talk)
  <2>1. k # 1
    BY <1>1 DEF FirstIs
  <2>2. QED
    BY <1>1, <2>1 DEF FirstIs, Same
<1>2. QED
  BY <1>1 DEF Same

LEMMA CreatedFollows ==
    ASSUME NEW ss \in Seq(Session), NEW s, NEW tt, FirstIs(s, ss, tt), NEW c \in Int, NEW n,
           Static(ss, c, n), s.id = c + 1, NEW m, NEW cat, m \in cat => m = s.model
    PROVE  Follows(tt, c + 1, m, cat)
<1>1. ASSUME NEW i \in DOMAIN tt, i # 1  PROVE tt[i].id # c + 1
  <2>1. i - 1 \in DOMAIN ss /\ tt[i] = ss[i - 1]
    BY <1>1 DEF FirstIs
  <2>2. ss[i - 1].id \in Int /\ ss[i - 1].id <= c
    BY <2>1, SessionFacts, ChatAssumption DEF Static
  <2>3. QED
    BY <2>1, <2>2
<1>2. QED
  BY <1>1 DEF Follows, FirstIs

\* The model of a chat nothing was asked in is changed.
LEMMA SetModelFacts ==
    ASSUME NEW ss \in Seq(Session), NEW a, NEW m \in Models, NEW tt, tt = SetModel(ss, a, m)
    PROVE  /\ tt \in Seq(Session) /\ DOMAIN tt = DOMAIN ss
           /\ \A i \in DOMAIN ss : /\ tt[i].id = ss[i].id /\ tt[i].talk = ss[i].talk
                                   /\ tt[i].model = IF ss[i].id = a THEN m ELSE ss[i].model
<1>1. Len(ss) \in Nat /\ DOMAIN ss = 1..Len(ss) /\ \A i \in DOMAIN ss : ss[i] \in Session
  BY SessionFacts
<1>2. tt = [i \in DOMAIN ss |-> IF ss[i].id = a THEN [ss[i] EXCEPT !.model = m] ELSE ss[i]]
  BY DEF SetModel
<1>3. ASSUME NEW i \in DOMAIN ss
      PROVE  /\ tt[i] \in Session /\ tt[i].id = ss[i].id /\ tt[i].talk = ss[i].talk
             /\ tt[i].model = IF ss[i].id = a THEN m ELSE ss[i].model
  BY <1>1, <1>2 DEF Session
<1>4. tt \in [1..Len(ss) -> Session]
  <2>1. tt = [i \in 1..Len(ss) |-> tt[i]]
    BY <1>1, <1>2
  <2>2. QED
    BY <1>1, <1>3, <2>1
<1>5. QED
  BY <1>1, <1>3, <1>4, MapSeq

LEMMA SetModelHolds ==
    ASSUME NEW ss \in Seq(Session), NEW a, NEW m \in Models, NEW tt, tt = SetModel(ss, a, m),
           \A i \in DOMAIN ss : ss[i].id = a => ss[i].talk = <<>>,
           NEW c, NEW n, Static(ss, c, n), NEW fs, Flying(ss, fs), NEW d, Settled(ss, d, fs),
           NEW cat, NEW old, Same(old, ss)
    PROVE  /\ tt \in Seq(Session) /\ Static(tt, c, n) /\ Flying(tt, fs) /\ Settled(tt, d, fs)
           /\ Follows(tt, a, m, cat) /\ Same(old, tt)
<1>1. /\ tt \in Seq(Session) /\ DOMAIN tt = DOMAIN ss
      /\ \A i \in DOMAIN ss : /\ tt[i].id = ss[i].id /\ tt[i].talk = ss[i].talk
                              /\ tt[i].model = IF ss[i].id = a THEN m ELSE ss[i].model
  BY SetModelFacts
<1>2. Static(tt, c, n)
  <2>1. ASSUME NEW i \in DOMAIN tt, tt[i].talk # <<>>
        PROVE  tt[i].model = tt[i].talk[Len(tt[i].talk)].model
    BY <1>1, <2>1 DEF Static
  <2>2. QED
    BY <1>1, <2>1 DEF Static
<1>3. Flying(tt, fs) /\ Settled(tt, d, fs)
  BY <1>1 DEF Flying, Settled
<1>4. Follows(tt, a, m, cat) /\ Same(old, tt)
  BY <1>1 DEF Follows, Same
<1>5. QED
  BY <1>1, <1>2, <1>3, <1>4

\* Some chat may be left out, the others keep their order.
At(p, i) == IF i < p THEN i ELSE i + 1
Part(ss, tt) ==
    /\ tt \in Seq(Session)
    /\ \E p \in Int : \A i \in DOMAIN tt : At(p, i) \in DOMAIN ss /\ tt[i] = ss[At(p, i)]

LEMMA WithoutFacts ==
    ASSUME NEW ss \in Seq(Session), NEW c, NEW tt, tt = Without(ss, c)
    PROVE  Part(ss, tt)
<1>1. Len(ss) \in Nat /\ DOMAIN ss = 1..Len(ss)
  BY SessionFacts
<1>2. CASE c \in Ids(ss)
  <2> DEFINE p == CHOOSE i \in DOMAIN ss : ss[i].id = c
  <2>1. p \in DOMAIN ss /\ tt = RemoveAt(ss, p)
    BY <1>2 DEF Ids, Without
  <2> HIDE DEF p
  <2>2. /\ tt \in Seq(Session)
        /\ \A i \in DOMAIN tt : LET k == IF i < p THEN i ELSE i + 1
                                IN  k \in DOMAIN ss /\ k # p /\ tt[i] = ss[k]
    BY <2>1, Removed
  <2>3. p \in Int
    BY <1>1, <2>1
  <2>4. QED
    BY <2>2, <2>3 DEF Part, At
<1>3. CASE c \notin Ids(ss)
  <2>1. tt = ss
    BY <1>3 DEF Without
  <2>2. \A i \in DOMAIN tt : At(Len(ss) + 1, i) = i
    BY <1>1, <2>1 DEF At
  <2>3. Len(ss) + 1 \in Int
    BY <1>1
  <2>4. QED
    BY <2>1, <2>2, <2>3 DEF Part
<1>4. QED
  BY <1>2, <1>3

LEMMA PartHolds ==
    ASSUME NEW ss \in Seq(Session), NEW tt, Part(ss, tt), NEW c, NEW n, Static(ss, c, n),
           NEW fs, Flying(ss, fs), NEW d, Settled(ss, d, fs)
    PROVE  /\ tt \in Seq(Session) /\ Static(tt, c, n) /\ Flying(tt, fs) /\ Settled(tt, d, fs)
           /\ Same(ss, tt)
<1>1. tt \in Seq(Session)
  BY DEF Part
<1>2. PICK p \in Int : \A i \in DOMAIN tt : At(p, i) \in DOMAIN ss /\ tt[i] = ss[At(p, i)]
  BY DEF Part
<1>3. \A i \in DOMAIN tt : i \in Int
  BY <1>1, SessionFacts
<1>4. ASSUME NEW i \in DOMAIN tt, NEW k \in DOMAIN tt, At(p, i) = At(p, k)  PROVE i = k
  BY <1>3, <1>4 DEF At
<1>5. Static(tt, c, n)
  <2>1. \A i, k \in DOMAIN tt : tt[i].id = tt[k].id => i = k
    BY <1>2, <1>4 DEF Static
  <2>2. ASSUME NEW i \in DOMAIN tt, NEW k \in DOMAIN tt, NEW j \in DOMAIN tt[i].talk,
               NEW l \in DOMAIN tt[k].talk, tt[i].talk[j].n = tt[k].talk[l].n
        PROVE  i = k /\ j = l
    <3>1. At(p, i) = At(p, k) /\ j = l
      BY <1>2, <2>2 DEF Static
    <3>2. QED
      BY <1>4, <3>1
  <2>3. /\ \A i \in DOMAIN tt : tt[i].id <= c
        /\ \A i \in DOMAIN tt : \A j \in DOMAIN tt[i].talk : tt[i].talk[j].n <= n
        /\ \A i \in DOMAIN tt :
              tt[i].talk # <<>> => tt[i].model = tt[i].talk[Len(tt[i].talk)].model
    BY <1>2 DEF Static
  <2>4. QED
    BY <2>1, <2>2, <2>3 DEF Static
<1>6. Flying(tt, fs) /\ Settled(tt, d, fs)
  BY <1>2 DEF Flying, Settled
<1>7. Same(ss, tt)
  <2>1. ASSUME NEW i \in DOMAIN ss, NEW k \in DOMAIN tt, ss[i].id = tt[k].id
        PROVE  GrownTalk(ss[i].talk, tt[k].talk)
    <3>1. tt[k].talk = ss[i].talk
      BY <1>2, <2>1 DEF Static
    <3>2. QED
      BY <3>1, GrownRefl, SessionFacts
  <2>2. QED
    BY <2>1 DEF Same
<1>8. QED
  BY <1>1, <1>5, <1>6, <1>7

\* A question is put to a chat.
Sent(ss, a, m, x) ==
    [i \in DOMAIN ss |->
        IF ss[i].id # a THEN ss[i]
        ELSE [id |-> a, model |-> m, talk |-> Append(Chat(ss, a).talk, x)]]

\* The chat with the question at its end
Longer(q, x, r) ==
    /\ r \in Seq(Exchange) /\ Len(r) = Len(q) + 1 /\ r # <<>>
    /\ DOMAIN r = DOMAIN q \cup {Len(q) + 1} /\ Len(q) + 1 \notin DOMAIN q
    /\ r[Len(q) + 1] = x /\ \A j \in DOMAIN q : r[j] = q[j]

LEMMA AppendFacts ==
    ASSUME NEW q \in Seq(Exchange), NEW x \in Exchange
    PROVE  Longer(q, x, Append(q, x))
<1> DEFINE r == Append(q, x)
<1>1. /\ r \in Seq(Exchange) /\ Len(r) = Len(q) + 1 /\ r[Len(q) + 1] = x
      /\ \A j \in 1..Len(q) : r[j] = q[j]
      /\ Len(q) \in Nat /\ DOMAIN q = 1..Len(q) /\ DOMAIN r = 1..(Len(q) + 1)
  BY AppendProperties, LenProperties
<1>2. r # <<>>
  BY <1>1, EmptySeq
<1> HIDE DEF r
<1>3. DOMAIN r = DOMAIN q \cup {Len(q) + 1} /\ Len(q) + 1 \notin DOMAIN q
  BY <1>1
<1>4. QED
  BY <1>1, <1>2, <1>3 DEF Longer, r

LEMMA SentFacts ==
    ASSUME NEW ss \in Seq(Session), NEW c, NEW n, Static(ss, c, n), NEW a, NEW m \in Models,
           NEW x \in Exchange, NEW tt, tt = Sent(ss, a, m, x)
    PROVE  /\ tt \in Seq(Session) /\ DOMAIN tt = DOMAIN ss
           /\ \A i \in DOMAIN ss :
                 IF ss[i].id # a THEN tt[i] = ss[i]
                 ELSE tt[i].id = a /\ tt[i].model = m /\ Longer(ss[i].talk, x, tt[i].talk)
<1>1. Len(ss) \in Nat /\ DOMAIN ss = 1..Len(ss) /\ \A i \in DOMAIN ss : ss[i] \in Session
  BY SessionFacts
<1>2. ASSUME NEW i \in DOMAIN ss
      PROVE  /\ tt[i] \in Session
             /\ IF ss[i].id # a THEN tt[i] = ss[i]
                ELSE tt[i].id = a /\ tt[i].model = m /\ Longer(ss[i].talk, x, tt[i].talk)
  <2>1. CASE ss[i].id # a
    BY <1>1, <2>1 DEF Sent
  <2>2. CASE ss[i].id = a
    <3>1. Chat(ss, a) = ss[i]
      BY <2>2 DEF Chat, Static
    <3>2. tt[i] = [id |-> a, model |-> m, talk |-> Append(ss[i].talk, x)]
      BY <2>2, <3>1 DEF Sent
    <3>3. ss[i].talk \in Seq(Exchange) /\ ss[i].id \in 1..MaxChats
      BY SessionFacts
    <3>4. Longer(ss[i].talk, x, Append(ss[i].talk, x))
      BY <3>3, AppendFacts
    <3>5. tt[i] \in Session
      BY <2>2, <3>2, <3>3, <3>4 DEF Session, Longer
    <3>6. QED
      BY <2>2, <3>2, <3>4, <3>5
  <2>3. QED
    BY <2>1, <2>2
<1>3. tt \in [1..Len(ss) -> Session]
  <2>1. tt = [i \in 1..Len(ss) |-> tt[i]]
    BY <1>1 DEF Sent
  <2>2. QED
    BY <1>1, <1>2, <2>1
<1>4. tt \in Seq(Session) /\ DOMAIN tt = DOMAIN ss
  BY <1>1, <1>3, MapSeq
<1>5. QED
  BY <1>2, <1>4

\* With the next number it breaks nothing, and what was asked before stays.
LEMMA SentHolds ==
    ASSUME NEW ss \in Seq(Session), NEW c, NEW n \in Int, Static(ss, c, n), NEW a,
           NEW m \in Models, NEW x \in Exchange, x.n = n + 1, x.model = m,
           x.status = "streaming", NEW f, f.n = x.n, f.chat = a, f.text = x.text,
           NEW d, Settled(ss, d, {}), NEW am, NEW cat, am \in cat => am = m,
           NEW tt, tt = Sent(ss, a, m, x)
    PROVE  /\ tt \in Seq(Session) /\ Static(tt, c, n + 1) /\ Flying(tt, {f})
           /\ Settled(tt, d, {f}) /\ Follows(tt, a, am, cat)
<1>1. /\ tt \in Seq(Session) /\ DOMAIN tt = DOMAIN ss
      /\ \A i \in DOMAIN ss :
            IF ss[i].id # a THEN tt[i] = ss[i]
            ELSE tt[i].id = a /\ tt[i].model = m /\ Longer(ss[i].talk, x, tt[i].talk)
  BY SentFacts
<1>2. ASSUME NEW i \in DOMAIN tt, NEW j \in DOMAIN tt[i].talk
      PROVE  \/ /\ i \in DOMAIN ss /\ j \in DOMAIN ss[i].talk /\ tt[i].talk[j] = ss[i].talk[j]
                /\ tt[i].talk[j].n \in Int /\ tt[i].talk[j].n <= n
             \/ /\ i \in DOMAIN ss /\ ss[i].id = a /\ tt[i].id = a
                /\ j = Len(ss[i].talk) + 1 /\ tt[i].talk[j] = x
  <2>1. CASE ss[i].id # a
    <3>1. tt[i] = ss[i] /\ i \in DOMAIN ss
      BY <1>1, <2>1
    <3>2. QED
      BY <1>2, <3>1, SessionFacts DEF Static
  <2>2. CASE ss[i].id = a
    <3>1. Longer(ss[i].talk, x, tt[i].talk) /\ i \in DOMAIN ss /\ tt[i].id = a
      BY <1>1, <2>2
    <3>2. CASE j \in DOMAIN ss[i].talk
      <4>1. tt[i].talk[j] = ss[i].talk[j]
        BY <3>1, <3>2 DEF Longer
      <4>2. ss[i].talk[j].n \in Int /\ ss[i].talk[j].n <= n
        BY <3>1, <3>2, SessionFacts DEF Static
      <4>3. QED
        BY <3>1, <3>2, <4>1, <4>2
    <3>3. CASE j \notin DOMAIN ss[i].talk
      BY <1>2, <2>2, <3>1, <3>3 DEF Longer
    <3>4. QED
      BY <3>2, <3>3
  <2>3. QED
    BY <2>1, <2>2
<1>3. \A i \in DOMAIN ss : tt[i].id = ss[i].id
  BY <1>1
<1>4. \A i, k \in DOMAIN tt : tt[i].id = tt[k].id => i = k
  BY <1>1, <1>3 DEF Static
<1>5. Static(tt, c, n + 1)
  <2>1. \A i \in DOMAIN tt : tt[i].id <= c
    BY <1>1, <1>3 DEF Static
  <2>2. \A i \in DOMAIN tt : \A j \in DOMAIN tt[i].talk : tt[i].talk[j].n <= n + 1
    BY <1>2
  <2>3. ASSUME NEW i \in DOMAIN tt, NEW k \in DOMAIN tt, NEW j \in DOMAIN tt[i].talk,
               NEW l \in DOMAIN tt[k].talk, tt[i].talk[j].n = tt[k].talk[l].n
        PROVE  i = k /\ j = l
    <3>1. CASE tt[i].talk[j].n = n + 1
      <4>0. ASSUME NEW h \in DOMAIN tt, NEW g \in DOMAIN tt[h].talk, tt[h].talk[g].n = n + 1
            PROVE  h \in DOMAIN ss /\ ss[h].id = a /\ g = Len(ss[h].talk) + 1
        BY <1>2, <4>0
      <4>1. /\ ss[i].id = a /\ j = Len(ss[i].talk) + 1
            /\ ss[k].id = a /\ l = Len(ss[k].talk) + 1 /\ i \in DOMAIN ss /\ k \in DOMAIN ss
        BY <2>3, <3>1, <4>0
      <4>2. i = k
        BY <4>1 DEF Static
      <4>3. QED
        BY <4>1, <4>2
    <3>2. CASE tt[i].talk[j].n # n + 1
      <4>1. /\ i \in DOMAIN ss /\ j \in DOMAIN ss[i].talk /\ tt[i].talk[j] = ss[i].talk[j]
            /\ k \in DOMAIN ss /\ l \in DOMAIN ss[k].talk /\ tt[k].talk[l] = ss[k].talk[l]
        BY <1>2, <2>3, <3>2
      <4>2. QED
        BY <2>3, <4>1 DEF Static
    <3>3. QED
      BY <3>1, <3>2
  <2>4. ASSUME NEW i \in DOMAIN tt, tt[i].talk # <<>>
        PROVE  tt[i].model = tt[i].talk[Len(tt[i].talk)].model
    <3>1. CASE ss[i].id # a
      BY <1>1, <2>4, <3>1 DEF Static
    <3>2. CASE ss[i].id = a
      BY <1>1, <3>2 DEF Longer
    <3>3. QED
      BY <3>1, <3>2
  <2>5. QED
    BY <1>4, <2>1, <2>2, <2>3, <2>4 DEF Static
<1>6. Flying(tt, {f})
  <2>1. ASSUME NEW i \in DOMAIN tt, NEW j \in DOMAIN tt[i].talk, tt[i].talk[j].n = n + 1
        PROVE  tt[i].id = a /\ tt[i].talk[j] = x
    BY <1>2, <2>1
  <2>2. x.text <= x.text
    BY ChatAssumption DEF Exchange
  <2>3. QED
    BY <2>1, <2>2 DEF Flying
<1>7. Settled(tt, d, {f})
  <2>1. ASSUME NEW i \in DOMAIN tt, NEW j \in DOMAIN tt[i].talk, tt[i].talk[j].status = "streaming"
        PROVE  tt[i].talk[j].n \in d \/ f.n = tt[i].talk[j].n
    <3>1. CASE tt[i].talk[j] = x
      BY <3>1
    <3>2. CASE /\ i \in DOMAIN ss /\ j \in DOMAIN ss[i].talk /\ tt[i].talk[j] = ss[i].talk[j]
      BY <2>1, <3>2 DEF Settled
    <3>3. QED
      BY <1>2, <3>1, <3>2
  <2>2. QED
    BY <2>1 DEF Settled
<1>8. Follows(tt, a, am, cat)
  <2>1. ASSUME NEW i \in DOMAIN tt, tt[i].id = a, am \in cat  PROVE am = tt[i].model
    BY <1>1, <1>3, <2>1
  <2>2. QED
    BY <2>1 DEF Follows
<1>9. QED
  BY <1>1, <1>5, <1>6, <1>7, <1>8

-----------------------------------------------------------------------------
(* Type correctness.                                                       *)

Flight == [n : 1..MaxSends, chat : 1..MaxChats, text : 0..MaxChunks, aborted : BOOLEAN]

LEMMA Bounds == /\ MaxChunks \in Nat /\ MaxSends \in Nat /\ MaxChats \in Nat /\ MaxReloads \in Nat
                /\ None \notin Models
BY ChatAssumption

\* What the last render saw and what is stored
Copies ==
    /\ seen.sessions \in Seq(Session) /\ seen.sending \in BOOLEAN
    /\ stored.sessions \in Seq(Session) /\ stored.active \in (1..MaxChats) \cup {None}

LEMMA InitType == Init => TypeOK
<1> SUFFICES ASSUME Init  PROVE TypeOK
  OBVIOUS
<1>1. sessions \in Seq(Session) /\ Copies
  BY EmptySeq DEF Init, Copies
<1>2. /\ 0 \in 0..MaxSends /\ 0 \in 0..MaxChats /\ 0 \in 0..MaxReloads
  BY Bounds
<1>3. /\ abort \in 0..MaxSends /\ sends \in 0..MaxSends /\ chats \in 0..MaxChats
      /\ reloads \in 0..MaxReloads
  BY <1>2 DEF Init
<1>4. /\ catalogue \subseteq Models /\ sending \in BOOLEAN /\ active = None /\ activeModel = None
      /\ flights = {} /\ cut = {}
  BY DEF Init
<1>5. QED
  BY <1>1, <1>3, <1>4 DEF TypeOK, Copies

LEMMA UsableType == TypeOK => Usable \subseteq Models
BY DEF TypeOK, Usable

LEMMA PutBackType == ASSUME NEW ss \in Seq(Session)  PROVE PutBack(ss) \subseteq 1..MaxSends
<1> SUFFICES ASSUME NEW x \in Exchanges(ss)  PROVE x.n \in 1..MaxSends
  BY DEF PutBack
<1>1. PICK i \in DOMAIN ss : \E j \in DOMAIN ss[i].talk : x = ss[i].talk[j]
  BY ExchangesFacts
<1>2. QED
  BY <1>1, SessionFacts

LEMMA CreatedType ==
    ASSUME TypeOK, NEW m \in Models, NEW talk \in Seq(Exchange), Created(m, talk)
    PROVE  /\ sessions' \in Seq(Session) /\ chats' \in 0..MaxChats
           /\ active' \in (1..MaxChats) \cup {None}
           /\ [id |-> chats + 1, model |-> m, talk |-> talk] \in Session
           /\ FirstIs([id |-> chats + 1, model |-> m, talk |-> talk], sessions, sessions')
<1>1. chats + 1 \in 1..MaxChats /\ chats' = chats + 1 /\ active' = chats + 1
  BY Bounds DEF TypeOK, Created
<1>2. [id |-> chats + 1, model |-> m, talk |-> talk] \in Session
  BY <1>1 DEF Session
<1>3. sessions' = <<[id |-> chats + 1, model |-> m, talk |-> talk]>> \o sessions
  BY DEF Created
<1>4. sessions \in Seq(Session)
  BY DEF TypeOK
<1>5. FirstIs([id |-> chats + 1, model |-> m, talk |-> talk], sessions, sessions')
  BY <1>2, <1>3, <1>4, CreatedFacts
<1>6. QED
  BY <1>1, <1>2, <1>5, Bounds DEF FirstIs

LEMMA AbortFacts ==
    ASSUME TypeOK, NEW g \in Abort
    PROVE  /\ g \in Flight
           /\ \E f \in flights : /\ g.n = f.n /\ g.chat = f.chat /\ g.text = f.text
                                 /\ g.aborted = (f.aborted \/ f.n = abort)
<1>1. PICK f \in flights : g = [f EXCEPT !.aborted = f.aborted \/ f.n = abort]
  BY DEF Abort
<1>2. f \in Flight
  BY DEF TypeOK, Flight
<1>3. g = [n |-> f.n, chat |-> f.chat, text |-> f.text, aborted |-> f.aborted \/ f.n = abort]
  BY <1>1, <1>2 DEF Flight
<1>4. /\ f.n \in 1..MaxSends /\ f.chat \in 1..MaxChats /\ f.text \in 0..MaxChunks
      /\ f.aborted \in BOOLEAN
  BY <1>2 DEF Flight
<1>5. (f.aborted \/ f.n = abort) \in BOOLEAN
  BY <1>4, Zenon
<1>6. g \in Flight
  BY <1>3, <1>4, <1>5 DEF Flight
<1>7. /\ g.n = f.n /\ g.chat = f.chat /\ g.text = f.text
      /\ g.aborted = (f.aborted \/ f.n = abort)
  BY <1>3
<1>8. QED
  BY <1>6, <1>7

\* The chats after an answer has gone on
LEMMA ProgressType ==
    ASSUME TypeOK, NEW f \in flights, NEW text \in 0..MaxChunks, NEW status \in Statuses,
           Progress(f, text, status)
    PROVE  sessions' \in Seq(Session)
<1>1. f.n \in 1..MaxSends /\ sessions \in Seq(Session)
  BY DEF TypeOK
<1>2. QED
  BY <1>1, AnsweredFacts DEF Progress

LEMMA RenderedType ==
    ASSUME TypeOK, Rendered, sessions' \in Seq(Session), sending' \in BOOLEAN,
           active' \in (1..MaxChats) \cup {None}
    PROVE  Copies'
<1>1. seen' = [sessions |-> sessions', sending |-> sending']
  BY DEF Rendered
<1>2. \E kept \in {stored.sessions, sessions'}, shown \in {stored.active, active'} :
          stored' = [sessions |-> kept, active |-> shown]
  BY DEF Rendered, Stored
<1>3. stored'.sessions \in Seq(Session) /\ stored'.active \in (1..MaxChats) \cup {None}
  BY <1>2 DEF TypeOK
<1>4. QED
  BY <1>1, <1>3 DEF Copies

LEMMA LoadType == TypeOK /\ Load => TypeOK'
<1> SUFFICES ASSUME TypeOK, Load  PROVE TypeOK'
  OBVIOUS
<1>1. catalogue' \subseteq Models
  BY DEF Load, LoadData
<1>2. /\ sending' = sending /\ flights' = flights /\ abort' = abort /\ sends' = sends
      /\ reloads' = reloads /\ cut' = cut /\ Rendered
  BY DEF Load, asking
<1>3. PICK first \in catalogue' :
          \/ /\ seen.sessions # <<>>
             /\ LET c == IF active \in Ids(seen.sessions) THEN active ELSE seen.sessions[1].id
                    m == Chat(seen.sessions, c).model
                IN /\ active' = c
                   /\ activeModel' = IF m \in catalogue' THEN m ELSE first
             /\ UNCHANGED <<sessions, chats>>
          \/ /\ Created(first, <<>>) /\ activeModel' = first
  BY DEF Load
<1>4. first \in Models
  BY <1>1
<1>5. /\ sessions' \in Seq(Session) /\ chats' \in 0..MaxChats
      /\ active' \in (1..MaxChats) \cup {None} /\ activeModel' \in Models \cup {None}
  <2>1. CASE Created(first, <<>>) /\ activeModel' = first
    <3>1. <<>> \in Seq(Exchange)
      BY EmptySeq
    <3>2. QED
      BY <1>4, <2>1, <3>1, CreatedType
  <2>2. CASE /\ seen.sessions # <<>>
             /\ LET c == IF active \in Ids(seen.sessions) THEN active ELSE seen.sessions[1].id
                    m == Chat(seen.sessions, c).model
                IN /\ active' = c
                   /\ activeModel' = IF m \in catalogue' THEN m ELSE first
             /\ UNCHANGED <<sessions, chats>>
    <3>1. seen.sessions[1].id \in 1..MaxChats
      <4>1. seen.sessions \in Seq(Session) /\ 1 \in DOMAIN seen.sessions
        <5>1. seen.sessions \in Seq(Session)
          BY DEF TypeOK
        <5>2. Len(seen.sessions) \in Nat \ {0} /\ DOMAIN seen.sessions = 1..Len(seen.sessions)
          BY <2>2, <5>1, EmptySeq, LenProperties
        <5>3. QED
          BY <5>1, <5>2
      <4>2. QED
        BY <4>1, SessionFacts
    <3>2. active' \in (1..MaxChats) \cup {None}
      BY <2>2, <3>1 DEF TypeOK
    <3>3. activeModel' \in Models
      BY <1>1, <1>4, <2>2
    <3>4. QED
      BY <2>2, <3>2, <3>3 DEF TypeOK
  <2>3. QED
    BY <1>3, <2>1, <2>2
<1>6. Copies'
  BY <1>2, <1>5, RenderedType DEF TypeOK
<1>7. QED
  BY <1>1, <1>2, <1>5, <1>6 DEF TypeOK, Copies

LEMMA ReloadType == TypeOK /\ Reload => TypeOK'
<1> SUFFICES ASSUME TypeOK, Reload  PROVE TypeOK'
  OBVIOUS
<1>1. /\ PutBack(stored.sessions) \subseteq 1..MaxSends
      /\ {f.n : f \in flights} \subseteq 1..MaxSends
  BY PutBackType DEF TypeOK
<1>2. Copies'
  BY RenderedType DEF TypeOK, Reload
<1>3. reloads' \in 0..MaxReloads /\ abort' \in 0..MaxSends
  BY Bounds DEF TypeOK, Reload
<1>4. QED
  BY <1>1, <1>2, <1>3 DEF TypeOK, Reload, Copies

LEMMA NewChatType == TypeOK /\ NewChat => TypeOK'
<1> SUFFICES ASSUME TypeOK, NewChat  PROVE TypeOK'
  OBVIOUS
<1>1. PICK m \in Usable : Created(m, <<>>) /\ activeModel' = m
  BY DEF NewChat
<1>2. m \in Models /\ <<>> \in Seq(Exchange)
  BY UsableType, EmptySeq
<1>3. /\ sessions' \in Seq(Session) /\ chats' \in 0..MaxChats
      /\ active' \in (1..MaxChats) \cup {None}
  BY <1>1, <1>2, CreatedType
<1>4. Copies'
  BY <1>3, RenderedType DEF TypeOK, NewChat
<1>5. QED
  BY <1>1, <1>2, <1>3, <1>4 DEF TypeOK, NewChat, asking, Copies

LEMMA SelectSessionType == ASSUME TypeOK, NEW c \in 1..MaxChats, SelectSession(c)  PROVE TypeOK'
<1>1. Copies'
  BY RenderedType DEF TypeOK, SelectSession
<1>2. activeModel' \in Models
  BY ChatFacts, SessionFacts DEF TypeOK, SelectSession
<1>3. QED
  BY <1>1, <1>2 DEF TypeOK, SelectSession, asking, Copies

LEMMA DeleteType == TypeOK /\ DeleteCurrentChat => TypeOK'
<1> SUFFICES ASSUME TypeOK, DeleteCurrentChat  PROVE TypeOK'
  OBVIOUS
<1> DEFINE rest == Without(seen.sessions, active)
<1>1. /\ sessions' = rest /\ cut' = cut \cup PutBack(seen.sessions) /\ Rendered
      /\ active' = IF rest = <<>> THEN None ELSE rest[1].id
      /\ activeModel' = IF rest = <<>> THEN None ELSE rest[1].model
      /\ UNCHANGED <<catalogue, sending, asking, chats, reloads>>
  BY DEF DeleteCurrentChat
<1>2. rest \in Seq(Session)
  BY WithoutFacts DEF TypeOK, Part
<1> HIDE DEF rest
<1>3. active' \in (1..MaxChats) \cup {None} /\ activeModel' \in Models \cup {None}
  <2>1. ASSUME rest # <<>>  PROVE rest[1].id \in 1..MaxChats /\ rest[1].model \in Models
    <3>1. Len(rest) \in Nat \ {0} /\ DOMAIN rest = 1..Len(rest)
      BY <1>2, <2>1, EmptySeq, LenProperties
    <3>2. 1 \in DOMAIN rest
      BY <3>1
    <3>3. QED
      BY <1>2, <3>2, SessionFacts
  <2>2. QED
    BY <1>1, <2>1
<1>4. Copies'
  BY <1>1, <1>2, <1>3, RenderedType DEF TypeOK
<1>5. cut' \subseteq 1..MaxSends
  BY <1>1, PutBackType DEF TypeOK
<1>6. QED
  BY <1>1, <1>2, <1>3, <1>4, <1>5 DEF TypeOK, asking, Copies

LEMMA SelectModelType == ASSUME TypeOK, NEW m \in Models, SelectModel(m)  PROVE TypeOK'
<1>1. /\ sessions' \in Seq(Session) /\ chats' \in 0..MaxChats
      /\ active' \in (1..MaxChats) \cup {None}
  <2>1. CASE Created(m, <<>>)
    BY <2>1, CreatedType, EmptySeq
  <2>2. CASE sessions' = SetModel(sessions, active, m) /\ UNCHANGED <<active, chats>>
    BY <2>2, SetModelFacts DEF TypeOK
  <2>3. QED
    BY <2>1, <2>2 DEF SelectModel, Switch
<1>2. Copies'
  BY <1>1, RenderedType DEF TypeOK, SelectModel
<1>3. QED
  BY <1>1, <1>2 DEF TypeOK, SelectModel, asking, Copies

LEMMA SendMessageFacts ==
    ASSUME TypeOK, SendMessage
    PROVE  \E m \in Usable, x \in Exchange :
              /\ m \in Models /\ x.n = sends + 1 /\ x.model = m /\ x.text = 0
              /\ x.status = "streaming" /\ sends' = sends + 1 /\ sends' \in 1..MaxSends
              /\ \/ /\ active \in Ids(seen.sessions)
                    /\ sessions' = [i \in DOMAIN sessions |->
                           IF sessions[i].id # active THEN sessions[i]
                           ELSE [id |-> active, model |-> m,
                                 talk |-> Append(Chat(seen.sessions, active).talk, x)]]
                    /\ UNCHANGED <<active, chats>>
                 \/ Created(m, <<x>>)
<1>1. PICK m \in Usable :
          LET x == [n |-> sends', model |-> m, text |-> 0, status |-> "streaming"]
          IN \/ /\ active \in Ids(seen.sessions)
                /\ sessions' = [i \in DOMAIN sessions |->
                       IF sessions[i].id # active THEN sessions[i]
                       ELSE [id |-> active, model |-> m,
                             talk |-> Append(Chat(seen.sessions, active).talk, x)]]
                /\ UNCHANGED <<active, chats>>
             \/ Created(m, <<x>>)
  BY DEF SendMessage
<1>2. sends' = sends + 1 /\ sends' \in 1..MaxSends /\ m \in Models
  BY UsableType, Bounds DEF TypeOK, SendMessage
<1>3. PICK x : x = [n |-> sends + 1, model |-> m, text |-> 0, status |-> "streaming"]
  OBVIOUS
<1>4. x \in Exchange
  BY <1>2, <1>3, Bounds DEF Exchange, Statuses
<1>5. x = [n |-> sends', model |-> m, text |-> 0, status |-> "streaming"]
  BY <1>2, <1>3
<1>6. \/ /\ active \in Ids(seen.sessions)
         /\ sessions' = [i \in DOMAIN sessions |->
                IF sessions[i].id # active THEN sessions[i]
                ELSE [id |-> active, model |-> m,
                      talk |-> Append(Chat(seen.sessions, active).talk, x)]]
         /\ UNCHANGED <<active, chats>>
      \/ Created(m, <<x>>)
  BY <1>1, <1>5, Zenon
<1>7. x.n = sends + 1 /\ x.model = m /\ x.text = 0 /\ x.status = "streaming"
  BY <1>3
<1>8. QED
  BY <1>2, <1>4, <1>6, <1>7

LEMMA SendMessageType == TypeOK /\ SendMessage => TypeOK'
<1> SUFFICES ASSUME TypeOK, SendMessage  PROVE TypeOK'
  OBVIOUS
<1>1. PICK m \in Usable, x \in Exchange :
              /\ m \in Models /\ sends' = sends + 1 /\ sends' \in 1..MaxSends
              /\ \/ /\ active \in Ids(seen.sessions)
                    /\ sessions' = [i \in DOMAIN sessions |->
                           IF sessions[i].id # active THEN sessions[i]
                           ELSE [id |-> active, model |-> m,
                                 talk |-> Append(Chat(seen.sessions, active).talk, x)]]
                    /\ UNCHANGED <<active, chats>>
                 \/ Created(m, <<x>>)
  BY SendMessageFacts
<1>2. /\ sessions' \in Seq(Session) /\ chats' \in 0..MaxChats /\ active' \in 1..MaxChats
  <2>1. CASE Created(m, <<x>>)
    <3>1. <<x>> \in Seq(Exchange)
      OBVIOUS
    <3>2. sessions' \in Seq(Session) /\ chats' \in 0..MaxChats
      BY <1>1, <2>1, <3>1, CreatedType
    <3>3. active' \in 1..MaxChats
      BY <2>1, Bounds DEF TypeOK, Created
    <3>4. QED
      BY <3>2, <3>3
  <2>2. CASE /\ active \in Ids(seen.sessions)
             /\ sessions' = [i \in DOMAIN sessions |->
                           IF sessions[i].id # active THEN sessions[i]
                           ELSE [id |-> active, model |-> m,
                                 talk |-> Append(Chat(seen.sessions, active).talk, x)]]
             /\ UNCHANGED <<active, chats>>
    <3>1. active \in 1..MaxChats /\ Chat(seen.sessions, active).talk \in Seq(Exchange)
      <4>1. PICK i \in DOMAIN seen.sessions : /\ seen.sessions[i].id = active
                                             /\ Chat(seen.sessions, active) = seen.sessions[i]
        BY <2>2, ChatFacts
      <4>2. seen.sessions \in Seq(Session)
        BY DEF TypeOK
      <4>3. seen.sessions[i].id \in 1..MaxChats /\ seen.sessions[i].talk \in Seq(Exchange)
        BY <4>2, SessionFacts
      <4>4. QED
        BY <4>1, <4>3
    <3>2. Append(Chat(seen.sessions, active).talk, x) \in Seq(Exchange)
      BY <3>1, AppendProperties
    <3> DEFINE s == [id |-> active, model |-> m,
                     talk |-> Append(Chat(seen.sessions, active).talk, x)]
    <3>3. s \in Session
      BY <1>1, <3>1, <3>2 DEF Session
    <3>4. sessions' = [i \in DOMAIN sessions |->
                           IF sessions[i].id # active THEN sessions[i] ELSE s]
      BY <2>2
    <3>5. /\ Len(sessions) \in Nat /\ DOMAIN sessions = 1..Len(sessions)
          /\ \A i \in DOMAIN sessions : sessions[i] \in Session
      BY SessionFacts DEF TypeOK
    <3> HIDE DEF s
    <3>6. sessions' \in [1..Len(sessions) -> Session]
      BY <3>3, <3>4, <3>5
    <3>7. sessions' \in Seq(Session)
      BY <3>5, <3>6, MapSeq
    <3>8. QED
      BY <2>2, <3>1, <3>7 DEF TypeOK
  <2>3. QED
    BY <1>1, <2>1, <2>2
<1>3. sending' = TRUE /\ Rendered
  BY DEF SendMessage
<1>4. Copies'
  BY <1>2, <1>3, RenderedType
<1>5. flights' \subseteq Flight
  <2>1. flights' = Abort \cup {[n |-> sends', chat |-> active', text |-> 0, aborted |-> FALSE]}
    BY DEF SendMessage
  <2>2. [n |-> sends', chat |-> active', text |-> 0, aborted |-> FALSE] \in Flight
    BY <1>1, <1>2, Bounds DEF Flight
  <2>3. QED
    BY <2>1, <2>2, AbortFacts
<1>6. abort' \in 0..MaxSends /\ sends' \in 0..MaxSends
  BY <1>1, Bounds DEF SendMessage
<1>7. QED
  BY <1>2, <1>3, <1>4, <1>5, <1>6 DEF TypeOK, SendMessage, Flight, Copies

LEMMA StopType == TypeOK /\ Stop => TypeOK'
<1> SUFFICES ASSUME TypeOK, Stop  PROVE TypeOK'
  OBVIOUS
<1>1. flights' \subseteq Flight /\ Rendered /\ UNCHANGED <<sessions, sending, active>>
  BY AbortFacts DEF Stop
<1>2. Copies'
  BY <1>1, RenderedType DEF TypeOK
<1>3. cut' \subseteq 1..MaxSends
  BY DEF TypeOK, Stop
<1>4. QED
  BY <1>1, <1>2, <1>3 DEF TypeOK, Stop, Flight, Copies

LEMMA ChunkType == ASSUME TypeOK, NEW f \in flights, Chunk(f)  PROVE TypeOK'
<1>1. f \in Flight
  BY DEF TypeOK, Flight
<1>2. f.text + 1 \in 0..MaxChunks /\ "streaming" \in Statuses
  BY <1>1, Bounds DEF Chunk, Flight, Statuses
<1>3. sessions' \in Seq(Session)
  BY <1>2, ProgressType DEF Chunk
<1>4. [f EXCEPT !.text = @ + 1] \in Flight
  BY <1>1, <1>2 DEF Flight
<1>5. flights' \subseteq Flight
  BY <1>4 DEF TypeOK, Flight, Chunk
<1>6. QED
  BY <1>3, <1>5 DEF TypeOK, Chunk, Flight

LEMMA EndType == ASSUME TypeOK, NEW f \in flights, Ends(f) \/ Aborts(f)  PROVE TypeOK'
<1>1. f.text \in 0..MaxChunks /\ 0 \in 0..MaxChunks /\ 0 \in 0..MaxSends
  BY Bounds DEF TypeOK
<1>2. sessions' \in Seq(Session)
  <2>1. CASE UNCHANGED sessions
    BY <2>1 DEF TypeOK
  <2>2. CASE \E status \in {"done", "error"} : Progress(f, f.text, status)
    BY <1>1, <2>2, ProgressType DEF Statuses
  <2>3. CASE Progress(f, 0, "error")
    BY <1>1, <2>3, ProgressType DEF Statuses
  <2>4. QED
    BY <2>1, <2>2, <2>3 DEF Ends, Aborts
<1>3. flights' \subseteq flights /\ sending' = FALSE /\ abort' = 0
  BY DEF Ends, Aborts, Finally
<1>4. UNCHANGED <<catalogue, seen, stored, active, activeModel, sends, chats, reloads, cut>>
  BY DEF Ends, Aborts
<1>5. QED
  BY <1>1, <1>2, <1>3, <1>4 DEF TypeOK

LEMMA NextType == TypeOK /\ [Next]_vars => TypeOK'
<1> SUFFICES ASSUME TypeOK, [Next]_vars  PROVE TypeOK'
  OBVIOUS
<1>1. CASE Render
  <2>1. Copies'
    BY <1>1, RenderedType DEF TypeOK, Render
  <2>2. QED
    BY <1>1, <2>1 DEF TypeOK, Render, asking, Copies
<1>2. CASE UNCHANGED vars
  BY <1>2 DEF TypeOK, vars, asking
<1>3. QED
  BY <1>1, <1>2, LoadType, ReloadType, NewChatType, SelectSessionType, DeleteType,
     SelectModelType, SendMessageType, StopType, ChunkType, EndType
  DEF Next

(* Every variable keeps its type: whatever the last render saw and however *)
(* chats are made, changed, deleted and reloaded, what is stored is chats. *)
THEOREM TypeCorrect == Spec => []TypeOK
<1>. QED BY InitType, NextType, PTL DEF Spec

-----------------------------------------------------------------------------
(* The chats and the answer under way.                                     *)

AbortedCut(fs, c) == \A f \in fs : f.aborted => f.n \in c

\* With no answer under way nothing is queued.
InStep == ~ seen.sending => sessions = seen.sessions

CInv ==
    /\ TypeOK /\ IInv
    /\ Static(seen.sessions, chats, sends) /\ Advance(seen.sessions, sessions)
    /\ Flying(sessions, flights) /\ AbortedCut(flights, cut) /\ Settled(sessions, cut, flights)
    /\ Follows(seen.sessions, active, activeModel, catalogue) /\ InStep

LEMMA InitChats == Init => CInv
<1> SUFFICES ASSUME Init  PROVE CInv
  OBVIOUS
<1>1. TypeOK /\ IInv
  BY InitType, Start
<1>2. sessions = <<>> /\ seen.sessions = <<>> /\ flights = {}
  BY DEF Init
<1>3. DOMAIN <<>> = {}
  OBVIOUS
<1>4. Static(<<>>, chats, sends) /\ Flying(<<>>, {}) /\ Settled(<<>>, cut, {})
      /\ Follows(<<>>, active, activeModel, catalogue) /\ AbortedCut({}, cut)
  BY <1>3 DEF Static, Flying, Settled, Follows, AbortedCut
<1>5. Advance(<<>>, <<>>)
  BY <1>3 DEF Advance
<1>6. InStep
  BY <1>2 DEF InStep
<1>7. QED
  BY <1>1, <1>2, <1>4, <1>5, <1>6 DEF CInv

\* What is known of the chats with the queued updates
LEMMA Now ==
    ASSUME CInv
    PROVE  /\ sessions \in Seq(Session) /\ seen.sessions \in Seq(Session)
           /\ chats \in Int /\ sends \in Int
           /\ Static(sessions, chats, sends)
           /\ Follows(sessions, active, activeModel, catalogue)
           /\ Same(seen.sessions, sessions) /\ Flying(seen.sessions, flights)
<1>1. /\ sessions \in Seq(Session) /\ seen.sessions \in Seq(Session)
      /\ chats \in Int /\ sends \in Int /\ \A f \in flights : f.text \in Int
  BY Bounds DEF CInv, TypeOK
<1>2. /\ Static(seen.sessions, chats, sends) /\ Advance(seen.sessions, sessions)
      /\ Flying(sessions, flights)
      /\ Follows(seen.sessions, active, activeModel, catalogue)
  BY DEF CInv
<1>3. Static(sessions, chats, sends)
  BY <1>1, <1>2, StaticAdvance
<1>4. Follows(sessions, active, activeModel, catalogue)
  BY <1>1, <1>2, FollowsAdvance
<1>5. Same(seen.sessions, sessions)
  BY <1>1, <1>2, SameAdvance
<1>6. Flying(seen.sessions, flights)
  BY <1>1, <1>2, FlyingBack
<1>7. QED
  BY <1>1, <1>3, <1>4, <1>5, <1>6

\* A handler's render leaves nothing queued, so the invariant is about the new chats only.
LEMMA RenderedStep ==
    ASSUME TypeOK', IInv', Rendered,
           Static(sessions', chats', sends'), Flying(sessions', flights'),
           AbortedCut(flights', cut'), Settled(sessions', cut', flights'),
           Follows(sessions', active', activeModel', catalogue')
    PROVE  CInv' /\ seen'.sessions = sessions'
<1>1. seen'.sessions = sessions' /\ sessions' \in Seq(Session)
  BY DEF Rendered, TypeOK
<1>2. Advance(sessions', sessions')
  BY <1>1, AdvanceRefl
<1>3. InStep'
  BY <1>1 DEF InStep
<1>4. QED
  BY <1>1, <1>2, <1>3 DEF CInv

\* Of the chats the user sees, those that stay have the same questions, with more of their answers.
Kept == Same(seen.sessions, seen'.sessions)

LEMMA TypesNext == CInv /\ [Next]_vars => TypeOK' /\ IInv'
BY NextType, Step DEF CInv

\* A new chat with nothing in it
LEMMA NewChatHolds ==
    ASSUME CInv, NEW m \in Models, Created(m, <<>>), activeModel' = m
    PROVE  /\ Static(sessions', chats', sends) /\ Flying(sessions', flights)
           /\ \A c : Settled(sessions, c, flights) => Settled(sessions', c, flights)
           /\ \A cat : Follows(sessions', active', activeModel', cat)
           /\ Same(seen.sessions, sessions')
<1> DEFINE s == [id |-> chats + 1, model |-> m, talk |-> <<>>]
<1>1. <<>> \in Seq(Exchange)
  BY EmptySeq
<1>2. s \in Session /\ FirstIs(s, sessions, sessions')
  BY <1>1, CreatedType DEF CInv
<1>3. s.id = chats + 1 /\ s.talk = <<>> /\ DOMAIN s.talk = {} /\ s.model = m
  OBVIOUS
<1>4. chats' = chats + 1 /\ active' = chats + 1
  BY DEF Created
<1>5. NewTalk(s, sends, sends)
  BY <1>3 DEF NewTalk
<1> HIDE DEF s
<1>6. Static(sessions', chats + 1, sends)
  BY <1>2, <1>3, <1>5, Now, CreatedStatic
<1>7. Flying(sessions', flights)
  BY <1>2, <1>3, CreatedFlying DEF CInv
<1>8. ASSUME NEW c, Settled(sessions, c, flights)  PROVE Settled(sessions', c, flights)
  BY <1>2, <1>3, <1>8, CreatedSettled
<1>9. ASSUME NEW cat  PROVE Follows(sessions', chats + 1, m, cat)
  BY <1>2, <1>3, Now, CreatedFollows
<1>10. Same(seen.sessions, sessions')
  <2>1. \A i \in DOMAIN seen.sessions : seen.sessions[i].id # s.id
    <3>1. \A i \in DOMAIN seen.sessions : /\ seen.sessions[i].id \in Int
                                          /\ seen.sessions[i].id <= chats
      BY Now, SessionFacts, Bounds DEF CInv, Static
    <3>2. QED
      BY <1>3, <3>1, Now
  <2>2. QED
    BY <1>2, <2>1, Now, CreatedSame
<1>11. QED
  BY <1>4, <1>6, <1>7, <1>8, <1>9, <1>10

LEMMA RenderStep == CInv /\ Render => CInv' /\ Kept
<1> SUFFICES ASSUME CInv, Render  PROVE CInv' /\ Kept
  OBVIOUS
<1>1. TypeOK' /\ IInv'
  BY TypesNext DEF Next
<1>2. /\ UNCHANGED <<catalogue, sessions, sending, active, activeModel, flights, chats, sends, cut>>
      /\ Rendered
  BY DEF Render, asking
<1>3. /\ Static(sessions', chats', sends') /\ Flying(sessions', flights')
      /\ AbortedCut(flights', cut') /\ Settled(sessions', cut', flights')
      /\ Follows(sessions', active', activeModel', catalogue')
      /\ Same(seen.sessions, sessions')
  BY <1>2, Now DEF CInv
<1>4. QED
  BY <1>1, <1>2, <1>3, RenderedStep DEF Kept

LEMMA LoadStep == CInv /\ Load => CInv' /\ Kept
<1> SUFFICES ASSUME CInv, Load  PROVE CInv' /\ Kept
  OBVIOUS
<1>1. TypeOK' /\ IInv'
  BY TypesNext DEF Next
<1>2. UNCHANGED <<sending, flights, sends, cut>> /\ Rendered /\ catalogue' \subseteq Models
  BY DEF Load, LoadData, asking
<1>3. PICK first \in catalogue' :
          \/ /\ seen.sessions # <<>>
             /\ LET c == IF active \in Ids(seen.sessions) THEN active ELSE seen.sessions[1].id
                    m == Chat(seen.sessions, c).model
                IN /\ active' = c
                   /\ activeModel' = IF m \in catalogue' THEN m ELSE first
             /\ UNCHANGED <<sessions, chats>>
          \/ Created(first, <<>>) /\ activeModel' = first
  BY DEF Load
<1>4. /\ Static(sessions', chats', sends') /\ Flying(sessions', flights')
      /\ AbortedCut(flights', cut') /\ Settled(sessions', cut', flights')
      /\ Follows(sessions', active', activeModel', catalogue')
      /\ Same(seen.sessions, sessions')
  <2>1. CASE Created(first, <<>>) /\ activeModel' = first
    <3>1. first \in Models
      BY <1>2
    <3>2. QED
      BY <1>2, <2>1, <3>1, NewChatHolds DEF CInv
  <2>2. CASE /\ seen.sessions # <<>>
             /\ LET c == IF active \in Ids(seen.sessions) THEN active ELSE seen.sessions[1].id
                    m == Chat(seen.sessions, c).model
                IN /\ active' = c
                   /\ activeModel' = IF m \in catalogue' THEN m ELSE first
             /\ UNCHANGED <<sessions, chats>>
    <3> DEFINE c == IF active \in Ids(seen.sessions) THEN active ELSE seen.sessions[1].id
    <3>1. c \in Ids(seen.sessions)
      <4>1. 1 \in DOMAIN seen.sessions
        <5>1. /\ Len(seen.sessions) \in Nat \ {0}
              /\ DOMAIN seen.sessions = 1..Len(seen.sessions)
          BY <2>2, Now, EmptySeq, LenProperties
        <5>2. QED
          BY <5>1
      <4>2. QED
        BY <4>1 DEF Ids
    <3>2. active' = c /\ activeModel' = IF Chat(seen.sessions, c).model \in catalogue'
                                        THEN Chat(seen.sessions, c).model ELSE first
      BY <2>2
    <3> HIDE DEF c
    <3>3. PICK i \in DOMAIN seen.sessions : /\ seen.sessions[i].id = c
                                            /\ Chat(seen.sessions, c) = seen.sessions[i]
      BY <3>1, ChatFacts
    <3>4. Follows(seen.sessions, active', activeModel', catalogue')
      BY <3>2, <3>3 DEF Follows, CInv, Static
    <3>5. Follows(sessions', active', activeModel', catalogue')
      BY <2>2, <3>4, Now, FollowsAdvance DEF CInv
    <3>6. QED
      BY <1>2, <2>2, <3>5, Now DEF CInv
  <2>3. QED
    BY <1>3, <2>1, <2>2
<1>5. QED
  BY <1>1, <1>2, <1>4, RenderedStep DEF Kept

\* An older copy is settled when what is put back is counted as cut.
LEMMA OlderSettled ==
    ASSUME CInv, NEW ss
    PROVE  Settled(ss, cut \cup PutBack(ss), flights)
<1>1. Settled(sessions, cut, flights)
  BY DEF CInv
<1>2. PutBack(ss) = {x.n : x \in Exchanges(ss) \ Exchanges(sessions)}
  BY DEF PutBack
<1>3. QED
  BY <1>1, <1>2, SettledBack

LEMMA ReloadStep ==
    ASSUME CInv, Static(stored.sessions, chats, sends), Reload
    PROVE  CInv' /\ seen'.sessions = stored.sessions
<1>1. TypeOK' /\ IInv'
  BY TypesNext DEF Next
<1>2. /\ sessions' = stored.sessions /\ flights' = {} /\ catalogue' = {} /\ Rendered
      /\ cut' = cut \cup PutBack(stored.sessions) \cup {f.n : f \in flights}
      /\ UNCHANGED <<chats, sends>>
  BY DEF Reload
<1>3. Static(sessions', chats', sends')
  BY <1>2
<1>4. /\ Flying(sessions', flights') /\ AbortedCut(flights', cut')
      /\ Follows(sessions', active', activeModel', catalogue')
  BY <1>2 DEF Flying, AbortedCut, Follows
<1>5. Settled(sessions', cut', flights')
  BY <1>2, OlderSettled DEF Settled
<1>6. QED
  BY <1>1, <1>2, <1>3, <1>4, <1>5, RenderedStep

LEMMA NewChatStep == CInv /\ NewChat => CInv' /\ Kept
<1> SUFFICES ASSUME CInv, NewChat  PROVE CInv' /\ Kept
  OBVIOUS
<1>1. TypeOK' /\ IInv'
  BY TypesNext DEF Next
<1>2. UNCHANGED <<catalogue, sending, flights, sends, cut>> /\ Rendered
  BY DEF NewChat, asking
<1>3. PICK m \in Usable : Created(m, <<>>) /\ activeModel' = m
  BY DEF NewChat
<1>4. m \in Models
  BY UsableType DEF CInv
<1>5. /\ Static(sessions', chats', sends') /\ Flying(sessions', flights')
      /\ AbortedCut(flights', cut') /\ Settled(sessions', cut', flights')
      /\ Follows(sessions', active', activeModel', catalogue')
      /\ Same(seen.sessions, sessions')
  BY <1>2, <1>3, <1>4, NewChatHolds DEF CInv
<1>6. QED
  BY <1>1, <1>2, <1>5, RenderedStep DEF Kept

LEMMA SelectSessionStep ==
    ASSUME CInv, NEW c \in 1..MaxChats, SelectSession(c)
    PROVE  CInv' /\ Kept
<1>1. TypeOK' /\ IInv'
  BY TypesNext DEF Next
<1>2. /\ UNCHANGED <<catalogue, sessions, sending, flights, chats, sends, cut>> /\ Rendered
      /\ c \in Ids(seen.sessions)
      /\ active' = c /\ activeModel' = Chat(seen.sessions, c).model
  BY DEF SelectSession, asking
<1>3. PICK i \in DOMAIN seen.sessions : /\ seen.sessions[i].id = c
                                        /\ Chat(seen.sessions, c) = seen.sessions[i]
  BY <1>2, ChatFacts
<1>4. Follows(seen.sessions, active', activeModel', catalogue')
  BY <1>2, <1>3 DEF Follows, CInv, Static
<1>5. Follows(sessions, active', activeModel', catalogue')
  BY <1>4, Now, FollowsAdvance DEF CInv
<1>6. /\ Static(sessions', chats', sends') /\ Flying(sessions', flights')
      /\ AbortedCut(flights', cut') /\ Settled(sessions', cut', flights')
      /\ Follows(sessions', active', activeModel', catalogue')
      /\ Same(seen.sessions, sessions')
  BY <1>2, <1>5, Now DEF CInv
<1>7. QED
  BY <1>1, <1>2, <1>6, RenderedStep DEF Kept

LEMMA DeleteStep == CInv /\ DeleteCurrentChat => CInv' /\ Kept
<1> SUFFICES ASSUME CInv, DeleteCurrentChat  PROVE CInv' /\ Kept
  OBVIOUS
<1>1. TypeOK' /\ IInv'
  BY TypesNext DEF Next
<1> DEFINE rest == Without(seen.sessions, active)
<1>2. /\ sessions' = rest /\ cut' = cut \cup PutBack(seen.sessions) /\ Rendered
      /\ active' = IF rest = <<>> THEN None ELSE rest[1].id
      /\ activeModel' = IF rest = <<>> THEN None ELSE rest[1].model
      /\ UNCHANGED <<catalogue, flights, chats, sends>>
  BY DEF DeleteCurrentChat, asking
<1>3. Part(seen.sessions, rest)
  BY Now, WithoutFacts
<1> HIDE DEF rest
<1>4. /\ Static(seen.sessions, chats, sends) /\ Flying(seen.sessions, flights)
      /\ Settled(seen.sessions, cut', flights)
  BY <1>2, OlderSettled, Now DEF CInv
<1>5. /\ rest \in Seq(Session) /\ Static(rest, chats, sends) /\ Flying(rest, flights)
      /\ Settled(rest, cut', flights) /\ Same(seen.sessions, rest)
  <2>1. PICK d : d = cut'
    OBVIOUS
  <2>2. Settled(seen.sessions, d, flights)
    BY <1>4, <2>1
  <2>3. /\ rest \in Seq(Session) /\ Static(rest, chats, sends) /\ Flying(rest, flights)
        /\ Settled(rest, d, flights) /\ Same(seen.sessions, rest)
    BY <1>3, <1>4, <2>2, Now, PartHolds
  <2>4. QED
    BY <2>1, <2>3
<1>6. Follows(rest, active', activeModel', catalogue')
  <2>1. CASE rest = <<>>
    <3>1. DOMAIN rest = {}
      BY <2>1
    <3>2. QED
      BY <3>1 DEF Follows
  <2>2. CASE rest # <<>>
    <3>1. 1 \in DOMAIN rest
      <4>1. Len(rest) \in Nat \ {0} /\ DOMAIN rest = 1..Len(rest)
        BY <1>5, <2>2, EmptySeq, LenProperties
      <4>2. QED
        BY <4>1
    <3>2. QED
      BY <1>2, <1>5, <2>2, <3>1 DEF Follows, Static
  <2>3. QED
    BY <2>1, <2>2
<1>7. AbortedCut(flights', cut')
  BY <1>2 DEF CInv, AbortedCut
<1>8. QED
  BY <1>1, <1>2, <1>5, <1>6, <1>7, RenderedStep DEF Kept

LEMMA SelectModelStep ==
    ASSUME CInv, NEW m \in Models, SelectModel(m)
    PROVE  CInv' /\ Kept
<1>1. TypeOK' /\ IInv'
  BY TypesNext DEF Next
<1>2. UNCHANGED <<catalogue, sending, flights, sends, cut>> /\ Rendered /\ activeModel' = m
  BY DEF SelectModel, asking
<1>3. /\ Static(sessions', chats', sends') /\ Flying(sessions', flights')
      /\ Settled(sessions', cut', flights')
      /\ Follows(sessions', active', activeModel', catalogue')
      /\ Same(seen.sessions, sessions')
  <2>1. CASE Created(m, <<>>)
    BY <1>2, <2>1, NewChatHolds DEF CInv
  <2>2. CASE /\ active \in Ids(seen.sessions) /\ Chat(seen.sessions, active).talk = <<>>
             /\ sessions' = SetModel(sessions, active, m) /\ UNCHANGED <<active, chats>>
    <3>1. \A i \in DOMAIN sessions : sessions[i].id = active => sessions[i].talk = <<>>
      <4>1. PICK k \in DOMAIN seen.sessions :
                /\ seen.sessions[k].id = active /\ seen.sessions[k].talk = <<>>
        BY <2>2, ChatFacts
      <4>2. /\ DOMAIN sessions = DOMAIN seen.sessions
            /\ \A i \in DOMAIN seen.sessions :
                  /\ sessions[i].id = seen.sessions[i].id
                  /\ sessions[i].talk = <<>> <=> seen.sessions[i].talk = <<>>
        BY Now, AdvancePlaces DEF CInv
      <4>3. QED
        BY <4>1, <4>2 DEF CInv, Static
    <3>2. /\ Flying(sessions, flights) /\ Settled(sessions, cut, flights)
          /\ sessions' = SetModel(sessions, active, m)
      BY <2>2 DEF CInv
    <3>3. /\ Static(sessions', chats, sends) /\ Flying(sessions', flights)
          /\ Settled(sessions', cut, flights)
          /\ Follows(sessions', active, m, catalogue) /\ Same(seen.sessions, sessions')
      <4>1. PICK tt : tt = sessions'
        OBVIOUS
      <4>2. /\ Static(tt, chats, sends) /\ Flying(tt, flights) /\ Settled(tt, cut, flights)
            /\ Follows(tt, active, m, catalogue) /\ Same(seen.sessions, tt)
        BY <3>1, <3>2, <4>1, Now, SetModelHolds
      <4>3. QED
        BY <4>1, <4>2
    <3>4. QED
      BY <1>2, <2>2, <3>3
  <2>3. QED
    BY <2>1, <2>2 DEF SelectModel, Switch
<1>4. AbortedCut(flights', cut')
  BY <1>2 DEF CInv
<1>5. QED
  BY <1>1, <1>2, <1>3, <1>4, RenderedStep DEF Kept


LEMMA StopStep == CInv /\ Stop => CInv' /\ Kept
<1> SUFFICES ASSUME CInv, Stop  PROVE CInv' /\ Kept
  OBVIOUS
<1>1. TypeOK' /\ IInv'
  BY TypesNext DEF Next
<1>2. /\ UNCHANGED <<catalogue, sessions, active, activeModel, chats, sends>> /\ Rendered
      /\ flights' = Abort /\ cut' = cut \cup {f.n : f \in {g \in flights : g.n = abort}}
  BY DEF Stop
<1>3. \A g \in flights' : \E f \in flights :
          /\ g.n = f.n /\ g.chat = f.chat /\ g.text = f.text
          /\ g.aborted = (f.aborted \/ f.n = abort)
  BY <1>2, AbortFacts DEF CInv
<1>4. \A f \in flights : \E g \in flights' : g.n = f.n
  <2>1. SUFFICES ASSUME NEW f \in flights  PROVE \E g \in flights' : g.n = f.n
    OBVIOUS
  <2>2. f = [n |-> f.n, chat |-> f.chat, text |-> f.text, aborted |-> f.aborted]
    BY DEF CInv, IInv, CallShape
  <2>3. [f EXCEPT !.aborted = f.aborted \/ f.n = abort].n = f.n
    BY <2>2
  <2>4. [f EXCEPT !.aborted = f.aborted \/ f.n = abort] \in flights'
    BY <1>2 DEF Abort
  <2>5. QED
    BY <2>3, <2>4
<1>5. Flying(sessions', flights')
  BY <1>2, <1>3 DEF CInv, Flying
<1>6. AbortedCut(flights', cut')
  <2>1. SUFFICES ASSUME NEW g \in flights', g.aborted  PROVE g.n \in cut'
    BY DEF AbortedCut
  <2>2. PICK f \in flights : g.n = f.n /\ g.aborted = (f.aborted \/ f.n = abort)
    BY <1>3
  <2>3. f.aborted \/ f.n = abort
    BY <2>1, <2>2, Zenon
  <2>4. QED
    BY <1>2, <2>2, <2>3 DEF CInv, AbortedCut
<1>7. Settled(sessions', cut', flights')
  BY <1>2, <1>4 DEF CInv, Settled
<1>8. /\ Static(sessions', chats', sends') /\ Same(seen.sessions, sessions')
      /\ Follows(sessions', active', activeModel', catalogue')
  BY <1>2, Now DEF CInv
<1>9. QED
  BY <1>1, <1>2, <1>5, <1>6, <1>7, <1>8, RenderedStep DEF Kept

\* A chat with one more question in it, put to its model if the gateway has that
Continued(s, t, cat) ==
    \E x : Longer(s.talk, x, t.talk) /\ (x.model = s.model \/ s.model \notin cat)

\* What a step makes of the chats the user sees: their answers have grown, or one more question
\* has been asked.
Shows(old, new, cat) ==
    \A i \in DOMAIN old, k \in DOMAIN new :
        old[i].id = new[k].id =>
            GrownTalk(old[i].talk, new[k].talk) \/ Continued(old[i], new[k], cat)

LEMMA KeptShows == Kept => Shows(seen.sessions, seen'.sessions, catalogue)
BY DEF Kept, Same, Shows

\* Nothing is under way when a question is asked, and nothing queued.
LEMMA Idle ==
    ASSUME CInv, SendMessage
    PROVE  /\ flights = {} /\ sessions = seen.sessions
           /\ \E f : flights' = {f} /\ f.n = sends + 1 /\ f.chat = active' /\ f.text = 0
                     /\ f.aborted = FALSE
<1>1. flights = {} /\ sessions = seen.sessions
  BY DEF CInv, IInv, SeenInTime, StopReaches, SendMessage, CanSend, InStep
<1>2. Abort = {}
  BY <1>1 DEF Abort
<1>3. flights' = {[n |-> sends', chat |-> active', text |-> 0, aborted |-> FALSE]}
  BY <1>2 DEF SendMessage
<1>4. sends' = sends + 1
  BY DEF SendMessage
<1>5. PICK f : f = [n |-> sends', chat |-> active', text |-> 0, aborted |-> FALSE]
  OBVIOUS
<1>6. f.n = sends + 1 /\ f.chat = active' /\ f.text = 0 /\ f.aborted = FALSE
  BY <1>4, <1>5
<1>7. QED
  BY <1>1, <1>3, <1>5, <1>6

\* The model of a question is that of the chat, if the gateway has it.
LEMMA UsableModel ==
    ASSUME CInv, NEW m \in Usable
    PROVE  /\ activeModel \in catalogue => activeModel = m
           /\ \A i \in DOMAIN seen.sessions : seen.sessions[i].id = active =>
                  m = seen.sessions[i].model \/ seen.sessions[i].model \notin catalogue
<1>1. activeModel \in catalogue => activeModel = m
  BY DEF Usable
<1>2. ASSUME NEW i \in DOMAIN seen.sessions, seen.sessions[i].id = active,
             seen.sessions[i].model \in catalogue
      PROVE  m = seen.sessions[i].model
  <2>1. active \in Ids(seen.sessions)
    BY <1>2 DEF Ids
  <2>2. Chat(seen.sessions, active) = seen.sessions[i]
    BY <1>2 DEF Chat, CInv, Static
  <2>3. CASE activeModel \in catalogue
    BY <1>1, <1>2, <2>3 DEF CInv, Follows
  <2>4. CASE activeModel \notin catalogue
    BY <1>2, <2>1, <2>2, <2>4 DEF Usable
  <2>5. QED
    BY <2>3, <2>4
<1>3. QED
  BY <1>1, <1>2

LEMMA SendMessageStep ==
    ASSUME CInv, SendMessage
    PROVE  CInv' /\ Shows(seen.sessions, seen'.sessions, catalogue)
<1>1. TypeOK' /\ IInv'
  BY TypesNext DEF Next
<1>2. /\ UNCHANGED <<catalogue, activeModel, cut>> /\ Rendered /\ sends' = sends + 1
      /\ flights = {} /\ sessions = seen.sessions
  BY Idle DEF SendMessage
<1>3. PICK f : /\ flights' = {f} /\ f.n = sends + 1 /\ f.chat = active' /\ f.text = 0
               /\ f.aborted = FALSE
  BY Idle
<1>4. PICK m \in Usable, x \in Exchange :
              /\ m \in Models /\ x.n = sends + 1 /\ x.model = m /\ x.text = 0
              /\ x.status = "streaming" /\ sends' = sends + 1
              /\ \/ /\ active \in Ids(seen.sessions)
                    /\ sessions' = [i \in DOMAIN sessions |->
                           IF sessions[i].id # active THEN sessions[i]
                           ELSE [id |-> active, model |-> m,
                                 talk |-> Append(Chat(seen.sessions, active).talk, x)]]
                    /\ UNCHANGED <<active, chats>>
                 \/ Created(m, <<x>>)
  BY SendMessageFacts DEF CInv
<1>5. /\ activeModel \in catalogue => activeModel = m
      /\ \A i \in DOMAIN seen.sessions : seen.sessions[i].id = active =>
             m = seen.sessions[i].model \/ seen.sessions[i].model \notin catalogue
  BY UsableModel
<1>6. AbortedCut(flights', cut')
  BY <1>3 DEF AbortedCut
<1>7. /\ sessions \in Seq(Session) /\ chats \in Int /\ sends \in Int
      /\ Static(sessions, chats, sends) /\ Settled(sessions, cut, {})
  BY <1>2, Now DEF CInv
<1>8. /\ Static(sessions', chats', sends') /\ Flying(sessions', flights')
      /\ Settled(sessions', cut', flights')
      /\ Follows(sessions', active', activeModel', catalogue')
      /\ Shows(sessions, sessions', catalogue)
  <2>1. CASE Created(m, <<x>>)
    <3> DEFINE s == [id |-> chats + 1, model |-> m, talk |-> <<x>>]
    <3>1. <<x>> \in Seq(Exchange) /\ Len(<<x>>) = 1 /\ DOMAIN <<x>> = {1} /\ <<x>>[1] = x
      OBVIOUS
    <3>2. s \in Session /\ FirstIs(s, sessions, sessions')
      BY <1>4, <2>1, <3>1, CreatedType DEF CInv
    <3>3. /\ s.id = chats + 1 /\ s.model = m /\ Len(s.talk) = 1 /\ DOMAIN s.talk = {1}
          /\ s.talk[1] = x
      BY <3>1
    <3>4. chats' = chats + 1 /\ active' = chats + 1
      BY <2>1 DEF Created
    <3> HIDE DEF s
    <3>5. NewTalk(s, sends, sends + 1)
      BY <1>4, <1>7, <3>3 DEF NewTalk
    <3>6. Static(sessions', chats + 1, sends + 1)
      BY <1>7, <3>2, <3>3, <3>5, CreatedStatic
    <3>7. Flying(sessions', {f})
      <4>1. Flying(sessions, {f})
        <5>1. ASSUME NEW i \in DOMAIN sessions, NEW j \in DOMAIN sessions[i].talk
              PROVE  sessions[i].talk[j].n # sends + 1
          BY <1>7, SessionFacts DEF Static
        <5>2. QED
          BY <1>3, <5>1 DEF Flying
      <4>2. 0 <= 0
        OBVIOUS
      <4>3. \A j \in DOMAIN s.talk :
                s.id = f.chat /\ s.talk[j].status = "streaming" /\ s.talk[j].text <= f.text
        BY <1>3, <1>4, <3>3, <3>4, <4>2
      <4>4. QED
        BY <3>2, <4>1, <4>3, CreatedFlying
    <3>8. Settled(sessions', cut, {f})
      <4>1. Settled(sessions, cut, {f})
        BY <1>7 DEF Settled
      <4>2. \A j \in DOMAIN s.talk : \E g \in {f} : g.n = s.talk[j].n
        BY <1>3, <1>4, <3>3
      <4>3. QED
        BY <3>2, <4>1, <4>2, CreatedSettled
    <3>9. Follows(sessions', chats + 1, activeModel, catalogue)
      BY <1>5, <1>7, <3>2, <3>3, CreatedFollows
    <3>10. Shows(sessions, sessions', catalogue)
      <4>1. \A i \in DOMAIN sessions : sessions[i].id # s.id
        <5>1. \A i \in DOMAIN sessions : sessions[i].id \in Int /\ sessions[i].id <= chats
          BY <1>7, SessionFacts, Bounds DEF Static
        <5>2. QED
          BY <1>7, <3>3, <5>1
      <4>2. Same(sessions, sessions)
        BY <1>7, AdvanceRefl, SameAdvance
      <4>3. Same(sessions, sessions')
        BY <3>2, <4>1, <4>2, CreatedSame
      <4>4. QED
        BY <4>3 DEF Same, Shows
    <3>11. QED
      BY <1>2, <1>3, <3>4, <3>6, <3>7, <3>8, <3>9, <3>10
  <2>2. CASE /\ active \in Ids(seen.sessions)
             /\ sessions' = [i \in DOMAIN sessions |->
                           IF sessions[i].id # active THEN sessions[i]
                           ELSE [id |-> active, model |-> m,
                                 talk |-> Append(Chat(seen.sessions, active).talk, x)]]
             /\ UNCHANGED <<active, chats>>
    <3>1. PICK tt : tt = sessions'
      OBVIOUS
    <3>2. tt = Sent(sessions, active, m, x)
      BY <1>2, <2>2, <3>1 DEF Sent
    <3>3. f.chat = active /\ f.n = x.n /\ f.text = x.text
      BY <1>3, <1>4, <2>2
    <3>4. /\ Static(tt, chats, sends + 1) /\ Flying(tt, {f}) /\ Settled(tt, cut, {f})
          /\ Follows(tt, active, activeModel, catalogue)
      BY <1>4, <1>5, <1>7, <3>2, <3>3, SentHolds
    <3>5. Shows(sessions, tt, catalogue)
      <4>1. /\ DOMAIN tt = DOMAIN sessions
            /\ \A i \in DOMAIN sessions :
                 IF sessions[i].id # active THEN tt[i] = sessions[i]
                 ELSE tt[i].id = active /\ Longer(sessions[i].talk, x, tt[i].talk)
        BY <1>4, <1>7, <3>2, SentFacts
      <4>2. SUFFICES ASSUME NEW i \in DOMAIN sessions, NEW k \in DOMAIN tt,
                            sessions[i].id = tt[k].id
                     PROVE  \/ GrownTalk(sessions[i].talk, tt[k].talk)
                            \/ Continued(sessions[i], tt[k], catalogue)
        BY DEF Shows
      <4>3. k = i
        BY <1>7, <4>1, <4>2 DEF Static
      <4>4. CASE sessions[i].id # active
        <5>1. tt[k] = sessions[i] /\ sessions[i].talk \in Seq(Exchange)
          BY <1>7, <4>1, <4>3, <4>4, SessionFacts
        <5>2. QED
          BY <5>1, GrownRefl
      <4>5. CASE sessions[i].id = active
        <5>1. Longer(sessions[i].talk, x, tt[k].talk)
          BY <4>1, <4>3, <4>5
        <5>2. x.model = sessions[i].model \/ sessions[i].model \notin catalogue
          BY <1>2, <1>4, <1>5, <4>5
        <5>3. QED
          BY <5>1, <5>2 DEF Continued
      <4>6. QED
        BY <4>4, <4>5
    <3>6. QED
      BY <1>2, <1>3, <2>2, <3>1, <3>4, <3>5
  <2>3. QED
    BY <1>4, <2>1, <2>2
<1>9. CInv' /\ seen'.sessions = sessions'
  BY <1>1, <1>2, <1>6, <1>8, RenderedStep
<1>10. QED
  BY <1>2, <1>8, <1>9

\* What a call of sendMessage makes of the chats; the last render's view is left alone.
LEMMA AnswerStep ==
    ASSUME CInv, NEW f \in flights, Chunk(f) \/ Ends(f) \/ Aborts(f)
    PROVE  CInv'
<1>1. TypeOK' /\ IInv'
  BY TypesNext DEF Next
<1>2. /\ UNCHANGED <<catalogue, seen, stored, active, activeModel, chats, sends, cut>>
      /\ flights = {f} /\ f.n \in 1..MaxSends /\ f.text \in 0..MaxChunks /\ f.text \in Int
      /\ sending
  BY Bounds DEF CInv, TypeOK, IInv, OneFlight, StopReaches, Chunk, Ends, Aborts
<1>3. InStep'
  BY <1>2 DEF InStep, CInv, IInv, SeenInTime
<1>4. /\ Static(seen'.sessions, chats', sends')
      /\ Follows(seen'.sessions, active', activeModel', catalogue')
  BY <1>2 DEF CInv
<1>5. Advance(seen.sessions, sessions) /\ Flying(sessions, {f}) /\ Settled(sessions, cut, {f})
  BY <1>2 DEF CInv
\* The answer has gone on.
<1>6. ASSUME NEW text \in 0..MaxChunks, f.text <= text, NEW status \in Statuses,
             Progress(f, text, status)
      PROVE  /\ Advance(seen.sessions, sessions')
             /\ \A i \in DOMAIN sessions' : \A j \in DOMAIN sessions'[i].talk :
                   IF sessions'[i].talk[j].n = f.n
                   THEN /\ sessions'[i].id = f.chat /\ sessions'[i].talk[j].text = text
                        /\ sessions'[i].talk[j].status = status
                   ELSE sessions'[i].talk[j].status = "streaming" => sessions'[i].talk[j].n \in cut
  <2>1. PICK tt : tt = sessions'
    OBVIOUS
  <2>2. tt = Answered(sessions, f.chat, f.n, text, status)
    BY <1>6, <2>1 DEF Progress
  <2>3. /\ tt \in Seq(Session) /\ Advance(sessions, tt)
        /\ \A i \in DOMAIN tt : \A j \in DOMAIN tt[i].talk :
                 IF tt[i].talk[j].n = f.n
                 THEN /\ tt[i].id = f.chat /\ tt[i].talk[j].text = text
                      /\ tt[i].talk[j].status = status
                 ELSE /\ i \in DOMAIN sessions /\ j \in DOMAIN sessions[i].talk
                      /\ tt[i].talk[j] = sessions[i].talk[j]
    <3>1. sessions \in Seq(Session) /\ Flying(sessions, {f}) /\ f.n \in 1..MaxSends
      BY <1>2, <1>5, Now
    <3>2. f.text \in Int /\ f.text <= text
      BY <1>2, <1>6
    <3>3. /\ tt \in Seq(Session) /\ Advance(sessions, tt)
          /\ OthersStay(sessions, f, text, status, tt)
      BY <2>2, <3>1, <3>2, AnsweredAdvance
    <3>4. QED
      BY <3>3 DEF OthersStay
  <2>4. Advance(seen.sessions, tt)
    BY <1>5, <2>3, Now, AdvanceTrans
  <2>5. ASSUME NEW i \in DOMAIN tt, NEW j \in DOMAIN tt[i].talk, tt[i].talk[j].n # f.n,
               tt[i].talk[j].status = "streaming"
        PROVE  tt[i].talk[j].n \in cut
    BY <1>5, <2>3, <2>5 DEF Settled
  <2>6. QED
    BY <2>1, <2>3, <2>4, <2>5
<1>7. CASE Chunk(f)
  <2>1. /\ f.text + 1 \in 0..MaxChunks /\ f.text <= f.text + 1 /\ "streaming" \in Statuses
        /\ Progress(f, f.text + 1, "streaming")
    BY <1>2, <1>7, Bounds DEF Chunk, Statuses
  <2>2. /\ Advance(seen.sessions, sessions')
        /\ \A i \in DOMAIN sessions' : \A j \in DOMAIN sessions'[i].talk :
              IF sessions'[i].talk[j].n = f.n
              THEN /\ sessions'[i].id = f.chat /\ sessions'[i].talk[j].text = f.text + 1
                   /\ sessions'[i].talk[j].status = "streaming"
              ELSE sessions'[i].talk[j].status = "streaming" => sessions'[i].talk[j].n \in cut
    BY <1>6, <2>1
  <2>3. PICK g : g = [f EXCEPT !.text = @ + 1]
    OBVIOUS
  <2>4. flights' = {g}
    BY <1>2, <1>7, <2>3 DEF Chunk
  <2>5. g.n = f.n /\ g.chat = f.chat /\ g.text = f.text + 1 /\ g.aborted = f.aborted
    <3>1. f = [n |-> f.n, chat |-> f.chat, text |-> f.text, aborted |-> f.aborted]
      BY DEF CInv, IInv, CallShape
    <3>2. g = [n |-> f.n, chat |-> f.chat, text |-> f.text + 1, aborted |-> f.aborted]
      BY <2>3, <3>1
    <3>3. QED
      BY <3>2
  <2>6. ~ g.aborted
    BY <1>7, <2>5, Zenon DEF Chunk
  <2>7. Flying(sessions', flights')
    <3>1. f.text + 1 <= f.text + 1
      BY <1>2
    <3>2. QED
      BY <2>2, <2>4, <2>5, <3>1 DEF Flying
  <2>8. Settled(sessions', cut', flights') /\ AbortedCut(flights', cut')
    BY <1>2, <2>2, <2>4, <2>5, <2>6 DEF Settled, AbortedCut
  <2>9. QED
    BY <1>1, <1>2, <1>3, <1>4, <2>2, <2>7, <2>8 DEF CInv
<1>8. ASSUME flights' = {}, Settled(sessions', cut, {}), Advance(seen.sessions, sessions')
      PROVE  CInv'
  <2>1. Flying(sessions', {}) /\ AbortedCut({}, cut)
    BY DEF Flying, AbortedCut
  <2>2. QED
    BY <1>1, <1>2, <1>3, <1>4, <1>8, <2>1 DEF CInv
<1>9. ASSUME Finally(f)  PROVE flights' = {}
  BY <1>2, <1>9 DEF Finally
\* An answer that has ended is settled, and the others were.
<1>10. ASSUME NEW text \in 0..MaxChunks, f.text <= text, NEW status \in {"done", "error"},
              Progress(f, text, status), Finally(f)
       PROVE  CInv'
  <2>1. status \in Statuses /\ status # "streaming"
    BY DEF Statuses
  <2>2. Advance(seen.sessions, sessions') /\ Settled(sessions', cut, {})
    BY <1>6, <1>10, <2>1 DEF Settled
  <2>3. QED
    BY <1>8, <1>9, <1>10, <2>2
<1>11. CASE Ends(f)
  <2>1. f.text <= f.text
    BY <1>2
  <2>2. QED
    BY <1>2, <1>10, <1>11, <2>1 DEF Ends
<1>12. CASE Aborts(f) /\ UNCHANGED sessions
  <2>1. f.n \in cut
    BY <1>12 DEF Aborts, CInv, AbortedCut
  <2>2. Settled(sessions, cut, {})
    BY <1>5, <2>1 DEF Settled
  <2>3. QED
    BY <1>5, <1>8, <1>9, <1>12, <2>2 DEF Aborts
<1>13. CASE Aborts(f) /\ f.text = 0 /\ Progress(f, 0, "error")
  <2>1. 0 \in 0..MaxChunks /\ f.text <= 0
    BY <1>2, <1>13
  <2>2. QED
    BY <1>10, <1>13, <2>1 DEF Aborts
<1>14. QED
  BY <1>7, <1>11, <1>12, <1>13 DEF Aborts

LEMMA NextChats ==
    ASSUME CInv, [Next]_vars, ~ Reload
    PROVE  CInv' /\ Shows(seen.sessions, seen'.sessions, catalogue)
<1>1. ASSUME seen' = seen  PROVE Kept
  <2>1. Static(seen.sessions, chats, sends)
    BY DEF CInv
  <2>2. Same(seen.sessions, seen.sessions)
    BY <2>1, Now, AdvanceRefl, SameAdvance
  <2>3. QED
    BY <1>1, <2>2 DEF Kept
<1>2. CASE Load \/ Render \/ NewChat \/ DeleteCurrentChat \/ Stop
  BY <1>2, LoadStep, RenderStep, NewChatStep, DeleteStep, StopStep, KeptShows
<1>3. ASSUME NEW c \in 1..MaxChats, SelectSession(c)
      PROVE  CInv' /\ Shows(seen.sessions, seen'.sessions, catalogue)
  BY <1>3, SelectSessionStep, KeptShows
<1>4. ASSUME NEW m \in Models, SelectModel(m)
      PROVE  CInv' /\ Shows(seen.sessions, seen'.sessions, catalogue)
  BY <1>4, SelectModelStep, KeptShows
<1>5. CASE SendMessage
  BY <1>5, SendMessageStep
<1>6. ASSUME NEW f \in flights, Chunk(f) \/ Ends(f) \/ Aborts(f)
      PROVE  CInv' /\ Shows(seen.sessions, seen'.sessions, catalogue)
  <2>1. seen' = seen
    BY <1>6 DEF Chunk, Ends, Aborts
  <2>2. QED
    BY <1>1, <1>6, <2>1, AnswerStep, KeptShows
<1>7. CASE UNCHANGED vars
  <2>1. seen' = seen /\ CInv'
    <3>1. TypeOK' /\ IInv'
      BY TypesNext
    <3>2. UNCHANGED <<catalogue, sessions, seen, active, activeModel, flights, sends, chats, cut>>
      BY <1>7 DEF vars, asking
    <3>3. QED
      BY <3>1, <3>2 DEF CInv, InStep
  <2>2. QED
    BY <1>1, <2>1, KeptShows
<1>8. QED
  BY <1>2, <1>3, <1>4, <1>5, <1>6, <1>7 DEF Next

-----------------------------------------------------------------------------
(* What is stored.                                                         *)

LEMMA LaterRefl == ASSUME NEW q \in Seq(Exchange)  PROVE Later(q, q)
BY TalkFacts DEF Later

LEMMA LaterTrans ==
    ASSUME NEW a \in Seq(Exchange), NEW b \in Seq(Exchange), NEW c \in Seq(Exchange),
           Later(a, b), Later(b, c)
    PROVE  Later(a, c)
<1>1. /\ Len(a) \in Nat /\ Len(b) \in Nat /\ Len(c) \in Nat
      /\ DOMAIN a = 1..Len(a) /\ DOMAIN b = 1..Len(b) /\ DOMAIN c = 1..Len(c)
      /\ Len(a) <= Len(b) /\ Len(b) <= Len(c)
  BY TalkFacts DEF Later
<1>2. ASSUME NEW j \in DOMAIN a
      PROVE  /\ a[j].n = c[j].n /\ a[j].text <= c[j].text
             /\ a[j].status # "streaming" => a[j] = c[j]
  <2>1. j \in DOMAIN b /\ j \in DOMAIN c
    BY <1>1
  <2>2. a[j].text \in Int /\ b[j].text \in Int /\ c[j].text \in Int
    BY <2>1, TalkFacts
  <2>3. /\ a[j].n = b[j].n /\ a[j].text <= b[j].text
        /\ a[j].status # "streaming" => a[j] = b[j]
        /\ b[j].n = c[j].n /\ b[j].text <= c[j].text
        /\ b[j].status # "streaming" => b[j] = c[j]
    BY <2>1 DEF Later
  <2>4. QED
    BY <2>2, <2>3
<1>3. QED
  BY <1>1, <1>2 DEF Later

\* What a step other than a reload shows of a talk is later than what it showed before.
LEMMA ShownLater ==
    ASSUME NEW s \in Session, NEW t \in Session, NEW cat,
           GrownTalk(s.talk, t.talk) \/ Continued(s, t, cat)
    PROVE  Later(s.talk, t.talk)
<1>1. s.talk \in Seq(Exchange)
  BY DEF Session
<1>2. Len(s.talk) \in Nat /\ \A j \in DOMAIN s.talk : s.talk[j].text \in Int
  BY <1>1, TalkFacts
<1>3. CASE GrownTalk(s.talk, t.talk)
  BY <1>2, <1>3 DEF GrownTalk, Grown, Later
<1>4. CASE Continued(s, t, cat)
  <2>1. PICK x : Longer(s.talk, x, t.talk)
    BY <1>4 DEF Continued
  <2>2. QED
    BY <1>2, <2>1 DEF Longer, Later
<1>5. QED
  BY <1>3, <1>4

\* Of the chats that are in both, the new ones are later.
Behind(old, new) ==
    \A i \in DOMAIN old, k \in DOMAIN new :
        old[i].id = new[k].id => Later(old[i].talk, new[k].talk)

LEMMA BehindRefl ==
    ASSUME NEW ss \in Seq(Session), NEW c, NEW n, Static(ss, c, n)
    PROVE  Behind(ss, ss)
BY SessionFacts, LaterRefl DEF Static, Behind

\* A chat with an id that was given is one there was.
Known(old, new, lastChat) ==
    \A k \in DOMAIN new : new[k].id <= lastChat => \E i \in DOMAIN old : old[i].id = new[k].id

\* A copy stays behind when the chats go on.
LEMMA BehindShows ==
    ASSUME NEW a \in Seq(Session), NEW old \in Seq(Session), NEW new \in Seq(Session), NEW cat,
           Behind(a, old), Shows(old, new, cat), NEW c, NEW n, Static(a, c, n), Known(old, new, c)
    PROVE  Behind(a, new)
<1>1. SUFFICES ASSUME NEW i \in DOMAIN a, NEW k \in DOMAIN new, a[i].id = new[k].id
               PROVE  Later(a[i].talk, new[k].talk)
  BY DEF Behind
<1>2. PICK l \in DOMAIN old : old[l].id = new[k].id
  BY <1>1 DEF Static, Known
<1>3. Later(a[i].talk, old[l].talk)
  BY <1>1, <1>2 DEF Behind
<1>4. GrownTalk(old[l].talk, new[k].talk) \/ Continued(old[l], new[k], cat)
  BY <1>2 DEF Shows
<1>5. /\ old[l] \in Session /\ new[k] \in Session
      /\ a[i].talk \in Seq(Exchange) /\ old[l].talk \in Seq(Exchange)
      /\ new[k].talk \in Seq(Exchange)
  BY SessionFacts
<1>6. Later(old[l].talk, new[k].talk)
  BY <1>4, <1>5, ShownLater
<1>7. QED
  BY <1>3, <1>5, <1>6, LaterTrans

LEMMA CreatedKnown ==
    ASSUME NEW ss, NEW s, NEW tt, FirstIs(s, ss, tt), NEW c \in Int, s.id = c + 1, NEW old,
           \A i \in DOMAIN ss : \E k \in DOMAIN old : old[k].id = ss[i].id
    PROVE  Known(old, tt, c)
<1>1. SUFFICES ASSUME NEW k \in DOMAIN tt, tt[k].id <= c
               PROVE  \E i \in DOMAIN old : old[i].id = tt[k].id
  BY DEF Known
<1>2. k # 1
  BY <1>1 DEF FirstIs
<1>3. QED
  BY <1>1, <1>2 DEF FirstIs

\* Chats come back by a reload only.
LEMMA NextKnown ==
    ASSUME CInv, [Next]_vars, ~ Reload
    PROVE  Known(seen.sessions, seen'.sessions, chats)
<1>1. /\ DOMAIN sessions = DOMAIN seen.sessions
      /\ \A i \in DOMAIN sessions : sessions[i].id = seen.sessions[i].id
  BY Now, AdvancePlaces DEF CInv
<1>2. CASE seen' = seen
  BY <1>2 DEF Known
<1>3. ASSUME Rendered, sessions' = sessions
      PROVE  Known(seen.sessions, seen'.sessions, chats)
  BY <1>1, <1>3 DEF Known, Rendered
<1>4. ASSUME Rendered, NEW m \in Models, NEW talk \in Seq(Exchange), Created(m, talk)
      PROVE  Known(seen.sessions, seen'.sessions, chats)
  <2>1. FirstIs([id |-> chats + 1, model |-> m, talk |-> talk], sessions, sessions')
    BY <1>4, CreatedType DEF CInv
  <2>2. \A i \in DOMAIN sessions : \E k \in DOMAIN seen.sessions :
            seen.sessions[k].id = sessions[i].id
    BY <1>1
  <2>3. PICK s : s = [id |-> chats + 1, model |-> m, talk |-> talk]
    OBVIOUS
  <2>4. FirstIs(s, sessions, sessions') /\ s.id = chats + 1 /\ chats \in Int
    BY <2>1, <2>3, Now
  <2>5. Known(seen.sessions, sessions', chats)
    <3>1. PICK tt : tt = sessions'
      OBVIOUS
    <3>2. Known(seen.sessions, tt, chats)
      BY <2>2, <2>4, <3>1, CreatedKnown
    <3>3. QED
      BY <3>1, <3>2
  <2>6. QED
    BY <1>4, <2>5 DEF Rendered
<1>5. <<>> \in Seq(Exchange) /\ Usable \subseteq Models
  BY EmptySeq, UsableType DEF CInv
<1>6. CASE Load
  BY <1>3, <1>4, <1>5, <1>6 DEF Load, LoadData, CInv, TypeOK
<1>7. CASE NewChat
  BY <1>4, <1>5, <1>7 DEF NewChat
<1>8. CASE DeleteCurrentChat
  <2>1. PICK rest : rest = Without(seen.sessions, active)
    OBVIOUS
  <2>2. Part(seen.sessions, rest)
    BY <2>1, Now, WithoutFacts
  <2>3. seen'.sessions = rest
    BY <1>8, <2>1 DEF DeleteCurrentChat, Rendered
  <2>4. QED
    BY <2>2, <2>3 DEF Known, Part
<1>9. ASSUME NEW m \in Models, SelectModel(m)
      PROVE  Known(seen.sessions, seen'.sessions, chats)
  <2>1. CASE sessions' = SetModel(sessions, active, m)
    <3>1. PICK tt : tt = sessions'
      OBVIOUS
    <3>2. DOMAIN tt = DOMAIN sessions /\ \A i \in DOMAIN sessions : tt[i].id = sessions[i].id
      BY <2>1, <3>1, Now, SetModelFacts
    <3>3. QED
      BY <1>1, <1>9, <3>1, <3>2 DEF Known, SelectModel, Rendered
  <2>2. CASE Created(m, <<>>)
    BY <1>4, <1>5, <1>9, <2>2 DEF SelectModel
  <2>3. QED
    BY <1>9, <2>1, <2>2 DEF SelectModel, Switch
<1>10. CASE SendMessage
  <2>1. PICK m \in Usable, x \in Exchange :
              /\ m \in Models
              /\ \/ sessions' = [i \in DOMAIN sessions |->
                           IF sessions[i].id # active THEN sessions[i]
                           ELSE [id |-> active, model |-> m,
                                 talk |-> Append(Chat(seen.sessions, active).talk, x)]]
                 \/ Created(m, <<x>>)
    BY <1>10, SendMessageFacts DEF CInv
  <2>2. Rendered
    BY <1>10 DEF SendMessage
  <2>3. CASE Created(m, <<x>>)
    <3>1. <<x>> \in Seq(Exchange)
      OBVIOUS
    <3>2. QED
      BY <1>4, <2>1, <2>2, <2>3, <3>1
  <2>4. CASE sessions' = [i \in DOMAIN sessions |->
                           IF sessions[i].id # active THEN sessions[i]
                           ELSE [id |-> active, model |-> m,
                                 talk |-> Append(Chat(seen.sessions, active).talk, x)]]
    <3>1. /\ DOMAIN sessions' = DOMAIN sessions
          /\ \A i \in DOMAIN sessions : sessions'[i].id = sessions[i].id
      BY <2>4
    <3>2. QED
      BY <1>1, <2>2, <3>1 DEF Known, Rendered
  <2>5. QED
    BY <2>1, <2>3, <2>4
<1>11. CASE Render \/ Stop \/ \E c \in 1..MaxChats : SelectSession(c)
  BY <1>3, <1>11 DEF Render, Stop, SelectSession
<1>12. CASE \E f \in flights : Chunk(f) \/ Ends(f) \/ Aborts(f)
  BY <1>2, <1>12 DEF Chunk, Ends, Aborts
<1>13. CASE UNCHANGED vars
  BY <1>2, <1>13 DEF vars
<1>14. QED
  BY <1>6, <1>7, <1>8, <1>9, <1>10, <1>11, <1>12, <1>13 DEF Next

\* The last step of a copy: it is the new chats, or stays.
LEMMA NextCopy ==
    ASSUME [Next]_vars
    PROVE  stored'.sessions = stored.sessions
           \/ (stored'.sessions = sessions' /\ seen'.sessions = sessions')
<1>1. CASE Rendered
  BY <1>1 DEF Rendered, Stored
<1>2. CASE stored' = stored
  BY <1>2
<1>3. QED
  BY <1>1, <1>2 DEF Next, Load, Reload, Render, NewChat, SelectSession, DeleteCurrentChat,
     SelectModel, SendMessage, Stop, Chunk, Ends, Aborts, vars

\* The numbers given grow.
LEMMA NextGiven ==
    ASSUME TypeOK, [Next]_vars
    PROVE  chats <= chats' /\ sends <= sends'
<1>1. chats \in Int /\ sends \in Int
  BY Bounds DEF TypeOK
<1>2. chats' \in {chats, chats + 1} /\ sends' \in {sends, sends + 1}
  BY DEF Next, Load, Reload, Render, NewChat, SelectSession, DeleteCurrentChat, SelectModel,
     Switch, Created, SendMessage, Stop, Chunk, Ends, Aborts, vars, asking
<1>3. QED
  BY <1>1, <1>2

\* What is stored is chats the page had at one time, and the page's are later.
SInv ==
    /\ CInv
    /\ Static(stored.sessions, chats, sends) /\ Behind(stored.sessions, seen.sessions)

LEMMA InitStored == Init => SInv
<1> SUFFICES ASSUME Init  PROVE SInv
  OBVIOUS
<1>1. stored.sessions = <<>> /\ DOMAIN <<>> = {}
  BY DEF Init
<1>2. QED
  BY <1>1, InitChats DEF SInv, Static, Behind

LEMMA StaticMore ==
    ASSUME NEW ss \in Seq(Session), NEW c \in Int, NEW n \in Int, Static(ss, c, n),
           NEW d \in Int, NEW k \in Int, c <= d, n <= k
    PROVE  Static(ss, d, k)
<1>1. /\ \A i \in DOMAIN ss : ss[i].id \in Int
      /\ \A i \in DOMAIN ss : \A j \in DOMAIN ss[i].talk : ss[i].talk[j].n \in Int
  BY SessionFacts, Bounds
<1>2. /\ \A i \in DOMAIN ss : ss[i].id <= d
      /\ \A i \in DOMAIN ss : \A j \in DOMAIN ss[i].talk : ss[i].talk[j].n <= k
  BY <1>1 DEF Static
<1>3. QED
  BY <1>2 DEF Static

LEMMA NextStored ==
    ASSUME SInv, [Next]_vars
    PROVE  /\ SInv'
           /\ \/ Shows(seen.sessions, seen'.sessions, catalogue)
              \/ Reload /\ seen'.sessions = stored.sessions
<1>1. CInv' /\ \/ /\ Shows(seen.sessions, seen'.sessions, catalogue)
                  /\ Known(seen.sessions, seen'.sessions, chats)
               \/ Reload /\ seen'.sessions = stored.sessions
  BY ReloadStep, NextChats, NextKnown DEF SInv
<1>2. /\ stored.sessions \in Seq(Session) /\ seen.sessions \in Seq(Session)
      /\ seen'.sessions \in Seq(Session) /\ stored'.sessions \in Seq(Session)
      /\ Static(seen'.sessions, chats', sends') /\ Static(stored.sessions, chats, sends)
      /\ chats \in Int /\ sends \in Int /\ chats' \in Int /\ sends' \in Int
  BY <1>1, Bounds DEF SInv, CInv, TypeOK
<1>3. PICK d, k : d = chats' /\ k = sends'
  OBVIOUS
<1>4. Static(stored.sessions, d, k)
  BY <1>2, <1>3, NextGiven, StaticMore DEF SInv, CInv
<1>5. PICK new, copy : new = seen'.sessions /\ copy = stored'.sessions
  OBVIOUS
<1>6. copy = stored.sessions \/ copy = new
  BY <1>5, NextCopy
<1>7. Static(copy, d, k)
  BY <1>2, <1>3, <1>4, <1>5, <1>6
<1>8. Behind(copy, new)
  <2>1. CASE copy = new
    BY <1>2, <1>5, <1>7, <2>1, BehindRefl
  <2>2. CASE copy = stored.sessions /\ new = stored.sessions
    BY <2>1, <2>2
  <2>3. CASE copy = stored.sessions /\ Shows(seen.sessions, new, catalogue)
             /\ Known(seen.sessions, new, chats)
    <3>1. Behind(stored.sessions, seen.sessions)
      BY DEF SInv
    <3>2. new \in Seq(Session)
      BY <1>2, <1>5
    <3>3. QED
      BY <1>2, <2>3, <3>1, <3>2, BehindShows
  <2>4. QED
    BY <1>1, <1>5, <1>6, <2>1, <2>2, <2>3
<1>9. SInv'
  BY <1>1, <1>3, <1>5, <1>7, <1>8 DEF SInv
<1>10. QED
  BY <1>1, <1>9

\* No answer is left `streaming' behind the user's back: Stop, Reload and DeleteCurrentChat count
\* what they cut off or put back, whatever copy was stored, and a call settles its exchange before
\* it ends.
THEOREM SettledAlways == Spec => []AnswersSettle
<1>1. SInv => AnswersSettle
  <2> SUFFICES ASSUME SInv, NEW x \in Exchanges(sessions), x.status = "streaming"
               PROVE  x.n \in cut \/ \E f \in flights : f.n = x.n
    BY DEF AnswersSettle
  <2>1. PICK i \in DOMAIN sessions : \E j \in DOMAIN sessions[i].talk : x = sessions[i].talk[j]
    BY ExchangesFacts
  <2>2. QED
    BY <2>1 DEF SInv, CInv, Settled
<1>2. SInv /\ [Next]_vars => SInv'
  BY NextStored
<1>3. QED
  BY InitStored, <1>1, <1>2, PTL DEF Spec

\* What a step shows of a chat that was shown before
LEMMA TalkShown ==
    ASSUME NEW old \in Seq(Session), NEW new \in Seq(Session), NEW cat, Shows(old, new, cat),
           NEW n, NEW d, Static(old, n, d), NEW c \in Ids(old) \cap Ids(new)
    PROVE  \/ GrownTalk(Chat(old, c).talk, Chat(new, c).talk)
           \/ Continued(Chat(old, c), Chat(new, c), cat)
<1>1. PICK i \in DOMAIN old : old[i].id = c /\ Chat(old, c) = old[i]
  BY ChatFacts
<1>2. PICK k \in DOMAIN new : new[k].id = c /\ Chat(new, c) = new[k]
  BY ChatFacts
<1>3. QED
  BY <1>1, <1>2 DEF Shows

\* A chat is one of the chats.
LEMMA ChatHolds ==
    ASSUME NEW ss \in Seq(Session), NEW n, NEW d, Static(ss, n, d), NEW c \in Ids(ss)
    PROVE  /\ Chat(ss, c) \in Session /\ Chat(ss, c).talk \in Seq(Exchange)
           /\ Chat(ss, c).talk # <<>> =>
                Chat(ss, c).model = Chat(ss, c).talk[Len(Chat(ss, c).talk)].model
<1>1. PICK i \in DOMAIN ss : ss[i].id = c /\ Chat(ss, c) = ss[i]
  BY ChatFacts
<1>2. QED
  BY <1>1, SessionFacts DEF Static

\* In a copy that is behind a chat is the same or an earlier one.
LEMMA BehindTalk ==
    ASSUME NEW old, NEW new, Behind(old, new), NEW c \in Ids(old) \cap Ids(new)
    PROVE  Later(Chat(old, c).talk, Chat(new, c).talk)
<1>1. PICK i \in DOMAIN old : old[i].id = c /\ Chat(old, c) = old[i]
  BY ChatFacts
<1>2. PICK k \in DOMAIN new : new[k].id = c /\ Chat(new, c) = new[k]
  BY ChatFacts
<1>3. QED
  BY <1>1, <1>2 DEF Behind

\* What a chat has shown stays, in its place, whatever streams into which chat: an answer goes
\* to the exchange with its number, numbers are never given twice, and only a question asked
\* when nothing is queued is put at the end of what the last render saw.  A reload shows the
\* stored copy, which is one the page had at one time, however many writes have failed since.
THEOREM ShownForGood == Spec => ShownStays
<1> DEFINE Stays == \A c \in Ids(seen.sessions) \cap Ids(seen'.sessions) :
          LET old == Chat(seen.sessions, c).talk
              new == Chat(seen'.sessions, c).talk
          IN \/ Later(old, new)
             \/ reloads' # reloads /\ stored.sessions # seen.sessions /\ Later(new, old)
<1>1. ASSUME SInv, [Next]_vars  PROVE Stays
  <2> SUFFICES ASSUME NEW c \in Ids(seen.sessions) \cap Ids(seen'.sessions),
                      NEW old, old = Chat(seen.sessions, c).talk,
                      NEW new, new = Chat(seen'.sessions, c).talk
               PROVE  \/ Later(old, new)
                      \/ reloads' # reloads /\ stored.sessions # seen.sessions /\ Later(new, old)
    OBVIOUS
  <2>1. SInv' /\ \/ Shows(seen.sessions, seen'.sessions, catalogue)
                 \/ Reload /\ seen'.sessions = stored.sessions
    BY <1>1, NextStored
  <2>2. /\ seen.sessions \in Seq(Session) /\ seen'.sessions \in Seq(Session)
        /\ Static(seen.sessions, chats, sends) /\ Static(seen'.sessions, chats', sends')
    BY <1>1, <2>1 DEF SInv, CInv, TypeOK
  <2>3. Chat(seen.sessions, c) \in Session /\ old \in Seq(Exchange)
    BY <2>2, ChatHolds
  <2>4. CASE Shows(seen.sessions, seen'.sessions, catalogue)
    <3>1. \/ GrownTalk(old, new)
          \/ Continued(Chat(seen.sessions, c), Chat(seen'.sessions, c), catalogue)
      BY <2>2, <2>4, TalkShown
    <3>2. Chat(seen'.sessions, c) \in Session
      <4>1. PICK k \in DOMAIN seen'.sessions : Chat(seen'.sessions, c) = seen'.sessions[k]
        BY ChatFacts
      <4>2. QED
        BY <2>2, <4>1, SessionFacts
    <3>3. QED
      BY <2>3, <3>1, <3>2, ShownLater
  <2>5. CASE Reload /\ seen'.sessions = stored.sessions
    <3>1. CASE stored.sessions = seen.sessions
      BY <2>3, <2>5, <3>1, LaterRefl
    <3>2. CASE stored.sessions # seen.sessions
      <4>1. /\ Behind(stored.sessions, seen.sessions)
            /\ c \in Ids(stored.sessions) \cap Ids(seen.sessions)
        BY <1>1, <2>5 DEF SInv
      <4>2. Later(new, old)
        BY <2>5, <4>1, BehindTalk
      <4>3. reloads' # reloads
        BY <1>1, <2>5, Bounds DEF SInv, CInv, TypeOK, Reload
      <4>4. QED
        BY <3>2, <4>2, <4>3
    <3>3. QED
      BY <3>1, <3>2
  <2>6. QED
    BY <2>1, <2>4, <2>5
<1>2. ShownStays <=> [][Stays]_vars
  BY DEF ShownStays
<1> HIDE DEF Stays
<1>3. SInv /\ [Next]_vars => SInv' /\ Stays
  BY <1>1, NextStored
<1>4. QED
  BY InitStored, <1>2, <1>3, PTL DEF Spec

\* A chat goes on with the model that answered last unless the gateway has lost it: a question
\* is put to the model of the page, and that is the model of the chat shown, which is the model
\* of the chat's last question.  A reload asks nothing: the copy it shows has no more questions.
THEOREM ModelKept == Spec => ChatKeepsModel
<1> DEFINE Keeps == \A c \in Ids(seen.sessions) \cap Ids(seen'.sessions) :
          LET old == Chat(seen.sessions, c).talk
              new == Chat(seen'.sessions, c).talk
          IN old # <<>> /\ Len(new) > Len(old) =>
                \/ new[Len(new)].model = old[Len(old)].model
                \/ old[Len(old)].model \notin catalogue
<1>1. ASSUME SInv, [Next]_vars  PROVE Keeps
  <2> SUFFICES ASSUME NEW c \in Ids(seen.sessions) \cap Ids(seen'.sessions),
                      NEW old, old = Chat(seen.sessions, c).talk,
                      NEW new, new = Chat(seen'.sessions, c).talk,
                      old # <<>>, Len(new) > Len(old)
               PROVE  \/ new[Len(new)].model = old[Len(old)].model
                      \/ old[Len(old)].model \notin catalogue
    OBVIOUS
  <2>1. SInv' /\ \/ Shows(seen.sessions, seen'.sessions, catalogue)
                 \/ Reload /\ seen'.sessions = stored.sessions
    BY <1>1, NextStored
  <2>2. /\ seen.sessions \in Seq(Session) /\ seen'.sessions \in Seq(Session)
        /\ Static(seen.sessions, chats, sends) /\ Behind(stored.sessions, seen.sessions)
    BY <1>1, <2>1 DEF SInv, CInv, TypeOK
  <2>3. old \in Seq(Exchange) /\ Chat(seen.sessions, c).model = old[Len(old)].model
    BY <2>2, ChatHolds
  <2>4. new \in Seq(Exchange)
    <3>1. PICK k \in DOMAIN seen'.sessions : Chat(seen'.sessions, c) = seen'.sessions[k]
      BY ChatFacts
    <3>2. QED
      BY <2>2, <3>1, SessionFacts
  <2>5. Len(old) \in Nat /\ Len(new) \in Nat
    BY <2>3, <2>4, LenProperties
  <2>6. CASE Reload /\ seen'.sessions = stored.sessions
    <3>1. Later(new, old)
      BY <2>2, <2>6, BehindTalk
    <3>2. QED
      BY <2>5, <3>1 DEF Later
  <2>7. CASE Shows(seen.sessions, seen'.sessions, catalogue)
    <3>1. ~ GrownTalk(old, new)
      BY <2>5 DEF GrownTalk
    <3>2. Continued(Chat(seen.sessions, c), Chat(seen'.sessions, c), catalogue)
      BY <2>2, <2>7, <3>1, TalkShown
    <3>3. PICK x : /\ Longer(old, x, new)
                   /\ \/ x.model = Chat(seen.sessions, c).model
                      \/ Chat(seen.sessions, c).model \notin catalogue
      BY <3>2 DEF Continued
    <3>4. new[Len(new)] = x
      BY <3>3 DEF Longer
    <3>5. QED
      BY <2>3, <3>3, <3>4
  <2>8. QED
    BY <2>1, <2>6, <2>7
<1>2. ChatKeepsModel <=> [][Keeps]_vars
  BY DEF ChatKeepsModel
<1> HIDE DEF Keeps
<1>3. SInv /\ [Next]_vars => SInv' /\ Keeps
  BY <1>1, NextStored
<1>4. QED
  BY InitStored, <1>2, <1>3, PTL DEF Spec
=============================================================================
