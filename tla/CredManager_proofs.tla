------------------------ MODULE CredManager_proofs ------------------------
(***************************************************************************)
(* Proofs about CredManager for any callers, connections, retries, faults  *)
(* and number of tokens.                                                   *)
(***************************************************************************)
EXTENDS CredManager, TLAPS

USE CredAssumption

(* lockFor: two holders of one manager are at different connections.       *)
Exclusive ==
    \A p, q \in Callers : p # q /\ Holds(p) /\ Holds(q) /\ Manager(p) = Manager(q) =>
        call[p].conn # call[q].conn

\* A resolver of model lists neither locks nor writes; rows are read under the lock only.
Place(q) ==
    /\ q \in Listings => pc(q) \in InDedup \cup {"idle", "lookup"}
    /\ pc(q) \in {"lock", "quota"} => ~ call[q].reread

\* Whoever has the answer to a token is with the manager that exchanged it.
Answered(q) ==
    pc(q) \in {"flight", "persist", "stamp"} =>
        copy(q) < current /\ issuedTo[copy(q)] = Manager(q)

CachedByIssuer ==
    \A m \in Managers : \A t \in cached[m] : t < current /\ issuedTo[t] = m

(* What a caller knows is never ahead of its row, and when the row has      *)
(* moved on since it was read under the lock, the answer to the token read  *)
(* belongs to another manager - so that this call will not get it.          *)
NotAhead(q) ==
    pc(q) # "idle" /\ q \notin Listings =>
        /\ copy(q) <= row[call[q].conn] /\ call[q].given <= row[call[q].conn]
        /\ pc(q) = "stamp" => copy(q) < row[call[q].conn]

Overtaken(q) ==
    /\ pc(q) \in InDedup \cup {"lookup", "persist"} /\ q \notin Listings
    /\ call[q].reread /\ copy(q) < row[call[q].conn]
    => issuedTo[copy(q)] # Manager(q)

Issued ==
    /\ \A c \in Conns : row[c] <= current
    /\ \A q \in Callers : copy(q) <= current /\ call[q].given <= current

IInv ==
    /\ TypeOK
    /\ Exclusive
    /\ OneLeader
    /\ Issued
    /\ CachedByIssuer
    /\ \A q \in Callers : Place(q) /\ Answered(q)
    /\ ~ strayed => \A q \in Callers : NotAhead(q) /\ Overtaken(q)

LEMMA NoCallType ==
    /\ NoCall.conn \in Conns
    /\ NoCall = Idle(NoCall.conn)
    /\ NoCall \in [pc : {"idle"}, conn : Conns, given : {0}, copy : {0},
                   reread : {FALSE}, forced : {FALSE}, tries : {0}]
<1>0. PICK c : c \in Conns OBVIOUS
<1>1. (CHOOSE d \in Conns : TRUE) \in Conns BY <1>0
<1>. QED BY <1>1 DEF NoCall, Idle

LEMMA InitInv == Init => IInv
<1>. SUFFICES ASSUME Init PROVE IInv
  OBVIOUS
<1>. USE DEF Init
<1>1. 0 \in Tokens /\ 0 \in 0..MaxRetryAttempts BY DEF Tokens
<1>2. TypeOK
  <2>1. call \in [Callers -> [pc : {"idle"}, conn : Conns, given : {0}, copy : {0},
                              reread : {FALSE}, forced : {FALSE}, tries : {0}]]
    BY NoCallType
  <2>. QED BY <1>1, <2>1 DEF TypeOK, Waiting
<1>3. \A q \in Callers : pc(q) = "idle" /\ copy(q) = 0 /\ call[q].given = 0
  BY NoCallType DEF pc, copy, Idle
<1>4. Exclusive BY <1>3 DEF Exclusive, Holds, Waiting
<1>5. OneLeader BY <1>3 DEF OneLeader, InDedup
<1>6. Issued BY <1>3 DEF Issued
<1>7. CachedByIssuer BY DEF CachedByIssuer
<1>8. \A q \in Callers : Place(q) /\ Answered(q) /\ NotAhead(q) /\ Overtaken(q)
  BY <1>3 DEF Place, Answered, NotAhead, Overtaken, InDedup
<1>. QED BY <1>2, <1>4, <1>5, <1>6, <1>7, <1>8 DEF IInv

-----------------------------------------------------------------------------
(* Steps that change one caller's record and nothing of the provider.       *)

LEMMA CallType ==
    ASSUME TypeOK, NEW q \in Callers
    PROVE  /\ call[q].pc \in Waiting \cup InDedup \cup {"lookup", "persist", "stamp"}
           /\ call[q].conn \in Conns /\ call[q].given \in Tokens /\ call[q].copy \in Tokens
           /\ call[q].reread \in BOOLEAN /\ call[q].forced \in BOOLEAN
           /\ call[q].tries \in 0..MaxRetryAttempts
BY DEF TypeOK

\* A caller that neither holds a lock nor refreshes afterwards, with tokens it may know.
LEMMA ReturnInv ==
    ASSUME IInv, NEW q \in Callers, NEW r, pc(q) \notin InDedup,
           call' = [call EXCEPT ![q] = r],
           UNCHANGED <<row, provider, horizon, cached, strayed>>,
           r \in [pc : Waiting, conn : Conns, given : Tokens, copy : Tokens,
                  reread : BOOLEAN, forced : BOOLEAN, tries : 0..MaxRetryAttempts],
           r.copy <= current, r.given <= current,
           r.pc # "idle" => q \notin Listings, ~ r.reread,
           ~ strayed /\ r.pc # "idle" => r.copy <= row[r.conn] /\ r.given <= row[r.conn]
    PROVE  IInv'
<1>. USE DEF IInv, pc, copy, provider
<1>1. /\ call'[q] = r
      /\ \A p \in Callers \ {q} : call'[p] = call[p]
  BY DEF TypeOK
<1>2. TypeOK' BY DEF TypeOK
<1>3. Exclusive' BY <1>1 DEF Exclusive, Holds
<1>4. OneLeader'
  <2>1. r.pc \notin InDedup BY DEF Waiting, InDedup
  <2>2. \A p \in Callers : p # q => Together(p)' = Together(p)
    BY <1>1, <2>1 DEF Together
  <2>. QED BY <1>1, <2>1, <2>2 DEF OneLeader, Together
<1>5. Issued' BY <1>1 DEF Issued
<1>6. CachedByIssuer' BY DEF CachedByIssuer
<1>7. ASSUME NEW p \in Callers PROVE Place(p)' /\ Answered(p)'
  BY <1>1 DEF Place, Answered, Waiting
<1>8. ASSUME ~ strayed', NEW p \in Callers PROVE NotAhead(p)' /\ Overtaken(p)'
  BY <1>1, <1>8 DEF NotAhead, Overtaken, Waiting, InDedup
<1>. QED BY <1>2, <1>3, <1>4, <1>5, <1>6, <1>7, <1>8

CallRecord ==
    [pc : Waiting \cup InDedup \cup {"lookup", "persist", "stamp"},
     conn : Conns, given : Tokens, copy : Tokens,
     reread : BOOLEAN, forced : BOOLEAN, tries : 0..MaxRetryAttempts]

LEMMA FrameInv ==
    ASSUME IInv, NEW q \in Callers, NEW r \in CallRecord,
           call' = [call EXCEPT ![q] = r],
           UNCHANGED <<row, provider, horizon, cached, strayed>>,
           r.copy <= current, r.given <= current,
           \A p \in Callers \ {q} :
                q \notin Listings /\ r.pc \notin Waiting /\ Holds(p) /\ Manager(p) = Manager(q) =>
                    call[p].conn # r.conn,
           Place(q)', Answered(q)', strayed \/ (NotAhead(q)' /\ Overtaken(q)'), OneLeader'
    PROVE  IInv'
<1>. USE DEF IInv, pc, copy, provider
<1>1. /\ call'[q] = r
      /\ \A p \in Callers \ {q} : call'[p] = call[p]
  BY DEF TypeOK
<1>2. TypeOK' BY DEF TypeOK, CallRecord
<1>3. Exclusive' BY <1>1 DEF Exclusive, Holds
<1>5. Issued' BY <1>1 DEF Issued
<1>6. CachedByIssuer' BY DEF CachedByIssuer
<1>7. ASSUME NEW p \in Callers PROVE Place(p)' /\ Answered(p)'
  BY <1>1 DEF Place, Answered
<1>8. ASSUME ~ strayed', NEW p \in Callers PROVE NotAhead(p)' /\ Overtaken(p)'
  BY <1>1, <1>8 DEF NotAhead, Overtaken
<1>. QED BY <1>2, <1>3, <1>5, <1>6, <1>7, <1>8

\* Steps outside the dedup group leave its groups alone.
LEMMA OutsideLeader ==
    ASSUME IInv, NEW q \in Callers, pc(q) \notin InDedup, NEW r, r.pc \notin InDedup,
           call' = [call EXCEPT ![q] = r]
    PROVE  OneLeader'
<1>. USE DEF IInv, pc, copy
<1>1. /\ call'[q] = r
      /\ \A p \in Callers \ {q} : call'[p] = call[p]
  BY DEF TypeOK
<1>2. \A p \in Callers : p # q => Together(p)' = Together(p)
  BY <1>1 DEF Together
<1>. QED BY <1>1, <1>2 DEF OneLeader, Together

\* The record a call returns with.
LEMMA ReturnedRecord ==
    ASSUME IInv, NEW q \in Callers, NEW t \in Tokens, t <= current,
           ~ strayed /\ q \notin Listings => t <= row[call[q].conn]
    PROVE  LET r == Returned(q, t)
           IN  /\ r \in [pc : Waiting, conn : Conns, given : Tokens, copy : Tokens,
                          reread : BOOLEAN, forced : BOOLEAN, tries : 0..MaxRetryAttempts]
               /\ r.copy <= current /\ r.given <= current
               /\ (r.pc # "idle" => q \notin Listings) /\ ~ r.reread
               /\ ~ r.reread
               /\ ~ strayed /\ r.pc # "idle" => r.copy <= row[r.conn] /\ r.given <= row[r.conn]
<1>1. 0 \in Tokens /\ 0 \in 0..MaxRetryAttempts /\ current \in Nat BY DEF Tokens, IInv, TypeOK
<1>2. CASE q \in Usages /\ ~ call[q].forced
  <2>. DEFINE r == [call[q] EXCEPT !.pc = "quota", !.given = t, !.copy = t,
                                   !.reread = FALSE, !.tries = 0]
  <2>1. Returned(q, t) = r BY <1>2 DEF Returned
  <2>2. /\ r.pc = "quota" /\ r.given = t /\ r.copy = t /\ r.conn = call[q].conn
        /\ ~ r.reread
        /\ r \in [pc : Waiting, conn : Conns, given : Tokens, copy : Tokens,
                   reread : BOOLEAN, forced : BOOLEAN, tries : 0..MaxRetryAttempts]
    BY <1>1, CallType DEF IInv, TypeOK, Waiting
  <2>3. q \notin Listings BY <1>2
  <2>. HIDE DEF r
  <2>. QED BY <2>1, <2>2, <2>3
<1>3. CASE ~ (q \in Usages /\ ~ call[q].forced)
  <2>1. Returned(q, t) = NoCall BY <1>3 DEF Returned
  <2>2. NoCall.pc = "idle" /\ NoCall.copy = 0 /\ NoCall.given = 0 /\ ~ NoCall.reread
    BY NoCallType
  <2>3. NoCall \in [pc : Waiting, conn : Conns, given : Tokens, copy : Tokens,
                    reread : BOOLEAN, forced : BOOLEAN, tries : 0..MaxRetryAttempts]
    BY <1>1, NoCallType DEF Waiting
  <2>. QED BY <1>1, <2>1, <2>2, <2>3
<1>. QED BY <1>2, <1>3

LEMMA ReturnStep ==
    ASSUME IInv, NEW q \in Callers, pc(q) \notin InDedup, NEW t \in Tokens, t <= current,
           ~ strayed /\ q \notin Listings => t <= row[call[q].conn],
           Return(q, t),
           UNCHANGED <<row, provider, horizon, cached, strayed>>
    PROVE  IInv'
<1>. DEFINE r == Returned(q, t)
<1>1. call' = [call EXCEPT ![q] = r] BY DEF Return
<1>2. /\ r \in [pc : Waiting, conn : Conns, given : Tokens, copy : Tokens,
                 reread : BOOLEAN, forced : BOOLEAN, tries : 0..MaxRetryAttempts]
      /\ r.copy <= current /\ r.given <= current
      /\ (r.pc # "idle" => q \notin Listings) /\ ~ r.reread
      /\ ~ strayed /\ r.pc # "idle" => r.copy <= row[r.conn] /\ r.given <= row[r.conn]
  BY ReturnedRecord
<1>. HIDE DEF r
<1>. QED BY <1>1, <1>2, ReturnInv

\* An error returns what the caller gave.
LEMMA FailStep ==
    ASSUME IInv, NEW q \in Callers, pc(q) \in {"persist", "stamp"}, Fail(q),
           UNCHANGED <<row, provider, horizon, cached, strayed>>
    PROVE  IInv'
<1>1. /\ call[q].given \in Tokens /\ call[q].given <= current
      /\ ~ strayed /\ q \notin Listings => call[q].given <= row[call[q].conn]
  BY CallType DEF IInv, Issued, NotAhead
<1>2. pc(q) \notin InDedup BY DEF InDedup
<1>. QED BY <1>1, <1>2, ReturnStep DEF Fail

-----------------------------------------------------------------------------
(* The actions.                                                            *)

LEMMA BeginInv == ASSUME IInv, NEW q \in Callers, Begin(q) PROVE IInv'
<1>. USE DEF IInv
<1>1. PICK c \in Conns :
        call' = [call EXCEPT ![q] = [NoCall EXCEPT
            !.conn = c, !.given = row[c], !.copy = row[c],
            !.pc = IF q \in Listings THEN "lookup" ELSE IF Due(row[c]) THEN "lock" ELSE "quota"]]
  BY DEF Begin
<1>. DEFINE r == [NoCall EXCEPT
            !.conn = c, !.given = row[c], !.copy = row[c],
            !.pc = IF q \in Listings THEN "lookup" ELSE IF Due(row[c]) THEN "lock" ELSE "quota"]
<1>2. /\ r \in CallRecord
      /\ r.copy = row[c] /\ r.given = row[c] /\ r.conn = c /\ ~ r.reread
      /\ r.pc \in {"lookup", "lock", "quota"} /\ (r.pc = "lookup" <=> q \in Listings)
  <2>1. row[c] \in Tokens BY DEF TypeOK
  <2>2. 0 \in 0..MaxRetryAttempts OBVIOUS
  <2>. QED BY <2>1, <2>2, NoCallType DEF CallRecord, Waiting
<1>3. call' = [call EXCEPT ![q] = r] BY <1>1
<1>. HIDE DEF r
<1>4. pc(q) = "idle" /\ UNCHANGED <<row, provider, horizon, cached, strayed>> BY DEF Begin
<1>5. call'[q] = r BY <1>3 DEF TypeOK
<1>6. row[c] <= current BY DEF Issued
<1>7. OneLeader' BY <1>2, <1>3, <1>4, OutsideLeader DEF InDedup
<1>8. Place(q)' /\ Answered(q)' BY <1>2, <1>5 DEF Place, Answered, pc, InDedup
<1>9. NotAhead(q)' /\ Overtaken(q)'
  <2>1. row[c] \in Nat BY DEF TypeOK, Tokens
  <2>. QED BY <1>2, <1>4, <1>5, <2>1 DEF NotAhead, Overtaken, pc, copy, InDedup
<1>. QED BY <1>2, <1>3, <1>4, <1>6, <1>7, <1>8, <1>9, FrameInv DEF Waiting

\* Taking the lock and reading the row, or going on with the copy.
LEMMA EnterInv == ASSUME IInv, NEW q \in Callers, Enter(q) PROVE IInv'
<1>. USE DEF IInv
<1>1. /\ pc(q) = "lock" /\ ~ Locked(q)
      /\ UNCHANGED <<row, provider, horizon, cached, strayed>>
  BY DEF Enter, EnterIfNeeded, EnterBlindly
<1>2. q \notin Listings BY <1>1 DEF Place, InDedup
<1>3. ASSUME NEW t \in Tokens, NEW b \in BOOLEAN,
             call' = [call EXCEPT ![q] = [call[q] EXCEPT !.pc = "lookup", !.copy = t, !.reread = b]],
             t = row[call[q].conn] \/ (t = copy(q) /\ b = call[q].reread)
      PROVE  IInv'
  <2>. DEFINE r == [call[q] EXCEPT !.pc = "lookup", !.copy = t, !.reread = b]
  <2>1. /\ r \in CallRecord /\ r.pc = "lookup" /\ r.copy = t /\ r.given = call[q].given
        /\ r.conn = call[q].conn /\ r.reread = b
    BY <1>3, CallType DEF CallRecord, TypeOK
  <2>2. call' = [call EXCEPT ![q] = r] BY <1>3
  <2>. HIDE DEF r
  <2>3. call'[q] = r BY <2>2 DEF TypeOK
  <2>4. t <= current /\ call[q].given <= current BY <1>3, CallType DEF Issued
  <2>5. OneLeader' BY <1>1, <2>1, <2>2, OutsideLeader DEF InDedup
  <2>6. Place(q)' /\ Answered(q)' BY <2>1, <2>3 DEF Place, Answered, pc, InDedup
  <2>7. ASSUME ~ strayed PROVE NotAhead(q)' /\ Overtaken(q)'
    <3>1. row[call[q].conn] \in Nat BY CallType DEF TypeOK, Tokens
    <3>2. t <= row[call[q].conn] /\ call[q].given <= row[call[q].conn]
      BY <1>1, <1>2, <1>3, <2>7, <3>1 DEF NotAhead
    <3>3. CASE t = row[call[q].conn]
      BY <1>1, <2>1, <2>3, <3>1, <3>2, <3>3 DEF NotAhead, Overtaken, pc, copy
    <3>4. CASE t = copy(q) /\ b = call[q].reread
      BY <1>1, <2>1, <2>3, <3>1, <3>2, <3>4 DEF Place, NotAhead, Overtaken, pc, copy
    <3>. QED BY <1>3, <3>3, <3>4
  <2>8. \A p \in Callers \ {q} : Holds(p) /\ Manager(p) = Manager(q) => call[p].conn # r.conn
    BY <1>1, <2>1 DEF Locked
  <2>. QED BY <1>1, <2>1, <2>2, <2>4, <2>5, <2>6, <2>7, <2>8, FrameInv
<1>4. CASE EnterIfNeeded(q)
  <2>. DEFINE t == row[call[q].conn]
  <2>1. t \in Tokens /\ t <= current BY CallType DEF TypeOK, Issued
  <2>2. Reread(q).copy = t BY CallType DEF Reread
  <2>3. CASE Due(t)
    <3>1. call' = [call EXCEPT ![q] = [Reread(q) EXCEPT !.pc = "lookup"]]
      BY <1>4, <2>2, <2>3 DEF EnterIfNeeded
    <3>2. [Reread(q) EXCEPT !.pc = "lookup"]
            = [call[q] EXCEPT !.pc = "lookup", !.copy = t, !.reread = TRUE]
      BY CallType DEF Reread, TypeOK
    <3>. QED BY <1>3, <2>1, <3>1, <3>2
  <2>4. CASE ~ Due(t)
    <3>1. Return(q, t) BY <1>4, <2>2, <2>4 DEF EnterIfNeeded
    <3>2. t <= row[call[q].conn] BY <2>1 DEF Tokens
    <3>. QED BY <1>1, <2>1, <3>1, <3>2, ReturnStep DEF InDedup
  <2>. QED BY <2>3, <2>4
<1>5. CASE EnterBlindly(q)
  <2>1. call' = [call EXCEPT ![q].pc = "lookup"] BY <1>5 DEF EnterBlindly, Goto
  <2>2. call[q] = [call[q] EXCEPT !.copy = copy(q), !.reread = call[q].reread]
    BY CallType DEF copy, TypeOK
  <2>3. call' = [call EXCEPT ![q] =
                    [call[q] EXCEPT !.pc = "lookup", !.copy = copy(q), !.reread = call[q].reread]]
    BY <2>1, <2>2 DEF TypeOK
  <2>. QED BY <1>3, <2>3, CallType DEF copy
<1>. QED BY <1>4, <1>5 DEF Enter

LEMMA QuotaInv == ASSUME IInv, NEW q \in Callers, Quota(q) PROVE IInv'
<1>. USE DEF IInv
<1>1. /\ pc(q) = "quota" /\ UNCHANGED <<row, provider, horizon, cached, strayed>>
  BY DEF Quota
<1>2. CASE call' = [call EXCEPT ![q] = NoCall]
  <2>1. 0 \in Tokens /\ 0 \in 0..MaxRetryAttempts /\ 0 <= current BY DEF Tokens, TypeOK
  <2>. QED BY <1>1, <1>2, <2>1, NoCallType, ReturnInv DEF InDedup, Waiting
<1>3. CASE call' = [call EXCEPT ![q].pc = "lock", ![q].forced = TRUE]
  <2>. DEFINE r == [call[q] EXCEPT !.pc = "lock", !.forced = TRUE]
  <2>1. call' = [call EXCEPT ![q] = r] BY <1>3 DEF TypeOK
  <2>2. /\ r.pc = "lock" /\ r.conn = call[q].conn /\ r.given = call[q].given
        /\ r.copy = call[q].copy /\ r.reread = call[q].reread
        /\ r \in [pc : Waiting, conn : Conns, given : Tokens, copy : Tokens,
                   reread : BOOLEAN, forced : BOOLEAN, tries : 0..MaxRetryAttempts]
    BY CallType DEF Waiting, TypeOK
  <2>. HIDE DEF r
  <2>3. r.copy <= current /\ r.given <= current BY <2>2 DEF Issued, copy
  <2>4. q \notin Listings /\ ~ r.reread BY <1>1, <2>2 DEF Place, InDedup
  <2>5. ~ strayed => r.copy <= row[r.conn] /\ r.given <= row[r.conn]
    BY <1>1, <2>2, <2>4 DEF NotAhead, copy
  <2>. QED BY <1>1, <2>1, <2>2, <2>3, <2>4, <2>5, ReturnInv DEF InDedup
<1>. QED BY <1>2, <1>3 DEF Quota

LEMMA StampInv == ASSUME IInv, NEW q \in Callers, Stamp(q) PROVE IInv'
<1>1. pc(q) = "stamp" /\ UNCHANGED <<row, provider, horizon, cached, strayed>> BY DEF Stamp
<1>2. CASE Return(q, copy(q) + 1)
  <2>1. copy(q) < current /\ copy(q) \in Nat /\ current \in Tokens
    BY <1>1, CallType DEF IInv, Answered, copy, Tokens, TypeOK
  <2>2. copy(q) + 1 \in Tokens /\ copy(q) + 1 <= current BY <2>1 DEF Tokens
  <2>3. row[call[q].conn] \in Nat BY CallType DEF IInv, TypeOK, Tokens
  <2>4. ~ strayed /\ q \notin Listings => copy(q) + 1 <= row[call[q].conn]
    BY <1>1, <2>1, <2>3 DEF IInv, NotAhead
  <2>. QED BY <1>1, <1>2, <2>2, <2>4, ReturnStep DEF InDedup
<1>3. CASE Fail(q) BY <1>1, <1>3, FailStep
<1>. QED BY <1>2, <1>3 DEF Stamp

\* A group with a leader stays one when a caller joins it, and a caller alone leads.
LEMMA LookupInv == ASSUME IInv, NEW q \in Callers, Lookup(q) PROVE IInv'
<1>. USE DEF IInv
<1>1. pc(q) = "lookup" /\ UNCHANGED <<row, provider, horizon, cached, strayed>> BY DEF Lookup
<1>2. ASSUME NEW l \in {"wait", "send", "persist"}, NEW n \in 0..MaxRetryAttempts,
             call' = [call EXCEPT ![q] = [call[q] EXCEPT !.pc = l, !.tries = n]],
             l = "wait" => Together(q) # {}, l = "send" => Together(q) = {},
             l = "persist" => copy(q) \in cached[Manager(q)] /\ q \notin Listings
      PROVE  IInv'
  <2>. DEFINE r == [call[q] EXCEPT !.pc = l, !.tries = n]
  <2>1. /\ r \in CallRecord /\ r.pc = l /\ r.copy = copy(q) /\ r.given = call[q].given
        /\ r.conn = call[q].conn /\ r.reread = call[q].reread
    BY <1>2, CallType DEF CallRecord, TypeOK, copy, InDedup
  <2>2. call' = [call EXCEPT ![q] = r] BY <1>2
  <2>. HIDE DEF r
  <2>3. call'[q] = r /\ \A p \in Callers \ {q} : call'[p] = call[p] BY <2>2 DEF TypeOK
  <2>4. r.copy <= current /\ r.given <= current BY <2>1 DEF Issued
  <2>5. OneLeader'
    <3>1. CASE l = "persist" BY <1>1, <2>1, <2>2, <3>1, OutsideLeader DEF InDedup
    <3>2. CASE l # "persist"
      <4>1. Together(q)' = Together(q) \cup {q}
        BY <1>1, <1>2, <2>1, <2>3, <3>2 DEF Together, InDedup, pc, copy
      <4>2. \A p \in Callers \ {q} :
                pc(p) \in InDedup /\ p \notin Together(q)' => Together(p)' = Together(p)
        BY <1>1, <1>2, <2>1, <2>3, <3>2 DEF Together, InDedup, pc, copy
      <4>3. \A p \in Together(q)' : Together(p)' = Together(q)' BY DEF Together
      <4>4. \A p \in Together(q) : Together(p) = Together(q) BY DEF Together
      <4>5. \E p \in Together(q)' : \A o \in Together(q)' : pc(o)' # "wait" <=> o = p
        <5>1. CASE l = "send"
          BY <1>2, <2>1, <2>3, <4>1, <5>1 DEF pc
        <5>2. CASE l = "wait"
          <6>1. PICK p0 \in Together(q) : TRUE BY <1>2, <5>2
          <6>2. p0 \in Callers /\ pc(p0) \in InDedup BY <6>1 DEF Together
          <6>3. PICK p \in Together(q) : \A o \in Together(q) : pc(o) # "wait" <=> o = p
            BY <4>4, <6>1, <6>2 DEF OneLeader
          <6>4. q \notin Together(q) BY <1>1 DEF Together, InDedup
          <6>5. \A o \in Together(q) : o \in Callers \ {q} BY <6>4 DEF Together
          <6>6. \A o \in Together(q) : pc(o)' = pc(o) BY <2>3, <6>5 DEF pc
          <6>7. pc(q)' = "wait" BY <2>1, <2>3, <5>2 DEF pc
          <6>. QED BY <4>1, <6>3, <6>4, <6>6, <6>7
        <5>. QED BY <1>2, <3>2, <5>1, <5>2
      <4>6. ASSUME NEW p \in Callers, pc(p)' \in InDedup
            PROVE  \E x \in Together(p)' : \A o \in Together(p)' : pc(o)' # "wait" <=> o = x
        <5>1. CASE p \in Together(q)' BY <4>3, <4>5, <5>1
        <5>2. CASE p \notin Together(q)'
          <6>1. p # q BY <4>1, <5>2
          <6>2. pc(p) \in InDedup BY <2>3, <4>6, <6>1 DEF pc, InDedup
          <6>2a. Together(p)' = Together(p) BY <4>2, <5>2, <6>1, <6>2
          <6>3. PICK x \in Together(p) : \A o \in Together(p) : pc(o) # "wait" <=> o = x
            BY <6>2 DEF OneLeader
          <6>4. \A o \in Together(p) : o \in Callers /\ o # q
            BY <1>1 DEF Together, InDedup
          <6>. QED BY <2>3, <6>2a, <6>3, <6>4 DEF pc
        <5>. QED BY <5>1, <5>2
      <4>. QED BY <4>6 DEF OneLeader
    <3>. QED BY <3>1, <3>2
  <2>6. Place(q)' /\ Answered(q)'
    <3>1. Place(q)' BY <1>1, <1>2, <2>1, <2>3 DEF Place, pc, InDedup
    <3>2. ASSUME l = "persist" PROVE copy(q) < current /\ issuedTo[copy(q)] = Manager(q)
      <4>1. Manager(q) \in Managers BY DEF Manager, Managers
      <4>. QED BY <1>2, <3>2, <4>1 DEF CachedByIssuer
    <3>. QED BY <1>1, <1>2, <2>1, <2>3, <3>1, <3>2 DEF Answered, pc, copy, provider
  <2>7. ASSUME ~ strayed PROVE NotAhead(q)' /\ Overtaken(q)'
    BY <1>1, <1>2, <2>1, <2>3, <2>7 DEF NotAhead, Overtaken, pc, copy, provider, InDedup
  <2>8. \A p \in Callers \ {q} :
            q \notin Listings /\ Holds(p) /\ Manager(p) = Manager(q) => call[p].conn # r.conn
    BY <1>1, <2>1 DEF Exclusive, Holds, Waiting
  <2>. QED BY <1>1, <2>1, <2>2, <2>4, <2>5, <2>6, <2>7, <2>8, FrameInv
<1>3. /\ call[q].tries \in 0..MaxRetryAttempts /\ 0 \in 0..MaxRetryAttempts
      /\ \A l \in {"wait", "send"} :
            [call[q] EXCEPT !.pc = l] = [call[q] EXCEPT !.pc = l, !.tries = call[q].tries]
  <2>1. call[q].tries \in 0..MaxRetryAttempts /\ 0 \in 0..MaxRetryAttempts BY CallType
  <2>2. [call[q] EXCEPT !.pc = "wait"] = [call[q] EXCEPT !.pc = "wait", !.tries = call[q].tries]
    BY DEF TypeOK
  <2>3. [call[q] EXCEPT !.pc = "send"] = [call[q] EXCEPT !.pc = "send", !.tries = call[q].tries]
    BY DEF TypeOK
  <2>. QED BY <2>1, <2>2, <2>3
<1>4. CASE Joins(q)
  <2>1. call' = [call EXCEPT ![q] = [call[q] EXCEPT !.pc = "wait", !.tries = call[q].tries]]
    BY <1>3, <1>4 DEF Lookup, TypeOK
  <2>. QED BY <1>2, <1>3, <1>4, <2>1 DEF Joins
<1>5. CASE ~ Joins(q) /\ copy(q) \notin cached[Manager(q)]
  <2>1. call' = [call EXCEPT ![q] = [call[q] EXCEPT !.pc = "send", !.tries = call[q].tries]]
    BY <1>3, <1>5 DEF Lookup, TypeOK
  <2>. QED BY <1>2, <1>3, <1>5, <2>1 DEF Joins
<1>6. CASE ~ Joins(q) /\ copy(q) \in cached[Manager(q)] /\ q \notin Listings
  <2>1. call' = [call EXCEPT ![q] = [call[q] EXCEPT !.pc = "persist", !.tries = 0]]
    BY <1>6 DEF Lookup, Obtained, TypeOK
  <2>. QED BY <1>2, <1>3, <1>6, <2>1
<1>7. CASE ~ Joins(q) /\ copy(q) \in cached[Manager(q)] /\ q \in Listings
  <2>1. call' = [call EXCEPT ![q] = NoCall] BY <1>7 DEF Lookup, Obtained, TypeOK
  <2>2. 0 \in Tokens /\ 0 \in 0..MaxRetryAttempts /\ 0 <= current BY DEF Tokens, TypeOK
  <2>. QED BY <1>1, <2>1, <2>2, NoCallType, ReturnInv DEF InDedup, Waiting
<1>. QED BY <1>4, <1>5, <1>6, <1>7

\* The leader of a group stays its leader while it tries.
LEMMA SameLeader ==
    ASSUME IInv, NEW q \in Callers, NEW r \in CallRecord,
           pc(q) \in {"send", "flight"}, r.pc \in {"send", "flight"}, r.copy = copy(q),
           call' = [call EXCEPT ![q] = r]
    PROVE  OneLeader'
<1>. USE DEF IInv, pc, copy
<1>1. /\ call'[q] = r
      /\ \A p \in Callers \ {q} : call'[p] = call[p]
  BY DEF TypeOK
<1>2. \A p \in Callers : Together(p)' = Together(p) BY <1>1 DEF Together, InDedup
<1>3. \A p \in Callers : (pc(p)' = "wait" <=> pc(p) = "wait") /\ (pc(p)' \in InDedup <=> pc(p) \in InDedup)
  BY <1>1 DEF InDedup
<1>4. \A p \in Callers : Together(p) \subseteq Callers BY DEF Together
<1>. QED BY <1>2, <1>3, <1>4 DEF OneLeader

LEMMA RetryInv ==
    ASSUME IInv, NEW q \in Callers, pc(q) \in {"send", "flight"},
           call[q].tries < MaxRetryAttempts,
           call' = [call EXCEPT ![q].pc = "send", ![q].tries = @ + 1],
           UNCHANGED <<row, provider, horizon, cached, strayed>>
    PROVE  IInv'
<1>. USE DEF IInv
<1>. DEFINE r == [call[q] EXCEPT !.pc = "send", !.tries = @ + 1]
<1>1. call' = [call EXCEPT ![q] = r] BY DEF TypeOK
<1>2. /\ r \in CallRecord /\ r.pc = "send" /\ r.copy = copy(q) /\ r.given = call[q].given
      /\ r.conn = call[q].conn /\ r.reread = call[q].reread
  BY CallType DEF CallRecord, TypeOK, copy, InDedup
<1>. HIDE DEF r
<1>3. call'[q] = r BY <1>1 DEF TypeOK
<1>4. r.copy <= current /\ r.given <= current BY <1>2 DEF Issued
<1>5. OneLeader'
  <2>1. IInv /\ pc(q) \in {"send", "flight"} /\ r.pc \in {"send", "flight"} /\ r.copy = copy(q)
    BY <1>2
  <2>. QED BY <1>1, <1>2, <2>1, SameLeader
<1>6. Place(q)' /\ Answered(q)' BY <1>2, <1>3 DEF Place, Answered, pc, InDedup
<1>7. ~ strayed => NotAhead(q)' /\ Overtaken(q)'
  BY <1>2, <1>3 DEF NotAhead, Overtaken, pc, copy, provider, InDedup
<1>8. \A p \in Callers \ {q} :
          q \notin Listings /\ Holds(p) /\ Manager(p) = Manager(q) => call[p].conn # r.conn
  BY <1>2 DEF Exclusive, Holds, Waiting
<1>. QED BY <1>1, <1>2, <1>4, <1>5, <1>6, <1>7, <1>8, FrameInv

\* The provider's latest token is in no row's past, and has no answer yet.
LEMMA IssueInv == ASSUME IInv, NEW q \in Callers, Issue(q) PROVE IInv'
<1>. USE DEF IInv
<1>1. /\ pc(q) = "send" /\ copy(q) = current /\ current < MaxIssued
      /\ current' = current + 1 /\ issuedTo' = [issuedTo EXCEPT ![current] = Manager(q)]
      /\ UNCHANGED <<row, horizon, cached, strayed>>
  BY DEF Issue
<1>. DEFINE r == [call[q] EXCEPT !.pc = "flight"]
<1>2. call' = [call EXCEPT ![q] = r] BY DEF Issue, Goto, TypeOK
<1>3. /\ r \in CallRecord /\ r.pc = "flight" /\ r.copy = copy(q) /\ r.given = call[q].given
      /\ r.conn = call[q].conn /\ r.reread = call[q].reread
  BY CallType DEF CallRecord, TypeOK, copy, InDedup
<1>. HIDE DEF r
<1>4. call'[q] = r /\ \A p \in Callers \ {q} : call'[p] = call[p] BY <1>2 DEF TypeOK
<1>5. current \in Nat /\ current + 1 \in Tokens BY <1>1 DEF TypeOK, Tokens
<1>6. Manager(q) \in Managers BY DEF Manager, Managers
<1>7. TypeOK' BY <1>1, <1>2, <1>3, <1>5, <1>6 DEF TypeOK, CallRecord
<1>8. Exclusive' BY <1>1, <1>3, <1>4 DEF Exclusive, Holds, pc, Waiting
<1>9. OneLeader'
  <2>1. IInv /\ pc(q) \in {"send", "flight"} /\ r.pc \in {"send", "flight"} /\ r.copy = copy(q)
    BY <1>1, <1>3
  <2>. QED BY <1>2, <1>3, <2>1, SameLeader
<1>10. Issued'
  <2>1. \A c \in Conns : row[c] \in Nat BY DEF TypeOK, Tokens
  <2>2. \A p \in Callers : copy(p) \in Nat /\ call[p].given \in Nat
    BY CallType DEF Tokens, copy
  <2>. QED BY <1>1, <1>3, <1>4, <1>5, <2>1, <2>2 DEF Issued, copy
<1>11. \A t \in Tokens : t < current => t < current' /\ issuedTo'[t] = issuedTo[t]
  BY <1>1, <1>5 DEF TypeOK, Tokens
<1>12. CachedByIssuer'
  <2>1. \A m \in Managers : cached[m] \subseteq Tokens BY DEF TypeOK, Tokens
  <2>. QED BY <1>1, <1>11, <2>1 DEF CachedByIssuer
<1>13. ASSUME NEW p \in Callers PROVE Place(p)' /\ Answered(p)'
  <2>1. CASE p = q
    <3>1. issuedTo'[current] = Manager(q) BY <1>1, <1>5 DEF TypeOK
    <3>. QED BY <1>1, <1>3, <1>4, <1>5, <2>1, <3>1 DEF Place, Answered, pc, copy, InDedup
  <2>2. CASE p # q
    <3>1. copy(p) \in Tokens BY CallType DEF copy
    <3>. QED BY <1>4, <1>11, <2>2, <3>1 DEF Place, Answered, pc, copy
  <2>. QED BY <2>1, <2>2
<1>14. ASSUME ~ strayed', NEW p \in Callers PROVE NotAhead(p)' /\ Overtaken(p)'
  <2>1. copy(p) \in Tokens /\ copy(p) \in Nat BY CallType DEF copy, Tokens
  <2>2. row[call[p].conn] <= current /\ row[call[p].conn] \in Nat
    BY CallType DEF Issued, TypeOK, Tokens
  <2>3. copy(p)' = copy(p) /\ call'[p].conn = call[p].conn /\ call'[p].given = call[p].given
        /\ call'[p].reread = call[p].reread
    BY <1>3, <1>4 DEF copy
  <2>4. NotAhead(p)' BY <1>1, <1>3, <1>4, <1>14, <2>3 DEF NotAhead, pc
  <2>5. copy(p) < row[call[p].conn] => issuedTo'[copy(p)] = issuedTo[copy(p)]
    BY <1>5, <1>11, <2>1, <2>2
  <2>6. Overtaken(p)' BY <1>1, <1>3, <1>4, <1>14, <2>3, <2>5 DEF Overtaken, pc, InDedup
  <2>. QED BY <2>4, <2>6
<1>. QED BY <1>7, <1>8, <1>9, <1>10, <1>12, <1>13, <1>14

(* A pair persisted is as new as the row: a caller that read the row under  *)
(* its lock got the answer itself, so that nobody has overtaken it, and the *)
(* others that are about to write to this row belong to other managers.     *)
LEMMA PersistInv ==
    ASSUME IInv, NEW q \in Callers, Persist(q)
    PROVE  IInv' /\ \A c \in Conns : row'[c] < row[c] => strayed'
<1>. USE DEF IInv
<1>1. pc(q) = "persist" /\ UNCHANGED <<provider, horizon, cached>> BY DEF Persist
<1>2. \A c \in Conns : row[c] \in Nat BY DEF TypeOK, Tokens
<1>3. CASE "write" \in Faults /\ Fail(q) /\ UNCHANGED <<row, strayed>>
  BY <1>1, <1>2, <1>3, FailStep
<1>4. ASSUME row' = [row EXCEPT ![call[q].conn] = copy(q) + 1],
             strayed' = (strayed \/ (~ call[q].reread /\ copy(q) + 1 < row[call[q].conn])),
             Goto(q, "stamp")
      PROVE  IInv' /\ \A c \in Conns : row'[c] < row[c] => strayed'
  <2>. DEFINE r == [call[q] EXCEPT !.pc = "stamp"]
              k == call[q].conn
  <2>1. call' = [call EXCEPT ![q] = r] BY <1>4 DEF Goto, TypeOK
  <2>2. /\ r \in CallRecord /\ r.pc = "stamp" /\ r.copy = copy(q) /\ r.given = call[q].given
        /\ r.conn = k /\ r.reread = call[q].reread
    BY CallType DEF CallRecord, TypeOK, copy
  <2>. HIDE DEF r
  <2>3. call'[q] = r /\ \A p \in Callers \ {q} : call'[p] = call[p] BY <2>1 DEF TypeOK
  <2>4. /\ k \in Conns /\ copy(q) \in Nat /\ copy(q) < current /\ current \in Tokens
        /\ issuedTo[copy(q)] = Manager(q) /\ q \notin Listings
    <3>1. k \in Conns /\ copy(q) \in Nat BY CallType DEF Tokens, copy
    <3>2. current \in Tokens BY DEF TypeOK
    <3>3. copy(q) < current /\ issuedTo[copy(q)] = Manager(q) BY <1>1 DEF Answered
    <3>4. q \notin Listings BY <1>1 DEF Place, InDedup
    <3>. QED BY <3>1, <3>2, <3>3, <3>4
  <2>5. row'[k] = copy(q) + 1 /\ \A c \in Conns \ {k} : row'[c] = row[c]
    BY <1>4, <2>4 DEF TypeOK
  <2>6. copy(q) + 1 \in Tokens /\ copy(q) + 1 <= current BY <2>4 DEF Tokens
  <2>7. ~ strayed' => row[k] <= copy(q) + 1
    <3>1. SUFFICES ASSUME ~ strayed' PROVE row[k] <= copy(q) + 1
      OBVIOUS
    <3>2. ~ strayed /\ (call[q].reread \/ ~ (copy(q) + 1 < row[k])) BY <1>4, <3>1
    <3>3. call[q].reread => ~ (copy(q) < row[k])
      BY <1>1, <2>4, <3>2 DEF Overtaken
    <3>. QED BY <1>2, <2>4, <3>2, <3>3
  <2>8. \A c \in Conns : row'[c] < row[c] => strayed'
    BY <1>2, <2>4, <2>5, <2>7
  <2>9. strayed' \in BOOLEAN /\ (~ strayed' => ~ strayed) BY <1>4 DEF TypeOK
  <2>10. TypeOK'
    <3>1. row' \in [Conns -> Tokens] BY <1>4, <2>6 DEF TypeOK
    <3>. QED BY <1>1, <2>1, <2>2, <2>9, <3>1 DEF TypeOK, CallRecord, provider
  <2>11. Exclusive' BY <1>1, <2>2, <2>3 DEF Exclusive, Holds, pc, Waiting
  <2>12. OneLeader' BY <1>1, <2>1, <2>2, OutsideLeader DEF InDedup
  <2>13. Issued'
    BY <1>1, <2>2, <2>3, <2>4, <2>5, <2>6 DEF Issued, copy, provider
  <2>14. CachedByIssuer' BY <1>1 DEF CachedByIssuer, provider
  <2>15. ASSUME NEW p \in Callers PROVE Place(p)' /\ Answered(p)'
    BY <1>1, <2>2, <2>3, <2>4 DEF Place, Answered, pc, copy, provider, InDedup
  <2>16. ASSUME ~ strayed', NEW p \in Callers PROVE NotAhead(p)' /\ Overtaken(p)'
    <3>1. /\ copy(p)' = copy(p) /\ call'[p].conn = call[p].conn
          /\ call'[p].given = call[p].given /\ call'[p].reread = call[p].reread
          /\ copy(p) \in Nat /\ call[p].given \in Nat /\ call[p].conn \in Conns
      BY <2>2, <2>3, CallType DEF copy, Tokens
    <3>2. row[call[p].conn] <= row'[call[p].conn]
      BY <1>2, <2>5, <2>7, <2>16, <3>1
    <3>3. NotAhead(p) /\ Overtaken(p) BY <2>9, <2>16
    <3>4. row[call[p].conn] \in Nat /\ row'[call[p].conn] \in Nat
      BY <1>2, <2>4, <2>5, <3>1
    <3>5. CASE p = q
      BY <1>1, <2>2, <2>3, <2>4, <2>5, <3>1, <3>2, <3>3, <3>4, <3>5
      DEF NotAhead, Overtaken, pc, InDedup
    <3>6. CASE p # q
      <4>1. pc(p)' = pc(p) BY <2>3, <3>6 DEF pc
      <4>2. NotAhead(p)' BY <3>1, <3>2, <3>3, <3>4, <4>1 DEF NotAhead
      <4>3. ASSUME pc(p) \in InDedup \cup {"lookup", "persist"}, p \notin Listings,
                   call[p].reread, copy(p) < row'[call[p].conn]
            PROVE  issuedTo'[copy(p)] # Manager(p)
        <5>1. CASE copy(p) < row[call[p].conn]
          BY <1>1, <3>3, <4>3, <5>1 DEF Overtaken, provider
        <5>2. CASE ~ (copy(p) < row[call[p].conn])
          <6>1. call[p].conn = k BY <2>5, <3>1, <4>3, <5>2
          <6>2. copy(q) <= row[k] BY <1>1, <2>4, <2>9, <2>16 DEF NotAhead
          <6>3. copy(p) = copy(q) BY <1>2, <2>4, <2>5, <3>1, <4>3, <5>2, <6>1, <6>2
          <6>4. Holds(p) /\ Holds(q) BY <1>1, <2>4, <4>3 DEF Holds, Waiting, InDedup
          <6>5. Manager(p) # Manager(q) BY <3>6, <6>1, <6>4 DEF Exclusive
          <6>. QED BY <1>1, <2>4, <6>3, <6>5 DEF provider
        <5>. QED BY <5>1, <5>2
      <4>. QED BY <3>1, <4>1, <4>2, <4>3 DEF Overtaken
    <3>. QED BY <3>5, <3>6
  <2>. QED BY <2>8, <2>10, <2>11, <2>12, <2>13, <2>14, <2>15, <2>16
<1>. QED BY <1>3, <1>4 DEF Persist

\* The whole group leaves, each caller with the answer or the error.
LEMMA CompleteInv ==
    ASSUME IInv, NEW q \in Callers, NEW ok \in BOOLEAN, Complete(q, ok),
           pc(q) \in InDedup, ok => pc(q) = "flight",
           UNCHANGED <<row, provider, horizon, strayed>>,
           cached' = IF ok THEN [cached EXCEPT ![Manager(q)] = @ \cup {copy(q)}] ELSE cached
    PROVE  IInv'
<1>. USE DEF IInv
<1>1. 0 \in Tokens /\ 0 \in 0..MaxRetryAttempts /\ 0 <= current BY DEF Tokens, TypeOK
<1>2. \A p \in Callers : p \notin Together(q) => call'[p] = call[p] BY DEF Complete
<1>3. ASSUME NEW p \in Together(q)
      PROVE  /\ p \in Callers /\ pc(p) \in InDedup /\ Manager(p) = Manager(q) /\ copy(p) = copy(q)
             /\ call'[p] = IF ok THEN Obtained(p) ELSE Returned(p, call[p].given)
  BY DEF Together, Complete
<1>4. ok => copy(q) < current /\ issuedTo[copy(q)] = Manager(q) BY DEF Answered
<1>5. ASSUME NEW p \in Together(q)
      PROVE  \/ /\ ok /\ p \notin Listings
                /\ call'[p] = [call[p] EXCEPT !.pc = "persist", !.tries = 0]
             \/ /\ call'[p] \in [pc : Waiting, conn : Conns, given : Tokens, copy : Tokens,
                                  reread : BOOLEAN, forced : BOOLEAN, tries : 0..MaxRetryAttempts]
                /\ call'[p].copy <= current /\ call'[p].given <= current
                /\ (call'[p].pc # "idle" => p \notin Listings) /\ ~ call'[p].reread
                /\ ~ strayed /\ call'[p].pc # "idle" =>
                     call'[p].copy <= row[call'[p].conn] /\ call'[p].given <= row[call'[p].conn]
  <2>1. CASE ok /\ p \notin Listings BY <1>3, <2>1 DEF Obtained
  <2>2. CASE ok /\ p \in Listings
    <3>1. call'[p] = NoCall BY <1>3, <2>2 DEF Obtained
    <3>. QED BY <1>1, <3>1, NoCallType DEF Waiting
  <2>3. CASE ~ ok
    <3>1. p \in Callers /\ call'[p] = Returned(p, call[p].given) BY <1>3, <2>3
    <3>2. call[p].given \in Tokens /\ call[p].given <= current BY <3>1, CallType DEF Issued
    <3>3. ~ strayed /\ p \notin Listings => call[p].given <= row[call[p].conn]
      BY <1>3, <3>1 DEF NotAhead, InDedup
    <3>. QED BY <3>1, <3>2, <3>3, ReturnedRecord
  <2>. QED BY <2>1, <2>2, <2>3
\* What became of each caller.
<1>6. ASSUME NEW p \in Callers
      PROVE  \/ p \notin Together(q) /\ call'[p] = call[p]
             \/ /\ p \in Together(q) /\ ok /\ p \notin Listings
                /\ call'[p] \in CallRecord /\ call'[p].pc = "persist"
                /\ call'[p].conn = call[p].conn /\ call'[p].copy = call[p].copy
                /\ call'[p].given = call[p].given /\ call'[p].reread = call[p].reread
             \/ /\ p \in Together(q)
                /\ call'[p] \in CallRecord /\ call'[p].pc \in Waiting
                /\ call'[p].copy <= current /\ call'[p].given <= current
                /\ (call'[p].pc # "idle" => p \notin Listings) /\ ~ call'[p].reread
                /\ ~ strayed /\ call'[p].pc # "idle" =>
                     call'[p].copy <= row[call'[p].conn] /\ call'[p].given <= row[call'[p].conn]
  <2>1. CASE p \notin Together(q) BY <1>2, <2>1
  <2>2. CASE p \in Together(q) /\ ok /\ p \notin Listings
             /\ call'[p] = [call[p] EXCEPT !.pc = "persist", !.tries = 0]
    <3>1. call[p] \in CallRecord BY DEF TypeOK, CallRecord
    <3>2. /\ call'[p] \in CallRecord /\ call'[p].pc = "persist"
          /\ call'[p].conn = call[p].conn /\ call'[p].copy = call[p].copy
          /\ call'[p].given = call[p].given /\ call'[p].reread = call[p].reread
      BY <1>1, <2>2, <3>1 DEF CallRecord
    <3>. QED BY <2>2, <3>2
  <2>3. CASE /\ p \in Together(q)
             /\ ~ (ok /\ p \notin Listings /\ call'[p] = [call[p] EXCEPT !.pc = "persist", !.tries = 0])
    BY <2>3, <1>5 DEF CallRecord
  <2>. QED BY <2>1, <2>2, <2>3
<1>7. TypeOK'
  <2>1. \A p \in Callers : call'[p] \in CallRecord
    BY <1>6 DEF TypeOK, CallRecord
  <2>2. call' \in [Callers -> CallRecord] BY <2>1 DEF Complete
  <2>3. cached' \in [Managers -> SUBSET (0..(MaxIssued - 1))]
    <3>1. ok => copy(q) \in 0..(MaxIssued - 1)
      BY <1>4, CallType DEF TypeOK, Tokens, copy
    <3>2. Manager(q) \in Managers BY DEF Manager, Managers
    <3>. QED BY <3>1, <3>2 DEF TypeOK
  <2>. QED BY <2>2, <2>3 DEF TypeOK, CallRecord, provider
<1>8. Exclusive'
  <2>1. ASSUME NEW p \in Callers, Holds(p)' PROVE Holds(p) /\ call'[p].conn = call[p].conn
    BY <1>3, <1>6, <2>1 DEF Holds, pc, InDedup, Waiting
  <2>. QED BY <2>1 DEF Exclusive
<1>9. OneLeader'
  <2>1. ASSUME NEW p \in Callers, pc(p)' \in InDedup
        PROVE  p \notin Together(q) /\ call'[p] = call[p]
    BY <1>6, <2>1 DEF pc, InDedup, Waiting
  <2>2. ASSUME NEW p \in Callers, pc(p)' \in InDedup PROVE Together(p)' = Together(p)
    <3>1. p \notin Together(q) /\ call'[p] = call[p] /\ pc(p) \in InDedup
      BY <2>1, <2>2 DEF pc
    <3>2. \A o \in Together(p) : o \notin Together(q) BY <3>1 DEF Together
    <3>3. \A o \in Together(p) : call'[o] = call[o] BY <1>2, <3>2 DEF Together
    <3>4. \A o \in Together(p)' : call'[o] = call[o] BY <2>1 DEF Together
    <3>. QED BY <3>1, <3>3, <3>4 DEF Together, pc, copy
  <2>3. ASSUME NEW p \in Callers, pc(p)' \in InDedup
        PROVE  \E x \in Together(p)' : \A o \in Together(p)' : pc(o)' # "wait" <=> o = x
    <3>1. pc(p) \in InDedup /\ Together(p)' = Together(p) BY <2>1, <2>2, <2>3 DEF pc
    <3>2. \A o \in Together(p)' : pc(o)' = pc(o) BY <2>1 DEF Together, pc
    <3>. QED BY <3>1, <3>2 DEF OneLeader
  <2>. QED BY <2>3 DEF OneLeader
<1>10. Issued' BY <1>6 DEF Issued, copy, provider
<1>11. CachedByIssuer'
  <2>1. Manager(q) \in Managers BY DEF Manager, Managers
  <2>. QED BY <1>4, <2>1 DEF CachedByIssuer, TypeOK, provider
<1>12. ASSUME NEW p \in Callers PROVE Place(p)' /\ Answered(p)'
  <2>1. Place(p)' BY <1>6 DEF Place, pc, InDedup, Waiting
  <2>2. Answered(p)' BY <1>3, <1>4, <1>6 DEF Answered, pc, copy, provider, Waiting
  <2>. QED BY <2>1, <2>2
<1>13. ASSUME ~ strayed', NEW p \in Callers PROVE NotAhead(p)' /\ Overtaken(p)'
  <2>1. NotAhead(p) /\ Overtaken(p) BY <1>13
  <2>2. p \in Together(q) => pc(p) \in InDedup BY <1>3
  <2>. QED BY <1>6, <1>13, <2>1, <2>2
       DEF NotAhead, Overtaken, pc, copy, provider, InDedup, Waiting
<1>. QED BY <1>7, <1>8, <1>9, <1>10, <1>11, <1>12, <1>13

LEMMA FailedInv ==
    ASSUME IInv, NEW q \in Callers, pc(q) \in {"send", "flight"}, AttemptFailed(q),
           UNCHANGED <<row, provider, horizon, cached, strayed>>
    PROVE  IInv'
<1>1. CASE /\ call[q].tries < MaxRetryAttempts
           /\ call' = [call EXCEPT ![q].pc = "send", ![q].tries = @ + 1]
  BY <1>1, RetryInv
<1>2. CASE Complete(q, FALSE)
  <2>1. pc(q) \in InDedup BY DEF InDedup
  <2>2. FALSE \in BOOLEAN OBVIOUS
  <2>. QED BY <1>2, <2>1, <2>2, CompleteInv
<1>. QED BY <1>1, <1>2 DEF AttemptFailed

LEMMA ReplyInv == ASSUME IInv, NEW q \in Callers, Reply(q) PROVE IInv'
<1>1. /\ pc(q) = "flight" /\ Complete(q, TRUE)
      /\ UNCHANGED <<row, provider, horizon, strayed>>
      /\ cached' = IF TRUE THEN [cached EXCEPT ![Manager(q)] = @ \cup {copy(q)}] ELSE cached
  BY DEF Reply
<1>2. pc(q) \in InDedup /\ TRUE \in BOOLEAN BY <1>1 DEF InDedup
<1>. QED BY <1>1, <1>2, CompleteInv

-----------------------------------------------------------------------------
(* The steps of no caller.                                                 *)

\* What no caller's record is about.
LEMMA CallersUntouched ==
    ASSUME IInv, UNCHANGED <<row, provider, call, strayed>>, TypeOK', CachedByIssuer'
    PROVE  IInv'
BY DEF IInv, provider, Exclusive, Holds, OneLeader, Together, Issued, Place, Answered,
       NotAhead, Overtaken, pc, copy

LEMMA ForgetInv == ASSUME IInv, NEW m \in Managers, NEW t \in Tokens, Forget(m, t) PROVE IInv'
<1>1. /\ cached' = [cached EXCEPT ![m] = @ \ {t}]
      /\ UNCHANGED <<row, provider, horizon, call, strayed>>
  BY DEF Forget
<1>2. TypeOK' BY <1>1 DEF IInv, TypeOK, provider
<1>3. CachedByIssuer' BY <1>1 DEF IInv, TypeOK, CachedByIssuer, provider
<1>. QED BY <1>1, <1>2, <1>3, CallersUntouched

LEMMA TickInv == ASSUME IInv, Tick PROVE IInv'
<1>1. /\ horizon < current /\ horizon' = horizon + 1
      /\ UNCHANGED <<row, provider, cached, call, strayed>>
  BY DEF Tick
<1>2. horizon' \in Tokens BY <1>1 DEF IInv, TypeOK, Tokens
<1>3. TypeOK' BY <1>1, <1>2 DEF IInv, TypeOK, provider
<1>4. CachedByIssuer' BY <1>1 DEF IInv, CachedByIssuer, provider
<1>. QED BY <1>1, <1>3, <1>4, CallersUntouched

LEMMA RestartInv == ASSUME IInv, Restart PROVE IInv'
<1>. USE DEF IInv
<1>1. /\ cached' = [m \in Managers |-> {}] /\ call' = [q \in Callers |-> NoCall]
      /\ UNCHANGED <<row, provider, horizon, strayed>>
  BY DEF Restart
<1>2. 0 \in Tokens /\ 0 \in 0..MaxRetryAttempts /\ 0 <= current BY DEF Tokens, TypeOK
<1>3. NoCall \in CallRecord /\ NoCall.pc = "idle" /\ NoCall.copy = 0 /\ NoCall.given = 0
  BY <1>2, NoCallType DEF CallRecord, Waiting
<1>4. \A p \in Callers : pc(p)' = "idle" /\ copy(p)' = 0 /\ call'[p].given = 0
  BY <1>1, <1>3 DEF pc, copy
<1>5. TypeOK' BY <1>1, <1>3 DEF TypeOK, CallRecord, provider
<1>6. Exclusive' BY <1>4 DEF Exclusive, Holds, Waiting
<1>7. OneLeader' BY <1>4 DEF OneLeader, InDedup
<1>8. Issued' BY <1>1, <1>2, <1>4 DEF Issued, provider
<1>9. CachedByIssuer' BY <1>1 DEF CachedByIssuer, provider
<1>10. \A p \in Callers : Place(p)' /\ Answered(p)' /\ NotAhead(p)' /\ Overtaken(p)'
  BY <1>4 DEF Place, Answered, NotAhead, Overtaken, InDedup
<1>. QED BY <1>5, <1>6, <1>7, <1>8, <1>9, <1>10

-----------------------------------------------------------------------------
(* One step per action.  Only Persist writes a row.                        *)
LEMMA NextInv ==
    ASSUME IInv, [Next]_vars
    PROVE  IInv' /\ [\A c \in Conns : row'[c] < row[c] => strayed']_vars
<1>1. \A c \in Conns : row[c] \in Nat BY DEF IInv, TypeOK, Tokens
<1>2. CASE UNCHANGED vars
  <2>1. UNCHANGED <<row, provider, call, strayed, cached, horizon>> BY <1>2 DEF vars
  <2>2. TypeOK' BY <2>1 DEF IInv, TypeOK, provider
  <2>3. CachedByIssuer' BY <2>1 DEF IInv, CachedByIssuer, provider
  <2>. QED BY <1>2, <2>1, <2>2, <2>3, CallersUntouched
<1>3. ASSUME NEW q \in Callers, Persist(q)
      PROVE  IInv' /\ \A c \in Conns : row'[c] < row[c] => strayed'
  BY <1>3, PersistInv
<1>4. ASSUME IInv', row' = row
      PROVE  IInv' /\ \A c \in Conns : row'[c] < row[c] => strayed'
  BY <1>1, <1>4
<1>5. ASSUME NEW q \in Callers, Begin(q) PROVE IInv' /\ row' = row
  BY <1>5, BeginInv DEF Begin
<1>6. ASSUME NEW q \in Callers, Enter(q) PROVE IInv' /\ row' = row
  BY <1>6, EnterInv DEF Enter, EnterIfNeeded, EnterBlindly
<1>7. ASSUME NEW q \in Callers, Lookup(q) PROVE IInv' /\ row' = row
  BY <1>7, LookupInv DEF Lookup
<1>8. ASSUME NEW q \in Callers, Issue(q) PROVE IInv' /\ row' = row
  BY <1>8, IssueInv DEF Issue
<1>9. ASSUME NEW q \in Callers, Reject(q) \/ LoseReply(q) PROVE IInv' /\ row' = row
  BY <1>9, FailedInv DEF Reject, LoseReply
<1>10. ASSUME NEW q \in Callers, Reply(q) PROVE IInv' /\ row' = row
  BY <1>10, ReplyInv DEF Reply
<1>11. ASSUME NEW q \in Callers, Stamp(q) PROVE IInv' /\ row' = row
  BY <1>11, StampInv DEF Stamp
<1>12. ASSUME NEW q \in Callers, Quota(q) PROVE IInv' /\ row' = row
  BY <1>12, QuotaInv DEF Quota
<1>13. ASSUME NEW m \in Managers, NEW t \in Tokens, Forget(m, t) PROVE IInv' /\ row' = row
  BY <1>13, ForgetInv DEF Forget
<1>14. ASSUME Tick PROVE IInv' /\ row' = row BY <1>14, TickInv DEF Tick
<1>15. ASSUME Restart PROVE IInv' /\ row' = row BY <1>15, RestartInv DEF Restart
<1>. QED
  BY <1>2, <1>3, <1>4, <1>5, <1>6, <1>7, <1>8, <1>9, <1>10, <1>11, <1>12, <1>13, <1>14, <1>15
  DEF Next, Proceed

LEMMA Invariance == Spec => []IInv
<1>1. Init => IInv BY InitInv
<1>2. IInv /\ [Next]_vars => IInv' BY NextInv
<1>. QED BY <1>1, <1>2, PTL DEF Spec

(* The caches, calls and rows hold what the code may put there.            *)
THEOREM TypeCorrect == Spec => []TypeOK
<1>1. IInv => TypeOK BY DEF IInv
<1>. QED BY <1>1, Invariance, PTL

(* However many callers refresh one token by one manager, one of them is at *)
(* the provider and all others have a leader to wait for (DedupGroup.Do).   *)
THEOREM SingleFlight == Spec => []OneLeader
<1>1. IInv => OneLeader BY DEF IInv
<1>. QED BY <1>1, Invariance, PTL

(* No number of managers, callers, retries or faults makes executeRefresh   *)
(* replace a pair by an older one, but for a call that did not read the row *)
(* under its lock.                                                          *)
THEOREM RowsDoNotGoBack == Spec => NeverBack
<1>1. IInv /\ [Next]_vars => [\A c \in Conns : row'[c] < row[c] => strayed']_vars BY NextInv
<1>. QED BY <1>1, Invariance, PTL DEF Spec, NeverBack
=============================================================================
