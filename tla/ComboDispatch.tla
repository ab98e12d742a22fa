--------------------------- MODULE ComboDispatch ---------------------------
(***************************************************************************)
(* A combo: one model name that stands for a list of models, tried one     *)
(* after the other (opensse/combo/fallback.go, roundrobin.go, reorder.go)  *)
(* by the chat handler's single-model runner (handlers/chat.go).           *)
(*                                                                         *)
(* Requests run concurrently and share the rotation of the round-robin     *)
(* strategy.  Each has its own response writer, on which the models it     *)
(* tries write one after the other.  What a model's accounts answer is     *)
(* the business of AccountFallback; here each attempt ends in any of the   *)
(* ways a request of that module ends.                                     *)
(*                                                                         *)
(* A combo may list a model more than once: lists, rotation and loop are   *)
(* of entries, not of model names.                                         *)
(***************************************************************************)
EXTENDS Integers, SequencesExt, FiniteSetsExt, Functions

CONSTANTS
    Requests,       \* requests for the combo served at a time
    Captured,       \* those of POST /v1/api/chat, written to a captureWriter, no http.Flusher
    Models,
    Combo,          \* the combo's models, in configuration order, repeats included
    Adapters,       \* the capacity adapter's models, those of the combo left out
    Contents,       \* what a request may hold: plain text, an image, a file...
    Able,           \* the models with every capability a content calls for
    StickyLimit,    \* comboStickyRoundRobinLimit
    MaxRotations    \* bound: how often GetRotatedModels may rotate

ASSUME ComboAssumption ==
    /\ Captured \subseteq Requests
    /\ Combo \in Seq(Models) /\ Combo # <<>>
    /\ Adapters \in Seq(Models)
    /\ Able \in [Contents -> SUBSET Models]
    /\ StickyLimit \in Int
    /\ MaxRotations \in Nat

\* The entries of the combo, then those of the adapter, are numbered from 1.
OwnEntries == [i \in 1..Len(Combo) |-> i]
AdapterEntries == [i \in 1..Len(Adapters) |-> Len(Combo) + i]
Entries == 1..(Len(Combo) + Len(Adapters))
NoEntry == 0

\* The entries whose model has every capability c calls for
AbleEntries(c) == {e \in Entries : (Combo \o Adapters)[e] \in Able[c]}

VARIABLES
    index, useCount,    \* rotationState of the combo, under rotMu
    pc,         \* "idle", "try" or "done"
    stream,     \* the request asks for a stream
    content,    \* what it holds
    order,      \* the entries still to be tried, in order
    status,     \* the status of the response
    body,       \* what was written, in order
    result,     \* the error SingleModel or runSequential returned: "nil" or "error"
    leads,      \* history: how often the rotation put each entry first
    adapted,    \* history: the capacity adapter has lengthened a list
    tried       \* history: the entries the request has tried

rotation == <<index, useCount, leads, adapted>>
request == <<stream, content>>
vars == <<rotation, pc, request, order, status, body, result, tried>>

Pieces == [from : Entries \cup {NoEntry}, what : {"answer", "error"}]
AnswerOf(e) == [from |-> e, what |-> "answer"]
ErrorOf(e) == [from |-> e, what |-> "error"]
ModelError == 400           \* stands for each status handleWithFallback fails with
AllModelsFailed == ErrorOf(NoEntry)     \* the combo's own error

\* The status before any is written: none on a live writer, 200 on a captured one
NoStatus(r) == IF r \in Captured THEN 200 ELSE 0

Limit == IF StickyLimit <= 0 THEN 1 ELSE StickyLimit

TypeOK ==
    /\ index \in 0..(Len(Combo) + Len(Adapters) - 1)
    /\ useCount \in 0..(Limit - 1)
    /\ pc \in [Requests -> {"idle", "try", "done"}]
    /\ stream \in [Requests -> BOOLEAN]
    /\ content \in [Requests -> Contents]
    /\ order \in [Requests -> Seq(Entries)]
    /\ status \in [Requests -> {0, 200, ModelError, 502}]
    /\ body \in [Requests -> Seq(Pieces)]
    /\ result \in [Requests -> {"none", "nil", "error"}]
    /\ leads \in [Entries -> Nat]
    /\ adapted \in BOOLEAN
    /\ tried \in [Requests -> SUBSET Entries]

Init ==
    /\ index = 0 /\ useCount = 0
    /\ pc = [r \in Requests |-> "idle"]
    /\ stream = [r \in Requests |-> FALSE]
    /\ content \in [Requests -> Contents]
    /\ order = [r \in Requests |-> <<>>]
    /\ status = [r \in Requests |-> NoStatus(r)]
    /\ body = [r \in Requests |-> <<>>]
    /\ result = [r \in Requests |-> "none"]
    /\ leads = [e \in Entries |-> 0]
    /\ adapted = FALSE
    /\ tried = [r \in Requests |-> {}]

-----------------------------------------------------------------------------
(* The order of the models.                                                *)

\* The elements of s that are in S, in order
Selected(s, S) ==
    LET f[i \in 0..Len(s)] ==
            IF i = 0 THEN <<>> ELSE IF s[i] \in S THEN Append(f[i - 1], s[i]) ELSE f[i - 1]
    IN  f[Len(s)]

\* AugmentModelsWithCapacityAdapter: able models are put before a combo that has none.
Augmented(c) ==
    IF Range(OwnEntries) \cap AbleEntries(c) = {}
    THEN Selected(AdapterEntries, AbleEntries(c)) \o OwnEntries
    ELSE OwnEntries

\* rotateFromIndex, the index taken modulo the length of this request's list
Rotated(list) ==
    LET i == index % Len(list)
    IN  SubSeq(list, i + 1, Len(list)) \o SubSeq(list, 1, i)

\* ReorderForCapabilities: a stable sort, the able models first.
AbleFirst(c, list) ==
    Selected(list, AbleEntries(c)) \o Selected(list, Entries \ AbleEntries(c))

\* Mutant of NextUse: the turn is one request too long.
NextUseLate(len) ==
    IF useCount >= Limit
    THEN index' = ((index % len) + 1) % len /\ useCount' = 0
    ELSE index' = index /\ useCount' = useCount + 1

\* Mutant of NextUse: the count goes on when the rotation does.
NextUseKeepsCount(len) ==
    /\ useCount' = (useCount + 1) % Limit
    /\ index' = IF useCount = 0 THEN ((index % len) + 1) % len ELSE index

\* GetRotatedModels, under rotMu: the rotation moves on after Limit requests.
NextUse(len) ==
    IF useCount + 1 >= Limit
    THEN index' = ((index % len) + 1) % len /\ useCount' = 0
    ELSE index' = index /\ useCount' = useCount + 1

(* A request for the combo arrives: Execute of the two strategies, up to   *)
(* the end of PrepareModelsWithCapacityAdapter.                            *)
Start(r) ==
    /\ pc[r] # "try"
    /\ \E c \in Contents, b \in BOOLEAN :
        /\ content' = [content EXCEPT ![r] = c]
        /\ stream' = [stream EXCEPT ![r] = b]
        /\ LET list == Augmented(c)
           IN  \/ /\ order' = [order EXCEPT ![r] = AbleFirst(c, list)]      \* "fallback"
                  /\ UNCHANGED rotation
               \/ /\ Len(list) > 1                                           \* "round-robin"
                  /\ MapThenSumSet(LAMBDA e : leads[e], Entries) < MaxRotations
                  /\ order' = [order EXCEPT ![r] = AbleFirst(c, Rotated(list))]
                  /\ NextUse(Len(list))
                  /\ leads' = [leads EXCEPT ![Rotated(list)[1]] = @ + 1]
                  /\ adapted' = (adapted \/ list # OwnEntries)
    /\ pc' = [pc EXCEPT ![r] = "try"]
    /\ status' = [status EXCEPT ![r] = NoStatus(r)]
    /\ body' = [body EXCEPT ![r] = <<>>]
    /\ result' = [result EXCEPT ![r] = "none"]
    /\ tried' = [tried EXCEPT ![r] = {}]

-----------------------------------------------------------------------------
(* One model.                                                              *)

\* What runComboModel asks before it streams
Flushed(r) == stream[r] /\ r \notin Captured

\* net/http sends the first status, a later WriteHeader is ignored; captureWriter keeps
\* the last.
Write(r, s, piece) ==
    /\ status' = [status EXCEPT ![r] = IF r \in Captured \/ @ = 0 THEN s ELSE @]
    /\ body' = [body EXCEPT ![r] = Append(@, piece)]

Return(r, err) ==
    /\ pc' = [pc EXCEPT ![r] = "done"]
    /\ order' = [order EXCEPT ![r] = <<>>]
    /\ result' = [result EXCEPT ![r] = err]

\* Mutant of Skip: a model that failed gets another try when the client waits for a stream.
SkipToEnd(r) ==
    /\ order' = [order EXCEPT ![r] = IF stream[r] THEN Append(Tail(@), Head(@)) ELSE Tail(@)]
    /\ UNCHANGED <<pc, result>>

\* Mutant of Skip: two models are skipped.
SkipTwo(r) ==
    /\ order' = [order EXCEPT ![r] = IF Len(@) > 1 THEN Tail(Tail(@)) ELSE <<>>]
    /\ UNCHANGED <<pc, result>>

\* SingleModel returned an error: the loop goes on with the next model.
Skip(r) ==
    /\ order' = [order EXCEPT ![r] = Tail(@)]
    /\ UNCHANGED <<pc, result>>

\* SingleModel is called with the next entry.
Try(r) ==
    /\ pc[r] = "try" /\ order[r] # <<>>
    /\ tried' = [tried EXCEPT ![r] = @ \cup {Head(order[r])}]

\* A stream sets headers but no status (WriteSSEHeaders): a live writer then sends 200,
\* a captured one keeps what an earlier model set.
ModelAnswers(r) ==
    /\ Try(r)
    /\ Write(r, IF stream[r] /\ r \in Captured THEN status[r] ELSE 200, AnswerOf(Head(order[r])))
    /\ Return(r, "nil")
    /\ UNCHANGED <<rotation, request>>

\* Errors returned with nothing written: a name without a provider, and every error
\* of streamModel.  An empty name, which the loop passes over, comes to the same.
ModelFailsSilently(r) ==
    /\ Try(r)
    /\ Skip(r)
    /\ UNCHANGED <<rotation, request, status, body>>

\* Mutant of ModelFailsAloud: a stream is served by handleWithFallback on any writer.
ModelFailsAloudInStream(r) ==
    /\ Try(r)
    /\ Write(r, ModelError, ErrorOf(Head(order[r])))
    /\ Skip(r)
    /\ UNCHANGED <<rotation, request>>

\* handleWithFallback returns an error after writing it to the client: the upstream's
\* own, or the 503 of handleFallbackExhausted.  It serves every request but a stream on
\* a writer that can flush.
ModelFailsAloud(r) ==
    /\ Try(r) /\ ~ Flushed(r)
    /\ Write(r, ModelError, ErrorOf(Head(order[r])))
    /\ Skip(r)
    /\ UNCHANGED <<rotation, request>>

\* handleFallbackExhausted with nothing excluded writes an error and returns nil.
ModelHasNoAccount(r) ==
    /\ Try(r) /\ ~ Flushed(r)
    /\ Write(r, ModelError, ErrorOf(Head(order[r])))
    /\ Return(r, "nil")
    /\ UNCHANGED <<rotation, request>>

\* The loop of runSequential is over.
AllFailed(r) ==
    /\ pc[r] = "try" /\ order[r] = <<>>
    /\ Write(r, 502, AllModelsFailed)
    /\ Return(r, "error")
    /\ UNCHANGED <<rotation, request, tried>>

Serve(r) ==
    \/ ModelAnswers(r) \/ ModelFailsSilently(r) \/ ModelFailsAloud(r)
    \/ ModelHasNoAccount(r) \/ AllFailed(r)

Next == \E r \in Requests : Start(r) \/ Serve(r)

Spec == Init /\ [][Next]_vars

(* Every attempt with a model ends: AccountFallback shows that it does     *)
(* when the upstream calls do.                                             *)
FairSpec == Spec /\ \A r \in Requests : WF_vars(Serve(r))

-----------------------------------------------------------------------------
(* The hand-over of the rotation between concurrent requests: as long as   *)
(* the combo itself can serve every request, each entry leads Limit        *)
(* requests in a row, no two entries' shares ever differ by more, and only *)
(* the turn in progress is incomplete (GetRotatedModels).                  *)
FairLeads ==
    ~ adapted =>
        /\ \A e, f \in 1..Len(Combo) : leads[e] - leads[f] <= Limit
        /\ \A e \in 1..Len(Combo) : leads[e] % Limit = (IF e = index + 1 THEN useCount ELSE 0)

(* "RoundRobin rotates through models with a sticky limit", the comment on *)
(* RoundRobin: also when the capacity adapter lengthens the list of some   *)
(* requests, the combo's models keep taking turns, within one turn each.   *)
RotatesThroughModels ==
    \A e, f \in 1..Len(Combo) : leads[e] - leads[f] <= 2 * Limit

(* A combo gives up only after trying every entry of the request's list,   *)
(* and tries none twice, in whatever order rotation and reordering left    *)
(* them; a model listed twice is tried twice (runSequential).              *)
TriesEachOnce ==
    \A r \in Requests :
        /\ IsInjective(order[r]) /\ Range(order[r]) \cap tried[r] = {}
        /\ result[r] = "error" => tried[r] = Range(Augmented(content[r]))

\* Nothing follows an answer.
AnswerIsLast(r) ==
    \A i \in DOMAIN body[r] :
        body[r][i].what = "answer" => pc[r] = "done" /\ i = Len(body[r])

\* A stream on a live writer is one answer or one error.
StreamIsWhole(r) ==
    Flushed(r) =>
        /\ pc[r] # "done" => body[r] = <<>> /\ status[r] = 0
        /\ pc[r] = "done" =>
            \/ status[r] = 200 /\ \E e \in tried[r] : body[r] = <<AnswerOf(e)>>
            \/ status[r] = 502 /\ body[r] = <<AllModelsFailed>>

\* A captured response that is no stream has the status of how it ended.
StatusTells(r) ==
    r \in Captured /\ ~ stream[r] /\ pc[r] = "done" =>
        (status[r] = 200 <=> Last(body[r]).what = "answer")

(* Whatever failed before it, an answer ends its response, so no client    *)
(* gets two or an error after one; where errors may precede it, the status *)
(* tells how the response ended, unless net/http had sent one or a stream  *)
(* sets none (streamModel, handleWithFallback, captureWriter).             *)
OneAnswerAtMost ==
    \A r \in Requests : AnswerIsLast(r) /\ StreamIsWhole(r) /\ StatusTells(r)

(* Every request ends, after at most one attempt with each entry.          *)
EveryRequestEnds == \A r \in Requests : pc[r] = "try" ~> pc[r] = "done"

(* However the list was rotated, lengthened and reordered, the loop over it *)
(* keeps the combo's promise: one entry at a time, none twice, the end by   *)
(* the one asked last or, with none left, by the combo (runSequential).     *)
Contract == INSTANCE ComboContract WITH
    phase <- [r \in Requests |-> IF pc[r] = "try" THEN "open" ELSE pc[r]],
    left <- [r \in Requests |-> Range(order[r])],
    ender <- [r \in Requests |-> IF pc[r] = "done" THEN Last(body[r]).from ELSE NoEntry]
KeepsContract == Contract!Spec

(* What the comment on FallbackStrategy says, "tries models sequentially,  *)
(* skipping to next on error": a model that fails is skipped, so that the  *)
(* client gets the answer of the first model that has one, or the combo's  *)
(* error when every model failed.                                          *)
FailedModelsAreSkipped ==
    \A r \in Requests : pc[r] = "done" =>
        \/ \E e \in tried[r] : body[r] = <<AnswerOf(e)>>
        \/ body[r] = <<AllModelsFailed>> /\ tried[r] = Range(Augmented(content[r]))
=============================================================================
