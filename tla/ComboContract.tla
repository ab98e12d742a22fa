--------------------------- MODULE ComboContract ---------------------------
(***************************************************************************)
(* What a combo promises, whatever its strategy: it asks the models at the *)
(* entries of a list, one entry at a time and none twice, the one it asked *)
(* last ends the request, and it gives up only when none is left.          *)
(* Rotation, reordering, the capacity adapter and streams are nobody's     *)
(* business here; ComboDispatch implements this.                           *)
(***************************************************************************)
CONSTANTS
    Requests, Entries,
    NoEntry         \* the combo's own error ends the request

VARIABLES
    phase,      \* "idle", "open" or "done"
    left,       \* the entries of the request that were not asked yet
    ender       \* the entry that ended it

vars == <<phase, left, ender>>

Init ==
    /\ phase = [r \in Requests |-> "idle"]
    /\ left = [r \in Requests |-> {}]
    /\ ender = [r \in Requests |-> NoEntry]

Open(r) ==
    /\ phase[r] # "open"
    /\ \E S \in (SUBSET Entries) \ {{}} : left' = [left EXCEPT ![r] = S]
    /\ phase' = [phase EXCEPT ![r] = "open"]
    /\ ender' = [ender EXCEPT ![r] = NoEntry]

Close(r, e) ==
    /\ phase' = [phase EXCEPT ![r] = "done"]
    /\ left' = [left EXCEPT ![r] = {}]
    /\ ender' = [ender EXCEPT ![r] = e]

AskNext(r, e) ==
    /\ phase[r] = "open" /\ e \in left[r]
    /\ \/ Close(r, e)
       \/ left' = [left EXCEPT ![r] = @ \ {e}] /\ UNCHANGED <<phase, ender>>

GiveUp(r) ==
    /\ phase[r] = "open" /\ left[r] = {}
    /\ Close(r, NoEntry)

Next == \E r \in Requests : Open(r) \/ GiveUp(r) \/ \E e \in Entries : AskNext(r, e)

Spec == Init /\ [][Next]_vars
=============================================================================
