------------------------- MODULE Supervisor_proofs -------------------------
(***************************************************************************)
(* Proofs about Supervisor for any number of processes and watchdogs.      *)
(***************************************************************************)
EXTENDS Supervisor, TLAPS

USE SupervisorAssumption

\* The manager's process is the last that was started: a start finds no process of the manager,
\* or replaces it, and what else is to be waited for was there before.
Latest ==
    \A p, o \in Procs : cmd = p /\ o # p /\ proc[o] # "free" => o \in earlier[p]

Unwatched == kind \notin Watched => \A d \in Dogs : dog[d].pc = "none"

IInv == TypeOK /\ OneWatchdog /\ Unwatched /\ Latest /\ Managed

Dog == [pc : {"none", "select", "check"}, seen : BOOLEAN, told : BOOLEAN]

LEMMA InitInv == Init => IInv
<1>. SUFFICES ASSUME Init PROVE IInv
  OBVIOUS
<1>. USE DEF Init
<1>1. NoDog \in Dog /\ NoDog.pc = "none" BY DEF NoDog, Dog
<1>2. TypeOK BY <1>1 DEF TypeOK, Dog
<1>3. OneWatchdog /\ Unwatched BY <1>1 DEF OneWatchdog, Unwatched
<1>4. Latest /\ Managed BY DEF Latest, Managed
<1>. QED BY <1>2, <1>3, <1>4 DEF IInv

\* A watchdog's own steps change neither the channel nor who has been told.
LEMMA DogStep ==
    ASSUME IInv, NEW d \in Dogs, NEW r \in Dog, dog[d].pc # "none", r.pc # "none",
           r.told = dog[d].told, dog' = [dog EXCEPT ![d] = r],
           UNCHANGED <<kind, proc, cmd, wantRun, stopWatch, restarting, past>>
    PROVE  IInv'
<1>. USE DEF IInv
<1>1. dog'[d] = r /\ \A e \in Dogs \ {d} : dog'[e] = dog[e] BY DEF TypeOK
<1>2. TypeOK' BY DEF TypeOK, Dog, past
<1>3. OneWatchdog' BY <1>1 DEF OneWatchdog
<1>4. Unwatched' BY <1>1 DEF Unwatched
<1>5. Latest' /\ Managed' BY DEF Latest, Managed, past
<1>. QED BY <1>2, <1>3, <1>4, <1>5

\* ensureWatchdogLocked on watchdogs of which one may be back from its check.
LEMMA GuardedStep ==
    ASSUME TypeOK, OneWatchdog, Unwatched, UNCHANGED kind, NEW dogs \in [Dogs -> Dog],
           \A d \in Dogs :
              dogs[d].told = dog[d].told /\ (dogs[d].pc = "none" <=> dog[d].pc = "none"),
           Guarded(dogs)
    PROVE  /\ dog' \in [Dogs -> Dog] /\ stopWatch' \in {None} \cup Dogs
           /\ OneWatchdog' /\ Unwatched'
<1>1. CASE stopWatch # None \/ kind \notin Watched
  BY <1>1 DEF Guarded, TypeOK, OneWatchdog, Unwatched
<1>2. CASE ~ (stopWatch # None \/ kind \notin Watched)
  <2>. DEFINE r == [NoDog EXCEPT !.pc = "select"]
  <2>1. PICK d \in Dogs : /\ dogs[d].pc = "none" /\ dog' = [dogs EXCEPT ![d] = r]
                          /\ stopWatch' = d
    BY <1>2 DEF Guarded
  <2>2. r \in Dog /\ r.pc = "select" /\ ~ r.told BY DEF NoDog, Dog
  <2>. HIDE DEF r
  <2>3. dog' \in [Dogs -> Dog] BY <2>1, <2>2
  <2>4. dog'[d] = r /\ \A e \in Dogs \ {d} : dog'[e] = dogs[e] BY <2>1
  <2>5. OneWatchdog'
    <3>1. \A e \in Dogs : ~ (dogs[e].pc # "none" /\ ~ dogs[e].told)
      BY <1>2 DEF OneWatchdog
    <3>. QED BY <2>1, <2>2, <2>4, <3>1 DEF OneWatchdog
  <2>6. Unwatched' BY <1>2 DEF Unwatched
  <2>. QED BY <2>1, <2>3, <2>5, <2>6
<1>. QED BY <1>1, <1>2

\* A start keeps the invariant, whoever starts.
LEMMA LaunchedStep ==
    ASSUME IInv, UNCHANGED kind, wantRun' \in BOOLEAN, restarting' \in BOOLEAN,
           NEW dogs \in [Dogs -> Dog],
           \A d \in Dogs :
              dogs[d].told = dog[d].told /\ (dogs[d].pc = "none" <=> dog[d].pc = "none"),
           (Launched(dogs) /\ (cmd = None \/ kind = "tailscale")) \/ NotLaunched(dogs)
    PROVE  IInv'
<1>. USE DEF IInv
<1>1. CASE Launched(dogs) /\ (cmd = None \/ kind = "tailscale")
  <2>1. PICK p \in Procs :
            /\ proc[p] = "free" /\ proc' = [proc EXCEPT ![p] = "alive"] /\ cmd' = p
            /\ earlier' = [earlier EXCEPT ![p] = {o \in Procs : proc[o] # "free"}]
            /\ replaced' = replaced \cup ({cmd} \ {None}) /\ outlived' = outlived
            /\ cmd = None \/ kind = "tailscale"
            /\ Guarded(dogs)
    BY <1>1 DEF Launched
  <2>2. /\ dog' \in [Dogs -> Dog] /\ stopWatch' \in {None} \cup Dogs
        /\ OneWatchdog' /\ Unwatched'
    BY <2>1, GuardedStep
  <2>3. TypeOK' BY <2>1, <2>2 DEF TypeOK, Dog
  <2>4. Latest' BY <2>1 DEF Latest, TypeOK
  <2>5. Managed' BY <2>1 DEF Managed, TypeOK
  <2>. QED BY <2>2, <2>3, <2>4, <2>5
<1>2. CASE NotLaunched(dogs)
  BY <1>2 DEF NotLaunched, TypeOK, Dog, OneWatchdog, Unwatched, Latest, Managed, past
<1>. QED BY <1>1, <1>2

LEMMA LaunchInv == ASSUME IInv, Launch, restarting' \in BOOLEAN PROVE IInv'
<1>1. /\ UNCHANGED kind /\ wantRun' \in BOOLEAN /\ cmd = None
      /\ Launched(dog) \/ NotLaunched(dog)
  BY DEF Launch
<1>2. dog \in [Dogs -> Dog] BY DEF IInv, TypeOK, Dog
<1>. QED BY <1>1, <1>2, LaunchedStep

LEMMA HaltInv == ASSUME IInv, Halt, restarting' \in BOOLEAN PROVE IInv'
<1>. USE DEF IInv
<1>1. /\ wantRun' = FALSE /\ stopWatch' = None /\ cmd' = None /\ proc' = Killed
      /\ dog' = IF stopWatch = None THEN dog ELSE [dog EXCEPT ![stopWatch].told = TRUE]
      /\ UNCHANGED <<kind, past>>
  BY DEF Halt
<1>2. /\ proc' \in [Procs -> {"free", "alive", "dead"}]
      /\ \A p \in Procs : /\ proc'[p] = "free" <=> proc[p] = "free"
                          /\ p = cmd => proc'[p] = "dead"
                          /\ p # cmd => proc'[p] = proc[p]
  BY <1>1 DEF Killed, TypeOK
<1>3. /\ dog' \in [Dogs -> Dog]
      /\ \A d \in Dogs : /\ dog'[d].pc = dog[d].pc
                         /\ d = stopWatch => dog'[d].told
                         /\ d # stopWatch => dog'[d].told = dog[d].told
  <2>1. CASE stopWatch = None BY <1>1, <2>1 DEF TypeOK, Dog
  <2>2. CASE stopWatch # None
    <3>1. stopWatch \in Dogs BY <2>2 DEF TypeOK
    <3>. DEFINE r == [dog[stopWatch] EXCEPT !.told = TRUE]
    <3>2. dog' = [dog EXCEPT ![stopWatch] = r] BY <1>1, <2>2 DEF TypeOK
    <3>3. r \in Dog /\ r.pc = dog[stopWatch].pc /\ r.told BY <3>1 DEF TypeOK, Dog
    <3>. HIDE DEF r
    <3>. QED BY <3>1, <3>2, <3>3 DEF TypeOK, Dog
  <2>. QED BY <2>1, <2>2
<1>4. TypeOK' BY <1>1, <1>2, <1>3 DEF TypeOK, Dog, past
<1>5. OneWatchdog' BY <1>1, <1>3 DEF OneWatchdog, TypeOK
<1>6. Unwatched' BY <1>1, <1>3 DEF Unwatched
<1>7. Latest' BY <1>1, <1>2 DEF Latest
<1>8. Managed' BY <1>1, <1>2 DEF Managed, past
<1>. QED BY <1>4, <1>5, <1>6, <1>7, <1>8

\* The waiter of one process takes another one out of the manager's hands: it was there before.
LEMMA WaitedInv == ASSUME IInv, NEW p \in Procs, Waited(p) PROVE IInv'
<1>. USE DEF IInv
<1>1. /\ proc[p] = "dead" /\ proc' = [proc EXCEPT ![p] = "free"] /\ cmd' = None
      /\ earlier' = [o \in Procs |-> IF o = p THEN {} ELSE earlier[o] \ {p}]
      /\ outlived' = (outlived \cup {o \in Procs : p \in earlier[o]}) \ {p}
      /\ replaced' = replaced \ {p}
      /\ UNCHANGED <<kind, wantRun, stopWatch, dog, restarting>>
  BY DEF Waited, Outlived
<1>2. TypeOK' BY <1>1 DEF TypeOK
<1>3. OneWatchdog' /\ Unwatched' BY <1>1 DEF OneWatchdog, Unwatched
<1>4. Latest' BY <1>1 DEF Latest
<1>5. Managed'
  <2>1. SUFFICES ASSUME NEW o \in Procs, proc'[o] = "alive"
                 PROVE  o \in outlived' \/ (kind = "tailscale" /\ o \in replaced')
    BY <1>1 DEF Managed
  <2>2. o # p /\ proc[o] = "alive" BY <1>1, <2>1 DEF TypeOK
  <2>3. CASE cmd = o
    <3>1. p \in earlier[o] BY <1>1, <2>2, <2>3 DEF Latest
    <3>. QED BY <1>1, <2>2, <3>1
  <2>4. CASE cmd # o BY <1>1, <2>2, <2>4 DEF Managed
  <2>. QED BY <2>3, <2>4
<1>. QED BY <1>2, <1>3, <1>4, <1>5

LEMMA DieInv == ASSUME IInv, NEW p \in Procs, Die(p) PROVE IInv'
<1>. USE DEF IInv, Die
<1>1. TypeOK' BY DEF TypeOK, past
<1>2. OneWatchdog' /\ Unwatched' BY DEF OneWatchdog, Unwatched
<1>3. Latest' /\ Managed' BY DEF Latest, Managed, TypeOK, past
<1>. QED BY <1>1, <1>2, <1>3

LEMMA TickInv == ASSUME IInv, NEW d \in Dogs, Tick(d) PROVE IInv'
<1>1. CASE wantRun
  <2>. DEFINE r == [dog[d] EXCEPT !.pc = "check", !.seen = (cmd # None)]
  <2>1. dog' = [dog EXCEPT ![d] = r] BY <1>1 DEF Tick, IInv, TypeOK
  <2>2. r \in Dog /\ r.pc = "check" /\ r.told = dog[d].told BY DEF IInv, TypeOK, Dog
  <2>. HIDE DEF r
  <2>. QED BY <2>1, <2>2, DogStep DEF Tick
<1>2. CASE ~ wantRun
  BY <1>2 DEF Tick, IInv, TypeOK, OneWatchdog, Unwatched, Latest, Managed, past
<1>. QED BY <1>1, <1>2

\* Watching(d) puts a watchdog back to its select.
LEMMA WatchingFacts ==
    ASSUME IInv, NEW d \in Dogs, dog[d].pc = "check"
    PROVE  /\ Watching(d) \in [Dogs -> Dog]
           /\ \A e \in Dogs : /\ Watching(d)[e].told = dog[e].told
                              /\ Watching(d)[e].pc = "none" <=> dog[e].pc = "none"
<1>. DEFINE r == [dog[d] EXCEPT !.pc = "select"]
<1>1. Watching(d) = [dog EXCEPT ![d] = r] BY DEF Watching, IInv, TypeOK
<1>2. r \in Dog /\ r.pc = "select" /\ r.told = dog[d].told BY DEF IInv, TypeOK, Dog
<1>. HIDE DEF r
<1>. QED BY <1>1, <1>2 DEF IInv, TypeOK, Dog

LEMMA CheckInv == ASSUME IInv, NEW d \in Dogs, Revive(d) \/ LetBe(d) PROVE IInv'
<1>1. /\ dog[d].pc = "check" /\ UNCHANGED <<kind, wantRun, restarting>>
      /\ (Launched(Watching(d)) /\ (cmd = None \/ kind = "tailscale")) \/ NotLaunched(Watching(d))
  BY DEF Revive, LetBe, Missing, IInv, Unwatched, Watched
<1>2. wantRun' \in BOOLEAN /\ restarting' \in BOOLEAN BY <1>1 DEF IInv, TypeOK
<1>. QED BY <1>1, <1>2, WatchingFacts, LaunchedStep

LEMMA LeaveInv == ASSUME IInv, NEW d \in Dogs, Leave(d) PROVE IInv'
<1>. USE DEF IInv
<1>1. /\ dog[d].pc = "select" /\ dog[d].told /\ dog' = [dog EXCEPT ![d] = NoDog]
      /\ UNCHANGED <<kind, proc, cmd, wantRun, stopWatch, restarting, past>>
  BY DEF Leave
<1>2. NoDog \in Dog /\ NoDog.pc = "none" BY DEF NoDog, Dog
<1>3. dog'[d] = NoDog /\ \A e \in Dogs \ {d} : dog'[e] = dog[e] BY <1>1 DEF TypeOK
<1>4. TypeOK' BY <1>1, <1>2 DEF TypeOK, Dog, past
<1>5. OneWatchdog' BY <1>1, <1>2, <1>3 DEF OneWatchdog
<1>6. Unwatched' BY <1>1, <1>2, <1>3 DEF Unwatched
<1>7. Latest' /\ Managed' BY <1>1 DEF Latest, Managed, past
<1>. QED BY <1>4, <1>5, <1>6, <1>7

LEMMA NextInv == ASSUME IInv, [Next]_vars PROVE IInv'
<1>. USE DEF IInv
<1>1. CASE Start BY <1>1, LaunchInv DEF Start, TypeOK
<1>2. CASE Stop BY <1>2, HaltInv DEF Stop, TypeOK
<1>3. CASE RestartStop BY <1>3, HaltInv DEF RestartStop
<1>4. CASE RestartStart
  <2>1. CASE Launch BY <1>4, <2>1, LaunchInv DEF RestartStart
  <2>2. CASE UNCHANGED <<kind, proc, cmd, wantRun, stopWatch, dog, past>>
    BY <1>4, <2>2 DEF RestartStart, TypeOK, OneWatchdog, Unwatched, Latest, Managed, past
  <2>. QED BY <1>4, <2>1, <2>2 DEF RestartStart
<1>5. ASSUME NEW p \in Procs, Die(p) \/ Waited(p) PROVE IInv'
  BY <1>5, DieInv, WaitedInv
<1>6. ASSUME NEW d \in Dogs, Tick(d) \/ Revive(d) \/ LetBe(d) \/ Leave(d) PROVE IInv'
  BY <1>6, TickInv, CheckInv, LeaveInv
<1>7. CASE UNCHANGED vars
  BY <1>7 DEF vars, TypeOK, OneWatchdog, Unwatched, Latest, Managed, past
<1>. QED BY <1>1, <1>2, <1>3, <1>4, <1>5, <1>6, <1>7 DEF Next

LEMMA Invariance == Spec => []IInv
<1>1. Init => IInv BY InitInv
<1>2. IInv /\ [Next]_vars => IInv' BY NextInv
<1>. QED BY <1>1, <1>2, PTL DEF Spec

(* The manager's handle is of a process that has not been waited for.      *)
THEOREM TypeCorrect == Spec => []TypeOK
<1>1. IInv => TypeOK BY DEF IInv
<1>. QED BY <1>1, Invariance, PTL

(* A process that runs is the manager's unless an earlier one has been      *)
(* waited for since its start, or the tailscale watchdog has replaced it:   *)
(* every stop, start, restart and tick in between keeps it in hand.         *)
THEOREM LostToEarlier == Spec => []Managed
<1>1. IInv => Managed BY DEF IInv
<1>. QED BY <1>1, Invariance, PTL

(* However often a tunnel is enabled and disabled, one watchdog is left.    *)
THEOREM WatchdogsEnd == Spec => []OneWatchdog
<1>1. IInv => OneWatchdog BY DEF IInv
<1>. QED BY <1>1, Invariance, PTL

(* Only the tailscale watchdog starts a process over the manager's: the     *)
(* second look at `cmd' is what keeps cloudflared's from it.                *)
THEOREM StartsFindNone == Spec => NeverReplaced
<1>. DEFINE Step == kind # "tailscale" /\ cmd # None /\ cmd' # cmd => cmd' = None
<1>1. IInv /\ [Next]_vars => [Step]_vars
  <2>. SUFFICES ASSUME IInv, Next, kind # "tailscale", cmd # None, cmd' # cmd
                PROVE  cmd' = None
    OBVIOUS
  <2>1. CASE Start \/ RestartStart BY <2>1 DEF Start, RestartStart, Launch
  <2>2. CASE Stop \/ RestartStop BY <2>2 DEF Stop, RestartStop, Halt
  <2>3. ASSUME NEW p \in Procs, Die(p) \/ Waited(p) PROVE cmd' = None
    BY <2>3 DEF Die, Waited
  <2>4. ASSUME NEW d \in Dogs, Revive(d) PROVE cmd' = None
    BY <2>4 DEF Revive, Missing, IInv, Unwatched, Watched
  <2>5. ASSUME NEW d \in Dogs, Tick(d) \/ LetBe(d) \/ Leave(d) PROVE cmd' = None
    BY <2>5 DEF Tick, LetBe, NotLaunched, Leave
  <2>. QED BY <2>1, <2>2, <2>3, <2>4, <2>5 DEF Next
<1>. QED BY <1>1, Invariance, PTL DEF Spec, NeverReplaced
=============================================================================
