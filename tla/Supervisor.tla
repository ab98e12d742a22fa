----------------------------- MODULE Supervisor -----------------------------
(***************************************************************************)
(* The managers of child processes: headroom and pxpipe, which start, stop *)
(* and restart a process, and cloudflared and the tailscale funnel, which  *)
(* have a watchdog besides.  The children share nothing, so a behaviour is *)
(* about one of them, `kind'.  What is started is waited for by a          *)
(* goroutine of its own, which takes the manager's lock when the process   *)
(* has ended.  `status' follows `cmd' and is only shown; it is left out,   *)
(* as is the address scraped from the output.                              *)
(***************************************************************************)
EXTENDS Integers, FiniteSets

CONSTANTS
    Kinds,          \* the children looked at
    Procs, Dogs,    \* bounds: processes not waited for, watchdog goroutines at a time
    None

Watched == {"cloudflared", "tailscale"}

ASSUME SupervisorAssumption ==
    /\ Kinds \subseteq {"headroom", "pxpipe"} \cup Watched
    /\ None \notin Procs \cup Dogs

VARIABLES
    kind,
    proc,       \* "alive", "dead" until its waiter has taken the lock, else "free"
    cmd,        \* the manager's process
    wantRun,
    stopWatch,  \* the watchdog that listens to the channel of this name, None when nil
    dog,        \* the watchdogs; `told' when its channel is closed, `seen' what it has observed
    restarting, \* a Restart is between its Stop and its Start
    earlier,    \* history: the processes that were still to be waited for at a start
    outlived,   \* history: processes since whose start an earlier one has been waited for
    replaced    \* history: processes another was started over while they were the manager's

past == <<earlier, outlived, replaced>>
vars == <<kind, proc, cmd, wantRun, stopWatch, dog, restarting, past>>

NoDog == [pc |-> "none", seen |-> FALSE, told |-> FALSE]

TypeOK ==
    /\ kind \in Kinds
    /\ proc \in [Procs -> {"free", "alive", "dead"}]
    /\ cmd \in {None} \cup {p \in Procs : proc[p] # "free"}
    /\ wantRun \in BOOLEAN /\ stopWatch \in {None} \cup Dogs
    /\ dog \in [Dogs -> [pc : {"none", "select", "check"}, seen : BOOLEAN, told : BOOLEAN]]
    /\ restarting \in BOOLEAN
    /\ earlier \in [Procs -> SUBSET Procs] /\ outlived \subseteq Procs /\ replaced \subseteq Procs

Init ==
    /\ kind \in Kinds
    /\ proc = [p \in Procs |-> "free"]
    /\ cmd = None
    /\ wantRun = FALSE /\ stopWatch = None
    /\ dog = [d \in Dogs |-> NoDog]
    /\ restarting = FALSE
    /\ earlier = [p \in Procs |-> {}] /\ outlived = {} /\ replaced = {}

-----------------------------------------------------------------------------
\* Mutant of Guarded: a watchdog for every start.
GuardedAnew(dogs) ==
    \E d \in Dogs : /\ dogs[d].pc = "none"
                    /\ dog' = [dogs EXCEPT ![d] = [NoDog EXCEPT !.pc = "select"]]
                    /\ stopWatch' = d

\* ensureWatchdogLocked
Guarded(dogs) ==
    IF stopWatch # None \/ kind \notin Watched
    THEN dog' = dogs /\ UNCHANGED stopWatch
    ELSE \E d \in Dogs : /\ dogs[d].pc = "none"
                         /\ dog' = [dogs EXCEPT ![d] = [NoDog EXCEPT !.pc = "select"]]
                         /\ stopWatch' = d

\* Start from the lookup of the binary on, startLocked
Launched(dogs) ==
    \E p \in Procs :
        /\ proc[p] = "free"
        /\ proc' = [proc EXCEPT ![p] = "alive"]
        /\ cmd' = p
        /\ earlier' = [earlier EXCEPT ![p] = {o \in Procs : proc[o] # "free"}]
        /\ replaced' = replaced \cup ({cmd} \ {None}) /\ UNCHANGED outlived
        /\ Guarded(dogs)

\* It is not installed or does not start.
NotLaunched(dogs) == dog' = dogs /\ UNCHANGED <<proc, cmd, past, stopWatch>>

\* Start and Enable, when they find no process.
Launch ==
    /\ cmd = None
    /\ wantRun' = (kind \in Watched)
    /\ Launched(dog) \/ NotLaunched(dog)
    /\ UNCHANGED kind

Start == Launch /\ UNCHANGED restarting

Killed == IF cmd = None THEN proc ELSE [proc EXCEPT ![cmd] = "dead"]

\* Stop and Disable
Halt ==
    /\ wantRun' = FALSE
    /\ stopWatch' = None
    /\ dog' = IF stopWatch = None THEN dog ELSE [dog EXCEPT ![stopWatch].told = TRUE]
    /\ proc' = Killed
    /\ cmd' = None
    /\ UNCHANGED <<kind, past>>

Stop == Halt /\ UNCHANGED restarting

\* Restart takes the lock twice; the process may have been started in between.
RestartStop == kind \notin Watched /\ ~ restarting /\ Halt /\ restarting' = TRUE
RestartStart ==
    /\ restarting
    /\ restarting' = FALSE
    /\ Launch \/ (cmd # None /\ UNCHANGED <<kind, proc, cmd, wantRun, stopWatch, dog, past>>)

-----------------------------------------------------------------------------
Die(p) ==
    /\ proc[p] = "alive"
    /\ proc' = [proc EXCEPT ![p] = "dead"]
    /\ UNCHANGED <<kind, cmd, wantRun, stopWatch, dog, restarting, past>>

\* The history after a process has been waited for
Outlived(p) ==
    /\ earlier' = [o \in Procs |-> IF o = p THEN {} ELSE earlier[o] \ {p}]
    /\ outlived' = (outlived \cup {o \in Procs : p \in earlier[o]}) \ {p}
    /\ replaced' = replaced \ {p}

\* Mutant of Waited: the manager keeps the process that has ended.
WaitedInVain(p) ==
    /\ proc[p] = "dead"
    /\ proc' = [proc EXCEPT ![p] = "free"]
    /\ Outlived(p)
    /\ UNCHANGED <<kind, cmd, wantRun, stopWatch, dog, restarting>>

\* The goroutine of each start, after cmd.Wait: whichever process it waited for, it clears
\* the manager's.
Waited(p) ==
    /\ proc[p] = "dead"
    /\ proc' = [proc EXCEPT ![p] = "free"]
    /\ cmd' = None
    /\ Outlived(p)
    /\ UNCHANGED <<kind, wantRun, stopWatch, dog, restarting>>

\* checkHealth's first critical section, on a tick.  A channel that is closed does not keep
\* select from choosing the tick.
Tick(d) ==
    /\ dog[d].pc = "select"
    /\ dog' = IF wantRun
              THEN [dog EXCEPT ![d].pc = "check", ![d].seen = (cmd # None)]
              ELSE dog
    /\ UNCHANGED <<kind, proc, cmd, wantRun, stopWatch, restarting, past>>

\* Mutant of Missing: cloudflared's watchdog, too, trusts what it has seen.
MissingThen(d) == wantRun /\ ~ dog[d].seen

\* What starts the process again: cloudflared's watchdog looks a second time under the lock.
Missing(d) == wantRun /\ ~ dog[d].seen /\ (kind = "cloudflared" => cmd = None)

Watching(d) == [dog EXCEPT ![d].pc = "select"]

\* checkHealth's second critical section, when it starts the process
Revive(d) ==
    /\ dog[d].pc = "check" /\ Missing(d)
    /\ Launched(Watching(d))
    /\ UNCHANGED <<kind, wantRun, restarting>>

\* ... when there is nothing to start, or tailscaled is down, or the start fails
LetBe(d) ==
    /\ dog[d].pc = "check"
    /\ NotLaunched(Watching(d))
    /\ UNCHANGED <<kind, wantRun, restarting>>

\* The watchdog returns.
Leave(d) ==
    /\ dog[d].pc = "select" /\ dog[d].told
    /\ dog' = [dog EXCEPT ![d] = NoDog]
    /\ UNCHANGED <<kind, proc, cmd, wantRun, stopWatch, restarting, past>>

Next ==
    \/ Start
    \/ Stop
    \/ RestartStop
    \/ RestartStart
    \/ \E p \in Procs : Die(p) \/ Waited(p)
    \/ \E d \in Dogs : Tick(d) \/ Revive(d) \/ LetBe(d) \/ Leave(d)

\* The goroutines go on, the ticker ticks, and the program can be started again and again.
Fairness ==
    /\ \A p \in Procs : WF_vars(Waited(p))
    /\ \A d \in Dogs : WF_vars(Tick(d)) /\ WF_vars(LetBe(d)) /\ SF_vars(Revive(d))

Spec == Init /\ [][Next]_vars /\ Fairness

-----------------------------------------------------------------------------
(* Every process that runs is the manager's, the one Stop will kill, but    *)
(* for two kinds: one since whose start an earlier process has been waited  *)
(* for - the waiter clears `cmd' without looking whose it is - and one the  *)
(* tailscale watchdog has started another over.  However many were lost     *)
(* before, a process started when all of them have ended stays in hand.     *)
Managed ==
    \A p \in Procs : proc[p] = "alive" =>
        cmd = p \/ p \in outlived \/ (kind = "tailscale" /\ p \in replaced)

(* Of the watchdogs left from earlier Enables and the new one, Disable       *)
(* leaves none running: the one that has not been told to return is the one *)
(* listening to stopWatch (ensureWatchdogLocked, Disable).                   *)
OneWatchdog ==
    \A d \in Dogs : dog[d].pc # "none" /\ ~ dog[d].told <=> d = stopWatch

(* A process of the manager is not replaced while it is the manager's: two  *)
(* watchdogs, or a watchdog and an Enable, do not both start cloudflared.   *)
(* The tailscale watchdog, which does not look again, may.                  *)
NeverReplaced == [][kind # "tailscale" /\ cmd # None /\ cmd' # cmd => cmd' = None]_vars

(* "process died; watchdog will restart" (cloudflare/manager.go:108): a      *)
(* tunnel that is wanted and watched is up again, whatever dies whenever.   *)
StaysUp == (wantRun /\ stopWatch # None) ~> (~ wantRun \/ \E p \in Procs : proc[p] = "alive")
=============================================================================
