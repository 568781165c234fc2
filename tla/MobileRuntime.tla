---------------------------- MODULE MobileRuntime ----------------------------
(***************************************************************************)
(* The supervisor of Expo/Metro: mobile_runtime.py, as app.py drives it.   *)
(*                                                                         *)
(* A timer asks for one pass at a time of a daemon thread, the worker; the *)
(* thread of Qt closes. The processes of Expo outlive the application when *)
(* nobody ends them, and a later run of it meets them on the port.         *)
(***************************************************************************)
EXTENDS Naturals, FiniteSets

CONSTANTS
    Metros,         \* processes of Expo there may be
    Grace,          \* METRO_STARTUP_GRACE_SECONDS, in ticks of the timer
    FailureLimit,   \* METRO_HEALTH_FAILURE_LIMIT
    FirstDelay, LastDelay,      \* MIN_ and MAX_RESTART_DELAY_SECONDS, in ticks
    MaxRuns,        \* times the application is started
    None

RuntimeAssumption ==
    /\ {Grace, LastDelay} \subseteq Nat
    /\ FailureLimit \in Nat \ {0} /\ FirstDelay \in 1 .. LastDelay /\ MaxRuns \in Nat \ {0}
    /\ None \notin Metros

VARIABLES
    metro,      \* what each process does
    sup,        \* the fields of the manager
    worker,     \* its thread, and the process it has in hand
    closer,     \* stop(), and the process it has in hand
    lost,       \* who is out of reach: it survived kill(), or is of an earlier run
    run         \* how many times the application was started, and if it still runs

vars == <<metro, sup, worker, closer, lost, run>>

Live(m) == metro[m] \in {"starting", "ready", "hung"}
Away == [at |-> "away", held |-> None]
Fresh == [process |-> None, age |-> 0, ready |-> FALSE, failures |-> 0,
          delay |-> 0, wait |-> 0, closed |-> FALSE]

TypeOK ==
    /\ metro \in [Metros -> {"none", "starting", "ready", "hung", "dead"}]
    /\ sup \in [process : Metros \cup {None}, age : 0 .. Grace, ready : BOOLEAN,
                failures : 0 .. FailureLimit, delay : 0 .. LastDelay,
                wait : 0 .. LastDelay, closed : BOOLEAN]
    /\ worker \in [at : {"away", "begin", "look", "start", "register", "end", "restart"},
                   held : Metros \cup {None}]
    /\ closer \in [at : {"away", "take", "end", "done"}, held : Metros \cup {None}]
    /\ lost \subseteq Metros
    /\ run \in [n : 1 .. MaxRuns, alive : BOOLEAN]

Init ==
    /\ metro = [m \in Metros |-> "none"] /\ sup = Fresh
    /\ worker = Away /\ closer = Away /\ lost = {}
    /\ run = [n |-> 1, alive |-> TRUE]

-----------------------------------------------------------------------------
(* What the port tells: _metro_running, _port_open.                        *)
Serving == \E m \in Metros : metro[m] = "ready"
PortOpen == \E m \in Metros : metro[m] \in {"ready", "hung"}

(* _schedule_restart                                                       *)
Scheduled(s) ==
    LET doubled == IF 2 * s.delay < LastDelay THEN 2 * s.delay ELSE LastDelay
        d == IF s.delay = 0 THEN FirstDelay ELSE doubled
    IN  IF s.closed THEN s ELSE [s EXCEPT !.delay = d, !.wait = d]

(* The part of _discard_owned_process under the lock.                      *)
Emptied(s) == [s EXCEPT !.process = None, !.age = 0, !.ready = FALSE, !.failures = 0]

At(step) == run.alive /\ worker.at = step
Goes(step, m) == worker' = [at |-> step, held |-> m]

(* ensure_started: one worker at a time.                                   *)
EnsureStarted ==
    /\ At("away") /\ ~sup.closed
    /\ Goes("begin", None) /\ UNCHANGED <<metro, sup, closer, lost, run>>

Begin ==
    /\ At("begin")
    /\ IF sup.closed THEN worker' = Away ELSE Goes("look", sup.process)
    /\ UNCHANGED <<metro, sup, closer, lost, run>>

(* The process seen then is alive, dead, or there was none. It may have    *)
(* been taken by stop() in the meantime.                                   *)
LookAtLive ==
    /\ At("look") /\ worker.held # None /\ Live(worker.held)
    /\ \/ /\ Serving
          /\ sup' = [sup EXCEPT !.ready = TRUE, !.failures = 0, !.delay = 0, !.wait = 0]
          /\ worker' = Away
       \/ /\ ~Serving /\ ~sup.ready /\ sup.age < Grace
          /\ worker' = Away /\ UNCHANGED sup
       \/ /\ ~Serving /\ (sup.ready \/ sup.age = Grace)
          /\ IF sup.failures + 1 < FailureLimit
             THEN sup' = [sup EXCEPT !.failures = @ + 1] /\ worker' = Away
             ELSE sup' = Emptied(sup) /\ Goes("restart", sup.process)
    /\ UNCHANGED <<metro, closer, lost, run>>

LookAtDead ==
    /\ At("look") /\ worker.held # None /\ ~Live(worker.held)
    /\ sup' = Scheduled(Emptied(sup)) /\ worker' = Away
    /\ UNCHANGED <<metro, closer, lost, run>>

(* Node, Expo or the address of the computer in Tailscale is not found.    *)
Missing == worker' = Away

(* Somebody else's server, a taken port, or a part that is missing: wait.  *)
LookForNone ==
    /\ At("look") /\ worker.held = None
    /\ \/ (Serving \/ PortOpen \/ sup.wait > 0) /\ worker' = Away
       \/ Missing
       \/ sup.wait = 0 /\ ~Serving /\ ~PortOpen /\ Goes("start", None)
    /\ UNCHANGED <<metro, sup, closer, lost, run>>

Start ==
    /\ At("start")
    /\ \/ sup.closed /\ worker' = Away /\ UNCHANGED <<metro, sup>>
       \/ ~sup.closed /\ worker' = Away /\ sup' = Scheduled(sup) /\ UNCHANGED metro
       \/ /\ ~sup.closed
          /\ \E m \in {n \in Metros : metro[n] = "none"} :
                metro' = [metro EXCEPT ![m] = "starting"] /\ Goes("register", m)
          /\ UNCHANGED sup
    /\ UNCHANGED <<closer, lost, run>>

(* Mutant: stop() is not looked for again after the start.                 *)
RegisterAnyway ==
    /\ At("register") /\ worker' = Away
    /\ sup' = [Emptied(sup) EXCEPT !.process = worker.held]
    /\ UNCHANGED <<metro, closer, lost, run>>

Register ==
    /\ At("register")
    /\ IF sup.closed THEN Goes("end", worker.held) /\ UNCHANGED sup
       ELSE /\ sup' = [Emptied(sup) EXCEPT !.process = worker.held]
            /\ worker' = Away
    /\ UNCHANGED <<metro, closer, lost, run>>

(* _terminate_process: terminate(), and kill() when it does not end.       *)
Ended(m) ==
    IF m = None \/ ~Live(m) THEN UNCHANGED <<metro, lost>>
    ELSE \/ metro' = [metro EXCEPT ![m] = "dead"] /\ UNCHANGED lost
         \/ lost' = lost \cup {m} /\ UNCHANGED metro

WorkerEnds ==
    /\ At("end") \/ At("restart")
    /\ Ended(worker.held) /\ worker' = Away
    /\ sup' = IF worker.at = "restart" THEN Scheduled(sup) ELSE sup
    /\ UNCHANGED <<closer, run>>

(* stop(), from aboutToQuit.                                               *)
Close ==
    /\ run.alive /\ ~sup.closed
    /\ sup' = [sup EXCEPT !.closed = TRUE]
    /\ closer' = [at |-> "take", held |-> None]
    /\ UNCHANGED <<metro, worker, lost, run>>

Take ==
    /\ run.alive /\ closer.at = "take"
    /\ closer' = [at |-> "end", held |-> sup.process] /\ sup' = Emptied(sup)
    /\ UNCHANGED <<metro, worker, lost, run>>

CloserEnds ==
    /\ run.alive /\ closer.at = "end"
    /\ Ended(closer.held) /\ closer' = [at |-> "done", held |-> None]
    /\ UNCHANGED <<sup, worker, run>>

(* The application ends, and with it the daemon thread wherever it is; or  *)
(* it crashes.                                                             *)
Exit ==
    /\ run.alive /\ closer.at = "done"
    /\ run' = [run EXCEPT !.alive = FALSE]
    /\ UNCHANGED <<metro, sup, worker, closer, lost>>

Reopen ==
    /\ run.n < MaxRuns
    /\ run' = [n |-> run.n + 1, alive |-> TRUE]
    /\ sup' = Fresh /\ worker' = Away /\ closer' = Away
    /\ lost' = {m \in Metros : Live(m)}
    /\ UNCHANGED metro

(* The timer, ten seconds on.                                              *)
Tick ==
    /\ run.alive
    /\ sup' = [sup EXCEPT !.age = IF @ < Grace THEN @ + 1 ELSE @,
                          !.wait = IF @ > 0 THEN @ - 1 ELSE @]
    /\ UNCHANGED <<metro, worker, closer, lost, run>>

Moves(m) ==
    /\ \/ metro[m] = "starting" /\ ~PortOpen /\ metro' = [metro EXCEPT ![m] = "ready"]
       \/ metro[m] \in {"ready", "hung"} /\ metro' = [metro EXCEPT ![m] = IF @ = "hung" THEN "ready" ELSE "hung"]
       \/ Live(m) /\ metro' = [metro EXCEPT ![m] = "dead"]
    /\ UNCHANGED <<sup, worker, closer, lost, run>>

Next ==
    \/ EnsureStarted \/ Begin \/ LookAtLive \/ LookAtDead \/ LookForNone
    \/ Start \/ Register \/ WorkerEnds \/ Close \/ Take \/ CloserEnds
    \/ Exit \/ Reopen \/ Tick \/ \E m \in Metros : Moves(m)

Spec == Init /\ [][Next]_vars

-----------------------------------------------------------------------------
(* No Metro is let go of: one that this run started is the one the manager *)
(* supervises, or a thread has it in hand to register or to end it, unless *)
(* it survived kill(). None is left after the application ended but the one*)
(* that the worker had in hand when it was cut off.                        *)
Supervised == IF run.alive THEN {sup.process} ELSE {}

MetroIsHeld ==
    \A m \in Metros :
        Live(m) /\ m \notin lost => m \in {worker.held, closer.held} \cup Supervised
=============================================================================
