---------------------------- MODULE ModelProfile ----------------------------
(***************************************************************************)
(* Which language model occupies the graphics cards, and who may change    *)
(* it: CompanionService.set_model_mode, unload_model, chat and             *)
(* _model_guard_loop (services.py) over OllamaClient (ollama_client.py)    *)
(* and DualGpuRuntime (dual_gpu.py).                                       *)
(*                                                                         *)
(* The owner chooses a profile or releases the cards; turns, the guard     *)
(* that watches for games and the polls of the status act on the same      *)
(* flags and servers.  The primary Ollama server holds the normal model    *)
(* (the small or the large one, which model_policy chooses between) and    *)
(* the power model; the Gaming and the Dual profile run in a server that   *)
(* the application starts and must find again after it ended.              *)
(***************************************************************************)
EXTENDS Naturals

CONSTANTS
    MaxAsks,        \* bound: requests to the model in one turn, less one
    MaxFaults       \* bound: failed requests, starts and writes, dead servers

ASSUME ProfileAssumption == MaxAsks \in Nat /\ MaxFaults \in Nat

Profiles == {"normal", "power", "gaming", "dual"}
Models == {"normal", "power"}

(* An own server has been started, is recorded in its marker file, holds   *)
(* its model; or runs on and nobody holds its process any more, before it  *)
(* had a model or with it.                                                 *)
Serving == {"bare", "loaded"}
Owned == {"started"} \cup Serving
Servers == {"off", "orphan", "lost"} \cup Owned

Steps == {"idle", "wait", "prepare", "verify", "clear", "start", "mark",
          "load", "recheck", "undo", "done", "failed",
          "stop", "unload", "count"}

VARIABLES
    paused, saved,      \* local_ai_paused in memory and in the file
    mode,               \* requested_mode
    switching,          \* switching_to, with "none" and "unload"
    step, was,          \* of set_model_mode or unload_model; was_paused
    turn,               \* who holds _turn_lock
    dual, gaming,       \* the own servers
    loaded,             \* the models in the primary server
    game,               \* a game runs
    chat, tier, asks,   \* the turn: its stage, its selection, requests left
    guard,              \* _model_guard_loop
    status,             \* a status poll and what it saw
    faults,
    off, released       \* history: what the owner asked for last, and that
                        \* the release of everything was confirmed

flags == <<paused, saved, mode>>
switch == <<switching, step, was>>
servers == <<dual, gaming, loaded>>
talk == <<chat, tier, asks>>
history == <<off, released>>
vars == <<flags, switch, turn, servers, game, talk, guard, status, faults, history>>

TypeOK ==
    /\ paused \in BOOLEAN /\ saved \in BOOLEAN
    /\ mode \in Profiles
    /\ switching \in Profiles \cup {"none", "unload"}
    /\ step \in Steps /\ was \in BOOLEAN
    /\ turn \in {"free", "switch", "chat", "guard"}
    /\ dual \in Servers /\ gaming \in Servers
    /\ loaded \subseteq Models
    /\ game \in BOOLEAN
    /\ chat \in {"idle", "choose", "ask", "answer", "failed"}
    /\ tier \in Profiles /\ asks \in 0 .. MaxAsks
    /\ guard \in {"asleep", "awake", "evict"}
    /\ status \in {"idle", "fine", "nogaming", "blind", "stop"}
    /\ faults \in 0 .. MaxFaults
    /\ off \in BOOLEAN /\ released \in BOOLEAN

Init ==
    /\ paused \in BOOLEAN /\ saved = paused
    /\ mode = "normal" /\ switching = "none" /\ step = "idle" /\ was = FALSE
    /\ turn = "free"
    /\ dual = "off" /\ gaming = "off" /\ loaded = {}
    /\ game = FALSE
    /\ chat = "idle" /\ tier = "normal" /\ asks = 0
    /\ guard = "asleep" /\ status = "idle"
    /\ faults = 0
    /\ off = paused /\ released = paused

Fault == faults < MaxFaults /\ faults' = faults + 1

(* dual.stop_sync and stop_gaming_server_sync end the server whose process *)
(* the application holds, and no other.                                    *)
Stopped(server) == IF server \in Owned THEN "off" ELSE server

-----------------------------------------------------------------------------
(* set_model_mode                                                          *)

Busy == switching # "none"

(* The choice is claimed under _model_switch_lock, before the turn lock;   *)
(* Dual that is active already is answered at once.                        *)
Choose(profile) ==
    /\ ~Busy
    /\ ~(profile = "dual" /\ mode = "dual" /\ dual \in Owned)
    /\ switching' = profile /\ step' = "wait"
    /\ UNCHANGED <<was, flags, turn, servers, game, talk, guard, status, faults, history>>

(* The wait for the turn lock is cancelled.                                *)
Withdraw ==
    /\ step = "wait"
    /\ switching' = "none" /\ step' = "idle"
    /\ UNCHANGED <<was, flags, turn, servers, game, talk, guard, status, faults, history>>

Begin ==
    /\ step = "wait" /\ switching \in Profiles /\ turn = "free"
    /\ turn' = "switch"
    /\ was' = paused /\ paused' = FALSE
    /\ released' = FALSE
    /\ step' = "prepare"
    /\ UNCHANGED <<saved, mode, switching, servers, game, talk, guard, status, faults, off>>

(* ensure_primary_server, which Gaming skips, then dual.stop.  A           *)
(* RuntimeError ends the switch; a failed request or a cancellation is     *)
(* cleaned up first.                                                       *)
Prepare ==
    /\ step = "prepare"
    /\ \/ /\ switching # "gaming"
          /\ Fault /\ step' \in {"failed", "undo"}
          /\ UNCHANGED <<mode, dual>>
       \/ /\ dual' = Stopped(dual)
          /\ mode' = IF mode = "dual" THEN "normal" ELSE mode
          /\ step' = "verify" /\ UNCHANGED faults
    /\ UNCHANGED <<paused, saved, switching, was, turn, gaming, loaded, game, talk, guard, status, history>>

(* No game for Dual and Gaming; the model is installed; Normal mode, and   *)
(* no Gaming server unless it is wanted.                                   *)
Verify ==
    /\ step = "verify"
    /\ \/ /\ switching \in {"dual", "gaming"}
          /\ \/ game /\ step' = "failed" /\ UNCHANGED faults
             \/ Fault /\ step' \in {"failed", "undo"}
          /\ UNCHANGED <<mode, gaming>>
       \/ /\ ~(switching \in {"dual", "gaming"} /\ game)
          /\ mode' = "normal"
          /\ gaming' = IF switching = "gaming" THEN gaming ELSE Stopped(gaming)
          /\ \/ step' = "clear" /\ UNCHANGED faults
             \/ switching = "power" /\ Fault /\ step' \in {"failed", "undo"}
    /\ UNCHANGED <<paused, saved, switching, was, turn, dual, loaded, game, talk, guard, status, history>>

(* The models that go before a profile comes, and those of them that may   *)
(* stay when the request to unload them fails.                             *)
Leaving == CASE switching = "normal" -> {"power"}
             [] switching = "power" -> {"normal"}
             [] OTHER -> Models
MayStay == IF switching \in {"normal", "gaming"} THEN {"power"} ELSE {}

NextStep == CASE switching = "normal" -> "done"
              [] switching = "power" -> "load"
              [] OTHER -> "start"

Clear ==
    /\ step = "clear"
    /\ \/ loaded' = loaded \ Leaving /\ step' = NextStep /\ UNCHANGED faults
       \/ Fault /\ loaded' = (loaded \ Leaving) \cup (loaded \cap MayStay) /\ step' = NextStep
       \/ /\ switching # "normal"
          /\ Fault /\ loaded' \in SUBSET loaded /\ step' = "undo"
    /\ UNCHANGED <<flags, switching, was, turn, dual, gaming, game, talk, guard, status, history>>

(* The inner handlers of Dual and Gaming take back their own server; a     *)
(* failed request is then cleaned up further, a RuntimeError is not.       *)
Abort(ends) ==
    /\ mode' = "normal"
    /\ dual' = IF switching = "dual" THEN Stopped(dual) ELSE dual
    /\ gaming' = IF switching = "gaming" THEN Stopped(gaming) ELSE gaming
    /\ step' \in ends
    /\ UNCHANGED loaded

(* dual.start and start_gaming_server.  A server that runs without an      *)
(* owner holds the port.  A Gaming server that runs already is kept; when  *)
(* it does not answer another is started over it, which cannot get the     *)
(* port either, and the first is lost with its model.                      *)
Start ==
    /\ step = "start"
    /\ \/ /\ switching = "dual" /\ dual = "off" /\ ~game
          /\ dual' = "started" /\ step' = "mark"
          /\ UNCHANGED <<mode, gaming, loaded, faults>>
       \/ /\ switching = "gaming" /\ gaming = "off"
          /\ gaming' = "started" /\ step' = "mark"
          /\ UNCHANGED <<mode, dual, loaded, faults>>
       \/ /\ switching = "gaming" /\ gaming \in Serving
          /\ step' = "load"
          /\ UNCHANGED <<mode, servers, faults>>
       \/ /\ switching = "gaming" /\ gaming \in Serving
          /\ Fault /\ gaming' = "lost" /\ mode' = "normal"
          /\ step' = "failed"
          /\ UNCHANGED <<dual, loaded>>
       \/ /\ \/ switching = "dual" /\ (game \/ dual = "orphan")
             \/ switching = "gaming" /\ gaming \in {"orphan", "lost"}
          /\ Abort({"failed"}) /\ UNCHANGED faults
       \/ Fault /\ Abort({"failed", "undo"})
    /\ UNCHANGED <<paused, saved, switching, was, turn, game, talk, guard, status, history>>

(* The marker is written and the server answers.                           *)
Mark ==
    /\ step = "mark"
    /\ \/ /\ switching = "dual" /\ dual = "started"
          /\ dual' = "bare" /\ step' = "load"
          /\ UNCHANGED <<mode, gaming, loaded, faults>>
       \/ /\ switching = "gaming" /\ gaming = "started"
          /\ gaming' = "bare" /\ step' = "load"
          /\ UNCHANGED <<mode, dual, loaded, faults>>
       \/ switching = "gaming" /\ gaming = "off" /\ Abort({"failed"}) /\ UNCHANGED faults
       \/ Fault /\ Abort({"failed", "undo"})
    /\ UNCHANGED <<paused, saved, switching, was, turn, game, talk, guard, status, history>>

(* The preloads.  Power that does not fit is unloaded again if the request *)
(* succeeds.                                                               *)
Load ==
    /\ step = "load"
    /\ \/ /\ switching = "power"
          /\ loaded' = loaded \cup {"power"} /\ mode' = "power" /\ step' = "done"
          /\ UNCHANGED <<dual, gaming, faults>>
       \/ /\ switching = "power"
          /\ Fault /\ loaded' \in {loaded, loaded \cup {"power"}}
          /\ step' \in {"failed", "undo"}
          /\ UNCHANGED <<mode, dual, gaming>>
       \/ /\ switching = "gaming" /\ gaming \in Serving
          /\ gaming' = "loaded" /\ step' = "recheck"
          /\ UNCHANGED <<mode, dual, loaded, faults>>
       \/ /\ switching = "dual" /\ dual \in Serving
          /\ dual' = "loaded" /\ mode' = "dual" /\ step' = "done"
          /\ UNCHANGED <<gaming, loaded, faults>>
       \/ /\ \/ switching = "gaming" /\ gaming \notin Serving
             \/ switching = "dual" /\ dual \notin Serving
          /\ Abort({"undo"}) /\ UNCHANGED faults
       \/ switching # "power" /\ Fault /\ Abort({"failed", "undo"})
    /\ UNCHANGED <<paused, saved, switching, was, turn, game, talk, guard, status, history>>

(* A game that appeared while the model loaded takes the card back.        *)
Recheck ==
    /\ step = "recheck"
    /\ \/ /\ ~game
          /\ mode' = "gaming" /\ step' = "done" /\ UNCHANGED <<servers, faults>>
       \/ game /\ Abort({"failed"}) /\ UNCHANGED faults
       \/ Fault /\ Abort({"failed", "undo"})
    /\ UNCHANGED <<paused, saved, switching, was, turn, game, talk, guard, status, history>>

(* The handlers of a failed request and of a cancellation.                 *)
Undo ==
    /\ step = "undo"
    /\ dual' = Stopped(dual) /\ gaming' = Stopped(gaming) /\ mode' = "normal"
    /\ \/ loaded' = loaded \ {"power"} /\ UNCHANGED faults
       \/ Fault /\ UNCHANGED loaded
    /\ step' = "failed"
    /\ UNCHANGED <<paused, saved, switching, was, turn, game, talk, guard, status, history>>

(* The finally: a pause comes back unless the profile is active; the       *)
(* configuration is written.                                               *)
PauseAfterForgets == FALSE
PauseAfter == step = "failed" /\ was

Finish ==
    /\ step \in {"done", "failed"}
    /\ paused' = PauseAfter
    /\ \/ saved' = paused' /\ UNCHANGED faults
       \/ Fault /\ UNCHANGED saved
    /\ off' = (off /\ step = "failed")
    /\ turn' = "free" /\ switching' = "none" /\ step' = "idle" /\ was' = FALSE
    /\ UNCHANGED <<mode, servers, game, talk, guard, status, released>>

-----------------------------------------------------------------------------
(* unload_model: the pause is on, and on disk, before the turn is awaited. *)

Claim ==
    /\ ~Busy
    /\ paused' = TRUE
    /\ \/ /\ saved' = TRUE /\ switching' = "unload" /\ step' = "wait"
          /\ off' = TRUE /\ UNCHANGED faults
       \/ Fault /\ UNCHANGED <<saved, switching, step, off>>
    /\ UNCHANGED <<mode, was, turn, servers, game, talk, guard, status, released>>

Enter ==
    /\ step = "wait" /\ switching = "unload" /\ turn = "free"
    /\ turn' = "switch" /\ step' = "stop"
    /\ UNCHANGED <<flags, switching, was, servers, game, talk, guard, status, faults, history>>

StopServers ==
    /\ step = "stop"
    /\ dual' = Stopped(dual) /\ gaming' = Stopped(gaming) /\ mode' = "normal"
    /\ step' = "unload"
    /\ UNCHANGED <<paused, saved, switching, was, turn, loaded, game, talk, guard, status, faults, history>>

(* The end of unload_model, confirmed or not.                              *)
Leave(confirmed) ==
    /\ released' = (released \/ confirmed)
    /\ turn' = "free" /\ switching' = "none" /\ step' = "idle"

(* Every model is told to go; Ollama acknowledges it before it is gone.    *)
Unload ==
    /\ step = "unload"
    /\ \/ loaded' = {} /\ step' = "count"
          /\ UNCHANGED <<released, turn, switching, faults>>
       \/ Fault /\ loaded' \in SUBSET loaded /\ step' = "count"
          /\ UNCHANGED <<released, turn, switching>>
       \/ Fault /\ loaded' \in SUBSET loaded /\ Leave(FALSE)
    /\ UNCHANGED <<flags, was, dual, gaming, game, talk, guard, status, off>>

CountTrusting ==
    /\ step = "count"
    /\ Leave(TRUE)
    /\ UNCHANGED <<flags, was, servers, game, talk, guard, status, faults, off>>

(* /api/ps has to be empty.                                                *)
Count ==
    /\ step = "count"
    /\ Leave(loaded = {})
    /\ UNCHANGED <<flags, was, servers, game, talk, guard, status, faults, off>>

-----------------------------------------------------------------------------
(* A turn, under the lock throughout.                                      *)

TakeTurn ==
    /\ chat = "idle" /\ turn = "free" /\ ~paused
    /\ turn' = "chat" /\ chat' = "choose" /\ asks' = MaxAsks
    /\ UNCHANGED <<flags, switch, servers, game, tier, guard, status, faults, history>>

EndTurn == chat' = "idle" /\ turn' = "free" /\ tier' = "normal" /\ asks' = 0

(* select_for_turn: a profile that cannot serve the turn is given up.      *)
Select ==
    /\ chat = "choose"
    /\ \/ paused /\ EndTurn /\ UNCHANGED <<mode, gaming, faults>>
       \/ /\ ~paused /\ chat' = "ask" /\ UNCHANGED <<turn, asks>>
          /\ \/ /\ mode = "gaming"
                /\ \/ (game \/ gaming \notin Owned) /\ UNCHANGED faults
                   \/ Fault
                /\ mode' = "normal" /\ tier' = "normal"
                /\ gaming' = Stopped(gaming)
             \/ /\ mode = "power" /\ Fault
                /\ mode' = "normal" /\ tier' = "normal" /\ UNCHANGED gaming
             \/ /\ ~(mode = "gaming" /\ (game \/ gaming \notin Owned))
                /\ tier' = mode /\ UNCHANGED <<mode, gaming, faults>>
    /\ UNCHANGED <<paused, saved, switch, dual, loaded, game, guard, status, history>>

(* OllamaClient.chat: no request once the pause is on, else the model is   *)
(* brought in by the request.                                              *)
Ask ==
    /\ chat = "ask"
    /\ \/ paused /\ EndTurn /\ UNCHANGED servers
       \/ /\ ~paused /\ tier \in Models
          /\ loaded' = loaded \cup {tier} /\ chat' = "answer"
          /\ UNCHANGED <<dual, gaming, turn, tier, asks>>
       \/ /\ ~paused /\ tier = "gaming"
          /\ gaming' = IF gaming \in Serving THEN "loaded" ELSE gaming
          /\ chat' = "answer" /\ UNCHANGED <<dual, loaded, turn, tier, asks>>
       \/ /\ ~paused /\ tier = "dual"
          /\ dual' = IF dual \in Serving THEN "loaded" ELSE dual
          /\ chat' = "answer" /\ UNCHANGED <<gaming, loaded, turn, tier, asks>>
    /\ UNCHANGED <<flags, switch, game, guard, status, faults, history>>

Lost == \/ tier = "gaming" /\ gaming # "loaded"
        \/ tier = "dual" /\ dual # "loaded"

More == asks > 0

(* The reply arrives, and asks for tools and another request or not.       *)
Answer ==
    /\ chat = "answer"
    /\ \/ ~Lost /\ EndTurn /\ UNCHANGED faults
       \/ /\ ~Lost /\ More
          /\ asks' = asks - 1 /\ chat' = "ask" /\ UNCHANGED <<turn, tier, faults>>
       \/ /\ \/ Lost /\ UNCHANGED faults
             \/ Fault
          /\ chat' = "failed" /\ UNCHANGED <<turn, tier, asks>>
    /\ UNCHANGED <<flags, switch, servers, game, guard, status, history>>

(* A failed request to the large, power or Gaming model is repeated with   *)
(* the small one, whether the model that failed could be unloaded or not;  *)
(* jobs, Dual and the small model give up.                                 *)
MayFallBack == tier # "dual"

FallBack ==
    /\ chat = "failed"
    /\ MayFallBack
    /\ mode' = IF tier \in {"power", "gaming"} THEN "normal" ELSE mode
    /\ gaming' = IF tier = "gaming" THEN Stopped(gaming) ELSE gaming
    /\ loaded' \in {loaded, loaded \ {tier}}
    /\ tier' = "normal" /\ asks' = 0 /\ chat' = "ask"
    /\ UNCHANGED <<paused, saved, switch, turn, dual, game, guard, status, faults, history>>

GiveUp ==
    /\ chat = "failed"
    /\ EndTurn
    /\ UNCHANGED <<flags, switch, servers, game, guard, status, faults, history>>

-----------------------------------------------------------------------------
(* _model_guard_loop wakes every twenty seconds.  It reads the pause and   *)
(* dual.owned, then scans the processes.                                   *)

Wake ==
    /\ guard = "asleep" /\ ~paused /\ dual \notin Owned
    /\ guard' = "awake"
    /\ UNCHANGED <<flags, switch, turn, servers, game, talk, status, faults, history>>

YieldNever == UNCHANGED <<mode, gaming>>

(* The private server of the Gaming profile yields to a game, whatever the *)
(* mode says.                                                              *)
Yield ==
    IF mode = "gaming" \/ gaming \in Owned
      THEN mode' = "normal" /\ gaming' = Stopped(gaming)
      ELSE UNCHANGED <<mode, gaming>>

(* A game is seen, or the scan fails.                                      *)
Act ==
    /\ guard = "awake"
    /\ \/ /\ \/ game /\ UNCHANGED faults
             \/ ~game /\ Fault
          /\ Yield
          /\ \/ turn = "free" /\ turn' = "guard" /\ guard' = "evict"
             \/ guard' = "asleep" /\ UNCHANGED turn
       \/ ~game /\ guard' = "asleep" /\ UNCHANGED <<mode, gaming, turn, faults>>
    /\ UNCHANGED <<paused, saved, switch, dual, loaded, game, talk, status, history>>

(* With one card for games and models, the large model goes too.           *)
Evict ==
    /\ guard = "evict"
    /\ loaded' \in {loaded, loaded \ {"normal"}}
    /\ turn' = "free" /\ guard' = "asleep"
    /\ UNCHANGED <<flags, switch, dual, gaming, game, talk, status, faults, history>>

-----------------------------------------------------------------------------
(* model_status looks at the runtime, awaits several requests, and then    *)
(* gives up a profile by what it saw.                                      *)

Look ==
    /\ status = "idle"
    /\ \/ status' = (IF game \/ gaming \notin Serving THEN "nogaming" ELSE "fine") /\ UNCHANGED faults
       \/ Fault /\ status' = "blind"
    /\ UNCHANGED <<flags, switch, turn, servers, game, talk, guard, history>>

Conclude ==
    /\ status \in {"fine", "nogaming", "blind"}
    /\ IF mode = "gaming" /\ status # "fine" THEN mode' = "normal" /\ status' = "stop"
       ELSE /\ status' = "idle"
            /\ mode' = IF mode = "power" /\ status = "blind" THEN "normal" ELSE mode
    /\ UNCHANGED <<paused, saved, switch, turn, servers, game, talk, guard, faults, history>>

StopGaming ==
    /\ status = "stop"
    /\ gaming' = Stopped(gaming) /\ status' = "idle"
    /\ UNCHANGED <<flags, switch, turn, dual, loaded, game, talk, guard, faults, history>>

-----------------------------------------------------------------------------
(* The world: games, servers that end, and the end and the next start of   *)
(* the application (close() leaves nothing that this does not).            *)

Play ==
    /\ game' = ~game
    /\ UNCHANGED <<flags, switch, turn, servers, talk, guard, status, faults, history>>

ServerEnds ==
    /\ Fault
    /\ \/ dual \in Owned /\ dual' = "off" /\ UNCHANGED gaming
       \/ gaming \in Owned /\ gaming' = "off" /\ UNCHANGED dual
    /\ UNCHANGED <<flags, switch, turn, loaded, game, talk, guard, status, history>>

(* A server without its marker cannot be found.                            *)
Found(server) == IF server = "started" THEN "orphan" ELSE server

Restart ==
    /\ paused' = saved /\ UNCHANGED saved
    /\ dual' = Found(dual)
    /\ gaming' = Stopped(Found(gaming))
    /\ IF dual' \in Owned
         THEN mode' = "dual" /\ UNCHANGED loaded
         ELSE mode' = "normal" /\ loaded' \in {loaded, loaded \ {"power"}}
    /\ switching' = "none" /\ step' = "idle" /\ was' = FALSE /\ turn' = "free"
    /\ chat' = "idle" /\ tier' = "normal" /\ asks' = 0
    /\ guard' = "asleep" /\ status' = "idle"
    /\ UNCHANGED <<game, faults, history>>

-----------------------------------------------------------------------------
Switching == \/ Begin \/ Prepare \/ Verify \/ Clear \/ Start \/ Mark
             \/ Load \/ Recheck \/ Undo \/ Finish
Unloading == Enter \/ StopServers \/ Unload \/ Count
Talking == Select \/ Ask \/ Answer \/ FallBack \/ GiveUp
Guarding == Wake \/ Act \/ Evict

Next ==
    \/ \E profile \in Profiles : Choose(profile)
    \/ Withdraw \/ Switching
    \/ Claim \/ Unloading
    \/ TakeTurn \/ Talking
    \/ Guarding
    \/ Look \/ Conclude \/ StopGaming
    \/ Play \/ ServerEnds \/ Restart

Spec == Init /\ [][Next]_vars

(* Requests have time limits and the threads of a switch, of a turn and of *)
(* the guard go on; owners, games and faults need not come.                *)
Fairness == /\ WF_vars(Switching) /\ WF_vars(Unloading)
            /\ WF_vars(Talking) /\ WF_vars(Guarding) /\ WF_vars(StopGaming)
FairSpec == Spec /\ Fairness

-----------------------------------------------------------------------------
(* After unload_model has confirmed the release, no model is in memory and *)
(* no server of which the application holds the process runs until the     *)
(* owner chooses a profile: not by a turn that waited, nor by a restart, a *)
(* status poll or the guard.  A server that Start lost is out of reach.    *)
ReleasedIsFree ==
    released => loaded = {} /\ dual \notin Owned /\ gaming \notin Owned

(* The owner's release outlasts failed and cancelled activations and       *)
(* restarts: only a completed activation of a profile ends the pause.      *)
PauseIsKept == off /\ turn # "switch" => paused /\ saved

(* While the Dual server holds both cards no other own model is loaded and *)
(* the Gaming server does not run, whatever failed, was adopted after a    *)
(* restart or was asked in a turn.                                         *)
DualAlone == dual \in Owned => loaded = {} /\ gaming \notin Owned

(* A game gets the card of the Gaming profile back: the server is stopped  *)
(* (or lost) or the game ends first.  The excuse is a release that failed  *)
(* or was cancelled before it began: it leaves the server running and the  *)
(* pause on, during which the guard does nothing.                          *)
GameGetsTheCard ==
    (game /\ gaming = "loaded") ~> (~game \/ gaming # "loaded" \/ (paused /\ ~Busy))
=============================================================================
