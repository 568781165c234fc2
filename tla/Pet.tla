-------------------------------- MODULE Pet ---------------------------------
(***************************************************************************)
(* The pet on the desktop: PetWindow of ui.py with its timers, the layer   *)
(* that waits for a click, the queue of events it polls, and PetState.     *)
(* Everything below runs in the one Qt thread, so every timer, click and   *)
(* poll is one action; what changes beside it are the pet's rest (a phone  *)
(* interacts from the API's threads, energy passes a limit), the queue,    *)
(* and the device the pet is on.                                           *)
(*                                                                         *)
(* Geometry is abstracted to what decides a branch: the steps left on a    *)
(* way, whether the sprite reaches out of the screen, and whether          *)
(* something overlaps or a way exists, chosen freely.                      *)
(* Needs other than rest, sounds and speech are left out.                  *)
(***************************************************************************)
EXTENDS Naturals, Sequences

CONSTANTS
    MaxMoves,   \* what the owner, the phone, the day and a trip do, in all
    MaxEvents,  \* events in the queue
    MaxWay,     \* the longest way, in steps
    None        \* no way

ASSUME PetAssumption == /\ MaxMoves \in Nat /\ MaxEvents \in Nat \ {0} /\ MaxWay \in Nat
                        /\ None \notin Nat

Rests == {"awake", "asleep", "seated"}
Kinds == {"feed", "pet", "play", "sleep", "wake", "sit", "resume"}
Events == Kinds \cup {"message", "action", "authorization"}
LemonGame == {"aiming_lemon", "lemon_flying", "fetching", "returning"}
Modes == LemonGame \cup {"idle", "placing_bed", "feeding"}
Ways == (0 .. MaxWay) \cup {None}

VARIABLES
    rest,       \* PetState.asleep and PetState.seated, never both
    events,     \* CompanionService.events, as far as the pet reads them
    home,       \* TravelManager: the active device is this PC
    win,        \* PetWindow
    moves       \* bounds the inputs

petVars == <<rest, events, home, win, moves>>

PetWindow == [mode : Modes, purpose : {"idle", "wander", "fetch", "return", "eevee"},
           way : Ways, walk : BOOLEAN,          \* wander_target, movement_timer
           overlay : {"", "bed", "lemon"}, flight : BOOLEAN, lemon : BOOLEAN,
           berry : BOOLEAN, stage : 0 .. 3, feed : BOOLEAN,   \* feed_timer
           bed : BOOLEAN, onBed : BOOLEAN, away : BOOLEAN,
           button : BOOLEAN, drag : BOOLEAN,
           moved : {"no", "dragged", "stroked"},              \* pet_distance
           eevee : BOOLEAN, missed : 0 .. 1, greet : BOOLEAN, \* presence, its timer
           outside : BOOLEAN]      \* the sprite reaches out of the screen

PetTypeOK ==
    /\ rest \in Rests /\ home \in BOOLEAN /\ moves \in 0 .. MaxMoves
    /\ events \in Seq(Events) /\ Len(events) <= MaxEvents
    /\ win \in PetWindow

-----------------------------------------------------------------------------
(* What an interaction does to the rest: the methods of PetState.          *)
Rested(r, kind) ==
    CASE kind = "sleep" -> "asleep"
      [] kind = "sit" -> "seated"
      [] kind \in {"resume", "play"} -> "awake"
      [] OTHER -> IF r = "asleep" THEN "awake" ELSE r

-----------------------------------------------------------------------------
(* Pieces of PetWindow: w is the window, r the rest it reads.              *)

(* ensure_on_screen: when the sprite has to be moved into the screen, the  *)
(* target and the timer of a walk go; what the walk was for stays.         *)
EnsureOnScreen[w \in PetWindow] ==
    IF w.away \/ w.drag \/ ~w.outside THEN w
    ELSE [w EXCEPT !.way = None, !.walk = FALSE]

(* play: whichever animation, unless the pet is elsewhere; then its frames *)
(* have to fit into the screen.                                            *)
Play(w) == EnsureOnScreen[w]

Halt(w) == [w EXCEPT !.way = None, !.purpose = "idle", !.walk = FALSE]

(* A walk: the target, then play, then movement_timer, in this order; play *)
(* may take the target away again.                                         *)
WalkOn(w, purpose, d) ==
    [Play([w EXCEPT !.purpose = purpose, !.way = d]) EXCEPT !.walk = TRUE]

(* ensure_eevee_separation: whether the two overlap is free.               *)
Apart(w) == IF w.drag THEN {w} ELSE {w, Halt(w)}

(* move_next_to_eevee, unless it is there or has no room.                  *)
NextToEevee(w) == {w} \cup {WalkOn(w, "eevee", d) : d \in 1 .. MaxWay}

(* PlacementOverlay.cancel with on_placement_cancelled.                    *)
CloseOverlay(w) ==
    LET expected == IF w.overlay = "bed" THEN "placing_bed" ELSE "aiming_lemon"
    IN  IF w.overlay = "" THEN w
        ELSE [w EXCEPT !.overlay = "",
                       !.mode = IF @ = expected THEN "idle" ELSE @]

CancelFetch(w) ==
    LET o == IF w.overlay = "lemon" THEN CloseOverlay(w) ELSE w
    IN  Play([Halt(o) EXCEPT !.flight = FALSE, !.lemon = FALSE,
                             !.mode = IF @ \in LemonGame THEN "idle" ELSE @])

(* What prepare_for_authorization and the food do with an open layer.      *)
LeaveOverlay(w) ==
    IF w.overlay = "lemon" THEN CancelFetch(w) ELSE CloseOverlay(w)

(* start_feed_sequence ends whatever else was going on.                    *)
StartFeed(w) ==
    LET o == LeaveOverlay(w)
        c == IF o.mode \in {"idle", "feeding"} THEN o ELSE CancelFetch(o)
    IN  Play([Halt(c) EXCEPT !.mode = "feeding", !.stage = 0, !.berry = TRUE,
                             !.feed = TRUE])

Schedule(w) == [w EXCEPT !.greet = ~w.away /\ w.eevee]

(* Arrivals. Each is the set of pairs of a window and whether the game has *)
(* been won, which interact("play") rewards.                               *)
Finished(w) ==
    IF w.mode # "returning" THEN {<<w, FALSE>>}
    ELSE {<<[Halt(w) EXCEPT !.lemon = FALSE, !.mode = "idle"], TRUE>>}

Collected(w) ==
    IF w.mode # "fetching" THEN {<<w, FALSE>>}
    ELSE LET c == [w EXCEPT !.mode = "returning", !.purpose = "return", !.lemon = TRUE]
         IN  Finished([c EXCEPT !.way = 0])
               \cup {<<WalkOn(c, "return", d), FALSE>> : d \in 1 .. MaxWay}

Chased(w) ==
    IF w.mode # "lemon_flying" THEN {<<w, FALSE>>}
    ELSE LET c == [w EXCEPT !.mode = "fetching", !.purpose = "fetch", !.way = 0]
         IN  Collected(c)
               \cup {<<WalkOn(c, "fetch", d), FALSE>> : d \in 1 .. MaxWay}

-----------------------------------------------------------------------------
(* poll_events: one event, with the rest of that moment.                   *)
Listened(w, r) ==
    IF r = "asleep" \/ w.mode # "idle" \/ w.drag THEN w
    ELSE IF w.purpose = "wander" THEN Play(Halt(w))
    ELSE IF w.purpose # "idle" \/ w.walk THEN w
    ELSE Play(w)

(* Mutant: sitting down leaves the meal as it is.                          *)
SatHungry(w) ==
    LET c == CancelFetch(CloseOverlay(w))
    IN  Play([Halt(c) EXCEPT !.feed = FALSE, !.berry = FALSE, !.onBed = FALSE,
                             !.greet = FALSE])

Sat(w) ==
    LET c == CancelFetch(CloseOverlay(w))
    IN  Play([Halt(c) EXCEPT !.feed = FALSE, !.berry = FALSE, !.mode = "idle",
                             !.onBed = FALSE, !.greet = FALSE])

Interacted(w, kind) ==
    LET up == IF kind = "sleep" THEN w ELSE [w EXCEPT !.onBed = FALSE]
    IN  CASE kind = "sit" -> Sat(w)
          [] kind = "resume" -> Schedule(Play(up))
          [] kind = "feed" -> StartFeed(up)
          [] kind = "sleep" -> Play(IF w.mode \in LemonGame THEN CancelFetch(w) ELSE w)
          [] OTHER -> Play(up)

Handled(w, r, e) ==
    IF e = "authorization" THEN LeaveOverlay(w)
    ELSE IF w.away THEN w
    ELSE CASE e = "message" -> Listened(w, r)
           [] e = "action" -> Play(w)
           [] OTHER -> Interacted(w, e)

(* The pet leaves: the food stays in its mode, without berry and timer.    *)
Left(w) ==
    LET c == CloseOverlay(CancelFetch([w EXCEPT !.away = TRUE]))
    IN  [c EXCEPT !.feed = FALSE, !.berry = FALSE, !.walk = FALSE,
                  !.greet = FALSE]

Returned(w) == Play([w EXCEPT !.away = FALSE])

-----------------------------------------------------------------------------
(* Bounds and the parts that actions share.                                *)
Input == moves < MaxMoves /\ moves' = moves + 1

Interact(kind) ==
    /\ Len(events) < MaxEvents
    /\ rest' = Rested(rest, kind)
    /\ events' = Append(events, kind)

InteractOr(kinds) == IF kinds = {} THEN UNCHANGED <<rest, events>>
                     ELSE \E k \in kinds : Interact(k)

PetInit ==
    /\ rest \in Rests /\ events = <<>> /\ home = TRUE /\ moves = 0
    /\ \E b \in BOOLEAN :
        win = [mode |-> "idle", purpose |-> "idle", way |-> None, walk |-> FALSE,
               overlay |-> "", flight |-> FALSE, lemon |-> FALSE,
               berry |-> FALSE, stage |-> 0, feed |-> FALSE,
               bed |-> b, onBed |-> b /\ rest = "asleep", away |-> FALSE,
               button |-> FALSE, drag |-> FALSE, moved |-> "no",
               eevee |-> FALSE, missed |-> 0, greet |-> FALSE,
               outside |-> FALSE]

-----------------------------------------------------------------------------
(* The menu of the pet, which needs the pet on the screen.                 *)
RequestFeed ==
    /\ Input /\ ~win.away /\ win.mode = "idle"
    /\ Interact("feed") /\ UNCHANGED <<home, win>>

(* Mutant: the pet walks on while the owner aims.                          *)
BeginFetchWalking ==
    /\ Input /\ ~win.away /\ win.mode = "idle"
    /\ InteractOr(CASE rest = "seated" -> {"resume"} [] rest = "asleep" -> {"wake"}
                    [] OTHER -> {})
    /\ win' = [win EXCEPT !.mode = "aiming_lemon", !.overlay = "lemon"]
    /\ UNCHANGED home

(* begin_fetch_game gets the pet up first.                                 *)
BeginFetchGame ==
    /\ Input /\ ~win.away /\ win.mode = "idle"
    /\ InteractOr(CASE rest = "seated" -> {"resume"} [] rest = "asleep" -> {"wake"}
                    [] OTHER -> {})
    /\ win' = [Halt(win) EXCEPT !.onBed = @ /\ rest # "asleep",
                                !.mode = "aiming_lemon", !.overlay = "lemon"]
    /\ UNCHANGED home

(* A walk goes on while the bed is placed.                                 *)
BeginBedPlacement ==
    /\ Input /\ ~win.away /\ win.mode = "idle"
    /\ win' = [win EXCEPT !.mode = "placing_bed", !.overlay = "bed"]
    /\ UNCHANGED <<rest, events, home>>

RemoveBed ==
    /\ Input /\ ~win.away /\ win.bed
    /\ InteractOr(IF win.onBed /\ rest = "asleep" THEN {"wake"} ELSE {})
    /\ win' = [win EXCEPT !.onBed = FALSE, !.bed = FALSE]
    /\ UNCHANGED home

ToggleSleep ==
    /\ Input /\ ~win.away
    /\ Interact(IF rest = "asleep" THEN "wake" ELSE "sleep")
    /\ win' = [win EXCEPT !.onBed = @ /\ rest # "asleep"]
    /\ UNCHANGED home

(* play_expression: also what the pet does by itself.                      *)
Expressive == /\ rest = "awake" /\ ~win.drag /\ win.mode = "idle"
              /\ win.purpose \in {"idle", "wander"}

Expression == win' = Play(Halt(win))

PlayExpression ==
    /\ Input /\ ~win.away /\ Expressive /\ Expression
    /\ UNCHANGED <<rest, events, home>>

(* _recover_screen_layout after a change of the screens.                   *)
RecoverScreenLayout ==
    /\ Input /\ ~win.away
    /\ win' = LET h == Halt(win)
              IN  EnsureOnScreen[IF h.mode \in LemonGame THEN CancelFetch(h) ELSE h]
    /\ UNCHANGED <<rest, events, home>>

-----------------------------------------------------------------------------
(* The layer that waits for a click, for 30 seconds at most.               *)
PlaceBed ==
    /\ win.overlay = "bed"
    /\ win' = LET c == [win EXCEPT !.overlay = ""]
              IN  IF c.mode # "placing_bed" THEN c
                  ELSE [c EXCEPT !.bed = TRUE, !.mode = "idle"]
    /\ UNCHANGED <<rest, events, home, moves>>

(* throw_lemon: the pet may have no way to where the lemon falls.          *)
ThrowLemon ==
    /\ win.overlay = "lemon"
    /\ LET c == [win EXCEPT !.overlay = ""]
       IN  win' \in IF c.mode # "aiming_lemon" THEN {c}
                    ELSE {[c EXCEPT !.mode = "lemon_flying", !.lemon = TRUE,
                                    !.flight = TRUE], CancelFetch(c)}
    /\ UNCHANGED <<rest, events, home, moves>>

CancelPlacement ==
    /\ win.overlay # "" /\ win' = CloseOverlay(win)
    /\ UNCHANGED <<rest, events, home, moves>>

-----------------------------------------------------------------------------
(* The mouse on the pet. A press during a task only takes the button.      *)
MousePress ==
    /\ Input /\ ~win.away /\ ~win.button
    /\ IF win.mode # "idle"
       THEN win' = [win EXCEPT !.button = TRUE] /\ UNCHANGED <<rest, events>>
       ELSE /\ InteractOr(IF rest = "asleep" THEN {"wake"} ELSE {})
            /\ win' = [Halt(win) EXCEPT !.button = TRUE, !.drag = TRUE, !.moved = "no",
                                        !.onBed = @ /\ rest # "asleep"]
    /\ UNCHANGED home

MouseMove ==
    /\ win.drag
    /\ \/ /\ win.moved = "no" /\ win' = [win EXCEPT !.moved = "dragged"]
          /\ UNCHANGED <<rest, events>>
       \/ /\ win.moved = "dragged" /\ win' = [win EXCEPT !.moved = "stroked"]
          /\ Interact("pet")
    /\ UNCHANGED <<home, moves>>

(* mouseReleaseEvent: pet_distance may be that of an earlier press. `over' *)
(* is the mattress.                                                        *)
MouseRelease ==
    /\ win.button
    /\ LET dragged == win.moved # "no"
           up == [win EXCEPT !.button = FALSE, !.drag = FALSE]
       IN  \/ /\ dragged /\ rest # "seated" /\ win.bed      \* over: sleep_on_bed
              /\ win' = Play([Halt(up) EXCEPT !.onBed = TRUE])
              /\ InteractOr(IF rest = "asleep" THEN {} ELSE {"sleep"})
           \/ /\ LET off == dragged /\ win.onBed
                     w == [up EXCEPT !.onBed = @ /\ ~off]
                 IN  /\ InteractOr(IF off /\ rest = "asleep" THEN {"wake"} ELSE {})
                     /\ \/ win' = EnsureOnScreen[w]
                        \/ /\ w.eevee /\ rest # "seated"
                           /\ win' \in {EnsureOnScreen[a] : a \in Apart(w)}
    /\ UNCHANGED <<home, moves>>

-----------------------------------------------------------------------------
(* The timers.                                                             *)

(* The flight ends: start_lemon_chase.                                     *)
FlightEnds ==
    /\ win.flight
    /\ \E c \in Chased([win EXCEPT !.flight = FALSE]) :
        /\ win' = c[1] /\ InteractOr(IF c[2] THEN {"play"} ELSE {})
    /\ UNCHANGED <<home, moves>>

(* Mutant: the berry does not get smaller.                                 *)
FeedTickSame ==
    /\ win.feed
    /\ win' = IF win.mode = "feeding" THEN Play(win)
              ELSE [win EXCEPT !.feed = FALSE]
    /\ UNCHANGED <<rest, events, home, moves>>

(* advance_feed_sequence.                                                  *)
FeedTick ==
    /\ win.feed
    /\ win' = LET w == [win EXCEPT !.feed = FALSE]
                  e == IF w.stage = 0 THEN Play(w) ELSE w
              IN  IF w.mode # "feeding" THEN w
                  ELSE IF w.stage < 3
                  THEN [e EXCEPT !.stage = @ + 1, !.feed = TRUE]
                  ELSE Play([w EXCEPT !.berry = FALSE, !.mode = "idle"])
    /\ UNCHANGED <<rest, events, home, moves>>

(* One step of a stroll: there, blocked by the bed, Eevee or the edge of   *)
(* the screen, or on, with the frames of Walk again where it turns.        *)
WanderStep(w) ==
    LET on == [w EXCEPT !.way = @ - 1]
    IN  {Play(Halt(w))} \cup (IF w.way > 0 THEN {on, Play(on)} ELSE {})

(* move_step: what one tick of the walk may come to.                       *)
Stepped(w, r) ==
    LET h == Halt(w)
        stopped == {<<Play(h), FALSE>>}
        on == {<<[w EXCEPT !.way = @ - 1], FALSE>>}
    IN  IF r # "awake" THEN stopped
        ELSE IF w.way = None THEN {<<h, FALSE>>}
        ELSE IF w.purpose = "wander" THEN {<<v, FALSE>> : v \in WanderStep(w)}
        ELSE IF w.way = 0
        THEN CASE w.purpose = "fetch" -> Collected(h)
               [] w.purpose = "return" -> Finished(h)
               [] OTHER -> stopped
        ELSE on \cup (IF ~w.eevee THEN {}                         \* Eevee in the way
                      ELSE IF w.purpose \in {"fetch", "return"}
                      THEN {<<CancelFetch(h), FALSE>>} ELSE stopped)

MoveStep ==
    /\ win.walk /\ ~win.away /\ home
    /\ \E s \in Stepped(win, rest) :
        /\ win' = s[1] /\ InteractOr(IF s[2] THEN {"play"} ELSE {})
    /\ UNCHANGED <<home, moves>>

(* start_wander, when one of the eight directions is free.                 *)
StartWander == \E d \in 1 .. MaxWay : win' = WalkOn(win, "wander", d)

(* autonomous_behavior: rest as it is, sleep when tired, wander or a       *)
(* gesture.                                                                *)
AutonomousBehavior ==
    /\ ~win.away /\ home
    /\ win.mode = "idle" /\ ~win.drag /\ ~win.walk
    /\ \/ /\ rest # "awake"
          /\ win' = Play(win)
          /\ UNCHANGED <<rest, events>>
       \/ rest = "awake" /\ Interact("sleep") /\ UNCHANGED win
       \/ /\ rest = "awake"
          /\ StartWander \/ (Expressive /\ Expression)
          /\ UNCHANGED <<rest, events>>
    /\ UNCHANGED <<home, moves>>

(* update_eevee_presence: a lost poll counts only the second time. What    *)
(* was seen last time decides whether the pet greets.                      *)
EeveeIsGone ==
    win' = IF win.eevee /\ win.missed = 0 THEN [win EXCEPT !.missed = 1]
           ELSE [win EXCEPT !.eevee = FALSE, !.missed = 1, !.greet = FALSE]

EeveeIsHere ==
    LET w == [win EXCEPT !.eevee = TRUE, !.missed = 0]
        c == IF w.mode \in LemonGame THEN CancelFetch(w) ELSE w
        inside == {EnsureOnScreen[a] : a \in Apart(c)}
        met(a) == IF rest = "asleep" \/ a.mode # "idle" THEN {a}
                  ELSE {IF b.walk THEN b ELSE Play(b) : b \in NextToEevee(a)}
    IN  win' \in IF rest = "seated" THEN {[w EXCEPT !.greet = FALSE]}
                 ELSE IF win.eevee THEN inside
                 ELSE {Schedule(b) : b \in UNION {met(a) : a \in inside}}

UpdateEeveePresence ==
    /\ ~win.away /\ (EeveeIsGone \/ EeveeIsHere)
    /\ UNCHANGED <<rest, events, home, moves>>

(* interact_with_eevee: busy also when a window of the chat is open.       *)
InteractWithEevee ==
    /\ win.greet
    /\ win' \in LET w == [win EXCEPT !.greet = FALSE]
                IN  IF w.away \/ ~w.eevee THEN {w}
                    ELSE {Schedule(w)} \cup
                         (IF rest # "awake" \/ w.mode # "idle" THEN {}
                          ELSE {Schedule(Play(a)) : a \in Apart(w)})
    /\ UNCHANGED <<rest, events, home, moves>>

(* ensure_on_screen by itself: its timer of two seconds, another size of   *)
(* the sprite, and the play at the end of an animation.                    *)
ScreenRecovery == win' = EnsureOnScreen[win] /\ UNCHANGED <<rest, events, home, moves>>

(* poll_events: a trip that began or ended, then all that is in the queue, *)
(* one event after the other.                                              *)
Noticed ==
    IF win.away # home THEN win ELSE IF home THEN Returned(win) ELSE Left(win)

AfterEvents[i \in 0 .. Len(events)] ==
    IF i = 0 THEN Noticed ELSE Handled(AfterEvents[i - 1], rest, events[i])

PollEvents ==
    /\ events # <<>> \/ win.away = home
    /\ win' = AfterEvents[Len(events)]
    /\ events' = <<>>
    /\ UNCHANGED <<rest, home, moves>>

-----------------------------------------------------------------------------
(* Beside the thread.                                                      *)

(* CompanionService.interact from a phone, the client of a walk, the tray. *)
RemoteInteract ==
    /\ Input /\ (\E kind \in Kinds : Interact(kind)) /\ UNCHANGED <<home, win>>

(* A turn of the chat: a message, an action, an authorization.             *)
ChatEvent ==
    /\ Input /\ Len(events) < MaxEvents
    /\ \E e \in Events \ Kinds : events' = Append(events, e)
    /\ UNCHANGED <<rest, home, win>>

(* PetState.advance: tired to sleep, or slept out. No event tells it.      *)
Advance ==
    /\ Input /\ rest # "seated"
    /\ rest' = IF rest = "asleep" THEN "awake" ELSE "asleep"
    /\ UNCHANGED <<events, home, win>>

(* TravelManager, see Travel: the pet arrives elsewhere, or comes back.    *)
Trip == Input /\ home' = ~home /\ UNCHANGED <<rest, events, win>>

(* return_home, from the tray or the dialog, does not wait for the poll.   *)
CallHome ==
    /\ Input /\ home' = TRUE /\ win' = EnsureOnScreen[[win EXCEPT !.away = FALSE]]
    /\ UNCHANGED <<rest, events>>

(* Where the pet stands, what it shows and the screens: whether the sprite *)
(* fits. One value for all the frames an action plays is enough, for what  *)
(* was moved into the screen does not undo or redo anything.               *)
Placed == win' = [win EXCEPT !.outside = ~@] /\ UNCHANGED <<rest, events, home, moves>>

Owned == \/ RequestFeed \/ BeginFetchGame \/ BeginBedPlacement \/ RemoveBed
         \/ ToggleSleep \/ PlayExpression \/ RecoverScreenLayout
         \/ PlaceBed \/ ThrowLemon \/ CancelPlacement
         \/ MousePress \/ MouseMove \/ MouseRelease \/ CallHome

PetNext == \/ Owned
        \/ FlightEnds \/ FeedTick \/ MoveStep \/ AutonomousBehavior
        \/ UpdateEeveePresence \/ InteractWithEevee \/ ScreenRecovery \/ PollEvents
        \/ RemoteInteract \/ ChatEvent \/ Advance \/ Trip \/ Placed

PetSpec == PetInit /\ [][PetNext]_petVars

(* The timers of Qt fire and the layer gives up after 30 seconds.          *)
FairPet == /\ PetSpec
            /\ WF_petVars(FlightEnds) /\ WF_petVars(FeedTick) /\ WF_petVars(MoveStep)
            /\ WF_petVars(PollEvents) /\ WF_petVars(CancelPlacement)

-----------------------------------------------------------------------------
(* Something carries each task on: a timer, a layer, a way to go.          *)
Carried(w) ==
    CASE w.mode = "idle" -> TRUE
      [] w.mode = "placing_bed" -> w.overlay = "bed"
      [] w.mode = "aiming_lemon" -> w.overlay = "lemon"
      [] w.mode = "feeding" -> w.feed
      [] w.mode = "lemon_flying" -> w.flight
      [] OTHER -> w.walk /\ w.way # None

(* The state machine of the interactions keeps meals, aim, flight and both *)
(* ways of the lemon apart from walks of the pet's own and from Eevee.     *)
Single(w) ==
    /\ w.mode \in {"feeding", "aiming_lemon", "lemon_flying"}
          => w.purpose = "idle" /\ w.way = None
    /\ w.mode = "fetching" => w.purpose \in {"fetch", "idle"}
    /\ w.mode = "returning" => w.purpose \in {"return", "idle"}
    /\ w.mode \in {"idle", "placing_bed"} => w.purpose \notin {"fetch", "return"}

OneErrand == Single(win)

(* ensure_on_screen took the way of a run for the lemon: nothing sets out  *)
(* again, and the next tick of the walk, if there is one, ends it.         *)
Aground(w) ==
    /\ w.outside /\ w.way = None
    /\ \/ w.mode = "fetching" /\ w.purpose = "fetch"
       \/ w.mode = "returning" /\ w.purpose = "return"

(* A task loses what carries it on, and stays in its mode, in four cases   *)
(* only: the pet leaves during a meal; and, while it runs for the lemon or *)
(* sets out to, its sprite does not fit into the screen, it falls asleep   *)
(* or sits down, or it is clicked on.                                      *)
KeepsGoing ==
    [][Carried(win) /\ ~Carried(win')
         => \/ win.mode = "feeding" /\ win'.away
            \/ Aground(win')
            \/ /\ win.mode \in {"fetching", "returning"}
               /\ MouseRelease \/ (MoveStep /\ rest # "awake")]_petVars

(* A task that is carried on ends, however events, trips and Eevee cut in. *)
InteractionEnds == win.mode # "idle" ~> (win.mode = "idle" \/ ~Carried(win))

=============================================================================
