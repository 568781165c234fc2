------------------------------- MODULE Travel --------------------------------
(***************************************************************************)
(* The walk of the pet between devices: TravelManager (travel.py) and its  *)
(* routes (api.py) on the PC, the poll of the desktop pet (ui.py), and the *)
(* Linux client (scripts/traveler_linux.py), which sends heartbeats through *)
(* an SSH tunnel that may delay, lose or cut them.                         *)
(*                                                                         *)
(* Time passes in units of a few seconds.  Every moment that the code      *)
(* compares with the clock is kept as an age that stops growing once the   *)
(* comparison is decided.                                                  *)
(***************************************************************************)
EXTENDS Naturals, FiniteSets

CONSTANTS
    Devices,
    Home, Nobody,   \* active on the PC; nothing pending
    Lease,          \* LEASE_SECONDS, 8 s
    Pending,        \* PENDING_SECONDS, 20 s
    Window,         \* the client's window, 5 s
    MaxLate         \* bound: abandoned requests still on their way

ASSUME TravelAssumption ==
    /\ Home \notin Devices /\ Nobody \notin Devices
    /\ Lease \in Nat /\ Pending \in Nat /\ Window \in Nat
    /\ Window < Lease
    /\ MaxLate \in Nat

VARIABLES
    mgr,            \* TravelManager: active, pending, their ages, tunnels
    alive,          \* ssh processes that run
    valid,          \* devices whose client holds the present token
    polled, visible,\* the desktop: polled in this unit; its pet is shown
    client,         \* of each device: shown, active, ready, age of its window
    exchange,       \* of each device: the request its thread waits for
    late,           \* abandoned requests
    returning,      \* the device whose return has been checked
    wish, wishAge,  \* history: the owner's choice that no arrival has used up
    gone            \* history: since when each device is not active

pc == <<mgr, alive, polled, visible, returning>>
network == <<exchange, late>>
history == <<wish, wishAge, gone>>
vars == <<pc, valid, client, network, history>>

(* An age up to a limit, and one step beyond it.                           *)
Ages(limit) == 0 .. limit + 1
Older(age, limit) == IF age > limit THEN age ELSE age + 1

Requests == [kind : {"heartbeat", "return"}, ready : BOOLEAN, admitted : BOOLEAN]
NoExchange == [step |-> "none"]
Cut == [step |-> "cut"]     \* no answer will come: the thread waits for its timeout
Sent == [step : {"sent"}, request : Requests, age : Ages(Window)]
Answered == [step : {"answered"}, active : BOOLEAN, requested : BOOLEAN, age : Ages(Window)]

TypeOK ==
    /\ mgr \in [active : Devices \cup {Home}, pending : Devices \cup {Nobody},
                waited : Ages(Pending), silent : [Devices -> Ages(Lease)],
                tunnels : SUBSET Devices]
    /\ mgr.pending # Nobody => mgr.active = Home
    /\ alive \subseteq Devices /\ valid \subseteq Devices
    /\ polled \in BOOLEAN /\ visible \in BOOLEAN
    /\ client \in [Devices -> [shown : BOOLEAN, active : BOOLEAN, ready : BOOLEAN,
                               age : Ages(Window)]]
    /\ \A d \in Devices : client[d].active \/ client[d].ready => client[d].shown
    /\ exchange \in [Devices -> {NoExchange, Cut} \cup Sent \cup Answered]
    /\ late \subseteq Devices \X Requests
    /\ returning \in Devices \cup {Nobody}
    /\ wish \in Devices \cup {Nobody} /\ wishAge \in Ages(Pending)
    /\ gone \in [Devices -> Ages(Window + 1)]

Hidden == [shown |-> FALSE, active |-> FALSE, ready |-> FALSE, age |-> Window + 1]

NewManager(tunnels) ==
    [active |-> Home, pending |-> Nobody, waited |-> 0,
     silent |-> [d \in Devices |-> Lease + 1], tunnels |-> tunnels]

Init ==
    /\ mgr = NewManager({})
    /\ alive = {} /\ valid = Devices
    /\ polled = FALSE /\ visible = TRUE
    /\ client = [d \in Devices |-> Hidden]
    /\ exchange = [d \in Devices |-> NoExchange]
    /\ late = {} /\ returning = Nobody
    /\ wish = Nobody /\ wishAge = 0
    /\ gone = [d \in Devices |-> Window + 2]

-----------------------------------------------------------------------------
(* home()                                                                  *)
Homed(m) == [m EXCEPT !.active = Home, !.pending = Nobody]

(* Mutant: no lease.                                                       *)
NeverLapsed(m) == FALSE

Lapsed(m) == m.active # Home /\ m.silent[m.active] > Lease

(* Mutant: a request waits for ever.                                       *)
NeverGivenUp(m) == FALSE

GivenUp(m) == m.pending # Nobody /\ m.waited > Pending

(* _expire: the lease of the active device, the age of the request, and    *)
(* the ssh processes that have ended.                                      *)
Expired(m) ==
    LET a == IF Lapsed(m) THEN Homed(m) ELSE m
        b == IF GivenUp(a) THEN [a EXCEPT !.pending = Nobody] ELSE a
        dead == m.tunnels \ alive
    IN  [b EXCEPT !.tunnels = @ \ dead,
                  !.pending = IF @ \in dead THEN Nobody ELSE @]

Went(m, d) == [m EXCEPT !.active = d, !.pending = Nobody]

(* heartbeat()                                                             *)
Beaten(m, d, ready) ==
    LET e == Expired(m)
        s == IF ready THEN [e EXCEPT !.silent[d] = 0] ELSE e
    IN  IF ready /\ e.pending = d THEN Went(s, d)
        ELSE IF ~ready /\ e.active = d THEN Homed(s)
        ELSE s

(* The history that a new state of the manager brings with it.             *)
Manage(m) ==
    /\ mgr' = m
    /\ gone' = [d \in Devices |-> IF m.active = d THEN 0 ELSE gone[d]]

Arrived(m) == m.active # Home /\ mgr.active # m.active
ForgetWish == wish' = Nobody /\ wishAge' = 0

(* The desktop polls the manager every 120 ms and shows or hides its pet.  *)
Poll ==
    /\ Manage(Expired(mgr))
    /\ polled' = TRUE
    /\ visible' = (mgr'.active = Home)
    /\ polled = FALSE \/ mgr' # mgr \/ visible' # visible
    /\ UNCHANGED <<alive, returning, valid, client, network, wish, wishAge>>

(* select() from the owner's dialog or API, for a device: a second choice  *)
(* while a device is active is refused, or already fulfilled.              *)
Select(d) ==
    LET m == Expired(mgr) IN
    IF m.active # Home
    THEN /\ Manage(m)
         /\ UNCHANGED <<alive, polled, visible, returning, valid, client, network,
                        wish, wishAge>>
    ELSE /\ Manage([m EXCEPT !.tunnels = @ \cup {d}, !.pending = d, !.waited = 0])
         /\ alive' = IF d \in m.tunnels THEN alive ELSE alive \cup {d}
         /\ wish' = d /\ wishAge' = 0
         /\ UNCHANGED <<polled, visible, returning, valid, client, network>>

(* The owner takes the pet back: return_home of the desktop shows it at    *)
(* once, the dialog and the API leave that to the next poll.               *)
OwnerHome ==
    /\ Manage(Homed(mgr))
    /\ visible' \in {visible, TRUE}
    /\ ForgetWish
    /\ UNCHANGED <<alive, polled, returning, valid, client, network>>

(* register() of a known device: a new token, which the client has not.    *)
Register(d) ==
    /\ Manage([Homed(mgr) EXCEPT !.silent[d] = Lease + 1])
    /\ valid' = valid \ {d}
    /\ ForgetWish
    /\ UNCHANGED <<alive, polled, visible, returning, client, network>>

Unadmitted(d) == exchange[d].step = "sent" /\ ~exchange[d].request.admitted

(* The installer brings the new token to the client and starts it again:   *)
(* Fail has stopped it.  Requests with the old token are refused, unless   *)
(* they were admitted.                                                     *)
Install(d) ==
    /\ d \notin valid
    /\ exchange[d] = NoExchange /\ ~client[d].shown
    /\ valid' = valid \cup {d}
    /\ late' = {l \in late : l[1] = d => l[2].admitted}
    /\ UNCHANGED <<pc, client, exchange, history>>

(* The application ends and is started again.  It adopts the tunnels that  *)
(* still run: after close() none does.  What the server had in hand is     *)
(* lost.                                                                   *)
Restart ==
    /\ Manage(NewManager(mgr.tunnels \cap alive))
    /\ visible' = TRUE /\ returning' = Nobody
    /\ ForgetWish
    /\ exchange' = [d \in Devices |->
          IF exchange[d].step = "sent" /\ ~Unadmitted(d) THEN Cut ELSE exchange[d]]
    /\ late' = {l \in late : ~l[2].admitted}
    /\ UNCHANGED <<alive, polled, valid, client>>

(* ssh gives up, or is ended by close(): requests in the tunnel are lost.  *)
TunnelDies(d) ==
    /\ d \in alive
    /\ alive' = alive \ {d}
    /\ late' = {l \in late : l[1] = d => l[2].admitted}
    /\ exchange' = IF Unadmitted(d) THEN [exchange EXCEPT ![d] = Cut] ELSE exchange
    /\ UNCHANGED <<mgr, polled, visible, returning, valid, client, history>>

-----------------------------------------------------------------------------
(* The client's thread sends a heartbeat, or first the owner's wish to go  *)
(* back.                                                                   *)
Send(d, kind) ==
    /\ exchange[d] = NoExchange
    /\ kind = "return" => client[d].shown
    /\ exchange' = [exchange EXCEPT ![d] =
          [step |-> "sent", age |-> 0,
           request |-> [kind |-> kind, ready |-> kind = "heartbeat" /\ client[d].ready,
                        admitted |-> FALSE]]]
    /\ UNCHANGED <<pc, valid, client, late, history>>

(* Requests on their way: the one the client waits for, and the late ones. *)
Live(d, q) == exchange[d].step = "sent" /\ exchange[d].request = q
Under(d, q) == Live(d, q) \/ <<d, q>> \in late

(* travel_authorize runs before the route, in another thread.              *)
Admit(d, q, islate) ==
    LET admitted == [q EXCEPT !.admitted = TRUE] IN
    /\ ~q.admitted /\ d \in valid /\ d \in alive
    /\ IF islate
       THEN /\ <<d, q>> \in late
            /\ late' = (late \ {<<d, q>>}) \cup {<<d, admitted>>}
            /\ UNCHANGED exchange
       ELSE /\ Live(d, q)
            /\ exchange' = [exchange EXCEPT ![d].request = admitted]
            /\ UNCHANGED late
    /\ UNCHANGED <<pc, valid, client, history>>

(* The request has been handled: a client that waits is told, if the       *)
(* tunnel still runs.                                                      *)
Answer(d, q, islate, told) ==
    IF islate
    THEN /\ <<d, q>> \in late
         /\ late' = late \ {<<d, q>>}
         /\ UNCHANGED exchange
    ELSE /\ Live(d, q)
         /\ exchange' = [exchange EXCEPT ![d] = IF d \in alive THEN told ELSE Cut]
         /\ UNCHANGED late

Heartbeat(d, q, islate) ==
    LET m == Beaten(mgr, d, q.ready) IN
    /\ q.kind = "heartbeat" /\ q.admitted /\ returning = Nobody
    /\ Manage(m)
    /\ Answer(d, q, islate, [step |-> "answered", age |-> exchange[d].age,
                            active |-> m.active = d, requested |-> m.pending = d])
    /\ IF Arrived(m) THEN ForgetWish ELSE UNCHANGED <<wish, wishAge>>
    /\ UNCHANGED <<alive, polled, visible, returning, valid, client>>

(* travel_return: the route looks at a snapshot, and then goes home; the   *)
(* desktop's thread may act in between, other routes may not.  The client  *)
(* does not read the answer and sends its heartbeat.                       *)
ReturnCheck(d, q, islate) ==
    LET m == Expired(mgr) IN
    /\ q.kind = "return" /\ q.admitted /\ returning = Nobody
    /\ Manage(m)
    /\ Answer(d, q, islate, NoExchange)
    /\ returning' = IF m.active = d \/ m.pending = d THEN d ELSE Nobody
    /\ UNCHANGED <<alive, polled, visible, valid, client, wish, wishAge>>

ReturnHome ==
    /\ returning # Nobody
    /\ Manage(Homed(mgr))
    /\ returning' = Nobody
    /\ ForgetWish
    /\ UNCHANGED <<alive, polled, visible, valid, client, network>>

-----------------------------------------------------------------------------
Show(d, c) == client' = [client EXCEPT ![d] = c]
Idle(d) == exchange' = [exchange EXCEPT ![d] = NoExchange]

(* Mutant: the window is counted from the arrival of the answer.           *)
AgeOnArrival(x) == 0

WindowAge(x) == x.age

(* apply(): an answer to a request older than the window hides the pet.    *)
Apply(d) ==
    LET x == exchange[d] IN
    /\ x.step = "answered"
    /\ Idle(d)
    /\ Show(d, IF x.age > Window \/ ~(x.active \/ x.requested) THEN Hidden
               ELSE [client[d] EXCEPT !.shown = TRUE, !.active = x.active,
                                      !.age = WindowAge(x)])
    /\ UNCHANGED <<pc, valid, late, history>>

(* The request times out or is refused, or the client's service is stopped: *)
(* failed() hides the pet.  A request that was not answered may still be on *)
(* its way.                                                                *)
Fail(d, lost) ==
    LET x == exchange[d] IN
    /\ x # NoExchange
    /\ x.step \in {"answered", "cut"} => lost
    /\ Idle(d)
    /\ Show(d, Hidden)
    /\ late' = IF lost THEN late ELSE late \cup {<<d, x.request>>}
    /\ ~lost => Cardinality(late') <= MaxLate
    /\ UNCHANGED <<pc, valid, history>>

(* draw(): the first frame of a shown pet.                                 *)
Draw(d) ==
    /\ client[d].shown /\ ~client[d].ready
    /\ Show(d, [client[d] EXCEPT !.ready = TRUE])
    /\ UNCHANGED <<pc, valid, network, history>>

Overdue(c) == c.shown /\ c.age > Window

(* tick() of the client.                                                   *)
Hide(d) ==
    /\ Overdue(client[d])
    /\ Show(d, Hidden)
    /\ UNCHANGED <<pc, valid, network, history>>

(* A unit of time: the timers of both programs are much shorter, and have  *)
(* run in the last one.                                                    *)
Tick ==
    /\ polled
    /\ \A d \in Devices : ~Overdue(client[d])
    /\ polled' = FALSE
    /\ mgr' = [mgr EXCEPT !.waited = IF mgr.pending = Nobody THEN 0 ELSE Older(@, Pending),
                          !.silent = [d \in Devices |-> Older(@[d], Lease)]]
    /\ client' = [d \in Devices |-> [client[d] EXCEPT !.age = Older(@, Window)]]
    /\ exchange' = [d \in Devices |-> IF exchange[d].step \in {"sent", "answered"}
                                      THEN [exchange[d] EXCEPT !.age = Older(@, Window)]
                                      ELSE exchange[d]]
    /\ wishAge' = IF wish = Nobody THEN 0 ELSE Older(wishAge, Pending)
    /\ gone' = [d \in Devices |-> IF mgr.active = d THEN 0 ELSE Older(gone[d], Window + 1)]
    /\ UNCHANGED <<alive, visible, returning, valid, late, wish>>

Owner ==
    \/ OwnerHome \/ Restart
    \/ \E d \in Devices : Select(d) \/ Register(d) \/ Install(d)

Server ==
    \/ ReturnHome
    \/ \E d \in Devices, q \in Requests, islate \in BOOLEAN :
          /\ Under(d, q)
          /\ Admit(d, q, islate) \/ Heartbeat(d, q, islate) \/ ReturnCheck(d, q, islate)

Client(d) ==
    \/ \E kind \in {"heartbeat", "return"} : Send(d, kind)
    \/ \E lost \in BOOLEAN : Fail(d, lost)
    \/ Apply(d) \/ Draw(d)

Timers == Poll \/ Tick \/ \E d \in Devices : Hide(d)

Next == Owner \/ Server \/ Timers \/ \E d \in Devices : Client(d) \/ TunnelDies(d)

Spec == Init /\ [][Next]_vars

(* The timers go on; nothing is promised of the network, of the client's   *)
(* thread or of the owner.                                                 *)
FairSpec == Spec /\ WF_vars(Poll) /\ WF_vars(Tick) /\ \A d \in Devices : WF_vars(Hide(d))

-----------------------------------------------------------------------------
(* The pet goes to a device only on a choice of the owner that is not used *)
(* up, taken back or older than its time; a delayed heartbeat brings no    *)
(* trip about.                                                             *)
NoTripUnasked ==
    [][mgr'.active \in Devices \ {mgr.active} =>
          /\ wish = mgr'.active
          /\ wishAge <= Pending]_vars

(* When a lease runs out the client has already taken the pet off its      *)
(* screen, so that the PC never shows a second one for a lost connection.  *)
ClientLeavesFirst ==
    \A d \in Devices : mgr.active = d /\ mgr.silent[d] > Lease => ~client[d].active

(* However the trip ended, the client that was left stops showing the pet  *)
(* within its window and one unit of its timer, whatever is lost.          *)
ClientLeaves ==
    \A d \in Devices : gone[d] > Window + 1 => ~client[d].active

(* The pet does not stay away: unless the owner makes another choice, it   *)
(* is shown on the PC or active on a client again.                         *)
PetReappears ==
    ~visible ~> (visible \/ wish # Nobody \/ \E d \in Devices : client[d].active)
=============================================================================
