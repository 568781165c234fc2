------------------------------ MODULE Pet_proofs ------------------------------
(***************************************************************************)
(* Proofs about the pet: its walk from device to device (Travel), then     *)
(* what it does on the desktop (Pet).  The two modules share no name, so   *)
(* that one module extends both; each has its own specification.           *)
(*                                                                         *)
(* Travel, for any number of devices and any lease longer than the window: *)
(* Timely is the inductive invariant: the age of a window, counted from    *)
(* the moment its request was sent, bounds the time for which the manager  *)
(* has not heard from the device.                                          *)
(*                                                                         *)
(* Pet, for any length of a way, any queue and any number of inputs: a     *)
(* handler is a composition of functions on the record `win'; what they    *)
(* preserve together is Able, and Onward says that a task is still carried *)
(* on by something.                                                        *)
(***************************************************************************)
EXTENDS Travel, Pet, WellFoundedInduction, TLAPS

Managers == [active : Devices \cup {Home}, pending : Devices \cup {Nobody},
             waited : Ages(Pending), silent : [Devices -> Ages(Lease)],
             tunnels : SUBSET Devices]

(* What a pending request says of the owner's wish.                        *)
Wished == mgr.pending # Nobody => wish = mgr.pending /\ wishAge = mgr.waited

(* What a client was told, by a request sent "age" ago: it was active then. *)
Since(d, age) == gone[d] <= age /\ (mgr.active = d => mgr.silent[d] <= age)

(* The windows that are open, and the answers that may still open one.     *)
WindowsFresh == \A d \in Devices : client[d].active => Since(d, client[d].age)

AnswersFresh ==
    \A d \in Devices :
        exchange[d].step = "answered" /\ exchange[d].active =>
            exchange[d].age > Window \/ Since(d, exchange[d].age)

Timely == TypeOK /\ Wished /\ WindowsFresh /\ AnswersFresh

-----------------------------------------------------------------------------
(* _expire sends the pet home, drops a request, or does nothing.           *)
LEMMA ExpiredOnlyDrops ==
    ASSUME NEW m \in Managers, m.pending # Nobody => m.active = Home
    PROVE  /\ Expired(m) \in Managers
           /\ Expired(m).active \in {m.active, Home}
           /\ Expired(m).pending \in {m.pending, Nobody}
           /\ Expired(m).pending # Nobody => m.waited <= Pending
           /\ Expired(m).pending # Nobody => Expired(m).active = Home
           /\ Expired(m).waited = m.waited
           /\ Expired(m).silent = m.silent
<1> DEFINE a == IF Lapsed(m) THEN Homed(m) ELSE m
           b == IF GivenUp(a) THEN [a EXCEPT !.pending = Nobody] ELSE a
           dead == m.tunnels \ alive
           e == [b EXCEPT !.tunnels = @ \ dead,
                          !.pending = IF @ \in dead THEN Nobody ELSE @]
<1>1. /\ a \in Managers /\ a.active \in {m.active, Home}
      /\ a.pending \in {m.pending, Nobody}
      /\ a.pending # Nobody => a.active = Home
      /\ a.waited = m.waited /\ a.silent = m.silent
    BY DEF Managers, Homed, Lapsed
<1>2. /\ b \in Managers /\ b.active = a.active
      /\ b.pending \in {a.pending, Nobody}
      /\ b.pending # Nobody => b.waited <= Pending
      /\ b.waited = a.waited /\ b.silent = a.silent
  <2>1. CASE GivenUp(a)
    BY <1>1, <2>1 DEF Managers
  <2>2. CASE ~GivenUp(a)
    BY <1>1, <2>2, TravelAssumption DEF Managers, GivenUp, Ages
  <2>3. QED
    BY <2>1, <2>2
<1> HIDE DEF a, b
<1>3. /\ e \in Managers /\ e.active = b.active
      /\ e.pending \in {b.pending, Nobody}
      /\ e.waited = b.waited /\ e.silent = b.silent
    BY <1>2 DEF Managers
<1>4. Expired(m) = e
    BY DEF Expired, a, b
<1>5. QED
    BY <1>1, <1>2, <1>3, <1>4, TravelAssumption DEF Managers

(* What a heartbeat of d makes of m: the pet goes to d only when d is the  *)
(* pending device, and is left there only when d can paint.                *)
GoesWhereWished(m, n, d, ready) ==
    /\ n \in Managers
    /\ n.pending # Nobody => n.active = Home
    /\ n.pending \in {m.pending, Nobody} /\ n.waited = m.waited
    /\ \/ n.active \in {m.active, Home}
       \/ n.active = d /\ m.pending = d /\ m.waited <= Pending /\ n.pending = Nobody
    /\ n.active = d => ready /\ n.silent[d] = 0
    /\ \A k \in Devices \ {d} : n.silent[k] = m.silent[k]

LEMMA BeatenGoesWhereWished ==
    ASSUME NEW m \in Managers, m.pending # Nobody => m.active = Home,
           NEW d \in Devices, NEW ready \in BOOLEAN
    PROVE  GoesWhereWished(m, Beaten(m, d, ready), d, ready)
<1> DEFINE e == Expired(m)
           s == IF ready THEN [e EXCEPT !.silent[d] = 0] ELSE e
<1>1. /\ e \in Managers
      /\ e.active \in {m.active, Home}
      /\ e.pending \in {m.pending, Nobody}
      /\ e.pending # Nobody => m.waited <= Pending
      /\ e.pending # Nobody => e.active = Home
      /\ e.waited = m.waited /\ e.silent = m.silent
    BY ExpiredOnlyDrops
<1> DEFINE n == Beaten(m, d, ready)
<1> HIDE DEF e
<1>2. /\ s \in Managers /\ s.active = e.active /\ s.pending = e.pending
      /\ s.waited = e.waited
      /\ ready => s.silent[d] = 0
      /\ \A k \in Devices \ {d} : s.silent[k] = e.silent[k]
  <2>1. 0 \in Ages(Lease)
    BY TravelAssumption DEF Ages
  <2>2. QED
    BY <1>1, <2>1 DEF Managers
<1> HIDE DEF s
<1>3. n = IF ready /\ e.pending = d THEN Went(s, d)
                            ELSE IF ~ready /\ e.active = d THEN Homed(s) ELSE s
    BY DEF Beaten, e, s
<1> HIDE DEF n
<1>4. Went(s, d) \in Managers /\ Homed(s) \in Managers
    BY <1>2 DEF Went, Homed, Managers
<1>5. Home \notin Devices /\ Nobody \notin Devices
    BY TravelAssumption
<1>6. CASE ready /\ e.pending = d
  <2>1. n = Went(s, d)
    BY <1>3, <1>6
  <2>2. /\ Went(s, d).active = d /\ Went(s, d).pending = Nobody
        /\ Went(s, d).waited = s.waited /\ Went(s, d).silent = s.silent
    BY <1>2 DEF Went, Managers
  <2>3. d # Nobody /\ m.pending = d /\ m.waited <= Pending
    BY <1>1, <1>5, <1>6
  <2>4. n.waited = m.waited /\ n.silent[d] = 0 /\ n \in Managers
    BY <1>1, <1>2, <1>4, <1>6, <2>1, <2>2
  <2>5. \A k \in Devices \ {d} : n.silent[k] = m.silent[k]
    BY <1>1, <1>2, <2>1, <2>2
  <2>6. QED
    BY <1>6, <2>1, <2>2, <2>3, <2>4, <2>5 DEF GoesWhereWished, n
<1>7. CASE ~ready /\ e.active = d
  <2>1. n = Homed(s)
    BY <1>3, <1>7
  <2>2. /\ Homed(s).active = Home /\ Homed(s).pending = Nobody
        /\ Homed(s).waited = s.waited /\ Homed(s).silent = s.silent
    BY <1>2 DEF Homed, Managers
  <2>3. QED
    BY <1>1, <1>2, <1>4, <1>5, <1>7, <2>1, <2>2 DEF GoesWhereWished, n
<1>8. CASE ~(ready /\ e.pending = d) /\ ~(~ready /\ e.active = d)
  <2>1. n = s
    BY <1>3, <1>8
  <2>2. QED
    BY <1>1, <1>2, <1>5, <1>8, <2>1 DEF GoesWhereWished, n
<1>9. QED
    BY <1>6, <1>7, <1>8

-----------------------------------------------------------------------------
(* What most steps leave as it was: how long ago a device was heard, the   *)
(* windows that stay open, the answers that wait to be read.               *)
HeardKept ==
    \A d \in Devices :
        /\ gone'[d] \in {gone[d], 0}
        /\ mgr'.active = d => \/ mgr.active = d /\ mgr'.silent[d] = mgr.silent[d]
                              \/ mgr'.silent[d] = 0

WindowsKept ==
    \A d \in Devices : client'[d].active =>
        client[d].active /\ client'[d].age = client[d].age

AnswersKept ==
    \A d \in Devices : exchange'[d].step = "answered" =>
        \/ exchange'[d] = exchange[d]
        \/ exchange'[d].active => gone'[d] = 0 /\ mgr'.silent[d] = 0

Exchanges == {NoExchange, Cut} \cup Sent \cup Answered

LEMMA ExchangeOfStep ==
    ASSUME NEW x \in Exchanges
    PROVE  /\ x.step = "sent" => x.request \in Requests /\ x.age \in Ages(Window)
           /\ x.step = "answered" => /\ x.active \in BOOLEAN /\ x.requested \in BOOLEAN
                                     /\ x.age \in Ages(Window)
           /\ x.step \notin {"none", "cut"} => x.step \in {"sent", "answered"}
    BY DEF Exchanges, NoExchange, Cut, Sent, Answered

LEMMA WindowsStayFresh ==
    ASSUME Timely, HeardKept, WindowsKept
    PROVE  WindowsFresh'
<1> SUFFICES ASSUME NEW d \in Devices, client'[d].active
             PROVE  Since(d, client[d].age)'
    BY DEF WindowsFresh
<1>1. client[d].active /\ client'[d].age = client[d].age /\ client[d].age \in Nat
    BY DEF WindowsKept, Timely, TypeOK, Ages
<1>2. Since(d, client[d].age)
    BY <1>1 DEF Timely, WindowsFresh
<1>3. QED
    BY <1>1, <1>2 DEF Since, HeardKept

LEMMA AnswersStayFresh ==
    ASSUME Timely, TypeOK', HeardKept, AnswersKept
    PROVE  AnswersFresh'
<1> SUFFICES ASSUME NEW d \in Devices, exchange'[d].step = "answered", exchange'[d].active
             PROVE  exchange'[d].age > Window \/ Since(d, exchange[d].age)'
    BY DEF AnswersFresh
<1>1. exchange'[d].age \in Nat
  <2>1. exchange'[d] \in Exchanges
    BY DEF TypeOK, Exchanges
  <2>2. QED
    BY <2>1, ExchangeOfStep DEF Ages
<1>2. CASE exchange'[d] = exchange[d]
  <2>1. exchange[d].age > Window \/ Since(d, exchange[d].age)
    BY <1>2 DEF Timely, AnswersFresh
  <2>2. QED
    BY <1>1, <1>2, <2>1 DEF Since, HeardKept
<1>3. CASE gone'[d] = 0 /\ mgr'.silent[d] = 0
    BY <1>1, <1>3 DEF Since
<1>4. QED
    BY <1>2, <1>3 DEF AnswersKept

(* A new state of the manager keeps the types, the history with it.        *)
LEMMA ManageTypes ==
    ASSUME TypeOK, NEW n \in Managers, Manage(n)
    PROVE  mgr' = n /\ mgr' \in Managers /\ gone' \in [Devices -> Ages(Window + 1)]
<1>1. 0 \in Ages(Window + 1)
    BY TravelAssumption DEF Ages
<1>2. QED
    BY <1>1 DEF Manage, TypeOK

LEMMA ManageHeard ==
    ASSUME TypeOK, NEW n \in Managers, Manage(n),
           \A d \in Devices : n.active = d => \/ mgr.active = d /\ n.silent[d] = mgr.silent[d]
                                             \/ n.silent[d] = 0
    PROVE  HeardKept
    BY DEF Manage, TypeOK, HeardKept

LEMMA InitTimely == Init => Timely
<1> SUFFICES ASSUME Init PROVE Timely
    OBVIOUS
<1>1. /\ 0 \in Ages(Pending) /\ Lease + 1 \in Ages(Lease)
      /\ Window + 1 \in Ages(Window) /\ Window + 2 \in Ages(Window + 1)
    BY TravelAssumption DEF Ages
<1>2. TypeOK
    BY <1>1, TravelAssumption DEF Init, TypeOK, NewManager, Hidden
<1>3. QED
    BY <1>2 DEF Init, Timely, Wished, WindowsFresh, AnswersFresh, NewManager, Hidden, NoExchange

LEMMA PollTimely ==
    ASSUME Timely, Poll
    PROVE  Timely'
<1> DEFINE n == Expired(mgr)
<1>1. /\ n \in Managers
      /\ n.active \in {mgr.active, Home}
      /\ n.pending \in {mgr.pending, Nobody}
      /\ n.pending # Nobody => n.active = Home
      /\ n.waited = mgr.waited /\ n.silent = mgr.silent
    BY ExpiredOnlyDrops DEF Timely, TypeOK, Managers
<1>2. Manage(n)
    BY DEF Poll
<1> HIDE DEF n
<1>3. mgr' = n /\ mgr' \in Managers /\ gone' \in [Devices -> Ages(Window + 1)]
    BY <1>1, <1>2, ManageTypes DEF Timely
<1>4. HeardKept
    BY <1>1, <1>2, ManageHeard, TravelAssumption DEF Timely
<1>5. TypeOK'
    BY <1>1, <1>3 DEF Poll, Timely, TypeOK, Managers, network
<1>6. Wished'
    BY <1>1, <1>3 DEF Poll, Timely, Wished
<1>7. QED
    BY <1>4, <1>5, <1>6, WindowsStayFresh, AnswersStayFresh
        DEF Timely, WindowsKept, AnswersKept, Poll, network

(* _expire on the present state of the manager.                            *)
LEMMA ExpiredNow ==
    ASSUME Timely
    PROVE  /\ Expired(mgr) \in Managers
           /\ Expired(mgr).active \in {mgr.active, Home}
           /\ Expired(mgr).pending \in {mgr.pending, Nobody}
           /\ Expired(mgr).pending # Nobody => Expired(mgr).active = Home
           /\ Expired(mgr).waited = mgr.waited /\ Expired(mgr).silent = mgr.silent
    BY ExpiredOnlyDrops DEF Timely, TypeOK, Managers

LEMMA SelectTimely ==
    ASSUME Timely, NEW d \in Devices, Select(d)
    PROVE  Timely'
<1> DEFINE m == Expired(mgr)
           n == [m EXCEPT !.tunnels = @ \cup {d}, !.pending = d, !.waited = 0]
<1>1. /\ m \in Managers
      /\ m.active \in {mgr.active, Home}
      /\ m.pending \in {mgr.pending, Nobody}
      /\ m.pending # Nobody => m.active = Home
      /\ m.waited = mgr.waited /\ m.silent = mgr.silent
    BY ExpiredNow
<1>2. CASE m.active # Home
  <2>1. /\ Manage(m)
        /\ UNCHANGED <<alive, polled, visible, returning, valid, client, network,
                       wish, wishAge>>
    BY <1>2 DEF Select
  <2> HIDE DEF m
  <2>2. mgr' = m /\ mgr' \in Managers /\ gone' \in [Devices -> Ages(Window + 1)]
    BY <1>1, <2>1, ManageTypes DEF Timely
  <2>3. HeardKept
    BY <1>1, <2>1, ManageHeard, TravelAssumption DEF Timely
  <2>4. TypeOK'
    BY <1>1, <2>1, <2>2 DEF Timely, TypeOK, Managers, network
  <2>5. Wished'
    BY <1>1, <2>1, <2>2 DEF Timely, Wished
  <2>6. QED
    BY <2>1, <2>3, <2>4, <2>5, WindowsStayFresh, AnswersStayFresh
        DEF Timely, WindowsKept, AnswersKept, network
<1>3. CASE m.active = Home
  <2>1. /\ Manage(n)
        /\ alive' \in {alive, alive \cup {d}}
        /\ wish' = d /\ wishAge' = 0
        /\ UNCHANGED <<polled, visible, returning, valid, client, network>>
    BY <1>3 DEF Select
  <2> HIDE DEF m
  <2>2. 0 \in Ages(Pending)
    BY TravelAssumption DEF Ages
  <2>3. /\ n \in Managers /\ n.active = Home /\ n.pending = d
        /\ n.waited = 0 /\ n.silent = mgr.silent
    BY <1>1, <1>3, <2>2 DEF Managers
  <2> HIDE DEF n
  <2>4. mgr' = n /\ mgr' \in Managers /\ gone' \in [Devices -> Ages(Window + 1)]
    BY <2>1, <2>3, ManageTypes DEF Timely
  <2>5. HeardKept
    BY <2>1, <2>3, ManageHeard, TravelAssumption DEF Timely
  <2>6. TypeOK'
    BY <2>1, <2>2, <2>3, <2>4 DEF Timely, TypeOK, Managers, network
  <2>7. Wished'
    BY <2>1, <2>3, <2>4 DEF Wished
  <2>8. QED
    BY <2>1, <2>5, <2>6, <2>7, WindowsStayFresh, AnswersStayFresh
        DEF Timely, WindowsKept, AnswersKept, network
<1>4. QED
    BY <1>2, <1>3

(* Steps after which the pet is at home and nothing is pending.            *)
LEMMA HomeTimely ==
    ASSUME Timely, TypeOK', NEW n \in Managers, Manage(n),
           n.active = Home, n.pending = Nobody, WindowsKept, AnswersKept
    PROVE  Timely'
<1>1. HeardKept
    BY ManageHeard, TravelAssumption DEF Timely
<1>2. Wished'
    BY DEF Wished, Manage
<1>3. QED
    BY <1>1, <1>2, WindowsStayFresh, AnswersStayFresh DEF Timely

LEMMA HomedIsHome ==
    ASSUME NEW m \in Managers
    PROVE  /\ Homed(m) \in Managers /\ Homed(m).active = Home
           /\ Homed(m).pending = Nobody /\ Homed(m).silent = m.silent
    BY DEF Homed, Managers

LEMMA OwnerHomeTimely ==
    ASSUME Timely, OwnerHome
    PROVE  Timely'
<1>1. Homed(mgr) \in Managers /\ Homed(mgr).active = Home /\ Homed(mgr).pending = Nobody
    BY HomedIsHome DEF Timely, TypeOK, Managers
<1>2. Manage(Homed(mgr))
    BY DEF OwnerHome
<1>3. mgr' = Homed(mgr) /\ mgr' \in Managers /\ gone' \in [Devices -> Ages(Window + 1)]
    BY <1>1, <1>2, ManageTypes DEF Timely
<1>4. wishAge' \in Ages(Pending)
    BY TravelAssumption DEF OwnerHome, ForgetWish, Ages
<1>5. TypeOK'
    BY <1>1, <1>3, <1>4 DEF OwnerHome, ForgetWish, Timely, TypeOK, Managers, network
<1>6. QED
    BY <1>1, <1>2, <1>5, HomeTimely DEF OwnerHome, WindowsKept, AnswersKept, network

LEMMA ReturnHomeTimely ==
    ASSUME Timely, ReturnHome
    PROVE  Timely'
<1>1. Homed(mgr) \in Managers /\ Homed(mgr).active = Home /\ Homed(mgr).pending = Nobody
    BY HomedIsHome DEF Timely, TypeOK, Managers
<1>2. Manage(Homed(mgr))
    BY DEF ReturnHome
<1>3. mgr' = Homed(mgr) /\ mgr' \in Managers /\ gone' \in [Devices -> Ages(Window + 1)]
    BY <1>1, <1>2, ManageTypes DEF Timely
<1>4. wishAge' \in Ages(Pending)
    BY TravelAssumption DEF ReturnHome, ForgetWish, Ages
<1>5. TypeOK'
    BY <1>1, <1>3, <1>4 DEF ReturnHome, ForgetWish, Timely, TypeOK, Managers, network
<1>6. QED
    BY <1>1, <1>2, <1>5, HomeTimely DEF ReturnHome, WindowsKept, AnswersKept, network

LEMMA RegisterTimely ==
    ASSUME Timely, NEW d \in Devices, Register(d)
    PROVE  Timely'
<1> DEFINE h == Homed(mgr)
           n == [h EXCEPT !.silent[d] = Lease + 1]
<1>1. h \in Managers /\ h.active = Home /\ h.pending = Nobody
    BY HomedIsHome DEF Timely, TypeOK, Managers
<1>2. Manage(n)
    BY DEF Register
<1> HIDE DEF h
<1>3. Lease + 1 \in Ages(Lease) /\ 0 \in Ages(Pending)
    BY TravelAssumption DEF Ages
<1>4. n \in Managers /\ n.active = Home /\ n.pending = Nobody
    BY <1>1, <1>3 DEF Managers
<1> HIDE DEF n
<1>5. mgr' = n /\ mgr' \in Managers /\ gone' \in [Devices -> Ages(Window + 1)]
    BY <1>2, <1>4, ManageTypes DEF Timely
<1>6. TypeOK'
    BY <1>3, <1>4, <1>5 DEF Register, ForgetWish, Timely, TypeOK, Managers, network
<1>7. QED
    BY <1>2, <1>4, <1>6, HomeTimely DEF Register, WindowsKept, AnswersKept, network

LEMMA RestartTimely ==
    ASSUME Timely, Restart
    PROVE  Timely'
<1> DEFINE n == NewManager(mgr.tunnels \cap alive)
<1>1. /\ Lease + 1 \in Ages(Lease) /\ 0 \in Ages(Pending)
    BY TravelAssumption DEF Ages
<1>2. n \in Managers /\ n.active = Home /\ n.pending = Nobody
    BY <1>1 DEF NewManager, Managers, Timely, TypeOK
<1>3. Manage(n)
    BY DEF Restart
<1> HIDE DEF n
<1>4. mgr' = n /\ mgr' \in Managers /\ gone' \in [Devices -> Ages(Window + 1)]
    BY <1>2, <1>3, ManageTypes DEF Timely
<1>5. \A d \in Devices : exchange'[d] \in {exchange[d], Cut}
    BY DEF Restart
<1>6. exchange' \in [Devices -> {NoExchange, Cut} \cup Sent \cup Answered]
    BY <1>5 DEF Restart, Timely, TypeOK
<1>7. TypeOK'
    BY <1>1, <1>2, <1>4, <1>6 DEF Restart, ForgetWish, Timely, TypeOK, Managers
<1>8. AnswersKept
    BY <1>5 DEF AnswersKept, Cut
<1>9. QED
    BY <1>2, <1>3, <1>7, <1>8, HomeTimely DEF Restart, WindowsKept

-----------------------------------------------------------------------------
(* Steps of the network and of the client leave the manager alone.         *)
LEMMA AwayTimely ==
    ASSUME Timely, TypeOK', UNCHANGED <<mgr, wish, wishAge, gone>>, WindowsKept, AnswersKept
    PROVE  Timely'
<1>1. HeardKept
    BY DEF HeardKept
<1>2. Wished'
    BY DEF Timely, Wished
<1>3. QED
    BY <1>1, <1>2, WindowsStayFresh, AnswersStayFresh DEF Timely

LEMMA InstallTimely ==
    ASSUME Timely, NEW d \in Devices, Install(d)
    PROVE  Timely'
<1>1. TypeOK'
    BY DEF Install, Timely, TypeOK, pc, history
<1>2. QED
    BY <1>1, AwayTimely DEF Install, pc, history, WindowsKept, AnswersKept

LEMMA TunnelDiesTimely ==
    ASSUME Timely, NEW d \in Devices, TunnelDies(d)
    PROVE  Timely'
<1>1. \A k \in Devices : exchange'[k] \in {exchange[k], Cut}
    BY DEF TunnelDies, Timely, TypeOK
<1>2. exchange' \in [Devices -> {NoExchange, Cut} \cup Sent \cup Answered]
    BY DEF TunnelDies, Timely, TypeOK
<1>3. TypeOK'
    BY <1>2 DEF TunnelDies, Timely, TypeOK, history
<1>4. QED
    BY <1>1, <1>3, AwayTimely DEF TunnelDies, history, WindowsKept, AnswersKept, Cut

LEMMA SendTimely ==
    ASSUME Timely, NEW d \in Devices, NEW kind \in {"heartbeat", "return"}, Send(d, kind)
    PROVE  Timely'
<1> DEFINE q == [kind |-> kind, ready |-> kind = "heartbeat" /\ client[d].ready,
                 admitted |-> FALSE]
           x == [step |-> "sent", age |-> 0, request |-> q]
<1>1. q \in Requests
    BY DEF Requests, Timely, TypeOK
<1> HIDE DEF q
<1>2. x \in Sent
  <2>1. 0 \in Ages(Window)
    BY TravelAssumption DEF Ages
  <2>2. QED
    BY <1>1, <2>1 DEF Sent
<1>3. exchange' = [exchange EXCEPT ![d] = x]
    BY DEF Send, q
<1> HIDE DEF x
<1>4. TypeOK'
  <2>1. exchange' \in [Devices -> {NoExchange, Cut} \cup Sent \cup Answered]
    BY <1>2, <1>3 DEF Timely, TypeOK
  <2>2. UNCHANGED <<pc, valid, client, late, history>>
    BY DEF Send
  <2>3. QED
    BY <2>1, <2>2 DEF Timely, TypeOK, pc, history
<1>5. AnswersKept
    BY <1>2, <1>3 DEF Sent, AnswersKept, Timely, TypeOK
<1>6. QED
    BY <1>4, <1>5, AwayTimely DEF Send, pc, history, WindowsKept

LEMMA AdmitTimely ==
    ASSUME Timely, NEW d \in Devices, NEW q \in Requests, NEW islate \in BOOLEAN,
           Admit(d, q, islate)
    PROVE  Timely'
<1> DEFINE admitted == [q EXCEPT !.admitted = TRUE]
<1>1. admitted \in Requests
    BY DEF Requests
<1>2. CASE islate
  <2>1. late' = (late \ {<<d, q>>}) \cup {<<d, admitted>>} /\ UNCHANGED exchange
    BY <1>2 DEF Admit
  <2> HIDE DEF admitted
  <2>2. TypeOK'
    BY <1>1, <2>1 DEF Admit, Timely, TypeOK, pc, history
  <2>3. QED
    BY <2>1, <2>2, AwayTimely DEF Admit, pc, history, WindowsKept, AnswersKept
<1>3. CASE ~islate
  <2> DEFINE x == [exchange[d] EXCEPT !.request = admitted]
  <2>1. Live(d, q) /\ exchange' = [exchange EXCEPT ![d] = x] /\ UNCHANGED late
    BY <1>3 DEF Admit
  <2> HIDE DEF admitted
  <2>2. exchange[d] \in Sent
    BY <2>1 DEF Live, Timely, TypeOK, NoExchange, Cut, Sent, Answered
  <2>3. x \in Sent /\ x.step = "sent"
    BY <1>1, <2>2 DEF Sent
  <2> HIDE DEF x
  <2>4. TypeOK'
    BY <2>1, <2>3 DEF Admit, Timely, TypeOK, pc, history
  <2>5. AnswersKept
    BY <2>1, <2>3 DEF AnswersKept, Timely, TypeOK
  <2>6. QED
    BY <2>4, <2>5, AwayTimely DEF Admit, pc, history, WindowsKept
<1>4. QED
    BY <1>2, <1>3

(* The exchanges after an answer: told, cut, or as they were.              *)
LEMMA AnswerTypes ==
    ASSUME Timely, NEW d \in Devices, NEW q \in Requests, NEW islate \in BOOLEAN,
           NEW told, Answer(d, q, islate, told),
           exchange[d] \in Sent => told \in {NoExchange} \cup Answered
    PROVE  /\ exchange' \in [Devices -> {NoExchange, Cut} \cup Sent \cup Answered]
           /\ late' \subseteq Devices \X Requests
           /\ \A k \in Devices : \/ exchange'[k] \in {exchange[k], Cut}
                                 \/ k = d /\ exchange'[k] = told
<1>1. CASE islate
    BY <1>1 DEF Answer, Timely, TypeOK
<1>2. CASE ~islate
  <2>1. exchange[d] \in Sent
    BY <1>2 DEF Answer, Live, Timely, TypeOK, NoExchange, Cut, Sent, Answered
  <2>2. QED
    BY <1>2, <2>1 DEF Answer, Timely, TypeOK
<1>3. QED
    BY <1>1, <1>2

LEMMA ReturnCheckTimely ==
    ASSUME Timely, NEW d \in Devices, NEW q \in Requests, NEW islate \in BOOLEAN,
           ReturnCheck(d, q, islate)
    PROVE  Timely'
<1> DEFINE m == Expired(mgr)
<1>1. /\ m \in Managers
      /\ m.active \in {mgr.active, Home}
      /\ m.pending \in {mgr.pending, Nobody}
      /\ m.pending # Nobody => m.active = Home
      /\ m.waited = mgr.waited /\ m.silent = mgr.silent
    BY ExpiredNow
<1>2. /\ Manage(m) /\ Answer(d, q, islate, NoExchange)
      /\ returning' \in {d, Nobody}
      /\ UNCHANGED <<alive, polled, visible, valid, client, wish, wishAge>>
    BY DEF ReturnCheck
<1> HIDE DEF m
<1>3. mgr' = m /\ mgr' \in Managers /\ gone' \in [Devices -> Ages(Window + 1)]
    BY <1>1, <1>2, ManageTypes DEF Timely
<1>4. HeardKept
    BY <1>1, <1>2, ManageHeard, TravelAssumption DEF Timely
<1>5. /\ exchange' \in [Devices -> {NoExchange, Cut} \cup Sent \cup Answered]
      /\ late' \subseteq Devices \X Requests
      /\ \A k \in Devices : exchange'[k] \in {exchange[k], Cut, NoExchange}
    BY <1>2, AnswerTypes
<1>6. TypeOK'
    BY <1>1, <1>2, <1>3, <1>5 DEF Timely, TypeOK, Managers
<1>7. Wished'
    BY <1>1, <1>2, <1>3 DEF Timely, Wished
<1>8. WindowsKept
    BY <1>2 DEF WindowsKept
<1>9. AnswersKept
    BY <1>5 DEF AnswersKept, Cut, NoExchange
<1>10. QED
    BY <1>4, <1>6, <1>7, <1>8, <1>9, WindowsStayFresh, AnswersStayFresh DEF Timely

LEMMA HeartbeatTimely ==
    ASSUME Timely, NEW d \in Devices, NEW q \in Requests, NEW islate \in BOOLEAN,
           Heartbeat(d, q, islate)
    PROVE  Timely'
<1> DEFINE m == Beaten(mgr, d, q.ready)
           told == [step |-> "answered", age |-> exchange[d].age,
                    active |-> m.active = d, requested |-> m.pending = d]
<1>1. GoesWhereWished(mgr, m, d, q.ready)
    BY BeatenGoesWhereWished DEF Timely, TypeOK, Managers, Requests
<1>2. /\ Manage(m) /\ Answer(d, q, islate, told)
      /\ IF Arrived(m) THEN ForgetWish ELSE UNCHANGED <<wish, wishAge>>
      /\ UNCHANGED <<alive, polled, visible, returning, valid, client>>
    BY DEF Heartbeat
<1> HIDE DEF m
<1>3. mgr' = m /\ mgr' \in Managers /\ gone' \in [Devices -> Ages(Window + 1)]
    BY <1>1, <1>2, ManageTypes DEF Timely, GoesWhereWished
<1>4. HeardKept
    BY <1>1, <1>2, ManageHeard, TravelAssumption DEF Timely, GoesWhereWished
<1>5. exchange[d] \in Sent => told \in {NoExchange} \cup Answered
    BY DEF Sent, Answered
<1>6. told.step = "answered" /\ (told.active <=> m.active = d)
    OBVIOUS
<1> HIDE DEF told
<1>7. /\ exchange' \in [Devices -> {NoExchange, Cut} \cup Sent \cup Answered]
      /\ late' \subseteq Devices \X Requests
      /\ \A k \in Devices : \/ exchange'[k] \in {exchange[k], Cut}
                            \/ k = d /\ exchange'[k] = told
    BY <1>2, <1>5, AnswerTypes
<1>8. wish' \in Devices \cup {Nobody} /\ wishAge' \in Ages(Pending)
  BY <1>2, TravelAssumption DEF ForgetWish, Ages, Timely, TypeOK
<1>9. TypeOK'
    BY <1>1, <1>2, <1>3, <1>7, <1>8 DEF Timely, TypeOK, Managers, GoesWhereWished
<1>10. Wished'
  <2>1. CASE Arrived(m)
    BY <1>1, <1>3, <2>1 DEF Arrived, Wished, GoesWhereWished
  <2>2. CASE ~Arrived(m)
    BY <1>1, <1>2, <1>3, <2>2 DEF Timely, Wished, GoesWhereWished
  <2>3. QED
    BY <2>1, <2>2
<1>11. AnswersKept
  <2>1. m.active = d => gone'[d] = 0 /\ mgr'.silent[d] = 0
    BY <1>1, <1>2, <1>3 DEF Manage, GoesWhereWished
  <2>2. QED
    BY <1>6, <1>7, <2>1 DEF AnswersKept, Cut
<1>12. QED
    BY <1>2, <1>4, <1>9, <1>10, <1>11, WindowsStayFresh, AnswersStayFresh
        DEF Timely, WindowsKept

-----------------------------------------------------------------------------
(* An answer that opens a window was young enough.                         *)
LEMMA ApplyTimely ==
    ASSUME Timely, NEW d \in Devices, Apply(d)
    PROVE  Timely'
<1> DEFINE x == exchange[d]
           opened == [client[d] EXCEPT !.shown = TRUE, !.active = x.active, !.age = x.age]
           c == IF x.age > Window \/ ~(x.active \/ x.requested) THEN Hidden ELSE opened
<1>1. /\ x.step = "answered"
      /\ exchange' = [exchange EXCEPT ![d] = NoExchange]
      /\ client' = [client EXCEPT ![d] = c]
      /\ UNCHANGED <<pc, valid, late, history>>
    BY DEF Apply, Idle, Show, WindowAge
<1>2. x.active \in BOOLEAN /\ x.requested \in BOOLEAN /\ x.age \in Ages(Window)
    BY <1>1, ExchangeOfStep DEF Exchanges, Timely, TypeOK
<1>3. Window + 1 \in Ages(Window)
    BY TravelAssumption DEF Ages
<1>4. /\ c \in [shown : BOOLEAN, active : BOOLEAN, ready : BOOLEAN, age : Ages(Window)]
      /\ c.active \/ c.ready => c.shown
      /\ c.active => x.active /\ c.age = x.age /\ ~(x.age > Window)
    BY <1>2, <1>3 DEF Hidden, Timely, TypeOK
<1> HIDE DEF c
<1>5. TypeOK'
    BY <1>1, <1>4 DEF Timely, TypeOK, pc, history
<1>6. WindowsFresh'
  <2> SUFFICES ASSUME NEW k \in Devices, client'[k].active
               PROVE  gone[k] <= client'[k].age
                      /\ (mgr.active = k => mgr.silent[k] <= client'[k].age)
    BY <1>1 DEF WindowsFresh, Since, pc, history
  <2>1. CASE k = d
    BY <1>1, <1>4, <2>1 DEF Timely, TypeOK, AnswersFresh, Since
  <2>2. CASE k # d
    BY <1>1, <2>2 DEF Timely, TypeOK, WindowsFresh, Since
  <2>3. QED
    BY <2>1, <2>2
<1>7. AnswersKept /\ HeardKept
    BY <1>1 DEF AnswersKept, HeardKept, NoExchange, Timely, TypeOK, pc, history
<1>8. Wished'
    BY <1>1 DEF Timely, Wished, pc, history
<1>9. QED
    BY <1>5, <1>6, <1>7, <1>8, AnswersStayFresh DEF Timely

(* A client that hides its pet has no window any more.                     *)
LEMMA HiddenTypes ==
    ASSUME Timely, NEW d \in Devices, Show(d, Hidden)
    PROVE  /\ client' \in [Devices -> [shown : BOOLEAN, active : BOOLEAN, ready : BOOLEAN,
                                       age : Ages(Window)]]
           /\ \A k \in Devices : client'[k].active \/ client'[k].ready => client'[k].shown
           /\ WindowsKept
<1>1. Window + 1 \in Ages(Window)
    BY TravelAssumption DEF Ages
<1>2. QED
    BY <1>1 DEF Show, Hidden, WindowsKept, Timely, TypeOK

LEMMA FailTimely ==
    ASSUME Timely, NEW d \in Devices, NEW lost \in BOOLEAN, Fail(d, lost)
    PROVE  Timely'
<1>1. /\ exchange' = [exchange EXCEPT ![d] = NoExchange]
      /\ Show(d, Hidden)
      /\ UNCHANGED <<pc, valid, history>>
    BY DEF Fail, Idle
<1>2. late' \subseteq Devices \X Requests
  <2>1. CASE lost
    BY <2>1 DEF Fail, Timely, TypeOK
  <2>2. CASE ~lost
    <3>1. exchange[d] \in Sent
      BY <2>2 DEF Fail, Timely, TypeOK, NoExchange, Cut, Sent, Answered
    <3>2. exchange[d].request \in Requests
      BY <3>1 DEF Sent
    <3>3. QED
      BY <2>2, <3>2 DEF Fail, Timely, TypeOK
  <2>3. QED
    BY <2>1, <2>2
<1>3. TypeOK'
    BY <1>1, <1>2, HiddenTypes DEF Timely, TypeOK, pc, history
<1>4. AnswersKept
    BY <1>1 DEF AnswersKept, NoExchange, Timely, TypeOK
<1>5. QED
    BY <1>1, <1>3, <1>4, HiddenTypes, AwayTimely DEF pc, history

LEMMA DrawTimely ==
    ASSUME Timely, NEW d \in Devices, Draw(d)
    PROVE  Timely'
<1> DEFINE c == [client[d] EXCEPT !.ready = TRUE]
<1>1. /\ client[d].shown
      /\ client' = [client EXCEPT ![d] = c]
      /\ UNCHANGED <<pc, valid, network, history>>
    BY DEF Draw, Show
<1>2. /\ c \in [shown : BOOLEAN, active : BOOLEAN, ready : BOOLEAN, age : Ages(Window)]
      /\ c.shown /\ c.active = client[d].active /\ c.age = client[d].age
    BY <1>1 DEF Timely, TypeOK
<1> HIDE DEF c
<1>3. TypeOK'
    BY <1>1, <1>2 DEF Timely, TypeOK, pc, network, history
<1>4. WindowsKept /\ AnswersKept
    BY <1>1, <1>2 DEF WindowsKept, AnswersKept, network, history, Timely, TypeOK
<1>5. QED
    BY <1>1, <1>3, <1>4, AwayTimely DEF pc, network, history

LEMMA HideTimely ==
    ASSUME Timely, NEW d \in Devices, Hide(d)
    PROVE  Timely'
<1>1. Show(d, Hidden) /\ UNCHANGED <<pc, valid, network, history>>
    BY DEF Hide
<1>2. TypeOK'
    BY <1>1, HiddenTypes DEF Timely, TypeOK, pc, network, history
<1>3. QED
    BY <1>1, <1>2, HiddenTypes, AwayTimely DEF pc, network, history, AnswersKept

(* Ages grow together, up to their limits.                                 *)
LEMMA OlderGrows ==
    ASSUME NEW limit \in Nat, NEW age \in Ages(limit)
    PROVE  /\ Older(age, limit) \in Ages(limit) /\ age \in Nat
           /\ age <= limit => Older(age, limit) = age + 1
           /\ Older(age, limit) <= age + 1
           /\ age > limit => Older(age, limit) = age
    BY DEF Older, Ages

(* A unit of time: no window is overdue at its start, so that every open   *)
(* one grows by a full unit, and the silence of its device by no more.     *)
LEMMA TickTimely ==
    ASSUME Timely, Tick
    PROVE  Timely'
<1> USE TravelAssumption
<1>1. /\ mgr' = [mgr EXCEPT !.waited = IF mgr.pending = Nobody THEN 0 ELSE Older(mgr.waited, Pending),
                            !.silent = [d \in Devices |-> Older(mgr.silent[d], Lease)]]
      /\ client' = [d \in Devices |-> [client[d] EXCEPT !.age = Older(client[d].age, Window)]]
      /\ gone' = [d \in Devices |-> IF mgr.active = d THEN 0 ELSE Older(gone[d], Window + 1)]
      /\ wishAge' = IF wish = Nobody THEN 0 ELSE Older(wishAge, Pending)
      /\ polled' = FALSE
      /\ UNCHANGED <<alive, visible, returning, valid, late, wish>>
    BY DEF Tick
<1>2. exchange' = [d \in Devices |-> IF exchange[d].step \in {"sent", "answered"}
                      THEN [exchange[d] EXCEPT !.age = Older(exchange[d].age, Window)]
                      ELSE exchange[d]]
    BY DEF Tick
<1>3. \A d \in Devices : ~Overdue(client[d])
    BY DEF Tick
<1>4. \A d \in Devices : /\ Older(mgr.silent[d], Lease) \in Ages(Lease)
                         /\ Older(mgr.silent[d], Lease) <= mgr.silent[d] + 1
                         /\ Older(gone[d], Window + 1) \in Ages(Window + 1)
                         /\ Older(gone[d], Window + 1) <= gone[d] + 1
                         /\ mgr.silent[d] \in Nat /\ gone[d] \in Nat
  <2>1. \A d \in Devices : mgr.silent[d] \in Ages(Lease) /\ gone[d] \in Ages(Window + 1)
    BY DEF Timely, TypeOK
  <2>2. Window + 1 \in Nat
    OBVIOUS
  <2>3. QED
    BY <2>1, <2>2, OlderGrows
<1>5. /\ mgr' \in Managers /\ mgr'.active = mgr.active /\ mgr'.pending = mgr.pending
      /\ mgr'.waited = IF mgr.pending = Nobody THEN 0 ELSE Older(mgr.waited, Pending)
      /\ \A d \in Devices : mgr'.silent[d] = Older(mgr.silent[d], Lease)
  <2>1. 0 \in Ages(Pending)
    BY DEF Ages
  <2>2. Older(mgr.waited, Pending) \in Ages(Pending)
    BY OlderGrows DEF Timely, TypeOK
  <2>3. QED
    BY <1>1, <1>4, <2>1, <2>2 DEF Managers, Timely, TypeOK
<1>6. \A d \in Devices :
        /\ client'[d] \in [shown : BOOLEAN, active : BOOLEAN, ready : BOOLEAN, age : Ages(Window)]
        /\ client'[d].shown = client[d].shown /\ client'[d].active = client[d].active
        /\ client'[d].ready = client[d].ready
        /\ client'[d].age = Older(client[d].age, Window)
  <2> SUFFICES ASSUME NEW d \in Devices
               PROVE  LET c == [client[d] EXCEPT !.age = Older(client[d].age, Window)] IN
                      /\ c \in [shown : BOOLEAN, active : BOOLEAN, ready : BOOLEAN,
                                 age : Ages(Window)]
                      /\ c.shown = client[d].shown /\ c.active = client[d].active
                      /\ c.ready = client[d].ready
                      /\ c.age = Older(client[d].age, Window)
    BY <1>1
  <2>1. Older(client[d].age, Window) \in Ages(Window)
    BY OlderGrows DEF Timely, TypeOK
  <2>2. QED
    BY <2>1 DEF Timely, TypeOK
<1>7. \A d \in Devices : exchange[d].step = "answered" =>
        /\ exchange[d].age \in Ages(Window)
        /\ exchange'[d].active = exchange[d].active
        /\ exchange'[d].age = Older(exchange[d].age, Window)
  <2> SUFFICES ASSUME NEW d \in Devices, exchange[d].step = "answered"
               PROVE  /\ exchange[d].age \in Ages(Window)
                      /\ exchange'[d].active = exchange[d].active
                      /\ exchange'[d].age = Older(exchange[d].age, Window)
    OBVIOUS
  <2>1. exchange[d] \in Answered
    BY DEF Timely, TypeOK, NoExchange, Cut, Sent, Answered
  <2>2. QED
    BY <1>2, <2>1 DEF Answered
<1>8. \A d \in Devices :
        /\ exchange'[d] \in Exchanges
        /\ exchange'[d].step = exchange[d].step
  <2> SUFFICES ASSUME NEW d \in Devices
               PROVE  exchange'[d] \in Exchanges /\ exchange'[d].step = exchange[d].step
    OBVIOUS
  <2>1. CASE exchange[d] \in Sent
    <3>1. Older(exchange[d].age, Window) \in Ages(Window)
      BY <2>1, OlderGrows DEF Sent
    <3>2. QED
      BY <1>2, <2>1, <3>1 DEF Sent, Exchanges
  <2>2. CASE exchange[d] \in Answered
    <3>1. Older(exchange[d].age, Window) \in Ages(Window)
      BY <2>2, OlderGrows DEF Answered
    <3>2. QED
      BY <1>2, <2>2, <3>1 DEF Answered, Exchanges
  <2>3. CASE exchange[d] \in {NoExchange, Cut}
    BY <1>2, <2>3 DEF Exchanges, NoExchange, Cut
  <2>4. QED
    BY <2>1, <2>2, <2>3 DEF Timely, TypeOK
<1>9. TypeOK'
  <2>1. exchange' \in [Devices -> Exchanges]
    BY <1>2, <1>8
  <2>2. client' \in [Devices -> [shown : BOOLEAN, active : BOOLEAN, ready : BOOLEAN,
                                age : Ages(Window)]]
    BY <1>1, <1>6
  <2>3. \A d \in Devices : client'[d].active \/ client'[d].ready => client'[d].shown
    BY <1>6 DEF Timely, TypeOK
  <2>4. wishAge' \in Ages(Pending)
    BY <1>1, OlderGrows DEF Timely, TypeOK, Ages
  <2>5. gone' \in [Devices -> Ages(Window + 1)]
    <3>1. 0 \in Ages(Window + 1)
      BY DEF Ages
    <3>2. QED
      BY <1>1, <1>4, <3>1
  <2>6. QED
    BY <1>1, <1>5, <2>1, <2>2, <2>3, <2>4, <2>5 DEF Timely, TypeOK, Managers, Exchanges
<1>10. Wished'
    BY <1>1, <1>5 DEF Timely, TypeOK, Wished
<1>11. \A d \in Devices, age \in Nat : Since(d, age) =>
          /\ gone'[d] <= age + 1
          /\ mgr'.active = d => mgr'.silent[d] <= age + 1
  <2> SUFFICES ASSUME NEW d \in Devices, NEW age \in Nat, Since(d, age)
               PROVE  /\ gone'[d] <= age + 1
                      /\ mgr'.active = d => mgr'.silent[d] <= age + 1
    OBVIOUS
  <2>1. gone'[d] <= age + 1
    BY <1>1, <1>4 DEF Since, Ages
  <2>2. mgr'.active = d => mgr'.silent[d] <= age + 1
    BY <1>4, <1>5 DEF Since, Ages
  <2>3. QED
    BY <2>1, <2>2
<1>12. WindowsFresh'
  <2> SUFFICES ASSUME NEW d \in Devices, client'[d].active
               PROVE  Since(d, client[d].age)'
    BY DEF WindowsFresh
  <2>1. client[d].active /\ client[d].age \in Ages(Window) /\ client[d].age <= Window
    BY <1>3, <1>6 DEF Overdue, Timely, TypeOK, Ages
  <2>2. client'[d].age = client[d].age + 1 /\ client[d].age \in Nat
    BY <1>6, <2>1, OlderGrows DEF Ages
  <2>3. Since(d, client[d].age)
    BY <2>1 DEF Timely, WindowsFresh
  <2>4. QED
    BY <1>11, <2>2, <2>3 DEF Since
<1>13. AnswersFresh'
  <2> SUFFICES ASSUME NEW d \in Devices, exchange'[d].step = "answered", exchange'[d].active
               PROVE  exchange'[d].age > Window \/ Since(d, exchange[d].age)'
    BY DEF AnswersFresh
  <2>1. /\ exchange[d].step = "answered" /\ exchange[d].active
        /\ exchange[d].age \in Ages(Window)
        /\ exchange'[d].age = Older(exchange[d].age, Window)
    BY <1>7, <1>8
  <2>2. CASE exchange[d].age > Window
    BY <2>1, <2>2, OlderGrows
  <2>3. CASE exchange[d].age <= Window
    <3>1. exchange'[d].age = exchange[d].age + 1 /\ exchange[d].age \in Nat
      BY <2>1, <2>3, OlderGrows
    <3>2. Since(d, exchange[d].age)
      BY <2>1, <2>3, <3>1 DEF Timely, AnswersFresh
    <3>3. QED
      BY <1>11, <3>1, <3>2 DEF Since
  <2>4. QED
    BY <2>1, <2>2, <2>3 DEF Ages
<1>14. QED
    BY <1>9, <1>10, <1>12, <1>13 DEF Timely

-----------------------------------------------------------------------------
LEMMA NextTimely ==
    ASSUME Timely, Next
    PROVE  Timely'
<1>1. CASE OwnerHome
    BY <1>1, OwnerHomeTimely
<1>2. CASE Restart
    BY <1>2, RestartTimely
<1>3. ASSUME NEW d \in Devices, Select(d) \/ Register(d) \/ Install(d)
      PROVE  Timely'
    BY <1>3, SelectTimely, RegisterTimely, InstallTimely
<1>4. CASE ReturnHome
    BY <1>4, ReturnHomeTimely
<1>5. ASSUME NEW d \in Devices, NEW q \in Requests, NEW islate \in BOOLEAN,
             Admit(d, q, islate) \/ Heartbeat(d, q, islate) \/ ReturnCheck(d, q, islate)
      PROVE  Timely'
    BY <1>5, AdmitTimely, HeartbeatTimely, ReturnCheckTimely
<1>6. CASE Poll
    BY <1>6, PollTimely
<1>7. CASE Tick
    BY <1>7, TickTimely
<1>8. ASSUME NEW d \in Devices, Hide(d)
      PROVE  Timely'
    BY <1>8, HideTimely
<1>9. ASSUME NEW d \in Devices, Client(d)
      PROVE  Timely'
    BY <1>9, SendTimely, FailTimely, ApplyTimely, DrawTimely DEF Client
<1>10. ASSUME NEW d \in Devices, TunnelDies(d)
       PROVE  Timely'
    BY <1>10, TunnelDiesTimely
<1>11. QED
    BY <1>1, <1>2, <1>3, <1>4, <1>5, <1>6, <1>7, <1>8, <1>9, <1>10
        DEF Next, Owner, Server, Timers

LEMMA StutterTimely ==
    ASSUME Timely, UNCHANGED vars
    PROVE  Timely'
<1>1. UNCHANGED <<mgr, wish, wishAge, gone>> /\ WindowsKept /\ AnswersKept
    BY DEF vars, pc, network, history, WindowsKept, AnswersKept
<1>2. TypeOK'
    BY DEF vars, pc, network, history, Timely, TypeOK
<1>3. QED
    BY <1>1, <1>2, AwayTimely

(* Timely holds of every state of the two programs.                        *)
THEOREM TimelyInvariant == Spec => []Timely
<1>1. Timely /\ [Next]_vars => Timely'
    BY NextTimely, StutterTimely
<1>2. QED
    BY <1>1, InitTimely, PTL DEF Spec

(* The types, for any devices and any three limits with Window < Lease.    *)
THEOREM TypeCorrect == Spec => []TypeOK
<1>1. Timely => TypeOK
    BY DEF Timely
<1>2. QED
    BY <1>1, TimelyInvariant, PTL

(* The client hides its pet before the lease of travel.py runs out.        *)
THEOREM ClientLeavesFirstHolds == Spec => []ClientLeavesFirst
<1>1. Timely => ClientLeavesFirst
  <2> SUFFICES ASSUME Timely, NEW d \in Devices,
                      mgr.active = d, mgr.silent[d] > Lease, client[d].active
               PROVE  FALSE
    BY DEF ClientLeavesFirst
  <2>1. client[d].age \in Ages(Window) /\ mgr.silent[d] \in Ages(Lease)
    BY DEF Timely, TypeOK
  <2>2. mgr.silent[d] <= client[d].age
    BY DEF Timely, WindowsFresh, Since
  <2>3. QED
    BY <2>1, <2>2, TravelAssumption DEF Ages
<1>2. QED
    BY <1>1, TimelyInvariant, PTL

(* A client that was left hides its pet within its window and one unit,    *)
(* whatever the network of traveler_linux.py delays or loses.              *)
THEOREM ClientLeavesHolds == Spec => []ClientLeaves
<1>1. Timely => ClientLeaves
  <2> SUFFICES ASSUME Timely, NEW d \in Devices, gone[d] > Window + 1, client[d].active
               PROVE  FALSE
    BY DEF ClientLeaves
  <2>1. client[d].age \in Ages(Window) /\ gone[d] \in Ages(Window + 1)
    BY DEF Timely, TypeOK
  <2>2. gone[d] <= client[d].age
    BY DEF Timely, WindowsFresh, Since
  <2>3. QED
    BY <2>1, <2>2, TravelAssumption DEF Ages
<1>2. QED
    BY <1>1, TimelyInvariant, PTL

-----------------------------------------------------------------------------
(* Only a heartbeat moves the pet to a device, the one that was wished.    *)
LEMMA OtherStepsBringNobody ==
    ASSUME Timely,
           \/ Owner \/ Timers \/ ReturnHome \/ UNCHANGED vars
           \/ \E d \in Devices : Client(d) \/ TunnelDies(d)
           \/ \E d \in Devices, q \in Requests, islate \in BOOLEAN :
                 Admit(d, q, islate) \/ ReturnCheck(d, q, islate)
    PROVE  mgr'.active \in {mgr.active, Home}
<1>1. /\ Expired(mgr) \in Managers
      /\ Expired(mgr).active \in {mgr.active, Home}
    BY ExpiredNow
<1>2. Homed(mgr) \in Managers /\ Homed(mgr).active = Home
    BY HomedIsHome DEF Timely, TypeOK, Managers
<1>3. CASE OwnerHome \/ ReturnHome
    BY <1>2, <1>3 DEF OwnerHome, ReturnHome, Manage
<1>4. CASE Restart
    BY <1>4 DEF Restart, Manage, NewManager
<1>5. ASSUME NEW d \in Devices, Select(d)
      PROVE  mgr'.active \in {mgr.active, Home}
  <2> DEFINE m == Expired(mgr)
             n == [m EXCEPT !.tunnels = @ \cup {d}, !.pending = d, !.waited = 0]
  <2>1. m.active \in {mgr.active, Home} /\ n.active = m.active
    BY <1>1 DEF Managers
  <2>2. Manage(m) \/ Manage(n)
    BY <1>5 DEF Select
  <2>3. QED
    BY <2>1, <2>2 DEF Manage
<1>6. ASSUME NEW d \in Devices, Register(d)
      PROVE  mgr'.active \in {mgr.active, Home}
  <2> DEFINE n == [Homed(mgr) EXCEPT !.silent[d] = Lease + 1]
  <2>1. n.active = Home
    BY <1>2 DEF Managers
  <2>2. QED
    BY <1>6, <2>1 DEF Register, Manage
<1>7. CASE Poll
    BY <1>1, <1>7 DEF Poll, Manage
<1>8. CASE Tick
    BY <1>8 DEF Tick, Timely, TypeOK
<1>9. ASSUME NEW d \in Devices, NEW q \in Requests, NEW islate \in BOOLEAN,
             ReturnCheck(d, q, islate)
      PROVE  mgr'.active \in {mgr.active, Home}
    BY <1>1, <1>9 DEF ReturnCheck, Manage
<1>10. CASE UNCHANGED mgr
    BY <1>10
<1>11. ASSUME NEW d \in Devices, Install(d) \/ Hide(d) \/ Client(d) \/ TunnelDies(d)
       PROVE  UNCHANGED mgr
    BY <1>11 DEF Install, Hide, Client, TunnelDies, Send, Fail, Apply, Draw, pc
<1>12. ASSUME NEW d \in Devices, NEW q \in Requests, NEW islate \in BOOLEAN,
              Admit(d, q, islate)
       PROVE  UNCHANGED mgr
    BY <1>12 DEF Admit, pc
<1>13. UNCHANGED vars => UNCHANGED mgr
    BY DEF vars, pc
<1>14. QED
    BY <1>3, <1>4, <1>5, <1>6, <1>7, <1>8, <1>9, <1>10, <1>11, <1>12, <1>13
        DEF Owner, Timers

(* No delayed, late or repeated request takes the pet to a device that the *)
(* owner did not choose, or no longer wants (travel.py).                   *)
THEOREM NoTripUnaskedHolds == Spec => NoTripUnasked
<1> DEFINE Asked == mgr'.active \in Devices \ {mgr.active} =>
                       wish = mgr'.active /\ wishAge <= Pending
<1>1. Timely /\ [Next]_vars => [Asked]_vars
  <2> SUFFICES ASSUME Timely, [Next]_vars PROVE Asked
    OBVIOUS
  <2>1. ASSUME NEW d \in Devices, NEW q \in Requests, NEW islate \in BOOLEAN,
               Heartbeat(d, q, islate)
        PROVE  Asked
    <3> DEFINE m == Beaten(mgr, d, q.ready)
    <3>1. GoesWhereWished(mgr, m, d, q.ready)
      BY BeatenGoesWhereWished DEF Timely, TypeOK, Managers, Requests
    <3>2. mgr' = m
      BY <2>1 DEF Heartbeat, Manage
    <3> HIDE DEF m
    <3>3. \/ mgr'.active \in {mgr.active, Home}
          \/ mgr'.active = mgr.pending /\ mgr.pending \in Devices /\ mgr.waited <= Pending
      BY <3>1, <3>2 DEF GoesWhereWished
    <3>4. QED
      BY <3>3, TravelAssumption DEF Timely, Wished
  <2>2. CASE mgr'.active \in {mgr.active, Home}
    BY <2>2, TravelAssumption
  <2>3. QED
    BY <2>1, <2>2, OtherStepsBringNobody DEF Next, Server
<1>2. QED
    BY <1>1, TimelyInvariant, PTL DEF Spec, NoTripUnasked

-----------------------------------------------------------------------------
(* The pet on the desktop: Pet.                                            *)

(* A walk that goes somewhere has a purpose; only then the methods below   *)
(* keep an errand single and carried on.                                   *)
Purposeful(w) == w.way # None => w.purpose # "idle"

Able(w) == w \in PetWindow /\ Single(w) /\ Purposeful(w)

(* Carried on, or a run for the lemon whose way ensure_on_screen took.     *)
Held(w) == Carried(w) \/ Aground(w)

(* What the methods of PetWindow do to an errand.                          *)
Onward(w, v) == Able(v) /\ (Held(w) => Held(v))

LEMMA NoWayApart == None \notin Nat
BY PetAssumption

(* What play leaves alone, and that it takes a way only off the screen.    *)
LEMMA PlayIs ==
    ASSUME NEW w \in PetWindow
    PROVE  /\ Play(w) \in PetWindow /\ Play(w).mode = w.mode /\ Play(w).purpose = w.purpose
           /\ Play(w).overlay = w.overlay /\ Play(w).feed = w.feed
           /\ Play(w).flight = w.flight /\ Play(w).stage = w.stage
           /\ Play(w).away = w.away /\ Play(w).outside = w.outside
           /\ \/ Play(w).way = w.way /\ Play(w).walk = w.walk
              \/ w.outside /\ Play(w).way = None /\ Play(w).walk = FALSE
<1> DEFINE v == [w EXCEPT !.way = None, !.walk = FALSE]
<1>1. Play(w) = IF w.away \/ w.drag \/ ~w.outside THEN w ELSE v
  BY DEF Play, EnsureOnScreen
<1>2. v \in PetWindow
  BY DEF PetWindow, Ways
<1>3. /\ v.mode = w.mode /\ v.purpose = w.purpose /\ v.overlay = w.overlay /\ v.feed = w.feed
      /\ v.flight = w.flight /\ v.stage = w.stage /\ v.away = w.away /\ v.outside = w.outside
      /\ v.way = None /\ v.walk = FALSE
  BY DEF PetWindow
<1> HIDE DEF v
<1> QED BY <1>1, <1>2, <1>3

LEMMA PlayOnward ==
    ASSUME NEW w, Able(w)
    PROVE  Onward(w, Play(w))
<1> DEFINE v == Play(w)
<1>1. /\ v \in PetWindow /\ v.mode = w.mode /\ v.purpose = w.purpose
      /\ v.overlay = w.overlay /\ v.feed = w.feed /\ v.flight = w.flight
      /\ v.outside = w.outside
      /\ (v.way = w.way /\ v.walk = w.walk) \/ (w.outside /\ v.way = None)
  BY PlayIs DEF Able
<1> HIDE DEF v
<1>2. Able(v)
  BY <1>1 DEF Able, Single, Purposeful
<1>3. ASSUME v.way = w.way /\ v.walk = w.walk PROVE Onward(w, v)
  BY <1>1, <1>2, <1>3 DEF Onward, Held, Carried, Aground
<1>4. ASSUME w.outside /\ v.way = None PROVE Onward(w, v)
  <2>1. w.mode \notin {"fetching", "returning"} /\ Held(w) => Carried(v)
    BY <1>1 DEF Able, PetWindow, Modes, LemonGame, Held, Carried, Aground
  <2>2. w.mode \in {"fetching", "returning"} /\ Held(w) => w.purpose # "idle"
    BY DEF Able, Purposeful, Held, Carried, Aground
  <2>3. w.mode \in {"fetching", "returning"} /\ Held(w) => Aground(v)
    BY <1>1, <1>4, <2>2 DEF Able, Single, Aground
  <2> QED BY <1>2, <2>1, <2>3 DEF Onward, Held
<1>5. Onward(w, v)
  BY <1>1, <1>3, <1>4
<1> QED BY <1>5 DEF v

LEMMA HaltAble ==
    ASSUME NEW w, Able(w)
    PROVE  /\ Able(Halt(w)) /\ Halt(w).mode = w.mode
           /\ w.mode \notin {"fetching", "returning"} => Onward(w, Halt(w))
<1>1. Halt(w) \in PetWindow
  BY DEF Able, Halt, PetWindow, Ways
<1>2. Single(Halt(w)) /\ Purposeful(Halt(w)) /\ Halt(w).mode = w.mode
  BY DEF Able, Halt, PetWindow, Single, Purposeful
<1>3. w.mode \notin {"fetching", "returning"} /\ Carried(w) => Carried(Halt(w))
  BY DEF Able, Halt, PetWindow, Modes, LemonGame, Carried
<1> QED BY <1>1, <1>2, <1>3 DEF Able, Onward, Held, Aground

LEMMA HaltIs ==
    ASSUME NEW w \in PetWindow
    PROVE  /\ Halt(w) \in PetWindow /\ Halt(w).way = None /\ Halt(w).purpose = "idle"
           /\ Halt(w).mode = w.mode /\ Halt(w).overlay = w.overlay /\ Halt(w).feed = w.feed
           /\ Halt(w).flight = w.flight /\ Halt(w).away = w.away
<1>1. Halt(w) \in PetWindow
  BY DEF Halt, PetWindow, Ways
<1> QED BY <1>1 DEF Halt, PetWindow

LEMMA WalkOnAble ==
    ASSUME NEW w \in PetWindow, NEW d \in 0 .. MaxWay,
           NEW p \in {"wander", "fetch", "return", "eevee"},
           w.mode \notin {"feeding", "aiming_lemon", "lemon_flying"},
           w.mode = "fetching" => p = "fetch", w.mode = "returning" => p = "return",
           w.mode \in {"idle", "placing_bed"} => p \in {"wander", "eevee"}
    PROVE  /\ Able(WalkOn(w, p, d)) /\ WalkOn(w, p, d).mode = w.mode
           /\ w.mode # "placing_bed" => Held(WalkOn(w, p, d))
<1> DEFINE x == [w EXCEPT !.purpose = p, !.way = d]
           y == Play(x)
           v == [y EXCEPT !.walk = TRUE]
<1>1. d \in Ways /\ d # None
  BY NoWayApart DEF Ways
<1>2. x \in PetWindow /\ x.purpose = p /\ x.way = d /\ x.mode = w.mode
  BY <1>1 DEF PetWindow
<1>3. WalkOn(w, p, d) = v
  BY DEF WalkOn
<1> HIDE DEF x
<1>4. /\ y \in PetWindow /\ y.purpose = p /\ y.mode = w.mode
      /\ y.way = d \/ (y.way = None /\ y.outside)
  BY <1>2, PlayIs
<1> HIDE DEF y
<1>5. /\ v \in PetWindow /\ v.purpose = p /\ v.mode = w.mode /\ v.walk = TRUE
      /\ v.way = d \/ (v.way = None /\ v.outside)
  <2>1. v \in PetWindow
    BY <1>4 DEF PetWindow
  <2>2. /\ v.purpose = y.purpose /\ v.mode = y.mode /\ v.walk = TRUE /\ v.way = y.way
        /\ v.outside = y.outside
    BY <1>4 DEF PetWindow
  <2> QED BY <1>4, <2>1, <2>2
<1> HIDE DEF v
<1>6. Able(v)
  BY <1>1, <1>5 DEF Able, Single, Purposeful
<1>7. w.mode # "placing_bed" => Held(v)
  BY <1>1, <1>5 DEF PetWindow, Modes, LemonGame, Held, Carried, Aground
<1> QED BY <1>3, <1>5, <1>6, <1>7

LEMMA CloseOverlayOnward ==
    ASSUME NEW w, Able(w)
    PROVE  /\ Onward(w, CloseOverlay(w)) /\ CloseOverlay(w).overlay = ""
           /\ CloseOverlay(w).mode \in {w.mode, "idle"} /\ CloseOverlay(w).away = w.away
           /\ CloseOverlay(w).mode # w.mode =>
                 w.mode = IF w.overlay = "bed" THEN "placing_bed" ELSE "aiming_lemon"
           /\ w.mode = "aiming_lemon" /\ w.overlay = "lemon" => CloseOverlay(w).mode = "idle"
<1> DEFINE expected == IF w.overlay = "bed" THEN "placing_bed" ELSE "aiming_lemon"
           m == IF w.mode = expected THEN "idle" ELSE w.mode
           v == [w EXCEPT !.overlay = "", !.mode = m]
<1>1. CloseOverlay(w) = IF w.overlay = "" THEN w ELSE v
  BY DEF CloseOverlay, Able, PetWindow
<1>2. CASE w.overlay = ""
  BY <1>1, <1>2 DEF Onward
<1>3. CASE w.overlay # ""
  <2>1. m \in Modes
    BY DEF Able, PetWindow, Modes
  <2>2. v \in PetWindow
    BY <2>1 DEF Able, PetWindow
  <2>3. /\ v.mode = m /\ v.overlay = "" /\ v.away = w.away /\ v.purpose = w.purpose
        /\ v.way = w.way /\ v.walk = w.walk /\ v.feed = w.feed /\ v.flight = w.flight
        /\ v.outside = w.outside
    BY DEF Able, PetWindow
  <2>4. Single(v) /\ Purposeful(v)
    BY <2>3 DEF Able, Single, Purposeful
  <2>5. Held(w) => Held(v)
    <3>1. Carried(w) => Carried(v)
      BY <1>3, <2>3 DEF Able, PetWindow, Carried
    <3>2. Aground(w) => Aground(v)
      BY <2>3 DEF Aground
    <3> QED BY <3>1, <3>2 DEF Held
  <2> HIDE DEF v
  <2>6. Onward(w, v)
    BY <2>2, <2>4, <2>5 DEF Onward, Able
  <2> QED BY <1>1, <1>3, <2>3, <2>6 DEF Able, PetWindow
<1> QED BY <1>2, <1>3

LEMMA CancelFetchOnward ==
    ASSUME NEW w, Able(w)
    PROVE  /\ Onward(w, CancelFetch(w)) /\ CancelFetch(w).mode \in {"idle", "placing_bed", "feeding"}
           /\ CancelFetch(w).way = None /\ CancelFetch(w).purpose = "idle"
           /\ CancelFetch(w).mode \in {w.mode, "idle"} /\ CancelFetch(w).away = w.away
           /\ CancelFetch(w).mode # w.mode => w.mode \in LemonGame
<1> DEFINE o == IF w.overlay = "lemon" THEN CloseOverlay(w) ELSE w
           h == Halt(o)
           m == IF h.mode \in LemonGame THEN "idle" ELSE h.mode
           v == [h EXCEPT !.flight = FALSE, !.lemon = FALSE, !.mode = m]
<1>1. /\ Onward(w, o) /\ Able(o) /\ o.mode \in {w.mode, "idle"} /\ o.away = w.away
      /\ o.mode # w.mode => w.mode = "aiming_lemon"
      /\ w.mode = "aiming_lemon" /\ o.mode = w.mode => ~Carried(w)
  BY CloseOverlayOnward DEF Onward, Carried
<1>2. CancelFetch(w) = Play(v)
  BY DEF CancelFetch
<1> HIDE DEF o
<1>3. Able(h) /\ h \in PetWindow
  BY <1>1, HaltAble DEF Able
<1>4. /\ h.mode = o.mode /\ h.way = None /\ h.purpose = "idle" /\ h.away = o.away
      /\ h.overlay = o.overlay /\ h.feed = o.feed
  BY <1>1, HaltIs DEF Able
<1> HIDE DEF h
<1>5. m \in Modes
  BY <1>3 DEF PetWindow, Modes
<1>6. /\ v \in PetWindow /\ v.mode = m /\ v.way = None /\ v.purpose = "idle"
      /\ v.away = w.away /\ v.overlay = o.overlay /\ v.feed = o.feed
  <2> HIDE DEF m
  <2>1. v \in PetWindow
    BY <1>3, <1>5 DEF PetWindow
  <2>2. /\ v.mode = m /\ v.way = h.way /\ v.purpose = h.purpose
        /\ v.away = h.away /\ v.overlay = h.overlay /\ v.feed = h.feed
    BY <1>3 DEF PetWindow
  <2> QED BY <1>1, <1>4, <2>1, <2>2
<1> HIDE DEF v
<1>7. /\ m \in {"idle", "placing_bed", "feeding"} /\ m \in {w.mode, "idle"}
      /\ m # w.mode => w.mode \in LemonGame
  BY <1>1, <1>4 DEF Able, PetWindow, Modes, LemonGame
<1>10. o.mode \in LemonGame => m = "idle"
  BY <1>4
<1> HIDE DEF m
<1>8. Able(v) /\ (Held(w) => Held(v))
  <2>1. Single(v) /\ Purposeful(v)
    BY <1>6, <1>7 DEF Single, Purposeful
  <2>2. Held(o) => Carried(v)
    BY <1>1, <1>6, <1>7, <1>10 DEF Held, Carried, Aground, LemonGame
  <2> QED BY <1>1, <1>6, <2>1, <2>2 DEF Able, Onward, Held
<1>9. /\ Play(v).mode = v.mode /\ Play(v).way = None /\ Play(v).purpose = v.purpose
      /\ Play(v).away = v.away
  BY <1>6, PlayIs
<1> QED BY <1>2, <1>6, <1>7, <1>8, <1>9, PlayOnward DEF Onward

LEMMA LeaveOverlayOnward ==
    ASSUME NEW w, Able(w)
    PROVE  /\ Onward(w, LeaveOverlay(w)) /\ LeaveOverlay(w).away = w.away
           /\ LeaveOverlay(w).mode \in {w.mode, "idle"}
           /\ LeaveOverlay(w).mode # w.mode => w.mode \in LemonGame \cup {"placing_bed"}
BY CloseOverlayOnward, CancelFetchOnward DEF LeaveOverlay, LemonGame

LEMMA StartFeedOnward ==
    ASSUME NEW w, Able(w)
    PROVE  Onward(w, StartFeed(w)) /\ StartFeed(w).away = w.away
<1> DEFINE o == LeaveOverlay(w)
           c == IF o.mode \in {"idle", "feeding"} THEN o ELSE CancelFetch(o)
           h == Halt(c)
           v == [h EXCEPT !.mode = "feeding", !.stage = 0, !.berry = TRUE, !.feed = TRUE]
<1>1. Able(o) /\ o.away = w.away
  BY LeaveOverlayOnward DEF Onward
<1>2. Able(c) /\ c.away = w.away
  BY <1>1, CancelFetchOnward DEF Onward
<1>3. StartFeed(w) = Play(v)
  BY DEF StartFeed
<1> HIDE DEF c
<1>4. Able(h) /\ h.way = None /\ h.purpose = "idle" /\ h.away = w.away
  BY <1>2, HaltAble, HaltIs DEF Able
<1> HIDE DEF h
<1>5. /\ v \in PetWindow /\ v.mode = "feeding" /\ v.feed = TRUE /\ v.way = None
      /\ v.purpose = "idle" /\ v.away = w.away
  <2>1. v \in PetWindow
    <3>1. h \in PetWindow /\ "feeding" \in Modes /\ 0 \in 0 .. 3
      BY <1>4 DEF Able, Modes
    <3>2. [h EXCEPT !.mode = "feeding"] \in PetWindow
      BY <3>1 DEF PetWindow
    <3>3. [[h EXCEPT !.mode = "feeding"] EXCEPT !.stage = 0, !.berry = TRUE, !.feed = TRUE] \in PetWindow
      BY <3>1, <3>2 DEF PetWindow
    <3> QED BY <3>1, <3>3 DEF PetWindow
  <2>2. v.mode = "feeding" /\ v.feed = TRUE /\ v.way = h.way /\ v.purpose = h.purpose /\ v.away = h.away
    BY <1>4 DEF Able, PetWindow
  <2> QED BY <1>4, <2>1, <2>2
<1> HIDE DEF v
<1>6. Able(v) /\ Held(v)
  BY <1>5 DEF Able, Single, Purposeful, Held, Carried
<1>7. Play(v).away = v.away
  BY <1>5, PlayIs
<1> QED BY <1>3, <1>5, <1>6, <1>7, PlayOnward DEF Onward

(* What decides an errand is not touched.                                  *)
LEMMA AlikeOnward ==
    ASSUME NEW w, Able(w), NEW v \in PetWindow,
           v.mode = w.mode, v.purpose = w.purpose, v.way = w.way, v.walk = w.walk,
           v.overlay = w.overlay, v.feed = w.feed, v.flight = w.flight,
           v.outside = w.outside
    PROVE  Onward(w, v)
<1>1. Able(v)
  BY DEF Able, Single, Purposeful
<1>2. Held(w) => Held(v)
  BY DEF Held, Carried, Aground
<1> QED BY <1>1, <1>2 DEF Onward

LEMMA ScheduleOnward ==
    ASSUME NEW w, Able(w)
    PROVE  Onward(w, Schedule(w)) /\ Schedule(w).away = w.away
<1> DEFINE g == ~w.away /\ w.eevee
           v == [w EXCEPT !.greet = g]
<1>1. g \in BOOLEAN
  OBVIOUS
<1> HIDE DEF g
<1>2. v \in PetWindow
  BY <1>1 DEF Able, PetWindow
<1>3. /\ v.mode = w.mode /\ v.purpose = w.purpose /\ v.way = w.way /\ v.walk = w.walk
      /\ v.overlay = w.overlay /\ v.feed = w.feed /\ v.flight = w.flight /\ v.away = w.away
      /\ v.outside = w.outside
  BY DEF Able, PetWindow
<1>4. Schedule(w) = v
  BY DEF Schedule, g
<1> HIDE DEF v
<1> QED BY <1>2, <1>3, <1>4, AlikeOnward

LEMMA ApartOnward ==
    ASSUME NEW w, Able(w), NEW v \in Apart(w)
    PROVE  Able(v) /\ v.mode = w.mode /\ (w.mode \notin {"fetching", "returning"} => Onward(w, v))
BY HaltAble DEF Apart, Onward

LEMMA FinishedOnward ==
    ASSUME NEW w, Able(w), NEW p \in Finished(w)
    PROVE  Onward(w, p[1]) /\ (w.mode = "returning" => p[1].mode = "idle")
<1>1. CASE w.mode # "returning"
  BY <1>1 DEF Finished, Onward
<1>2. CASE w.mode = "returning"
  <2> DEFINE h == Halt(w)
             v == [h EXCEPT !.lemon = FALSE, !.mode = "idle"]
  <2>1. p[1] = v
    BY <1>2 DEF Finished
  <2>2. Able(h) /\ h.way = None /\ h.purpose = "idle"
    BY HaltAble, HaltIs DEF Able
  <2> HIDE DEF h
  <2>3. v \in PetWindow /\ v.mode = "idle" /\ v.way = None /\ v.purpose = "idle"
    BY <2>2 DEF Able, PetWindow, Modes
  <2> HIDE DEF v
  <2> QED BY <2>1, <2>3 DEF Onward, Able, Single, Purposeful, Held, Carried
<1> QED BY <1>1, <1>2

LEMMA CollectedOnward ==
    ASSUME NEW w, Able(w), NEW p \in Collected(w)
    PROVE  /\ Able(p[1]) /\ (Held(w) => Held(p[1]))
           /\ w.mode = "fetching" => Held(p[1])
<1>1. CASE w.mode # "fetching"
  BY <1>1 DEF Collected
<1>2. CASE w.mode = "fetching"
  <2> DEFINE c == [w EXCEPT !.mode = "returning", !.purpose = "return", !.lemon = TRUE]
             d == [c EXCEPT !.way = 0]
  <2>1. p \in Finished(d) \/ \E n \in 1 .. MaxWay : p = <<WalkOn(c, "return", n), FALSE>>
    BY <1>2 DEF Collected
  <2>2. c \in PetWindow /\ c.mode = "returning" /\ c.purpose = "return"
    BY DEF Able, PetWindow, Modes, LemonGame
  <2> HIDE DEF c
  <2>3. CASE p \in Finished(d)
    <3>0. 0 \in Ways
      BY PetAssumption DEF Ways
    <3>1. d \in PetWindow /\ d.mode = "returning" /\ d.purpose = "return"
      BY <2>2, <3>0 DEF PetWindow
    <3> HIDE DEF d
    <3>2. Able(d)
      BY <3>1 DEF Able, Single, Purposeful
    <3>3. Onward(d, p[1]) /\ p[1].mode = "idle"
      BY <2>3, <3>1, <3>2, FinishedOnward
    <3> QED BY <3>3 DEF Onward, Held, Carried
  <2>4. ASSUME NEW n \in 1 .. MaxWay, p = <<WalkOn(c, "return", n), FALSE>>
        PROVE  Able(p[1]) /\ Held(p[1])
    <3>1. n \in 0 .. MaxWay /\ p[1] = WalkOn(c, "return", n)
      BY <2>4, PetAssumption
    <3> QED BY <2>2, <3>1, WalkOnAble
  <2> QED BY <2>1, <2>3, <2>4
<1> QED BY <1>1, <1>2

LEMMA ChasedOnward ==
    ASSUME NEW w, Able(w), NEW p \in Chased([w EXCEPT !.flight = FALSE])
    PROVE  Onward(w, p[1])
<1> DEFINE f == [w EXCEPT !.flight = FALSE]
           c == [f EXCEPT !.mode = "fetching", !.purpose = "fetch", !.way = 0]
<1>1. /\ f \in PetWindow /\ f.mode = w.mode /\ f.purpose = w.purpose /\ f.way = w.way
      /\ f.walk = w.walk /\ f.overlay = w.overlay /\ f.feed = w.feed /\ f.outside = w.outside
  BY DEF Able, PetWindow
<1>0. p \in Chased(f)
  OBVIOUS
<1> HIDE DEF f
<1>2. CASE w.mode # "lemon_flying"
  <2>1. p[1] = f
    BY <1>0, <1>1, <1>2 DEF Chased
  <2>2. Able(f) /\ (Held(w) => Held(f))
    <3>1. Able(f)
      BY <1>1 DEF Able, Single, Purposeful
    <3>2. Held(w) => Held(f)
      BY <1>1, <1>2 DEF Held, Carried, Aground
    <3> QED BY <3>1, <3>2
  <2> QED BY <2>1, <2>2 DEF Onward
<1>3. CASE w.mode = "lemon_flying"
  <2>1. p \in Collected(c) \/ \E n \in 1 .. MaxWay : p = <<WalkOn(c, "fetch", n), FALSE>>
    BY <1>0, <1>1, <1>3 DEF Chased
  <2>2. c \in PetWindow /\ c.mode = "fetching" /\ c.purpose = "fetch"
    <3>1. 0 \in Ways /\ "fetching" \in Modes
      BY PetAssumption DEF Ways, Modes, LemonGame
    <3> QED BY <1>1, <3>1 DEF PetWindow
  <2> HIDE DEF c
  <2>3. Able(c)
    BY <2>2 DEF Able, Single, Purposeful
  <2>4. ASSUME NEW n \in 1 .. MaxWay, p = <<WalkOn(c, "fetch", n), FALSE>>
        PROVE  Able(p[1]) /\ Held(p[1])
    <3>1. n \in 0 .. MaxWay /\ p[1] = WalkOn(c, "fetch", n)
      BY <2>4, PetAssumption
    <3> QED BY <2>2, <3>1, WalkOnAble
  <2> QED BY <2>1, <2>2, <2>3, <2>4, CollectedOnward DEF Onward
<1> QED BY <1>2, <1>3

-----------------------------------------------------------------------------
(* The events of one poll.                                                 *)
LEMMA ListenedOnward ==
    ASSUME NEW w, Able(w), NEW r
    PROVE  Onward(w, Listened(w, r)) /\ Listened(w, r).away = w.away
<1>1. Onward(w, w)
  BY DEF Onward
<1>2. Able(Halt(w)) /\ (w.mode = "idle" => Onward(w, Halt(w))) /\ Halt(w).away = w.away
  BY HaltAble, HaltIs DEF Able
<1>3. \A v : Able(v) => Onward(v, Play(v)) /\ Play(v).away = v.away
  BY PlayOnward, PlayIs DEF Able
<1> QED BY <1>1, <1>2, <1>3 DEF Listened, Onward

LEMMA SatOnward ==
    ASSUME NEW w, Able(w)
    PROVE  Onward(w, Sat(w)) /\ Sat(w).away = w.away
<1> DEFINE o == CloseOverlay(w)
           c == CancelFetch(o)
           h == Halt(c)
           v == [h EXCEPT !.feed = FALSE, !.berry = FALSE, !.mode = "idle",
                          !.onBed = FALSE, !.greet = FALSE]
<1>1. Able(o) /\ o.away = w.away
  BY CloseOverlayOnward DEF Onward
<1> HIDE DEF o
<1>2. Able(c) /\ c.away = w.away
  BY <1>1, CancelFetchOnward DEF Onward
<1> HIDE DEF c
<1>3. h \in PetWindow /\ h.way = None /\ h.purpose = "idle" /\ h.away = w.away
  BY <1>2, HaltIs DEF Able
<1> HIDE DEF h
<1>4. v \in PetWindow
  <2>1. [h EXCEPT !.feed = FALSE, !.berry = FALSE, !.mode = "idle"] \in PetWindow
    BY <1>3 DEF PetWindow, Modes
  <2>2. [[h EXCEPT !.feed = FALSE, !.berry = FALSE, !.mode = "idle"]
            EXCEPT !.onBed = FALSE, !.greet = FALSE] \in PetWindow
    BY <2>1 DEF PetWindow
  <2> QED BY <1>3, <2>2 DEF PetWindow
<1>5. v.mode = "idle" /\ v.way = None /\ v.purpose = "idle" /\ v.away = w.away
  BY <1>3 DEF PetWindow
<1>6. Sat(w) = Play(v)
  BY DEF Sat, o, c, h
<1> HIDE DEF v
<1>7. Able(v) /\ Held(v)
  BY <1>4, <1>5 DEF Able, Single, Purposeful, Held, Carried
<1>8. Onward(v, Play(v)) /\ Play(v).away = v.away
  BY <1>4, <1>7, PlayOnward, PlayIs
<1> QED BY <1>5, <1>6, <1>7, <1>8 DEF Onward

LEMMA InteractedOnward ==
    ASSUME NEW w, Able(w), NEW kind \in Kinds
    PROVE  Onward(w, Interacted(w, kind)) /\ Interacted(w, kind).away = w.away
<1> DEFINE u == IF kind = "sleep" THEN w ELSE [w EXCEPT !.onBed = FALSE]
<1>1. Able(u) /\ Onward(w, u) /\ u.away = w.away
  <2> DEFINE v == [w EXCEPT !.onBed = FALSE]
  <2>1. v \in PetWindow
    BY DEF Able, PetWindow
  <2>2. /\ v.mode = w.mode /\ v.purpose = w.purpose /\ v.way = w.way /\ v.walk = w.walk
        /\ v.overlay = w.overlay /\ v.feed = w.feed /\ v.flight = w.flight /\ v.away = w.away
        /\ v.outside = w.outside
    BY DEF Able, PetWindow
  <2> HIDE DEF v
  <2>3. Onward(w, v)
    BY <2>1, <2>2, AlikeOnward
  <2>4. u = w \/ u = v
    BY DEF u, v
  <2> QED BY <2>2, <2>3, <2>4 DEF Onward
<1>2. \A v : Able(v) => Onward(v, Play(v)) /\ Play(v).away = v.away
  BY PlayOnward, PlayIs DEF Able
<1>3. \A v : Able(v) => /\ Onward(v, CancelFetch(v)) /\ CancelFetch(v).away = v.away
                        /\ Onward(v, StartFeed(v)) /\ StartFeed(v).away = v.away
                        /\ Onward(v, Schedule(v)) /\ Schedule(v).away = v.away
                        /\ Onward(v, Sat(v)) /\ Sat(v).away = v.away
  BY CancelFetchOnward, StartFeedOnward, ScheduleOnward, SatOnward
<1>4. Interacted(w, kind) \in {Sat(w), Schedule(Play(u)), StartFeed(u), Play(CancelFetch(w)), Play(w), Play(u)}
  BY DEF Interacted, u
<1> HIDE DEF u
<1> QED BY <1>1, <1>2, <1>3, <1>4 DEF Onward

LEMMA HandledOnward ==
    ASSUME NEW w, Able(w), NEW r, NEW e \in Events
    PROVE  /\ Onward(w, Handled(w, r, e)) /\ Handled(w, r, e).away = w.away
           /\ w.away /\ w.mode = "feeding" => Handled(w, r, e).mode = "feeding"
<1>1. CASE e = "authorization"
  <2>1. Handled(w, r, e) = LeaveOverlay(w)
    BY <1>1 DEF Handled
  <2> QED BY <2>1, LeaveOverlayOnward DEF LemonGame
<1>2. CASE e # "authorization" /\ w.away
  BY <1>2 DEF Handled, Onward
<1>3. CASE e # "authorization" /\ ~w.away
  <2>1. Play(w).away = w.away
    BY PlayIs DEF Able
  <2>2. CASE e \in Kinds
    <3>1. Handled(w, r, e) = Interacted(w, e)
      BY <1>3, <2>2 DEF Handled, Kinds
    <3> QED BY <1>3, <2>2, <3>1, InteractedOnward
  <2>3. CASE e \in {"message", "action"}
    <3>1. Handled(w, r, e) \in {Listened(w, r), Play(w)}
      BY <1>3, <2>3 DEF Handled
    <3> QED BY <1>3, <2>1, <3>1, ListenedOnward, PlayOnward
  <2> QED BY <1>3, <2>2, <2>3 DEF Events
<1> QED BY <1>1, <1>2, <1>3

(* The pet that leaves gives up everything but a meal.                     *)
LEMMA LeftIs ==
    ASSUME NEW w, Able(w)
    PROVE  /\ Able(Left(w)) /\ Left(w).away = TRUE
           /\ w.mode # "feeding" /\ Held(w) => Held(Left(w))
           /\ w.mode = "feeding" => Left(w).mode = "feeding"
<1> DEFINE g == [w EXCEPT !.away = TRUE]
           c == CancelFetch(g)
           o == CloseOverlay(c)
           v == [o EXCEPT !.feed = FALSE, !.berry = FALSE, !.walk = FALSE,
                          !.greet = FALSE]
<1>1. /\ g \in PetWindow /\ g.mode = w.mode /\ g.purpose = w.purpose /\ g.way = w.way
      /\ g.walk = w.walk /\ g.overlay = w.overlay /\ g.feed = w.feed /\ g.flight = w.flight
      /\ g.away = TRUE /\ g.outside = w.outside
  BY DEF Able, PetWindow
<1>2. Left(w) = v
  BY DEF Left
<1> HIDE DEF g
<1>3. Onward(w, g) /\ Able(g)
  BY <1>1, AlikeOnward DEF Onward
<1>4. /\ Onward(g, c) /\ Able(c) /\ c.away = TRUE
      /\ c.mode \in {"idle", "placing_bed", "feeding"}
      /\ w.mode = "feeding" => c.mode = "feeding"
      /\ c.mode = "feeding" => w.mode = "feeding"
  BY <1>1, <1>3, CancelFetchOnward DEF Onward, LemonGame
<1> HIDE DEF c
<1>5. /\ Onward(c, o) /\ Able(o) /\ o.away = TRUE
      /\ o.mode \in {"idle", "placing_bed", "feeding"} /\ o.overlay = ""
      /\ w.mode = "feeding" => o.mode = "feeding"
      /\ o.mode = "feeding" => w.mode = "feeding"
  BY <1>4, CloseOverlayOnward DEF Onward
<1> HIDE DEF o
<1>6. v \in PetWindow
  <2>1. [o EXCEPT !.feed = FALSE, !.berry = FALSE, !.walk = FALSE] \in PetWindow
    BY <1>5 DEF Able, PetWindow
  <2>2. [[o EXCEPT !.feed = FALSE, !.berry = FALSE, !.walk = FALSE]
            EXCEPT !.greet = FALSE] \in PetWindow
    BY <2>1 DEF PetWindow
  <2> QED BY <1>5, <2>2 DEF Able, PetWindow
<1>7. /\ v.mode = o.mode /\ v.purpose = o.purpose /\ v.way = o.way /\ v.away = o.away
      /\ v.overlay = o.overlay
  BY <1>5 DEF Able, PetWindow
<1> HIDE DEF v
<1>8. Able(v)
  BY <1>5, <1>6, <1>7 DEF Able, Single, Purposeful
<1>9. w.mode # "feeding" /\ Held(w) => Held(v)
  <2>1. Held(w) => Held(o)
    BY <1>3, <1>4, <1>5 DEF Onward
  <2> QED BY <1>5, <1>7, <2>1 DEF Held, Carried, Aground
<1> QED BY <1>2, <1>5, <1>7, <1>8, <1>9

-----------------------------------------------------------------------------
(* A poll is the composition of its events: the recursive function is what *)
(* its equation says.                                                      *)
LEMMA LeastOf ==
    ASSUME NEW S \in SUBSET Nat, S # {}
    PROVE  \E n \in S : \A m \in S : n <= m
<1> DEFINE R == {p \in Nat \X Nat : p[1] < p[2]}
<1>1. IsWellFoundedOn(R, Nat)
  BY NatLessThanWellFounded DEF OpToRel
<1>2. PICK n \in S : \A m \in S : ~(<<m, n>> \in R)
  BY <1>1, WFMin, Zenon
<1>3. ASSUME NEW m \in S PROVE n <= m
  <2>1. m \in Nat /\ n \in Nat /\ <<m, n>> \in Nat \X Nat
    OBVIOUS
  <2>2. ~(m < n)
    <3> SUFFICES ASSUME m < n PROVE <<m, n>> \in R
      BY <1>2
    <3> QED BY <2>1
  <2> QED BY <2>1, <2>2
<1> QED BY <1>3

LEMMA AfterEventsIs ==
    ASSUME Len(events) \in Nat
    PROVE  \A i \in 0 .. Len(events) :
              AfterEvents[i] = IF i = 0 THEN Noticed
                               ELSE Handled(AfterEvents[i - 1], rest, events[i])
<1> DEFINE Table(n) == \E g : g = [i \in 0 .. n |-> IF i = 0 THEN Noticed
                                                    ELSE Handled(g[i - 1], rest, events[i])]
           Bad == {n \in Nat : ~Table(n)}
<1>1. Bad = {}
  <2> SUFFICES ASSUME Bad # {} PROVE FALSE
    OBVIOUS
  <2>1. PICK n \in Bad : \A m \in Bad : n <= m
    BY LeastOf
  <2>2. n # 0
    <3> DEFINE g == [i \in 0 .. 0 |-> Noticed]
    <3>1. g = [i \in 0 .. 0 |-> IF i = 0 THEN Noticed ELSE Handled(g[i - 1], rest, events[i])]
      OBVIOUS
    <3> QED BY <3>1
  <2>3. n \in Nat /\ n - 1 \in Nat /\ Table(n - 1)
    <3> HIDE DEF Table
    <3> QED BY <2>1, <2>2
  <2>4. PICK g : g = [i \in 0 .. n - 1 |-> IF i = 0 THEN Noticed
                                          ELSE Handled(g[i - 1], rest, events[i])]
    BY <2>3
  <2> DEFINE h == [i \in 0 .. n |-> IF i = 0 THEN Noticed ELSE Handled(g[i - 1], rest, events[i])]
  <2>5. \A i \in 0 .. n - 1 : h[i] = g[i]
    <3> SUFFICES ASSUME NEW i \in 0 .. n - 1 PROVE h[i] = g[i]
      OBVIOUS
    <3>1. g[i] = IF i = 0 THEN Noticed ELSE Handled(g[i - 1], rest, events[i])
      BY <2>4
    <3>2. i \in 0 .. n
      BY <2>3
    <3> QED BY <3>1, <3>2
  <2>6. h = [i \in 0 .. n |-> IF i = 0 THEN Noticed ELSE Handled(h[i - 1], rest, events[i])]
    <3> HIDE DEF h
    <3>1. \A i \in 0 .. n : i # 0 => h[i - 1] = g[i - 1]
      <4> SUFFICES ASSUME NEW i \in 0 .. n, i # 0 PROVE h[i - 1] = g[i - 1]
        OBVIOUS
      <4>1. n \in Nat
        BY <2>3
      <4>2. i - 1 \in 0 .. n - 1
        BY <4>1
      <4> QED BY <4>2, <2>5
    <3>2. h = [i \in 0 .. n |-> IF i = 0 THEN Noticed ELSE Handled(g[i - 1], rest, events[i])]
      BY DEF h
    <3> QED BY <3>1, <3>2
  <2> HIDE DEF h
  <2>7. Table(n)
    BY <2>6
  <2> QED BY <2>1, <2>7
<1>2. Table(Len(events))
  BY <1>1
<1>3. AfterEvents = [i \in 0 .. Len(events) |-> IF i = 0 THEN Noticed
                        ELSE Handled(AfterEvents[i - 1], rest, events[i])]
  BY <1>2 DEF AfterEvents
<1> QED BY <1>3

(* Whatever is in the queue, a poll loses only the meal of a pet that left.*)
PolledWell(w) == /\ Able(w)
                 /\ Held(win) => Held(w) \/ (win.mode = "feeding" /\ w.away /\ w.mode = "feeding")

LEMMA PollEventsKeeps ==
    ASSUME PetTypeOK, Able(win), PollEvents
    PROVE  Able(win') /\ (Held(win) => Held(win') \/ (win.mode = "feeding" /\ win'.away))
<1>0. /\ events \in Seq(Events) /\ Len(events) \in Nat
      /\ \A i \in 1 .. Len(events) : events[i] \in Events
  BY DEF PetTypeOK
<1>1. PolledWell(Noticed)
  <2>1. CASE Noticed = win
    BY <2>1 DEF PolledWell
  <2>2. CASE Noticed = Left(win)
    BY <2>2, LeftIs DEF PolledWell
  <2>3. CASE Noticed = Returned(win)
    <3> DEFINE v == [win EXCEPT !.away = FALSE]
    <3>1. v \in PetWindow
      BY DEF Able, PetWindow
    <3>2. /\ v.mode = win.mode /\ v.purpose = win.purpose /\ v.way = win.way /\ v.walk = win.walk
          /\ v.overlay = win.overlay /\ v.feed = win.feed /\ v.flight = win.flight
          /\ v.outside = win.outside
      BY DEF Able, PetWindow
    <3>3. Returned(win) = Play(v)
      BY DEF Returned
    <3> HIDE DEF v
    <3>4. Onward(win, v)
      BY <3>1, <3>2, AlikeOnward
    <3> QED BY <2>3, <3>3, <3>4, PlayOnward DEF Onward, PolledWell
  <2> QED BY <2>1, <2>2, <2>3 DEF Noticed
<1>2. ASSUME NEW w, PolledWell(w), NEW e \in Events
      PROVE  PolledWell(Handled(w, rest, e))
  BY <1>2, HandledOnward DEF PolledWell, Onward
<1> DEFINE Bad == {i \in 0 .. Len(events) : ~PolledWell(AfterEvents[i])}
<1>3. Bad = {}
  <2> SUFFICES ASSUME Bad # {} PROVE FALSE
    OBVIOUS
  <2>1. Bad \in SUBSET Nat
    BY <1>0
  <2> HIDE DEF Bad
  <2>2. PICK i \in Bad : \A k \in Bad : i <= k
    BY <2>1, LeastOf
  <2>3. i \in 0 .. Len(events) /\ ~PolledWell(AfterEvents[i])
    BY <2>2 DEF Bad
  <2>4. i # 0
    BY <1>0, <1>1, <2>3, AfterEventsIs
  <2>5. i \in 1 .. Len(events) /\ i - 1 \in 0 .. Len(events) /\ ~(i <= i - 1)
    BY <1>0, <2>3, <2>4
  <2>6. PolledWell(AfterEvents[i - 1])
    BY <2>2, <2>5 DEF Bad
  <2>7. AfterEvents[i] = Handled(AfterEvents[i - 1], rest, events[i])
    BY <1>0, <2>3, <2>4, AfterEventsIs
  <2> QED BY <1>0, <1>2, <2>3, <2>5, <2>6, <2>7
<1>4. PolledWell(AfterEvents[Len(events)])
  BY <1>0, <1>3
<1> QED BY <1>4 DEF PollEvents, PolledWell

-----------------------------------------------------------------------------
(* What each action does to the errand.                                    *)
Fit == PetTypeOK /\ Able(win)

LEMMA BeginFetchGameKeeps == Fit /\ BeginFetchGame => Onward(win, win')
<1> SUFFICES ASSUME Fit, BeginFetchGame PROVE Onward(win, win')
  OBVIOUS
<1> DEFINE h == Halt(win)
           b == h.onBed /\ rest # "asleep"
           v == [h EXCEPT !.onBed = b, !.mode = "aiming_lemon", !.overlay = "lemon"]
<1>1. h \in PetWindow /\ h.way = None /\ h.purpose = "idle"
  BY HaltIs DEF Fit, Able
<1>2. win' = v /\ b \in BOOLEAN
  BY DEF BeginFetchGame
<1> HIDE DEF h, b
<1>3. v \in PetWindow
  BY <1>1, <1>2 DEF PetWindow, Modes, LemonGame
<1>4. v.mode = "aiming_lemon" /\ v.overlay = "lemon" /\ v.way = h.way /\ v.purpose = h.purpose
  BY <1>1 DEF PetWindow
<1> HIDE DEF v
<1> QED BY <1>1, <1>2, <1>3, <1>4 DEF Onward, Able, Single, Purposeful, Held, Carried

LEMMA BeginBedPlacementKeeps == Fit /\ BeginBedPlacement => Onward(win, win')
<1> SUFFICES ASSUME Fit, BeginBedPlacement PROVE Onward(win, win')
  OBVIOUS
<1> DEFINE v == [win EXCEPT !.mode = "placing_bed", !.overlay = "bed"]
<1>1. win' = v /\ win.mode = "idle" /\ Able(win)
  BY DEF BeginBedPlacement, Fit
<1>2. v \in PetWindow
  BY <1>1 DEF Able, PetWindow, Modes
<1>3. v.mode = "placing_bed" /\ v.overlay = "bed" /\ v.way = win.way /\ v.purpose = win.purpose
  BY <1>1 DEF Able, PetWindow
<1> HIDE DEF v
<1> QED BY <1>1, <1>2, <1>3 DEF Onward, Able, Single, Purposeful, Held, Carried

(* The bed, the button and the counters of the timers decide no errand.    *)
LEMMA AsideKeeps ==
    Fit /\ (RequestFeed \/ RemoveBed \/ ToggleSleep \/ MouseMove \/ CallHome) => Onward(win, win')
<1> SUFFICES ASSUME Fit, RequestFeed \/ RemoveBed \/ ToggleSleep \/ MouseMove \/ CallHome
             PROVE  Onward(win, win')
  OBVIOUS
<1> DEFINE Same(v) == /\ v \in PetWindow
                      /\ v.mode = win.mode /\ v.purpose = win.purpose /\ v.way = win.way
                      /\ v.walk = win.walk /\ v.overlay = win.overlay /\ v.feed = win.feed
                      /\ v.flight = win.flight /\ v.outside = win.outside
<1>1. Able(win)
  BY DEF Fit
<1>2. CASE RequestFeed
  BY <1>1, <1>2 DEF RequestFeed, Onward
<1>3. CASE RemoveBed
  <2>1. Same([win EXCEPT !.onBed = FALSE, !.bed = FALSE])
    BY <1>1 DEF Able, PetWindow
  <2> QED BY <1>1, <1>3, <2>1, AlikeOnward DEF RemoveBed
<1>4. CASE ToggleSleep
  <2> DEFINE b == win.onBed /\ rest # "asleep"
  <2>1. b \in BOOLEAN
    OBVIOUS
  <2> HIDE DEF b
  <2>2. Same([win EXCEPT !.onBed = b])
    BY <1>1, <2>1 DEF Able, PetWindow
  <2>3. win' = [win EXCEPT !.onBed = b]
    BY <1>4 DEF ToggleSleep, b
  <2> QED BY <1>1, <2>2, <2>3, AlikeOnward
<1>5. CASE MouseMove
  <2>1. \A m \in {"dragged", "stroked"} : Same([win EXCEPT !.moved = m])
    BY <1>1 DEF Able, PetWindow
  <2>2. \E m \in {"dragged", "stroked"} : win' = [win EXCEPT !.moved = m]
    BY <1>5 DEF MouseMove
  <2> QED BY <1>1, <2>1, <2>2, AlikeOnward
<1>6. CASE CallHome
  <2>1. Same([win EXCEPT !.away = FALSE])
    BY <1>1 DEF Able, PetWindow
  <2>2. Onward(win, [win EXCEPT !.away = FALSE])
    BY <1>1, <2>1, AlikeOnward
  <2>3. win' = Play([win EXCEPT !.away = FALSE])
    BY <1>6 DEF CallHome, Play
  <2> QED BY <2>2, <2>3, PlayOnward DEF Onward
<1> QED BY <1>2, <1>3, <1>4, <1>5, <1>6

LEMMA ExpressionKeeps == Fit /\ Expressive /\ Expression => Onward(win, win')
<1> SUFFICES ASSUME Fit, Expressive, Expression PROVE Onward(win, win')
  OBVIOUS
<1>1. Onward(win, Halt(win))
  BY HaltAble DEF Fit, Expressive
<1> QED BY <1>1, PlayOnward DEF Expression, Onward

LEMMA ScreenRecoveryKeeps == Fit /\ ScreenRecovery => Onward(win, win')
BY PlayOnward DEF Fit, ScreenRecovery, Play

(* Where the pet stands changes: whether something carries it on does not. *)
LEMMA PlacedKeeps == Fit /\ Placed => Able(win') /\ (Carried(win) => Carried(win'))
<1> SUFFICES ASSUME Fit, Placed PROVE Able(win') /\ (Carried(win) => Carried(win'))
  OBVIOUS
<1> DEFINE b == ~win.outside
           v == [win EXCEPT !.outside = b]
<1>1. win' = v /\ b \in BOOLEAN /\ Able(win)
  BY DEF Placed, Fit
<1> HIDE DEF b
<1>2. v \in PetWindow
  BY <1>1 DEF Able, PetWindow
<1>3. /\ v.mode = win.mode /\ v.purpose = win.purpose /\ v.way = win.way /\ v.walk = win.walk
      /\ v.overlay = win.overlay /\ v.feed = win.feed /\ v.flight = win.flight
  BY <1>1 DEF Able, PetWindow
<1> HIDE DEF v
<1>4. Able(v)
  BY <1>1, <1>2, <1>3 DEF Able, Single, Purposeful
<1>5. Carried(win) => Carried(v)
  BY <1>3 DEF Carried
<1> QED BY <1>1, <1>4, <1>5

LEMMA RecoverScreenLayoutKeeps == Fit /\ RecoverScreenLayout => Onward(win, win')
<1> SUFFICES ASSUME Fit, RecoverScreenLayout PROVE Onward(win, win')
  OBVIOUS
<1> DEFINE h == Halt(win)
           v == IF h.mode \in LemonGame THEN CancelFetch(h) ELSE h
<1>1. Able(win) /\ win' = Play(v)
  BY DEF Fit, RecoverScreenLayout, Play
<1>2. Able(h) /\ h.mode = win.mode /\ (win.mode \notin {"fetching", "returning"} => Onward(win, h))
  BY <1>1, HaltAble
<1> HIDE DEF h
<1>3. Onward(h, CancelFetch(h)) /\ (h.mode \in LemonGame => CancelFetch(h).mode = "idle")
  BY <1>2, CancelFetchOnward DEF LemonGame
<1>4. h.mode \in LemonGame => Held(CancelFetch(h))
  BY <1>3 DEF Held, Carried
<1>5. Onward(win, v)
  BY <1>2, <1>3, <1>4 DEF Onward, LemonGame
<1> HIDE DEF v
<1> QED BY <1>1, <1>5, PlayOnward DEF Onward

LEMMA PlaceBedKeeps == Fit /\ PlaceBed => Onward(win, win')
<1> SUFFICES ASSUME Fit, PlaceBed PROVE Onward(win, win')
  OBVIOUS
<1> DEFINE c == [win EXCEPT !.overlay = ""]
           v == [c EXCEPT !.bed = TRUE, !.mode = "idle"]
<1>1. Able(win) /\ win.overlay = "bed" /\ win' = IF c.mode # "placing_bed" THEN c ELSE v
  BY DEF Fit, PlaceBed
<1>2. /\ c \in PetWindow /\ c.mode = win.mode /\ c.purpose = win.purpose /\ c.way = win.way
      /\ c.walk = win.walk /\ c.feed = win.feed /\ c.flight = win.flight
      /\ c.outside = win.outside
  BY <1>1 DEF Able, PetWindow
<1> HIDE DEF c
<1>3. v \in PetWindow /\ v.mode = "idle" /\ v.purpose = win.purpose /\ v.way = win.way
  BY <1>2 DEF PetWindow, Modes
<1> HIDE DEF v
<1>4. Able(c) /\ (c.mode = "placing_bed" => Able(v) /\ Held(v))
  BY <1>1, <1>2, <1>3 DEF Able, Single, Purposeful, Held, Carried
<1>5. c.mode # "placing_bed" /\ Held(win) => Held(c)
  BY <1>1, <1>2 DEF Held, Carried, Aground
<1> QED BY <1>1, <1>4, <1>5 DEF Onward

LEMMA ThrowLemonKeeps == Fit /\ ThrowLemon => Onward(win, win')
<1> SUFFICES ASSUME Fit, ThrowLemon PROVE Onward(win, win')
  OBVIOUS
<1> DEFINE c == [win EXCEPT !.overlay = ""]
           v == [c EXCEPT !.mode = "lemon_flying", !.lemon = TRUE, !.flight = TRUE]
<1>1. /\ Able(win) /\ win.overlay = "lemon"
      /\ win' \in IF c.mode # "aiming_lemon" THEN {c} ELSE {v, CancelFetch(c)}
  BY DEF Fit, ThrowLemon
<1>2. /\ c \in PetWindow /\ c.mode = win.mode /\ c.purpose = win.purpose /\ c.way = win.way
      /\ c.walk = win.walk /\ c.feed = win.feed /\ c.flight = win.flight
      /\ c.outside = win.outside
  BY <1>1 DEF Able, PetWindow
<1> HIDE DEF c
<1>3. v \in PetWindow /\ v.mode = "lemon_flying" /\ v.purpose = c.purpose /\ v.way = c.way /\ v.flight = TRUE
  BY <1>2 DEF PetWindow, Modes, LemonGame
<1> HIDE DEF v
<1>4. Able(c) /\ (c.mode = "aiming_lemon" => Able(v) /\ Held(v))
  BY <1>1, <1>2, <1>3 DEF Able, Single, Purposeful, Held, Carried
<1>5. c.mode # "aiming_lemon" /\ Held(win) => Held(c)
  BY <1>1, <1>2 DEF Held, Carried, Aground
<1>6. Able(CancelFetch(c)) /\ (c.mode = "aiming_lemon" => Held(CancelFetch(c)))
  <2>1. c.mode = "aiming_lemon" => CancelFetch(c).mode = "idle"
    BY <1>4, CancelFetchOnward
  <2> QED BY <1>4, <2>1, CancelFetchOnward DEF Onward, Held, Carried
<1> QED BY <1>1, <1>4, <1>5, <1>6 DEF Onward

LEMMA MousePressKeeps == Fit /\ MousePress => Onward(win, win')
<1> SUFFICES ASSUME Fit, MousePress PROVE Onward(win, win')
  OBVIOUS
<1>1. Able(win)
  BY DEF Fit
<1>2. CASE win.mode # "idle"
  <2> DEFINE v == [win EXCEPT !.button = TRUE]
  <2>1. /\ v \in PetWindow /\ v.mode = win.mode /\ v.purpose = win.purpose /\ v.way = win.way
        /\ v.walk = win.walk /\ v.overlay = win.overlay /\ v.feed = win.feed /\ v.flight = win.flight
        /\ v.outside = win.outside
    BY <1>1 DEF Able, PetWindow
  <2> QED BY <1>1, <1>2, <2>1, AlikeOnward DEF MousePress
<1>3. CASE win.mode = "idle"
  <2> DEFINE h == Halt(win)
             b == h.onBed /\ rest # "asleep"
             v == [h EXCEPT !.button = TRUE, !.drag = TRUE, !.moved = "no", !.onBed = b]
  <2>1. h \in PetWindow /\ h.mode = "idle" /\ h.way = None /\ h.purpose = "idle"
    BY <1>1, <1>3, HaltIs DEF Able
  <2>2. win' = v /\ b \in BOOLEAN
    BY <1>3 DEF MousePress
  <2> HIDE DEF h, b
  <2>3. v \in PetWindow
    BY <2>1, <2>2 DEF PetWindow
  <2>4. v.mode = "idle" /\ v.way = None /\ v.purpose = "idle"
    BY <2>1 DEF PetWindow
  <2> HIDE DEF v
  <2> QED BY <2>2, <2>3, <2>4 DEF Onward, Able, Single, Purposeful, Held, Carried
<1> QED BY <1>2, <1>3

LEMMA MouseReleaseKeeps ==
    Fit /\ MouseRelease => Able(win') /\ (win.mode \notin {"fetching", "returning"} => Onward(win, win'))
<1> DEFINE Fine(v) == Able(v) /\ (win.mode \notin {"fetching", "returning"} => Onward(win, v))
<1> SUFFICES ASSUME Fit, MouseRelease PROVE Fine(win')
  OBVIOUS
<1>1. Able(win)
  BY DEF Fit
<1> DEFINE up == [win EXCEPT !.button = FALSE, !.drag = FALSE]
           h == Halt(up)
           v == [h EXCEPT !.onBed = TRUE]
           b == up.onBed /\ ~(win.moved # "no" /\ win.onBed)
           w == [up EXCEPT !.onBed = b]
<1>2. win' = Play(v) \/ win' = Play(w) \/ \E a \in Apart(w) : win' = Play(a)
  BY DEF MouseRelease, Play
<1>3. /\ up \in PetWindow /\ up.mode = win.mode /\ up.purpose = win.purpose /\ up.way = win.way
      /\ up.walk = win.walk /\ up.overlay = win.overlay /\ up.feed = win.feed
      /\ up.flight = win.flight /\ up.outside = win.outside
  BY <1>1 DEF Able, PetWindow
<1> HIDE DEF up
<1>4. Onward(win, up) /\ Able(up)
  BY <1>1, <1>3, AlikeOnward DEF Onward
<1>5. Fine(Play(v))
  <2>1. Able(h) /\ h.mode = up.mode /\ (up.mode \notin {"fetching", "returning"} => Onward(up, h))
    BY <1>4, HaltAble
  <2> HIDE DEF h
  <2>2. /\ v \in PetWindow /\ v.mode = h.mode /\ v.purpose = h.purpose /\ v.way = h.way
        /\ v.walk = h.walk /\ v.overlay = h.overlay /\ v.feed = h.feed /\ v.flight = h.flight
        /\ v.outside = h.outside
    BY <2>1 DEF Able, PetWindow
  <2> HIDE DEF v
  <2>3. Onward(h, v)
    BY <2>1, <2>2, AlikeOnward
  <2>4. Onward(v, Play(v))
    BY <2>3, PlayOnward DEF Onward
  <2> QED BY <1>3, <1>4, <2>1, <2>3, <2>4 DEF Onward
<1>6. Onward(up, w) /\ Able(w) /\ w.mode = win.mode
  <2>1. b \in BOOLEAN
    OBVIOUS
  <2> HIDE DEF b
  <2>2. /\ w \in PetWindow /\ w.mode = up.mode /\ w.purpose = up.purpose /\ w.way = up.way
        /\ w.walk = up.walk /\ w.overlay = up.overlay /\ w.feed = up.feed /\ w.flight = up.flight
        /\ w.outside = up.outside
    BY <1>3, <2>1 DEF PetWindow
  <2> HIDE DEF w
  <2> QED BY <1>3, <1>4, <2>2, AlikeOnward DEF Onward
<1> HIDE DEF w, v
<1>7. ASSUME NEW a \in Apart(w) PROVE Fine(Play(a))
  BY <1>4, <1>6, ApartOnward, PlayOnward DEF Onward
<1>8. Fine(Play(w))
  BY <1>4, <1>6, PlayOnward DEF Onward
<1> QED BY <1>2, <1>5, <1>7, <1>8

LEMMA FlightEndsKeeps == Fit /\ FlightEnds => Onward(win, win')
BY ChasedOnward DEF Fit, FlightEnds

LEMMA FeedTickKeeps == Fit /\ FeedTick => Onward(win, win')
<1> SUFFICES ASSUME Fit, FeedTick PROVE Onward(win, win')
  OBVIOUS
<1> DEFINE w == [win EXCEPT !.feed = FALSE]
           e == IF w.stage = 0 THEN Play(w) ELSE w
           u == [e EXCEPT !.stage = e.stage + 1, !.feed = TRUE]
           d == [w EXCEPT !.berry = FALSE, !.mode = "idle"]
<1>1. Able(win) /\ win' \in {IF w.mode # "feeding" THEN w ELSE IF w.stage < 3 THEN u ELSE Play(d)}
  BY DEF Fit, FeedTick
<1>2. /\ w \in PetWindow /\ w.mode = win.mode /\ w.purpose = win.purpose /\ w.way = win.way
      /\ w.walk = win.walk /\ w.overlay = win.overlay /\ w.flight = win.flight
      /\ w.stage = win.stage /\ w.outside = win.outside
  BY <1>1 DEF Able, PetWindow
<1> HIDE DEF w
<1>3. Able(w) /\ (w.mode # "feeding" => Onward(win, w))
  <2>1. Able(w)
    BY <1>1, <1>2 DEF Able, Single, Purposeful
  <2>2. w.mode # "feeding" /\ Held(win) => Held(w)
    BY <1>2 DEF Held, Carried, Aground
  <2> QED BY <2>1, <2>2 DEF Onward
<1>4. CASE w.mode # "feeding"
  BY <1>1, <1>3, <1>4
<1>5. CASE w.mode = "feeding" /\ w.stage < 3
  <2>1. Able(e) /\ e.mode = "feeding" /\ e.stage = w.stage
    BY <1>2, <1>3, <1>5, PlayOnward, PlayIs DEF Onward
  <2> HIDE DEF e
  <2>2. e.stage + 1 \in 0 .. 3
    <3>1. w.stage \in 0 .. 3
      BY <1>2 DEF PetWindow
    <3> QED BY <1>5, <2>1, <3>1
  <2>3. u \in PetWindow
    BY <2>1, <2>2 DEF Able, PetWindow
  <2>4. u.mode = "feeding" /\ u.purpose = e.purpose /\ u.way = e.way /\ u.feed = TRUE
    BY <2>1 DEF Able, PetWindow
  <2>5. win' = u
    BY <1>1, <1>5
  <2> HIDE DEF u
  <2> QED BY <2>1, <2>3, <2>4, <2>5 DEF Able, Onward, Single, Purposeful, Held, Carried
<1>6. CASE w.mode = "feeding" /\ ~(w.stage < 3)
  <2>1. d \in PetWindow /\ d.mode = "idle" /\ d.purpose = w.purpose /\ d.way = w.way
    BY <1>2 DEF PetWindow, Modes
  <2> HIDE DEF d
  <2>2. Able(d) /\ Held(d)
    BY <1>3, <1>6, <2>1 DEF Able, Single, Purposeful, Held, Carried
  <2> QED BY <1>1, <1>6, <2>2, PlayOnward DEF Onward
<1> QED BY <1>4, <1>5, <1>6

(* A step of a walk keeps it, unless the pet fell asleep or sat down.      *)
LEMMA SteppedOnward ==
    ASSUME NEW w, Able(w), w.walk, NEW r, NEW p \in Stepped(w, r)
    PROVE  /\ Able(p[1]) /\ (Carried(w) => Held(p[1]) \/ r # "awake")
           /\ w.mode \notin {"fetching", "returning"} => Onward(w, p[1])
<1> DEFINE h == Halt(w)
           Fine(v) == /\ Able(v) /\ (Carried(w) => Held(v) \/ r # "awake")
                      /\ w.mode \notin {"fetching", "returning"} => Onward(w, v)
<1>1. /\ Able(h) /\ h.mode = w.mode /\ (w.mode \notin {"fetching", "returning"} => Onward(w, h))
      /\ w \in PetWindow
  BY HaltAble DEF Able
<1>2. Onward(h, Play(h)) /\ Play(h).mode = h.mode
  BY <1>1, PlayOnward, PlayIs DEF Able
<1>3. CASE r # "awake"
  <2>1. p[1] = Play(h)
    BY <1>3 DEF Stepped
  <2> QED BY <1>1, <1>2, <1>3, <2>1 DEF Onward
<1>4. CASE r = "awake" /\ w.way = None
  <2>1. p[1] = h
    BY <1>4 DEF Stepped
  <2>2. w.mode \in {"fetching", "returning"} => ~Carried(w)
    BY <1>4 DEF Carried
  <2> QED BY <1>1, <2>1, <2>2 DEF Onward, Held
<1>5. CASE r = "awake" /\ w.way # None
  <2> DEFINE n == w.way - 1
             g == [w EXCEPT !.way = n]
  <2>1. w.way \in 0 .. MaxWay
    BY <1>1, <1>5 DEF PetWindow, Ways
  <2>2. w.way # 0 => Fine(g) /\ Fine(Play(g))
    <3> SUFFICES ASSUME w.way # 0 PROVE Fine(g) /\ Fine(Play(g))
      OBVIOUS
    <3>1. n \in 0 .. MaxWay
      BY <2>1, PetAssumption
    <3>2. n \in Ways /\ n # None
      BY <3>1, NoWayApart DEF Ways
    <3> HIDE DEF n
    <3>3. /\ g \in PetWindow /\ g.mode = w.mode /\ g.purpose = w.purpose /\ g.way = n
          /\ g.walk = w.walk /\ g.overlay = w.overlay /\ g.feed = w.feed /\ g.flight = w.flight
      BY <1>1, <3>2 DEF PetWindow
    <3> HIDE DEF g
    <3>4. Able(g)
      BY <1>5, <3>2, <3>3 DEF Able, Single, Purposeful
    <3>5. Carried(w) => Carried(g)
      BY <3>2, <3>3 DEF Carried
    <3>6. Held(w) => Carried(w)
      BY <1>5 DEF Held, Aground
    <3>7. Onward(w, g) /\ Onward(g, Play(g))
      BY <3>4, <3>5, <3>6, PlayOnward DEF Onward, Held
    <3> QED BY <3>4, <3>7 DEF Onward, Held
  <2>3. w.mode \notin {"fetching", "returning"} => Fine(Play(h))
    BY <1>1, <1>2 DEF Onward, Held
  <2>4. CASE w.purpose = "wander"
    <3>1. w.mode \notin {"fetching", "returning"}
      BY <2>4 DEF Able, Single
    <3>2. PICK v \in WanderStep(w) : p = <<v, FALSE>>
      BY <1>5, <2>4 DEF Stepped
    <3>3. v = Play(h) \/ (w.way # 0 /\ (v = g \/ v = Play(g)))
      BY <2>1 DEF WanderStep
    <3> QED BY <2>2, <2>3, <3>1, <3>2, <3>3
  <2>5. CASE w.purpose # "wander" /\ w.way = 0
    <3>1. CASE w.purpose = "fetch"
      <4>1. p \in Collected(h)
        BY <1>5, <2>5, <3>1 DEF Stepped
      <4>2. w.mode = "fetching"
        BY <3>1, <1>1 DEF Able, Single, PetWindow, Modes, LemonGame
      <4> QED BY <1>1, <4>1, <4>2, CollectedOnward
    <3>2. CASE w.purpose = "return"
      <4>1. p \in Finished(h)
        BY <1>5, <2>5, <3>2 DEF Stepped
      <4>2. w.mode = "returning"
        BY <3>2, <1>1 DEF Able, Single, PetWindow, Modes, LemonGame
      <4>3. p[1].mode = "idle" /\ Onward(h, p[1])
        BY <1>1, <4>1, <4>2, FinishedOnward
      <4> QED BY <4>2, <4>3 DEF Onward, Held, Carried
    <3>3. CASE w.purpose \notin {"fetch", "return"}
      <4>1. p = <<Play(h), FALSE>>
        BY <1>5, <2>5, <3>3 DEF Stepped
      <4>2. w.mode \notin {"fetching", "returning"}
        BY <1>5, <3>3 DEF Able, Single, Purposeful
      <4> QED BY <2>3, <4>1, <4>2
    <3> QED BY <3>1, <3>2, <3>3
  <2>6. CASE w.purpose # "wander" /\ w.way # 0
    <3>1. \/ p = <<g, FALSE>>
          \/ p = <<CancelFetch(h), FALSE>> /\ w.purpose \in {"fetch", "return"}
          \/ p = <<Play(h), FALSE>> /\ w.purpose \notin {"fetch", "return"}
      BY <1>5, <2>6 DEF Stepped
    <3>2. w.purpose \in {"fetch", "return"} => w.mode \in {"fetching", "returning"}
      BY <1>1 DEF Able, Single, PetWindow, Modes, LemonGame
    <3>3. w.purpose \notin {"fetch", "return"} => w.mode \notin {"fetching", "returning"}
      BY <1>5 DEF Able, Single, Purposeful
    <3>4. w.mode \in {"fetching", "returning"} => Fine(CancelFetch(h))
      <4>1. Onward(h, CancelFetch(h)) /\ CancelFetch(h).mode \in {"idle", "placing_bed", "feeding"}
            /\ CancelFetch(h).mode \in {h.mode, "idle"}
        BY <1>1, CancelFetchOnward
      <4> QED BY <1>1, <4>1 DEF Onward, Held, Carried
    <3>5. CASE p = <<g, FALSE>>
      BY <2>2, <2>6, <3>5
    <3>6. CASE p = <<CancelFetch(h), FALSE>> /\ w.purpose \in {"fetch", "return"}
      BY <3>2, <3>4, <3>6
    <3>7. CASE p = <<Play(h), FALSE>> /\ w.purpose \notin {"fetch", "return"}
      BY <2>3, <3>3, <3>7
    <3> QED BY <3>1, <3>5, <3>6, <3>7
  <2> QED BY <2>4, <2>5, <2>6
<1> QED BY <1>3, <1>4, <1>5

LEMMA MoveStepKeeps ==
    Fit /\ MoveStep =>
        /\ Able(win') /\ (Carried(win) => Held(win') \/ rest # "awake")
        /\ win.mode \notin {"fetching", "returning"} => Onward(win, win')
<1> SUFFICES ASSUME Fit, MoveStep, NEW p \in Stepped(win, rest), win' = p[1]
             PROVE  /\ Able(win') /\ (Carried(win) => Held(win') \/ rest # "awake")
                    /\ win.mode \notin {"fetching", "returning"} => Onward(win, win')
  BY DEF MoveStep
<1>1. win.walk /\ Able(win)
  BY DEF MoveStep, Fit
<1> QED BY <1>1, SteppedOnward

LEMMA AutonomousBehaviorKeeps == Fit /\ AutonomousBehavior => Onward(win, win')
<1> SUFFICES ASSUME Fit, AutonomousBehavior PROVE Onward(win, win')
  OBVIOUS
<1>1. Able(win) /\ win \in PetWindow /\ win.mode = "idle"
  BY DEF Fit, Able, AutonomousBehavior
<1>2. CASE win' = Play(win)
  BY <1>1, <1>2, PlayOnward
<1>3. CASE win' = win
  BY <1>1, <1>3 DEF Onward
<1>4. CASE StartWander
  <2>1. PICK d \in 1 .. MaxWay : win' = WalkOn(win, "wander", d)
    BY <1>4 DEF StartWander
  <2>2. d \in 0 .. MaxWay
    BY PetAssumption
  <2> QED BY <1>1, <2>1, <2>2, WalkOnAble DEF Onward
<1>5. CASE Expressive /\ Expression
  BY <1>5, ExpressionKeeps
<1> QED BY <1>2, <1>3, <1>4, <1>5 DEF AutonomousBehavior

LEMMA NextToEeveeOnward ==
    ASSUME NEW w, Able(w), w.mode = "idle", NEW v \in NextToEevee(w)
    PROVE  Onward(w, v)
<1>1. CASE v = w
  BY <1>1 DEF Onward
<1>2. ASSUME NEW d \in 1 .. MaxWay, v = WalkOn(w, "eevee", d) PROVE Onward(w, v)
  <2>1. d \in 0 .. MaxWay /\ w \in PetWindow
    BY PetAssumption DEF Able
  <2> QED BY <1>2, <2>1, WalkOnAble DEF Onward
<1> QED BY <1>1, <1>2 DEF NextToEevee

LEMMA EeveeIsGoneKeeps == Fit /\ EeveeIsGone => Onward(win, win')
<1> SUFFICES ASSUME Fit, EeveeIsGone PROVE Onward(win, win')
  OBVIOUS
<1> DEFINE Same(v) == /\ v \in PetWindow
                      /\ v.mode = win.mode /\ v.purpose = win.purpose /\ v.way = win.way
                      /\ v.walk = win.walk /\ v.overlay = win.overlay /\ v.feed = win.feed
                      /\ v.flight = win.flight /\ v.outside = win.outside
<1>1. Able(win) /\ 1 \in 0 .. 1
  BY DEF Fit
<1>2. Same([win EXCEPT !.missed = 1]) /\ Same([win EXCEPT !.eevee = FALSE, !.missed = 1, !.greet = FALSE])
  BY <1>1 DEF Able, PetWindow
<1>3. Same(win')
  BY <1>2 DEF EeveeIsGone
<1> QED BY <1>1, <1>3, AlikeOnward

LEMMA EeveeIsHereKeeps == Fit /\ EeveeIsHere => Onward(win, win')
<1> SUFFICES ASSUME Fit, EeveeIsHere PROVE Onward(win, win')
  OBVIOUS
<1> DEFINE w == [win EXCEPT !.eevee = TRUE, !.missed = 0]
           c == IF w.mode \in LemonGame THEN CancelFetch(w) ELSE w
           met(a) == IF rest = "asleep" \/ a.mode # "idle" THEN {a}
                     ELSE {IF b.walk THEN b ELSE Play(b) : b \in NextToEevee(a)}
           s == [w EXCEPT !.greet = FALSE]
<1>1. Able(win) /\ 0 \in 0 .. 1
  BY DEF Fit
<1>2. \/ win' = s
      \/ \E a \in Apart(c) : win' = Play(a)
      \/ \E a \in Apart(c) : \E b \in met(Play(a)) : win' = Schedule(b)
  BY DEF EeveeIsHere, Play
<1>3. /\ w \in PetWindow /\ w.mode = win.mode /\ w.purpose = win.purpose /\ w.way = win.way
      /\ w.walk = win.walk /\ w.overlay = win.overlay /\ w.feed = win.feed
      /\ w.flight = win.flight /\ w.outside = win.outside
  BY <1>1 DEF Able, PetWindow
<1> HIDE DEF w
<1>4. Onward(win, w) /\ Able(w)
  BY <1>1, <1>3, AlikeOnward DEF Onward
<1>5. Onward(w, s)
  <2>1. /\ s \in PetWindow /\ s.mode = w.mode /\ s.purpose = w.purpose /\ s.way = w.way
        /\ s.walk = w.walk /\ s.overlay = w.overlay /\ s.feed = w.feed /\ s.flight = w.flight
        /\ s.outside = w.outside
    BY <1>3 DEF PetWindow
  <2> HIDE DEF s
  <2> QED BY <1>4, <2>1, AlikeOnward
<1>6. Onward(w, c) /\ Able(c) /\ c.mode \notin {"fetching", "returning"}
  BY <1>4, CancelFetchOnward DEF Onward, LemonGame
<1> HIDE DEF s, c
<1>7. ASSUME NEW a \in Apart(c) PROVE Onward(c, Play(a)) /\ Able(Play(a))
  BY <1>6, ApartOnward, PlayOnward DEF Onward
<1>8. ASSUME NEW a, Able(a), NEW b \in met(a) PROVE Onward(a, Schedule(b))
  <2>1. CASE b = a
    BY <1>8, <2>1, ScheduleOnward
  <2>2. ASSUME a.mode = "idle", NEW d \in NextToEevee(a), b = IF d.walk THEN d ELSE Play(d)
        PROVE  Onward(a, Schedule(b))
    <3>1. Onward(a, d)
      BY <1>8, <2>2, NextToEeveeOnward
    <3>2. Onward(d, b)
      BY <2>2, <3>1, PlayOnward DEF Onward
    <3> QED BY <3>1, <3>2, ScheduleOnward DEF Onward
  <2> QED BY <1>8, <2>1, <2>2
<1> HIDE DEF met
<1> QED BY <1>2, <1>4, <1>5, <1>6, <1>7, <1>8 DEF Onward

LEMMA InteractWithEeveeKeeps == Fit /\ InteractWithEevee => Onward(win, win')
<1> SUFFICES ASSUME Fit, InteractWithEevee PROVE Onward(win, win')
  OBVIOUS
<1> DEFINE w == [win EXCEPT !.greet = FALSE]
<1>1. Able(win)
  BY DEF Fit
<1>2. \/ win' = w \/ win' = Schedule(w)
      \/ w.mode = "idle" /\ \E a \in Apart(w) : win' = Schedule(Play(a))
  BY DEF InteractWithEevee
<1>3. /\ w \in PetWindow /\ w.mode = win.mode /\ w.purpose = win.purpose /\ w.way = win.way
      /\ w.walk = win.walk /\ w.overlay = win.overlay /\ w.feed = win.feed
      /\ w.flight = win.flight /\ w.outside = win.outside
  BY <1>1 DEF Able, PetWindow
<1> HIDE DEF w
<1>4. Onward(win, w) /\ Able(w)
  BY <1>1, <1>3, AlikeOnward DEF Onward
<1>5. ASSUME w.mode = "idle", NEW a \in Apart(w) PROVE Onward(w, Schedule(Play(a)))
  BY <1>4, <1>5, ApartOnward, PlayOnward, ScheduleOnward DEF Onward
<1> QED BY <1>2, <1>4, <1>5, ScheduleOnward DEF Onward

-----------------------------------------------------------------------------
(* The steps that the code lets lose an errand.                            *)
Loses ==
    \/ win.mode = "feeding" /\ win'.away
    \/ Aground(win')
    \/ /\ win.mode \in {"fetching", "returning"}
       /\ MouseRelease \/ (MoveStep /\ rest # "awake")

LEMMA StepKeeps == Fit /\ [PetNext]_petVars => Able(win') /\ (Carried(win) /\ ~Carried(win') => Loses)
<1> DEFINE Good == Able(win') /\ (Carried(win) /\ ~Carried(win') => Loses)
<1> SUFFICES ASSUME Fit, [PetNext]_petVars PROVE Good
  OBVIOUS
<1>1. Able(win) /\ PetTypeOK
  BY DEF Fit
<1>2. Onward(win, win') => Good
  BY DEF Onward, Held, Loses
<1>3. CASE win' = win
  BY <1>1, <1>3
<1>4. ASSUME RequestFeed \/ RemoveBed \/ ToggleSleep \/ MouseMove \/ CallHome PROVE Good
  BY <1>2, <1>4, AsideKeeps
<1>5. ASSUME BeginFetchGame \/ BeginBedPlacement \/ PlayExpression \/ RecoverScreenLayout
             \/ PlaceBed \/ ThrowLemon \/ MousePress
      PROVE  Good
  BY <1>2, <1>5, BeginFetchGameKeeps, BeginBedPlacementKeeps, ExpressionKeeps,
     RecoverScreenLayoutKeeps, PlaceBedKeeps, ThrowLemonKeeps, MousePressKeeps DEF PlayExpression
<1>6. ASSUME CancelPlacement PROVE Good
  BY <1>1, <1>2, <1>6, CloseOverlayOnward DEF CancelPlacement
<1>7. ASSUME ScreenRecovery \/ Placed PROVE Good
  BY <1>2, <1>7, ScreenRecoveryKeeps, PlacedKeeps
<1>8. ASSUME MouseRelease PROVE Good
  BY <1>2, <1>8, MouseReleaseKeeps DEF Loses
<1>9. ASSUME MoveStep PROVE Good
  BY <1>2, <1>9, MoveStepKeeps DEF Held, Loses
<1>10. ASSUME PollEvents PROVE Good
  BY <1>1, <1>10, PollEventsKeeps DEF Held, Loses
<1>11. ASSUME FlightEnds \/ FeedTick \/ AutonomousBehavior \/ UpdateEeveePresence \/ InteractWithEevee
       PROVE  Good
  BY <1>2, <1>11, FlightEndsKeeps, FeedTickKeeps, AutonomousBehaviorKeeps, EeveeIsGoneKeeps,
     EeveeIsHereKeeps, InteractWithEeveeKeeps DEF UpdateEeveePresence
<1>12. ASSUME RemoteInteract \/ ChatEvent \/ Advance \/ Trip PROVE win' = win
  BY <1>12 DEF RemoteInteract, ChatEvent, Advance, Trip
<1>13. UNCHANGED petVars => win' = win
  BY DEF petVars
<1> HIDE DEF Good
<1> QED BY <1>3, <1>4, <1>5, <1>6, <1>7, <1>8, <1>9, <1>10, <1>11, <1>12, <1>13 DEF PetNext, Owned

LEMMA InteractTypes ==
    ASSUME PetTypeOK, NEW kind \in Kinds, Interact(kind)
    PROVE  rest' \in Rests /\ events' \in Seq(Events) /\ Len(events') <= MaxEvents
<1>1. rest' \in Rests
  BY DEF PetTypeOK, Interact, Rested, Rests
<1>2. /\ events \in Seq(Events) /\ kind \in Events /\ Len(events) \in Nat
      /\ events' = Append(events, kind) /\ Len(events) < MaxEvents
  BY DEF PetTypeOK, Interact, Events
<1>3. events' \in Seq(Events) /\ Len(events') = Len(events) + 1
  BY <1>2
<1> QED BY <1>1, <1>2, <1>3, PetAssumption

(* The rest, the queue and the bound of the inputs.                        *)
Aside == /\ rest' \in Rests /\ events' \in Seq(Events) /\ Len(events') <= MaxEvents
         /\ home' \in BOOLEAN /\ moves' \in 0 .. MaxMoves

LEMMA StepTypes == Fit /\ [PetNext]_petVars => Aside
<1> SUFFICES ASSUME Fit, [PetNext]_petVars PROVE Aside
  OBVIOUS
<1>1. PetTypeOK
  BY DEF Fit
<1> DEFINE RestSame == UNCHANGED <<rest, events>>
           Heard == \E kind \in Kinds : Interact(kind)
           Counted == Input \/ UNCHANGED moves
<1>2. ASSUME RestSame \/ Heard \/ (rest' = rest /\ events' = <<>>)
      PROVE  rest' \in Rests /\ events' \in Seq(Events) /\ Len(events') <= MaxEvents
  <2>1. CASE rest' = rest /\ events' = <<>>
    <3>1. <<>> \in Seq(Events) /\ Len(<<>>) = 0 /\ 0 <= MaxEvents
      BY PetAssumption
    <3> QED BY <1>1, <2>1, <3>1 DEF PetTypeOK
  <2>2. CASE Heard
    BY <1>1, <2>2, InteractTypes
  <2> QED BY <1>1, <1>2, <2>1, <2>2 DEF PetTypeOK
<1>3. Counted => moves' \in 0 .. MaxMoves
  BY <1>1, PetAssumption DEF Input, PetTypeOK
<1>4. ASSUME NEW ks \in SUBSET Kinds, InteractOr(ks) PROVE RestSame \/ Heard
  BY <1>4 DEF InteractOr
<1>5. \A k \in Kinds : {k} \in SUBSET Kinds
  OBVIOUS
<1>6. /\ {} \in SUBSET Kinds /\ {"resume"} \in SUBSET Kinds /\ {"wake"} \in SUBSET Kinds
      /\ {"sleep"} \in SUBSET Kinds /\ {"play"} \in SUBSET Kinds
      /\ "feed" \in Kinds /\ "wake" \in Kinds /\ "sleep" \in Kinds /\ "pet" \in Kinds
  BY DEF Kinds
<1> DEFINE Fine == (RestSame \/ Heard \/ (rest' = rest /\ events' = <<>>)) /\ Counted /\ home' \in BOOLEAN
<1>7. home \in BOOLEAN /\ TRUE \in BOOLEAN /\ (~home) \in BOOLEAN
  BY <1>1 DEF PetTypeOK
<1>8. Fine => Aside
  BY <1>2, <1>3 DEF Aside
<1>9. RequestFeed \/ ToggleSleep \/ RemoteInteract => Fine
  BY <1>6, <1>7 DEF RequestFeed, ToggleSleep, RemoteInteract
<1>10. BeginFetchGame \/ RemoveBed \/ MousePress => Fine
  BY <1>4, <1>6, <1>7 DEF BeginFetchGame, RemoveBed, MousePress
<1>11. FlightEnds \/ MoveStep => Fine
  BY <1>4, <1>6, <1>7 DEF FlightEnds, MoveStep
<1>12. MouseMove \/ MouseRelease \/ AutonomousBehavior => Fine
  BY <1>4, <1>6, <1>7 DEF MouseMove, MouseRelease, AutonomousBehavior
<1>13. \/ BeginBedPlacement \/ PlayExpression \/ ScreenRecovery \/ Placed \/ RecoverScreenLayout
       \/ PlaceBed \/ ThrowLemon \/ CancelPlacement \/ FeedTick \/ UpdateEeveePresence
       \/ InteractWithEevee
       => Fine
  BY <1>7 DEF BeginBedPlacement, PlayExpression, ScreenRecovery, Placed, RecoverScreenLayout,
     PlaceBed, ThrowLemon, CancelPlacement, FeedTick, UpdateEeveePresence, InteractWithEevee
<1>14. CallHome \/ Trip \/ PollEvents => Fine
  BY <1>7 DEF CallHome, Trip, PollEvents
<1>15. Advance => Aside
  BY <1>1, <1>3, <1>7 DEF Advance, Aside, Rests, PetTypeOK
<1>16. ChatEvent => Aside
  <2> SUFFICES ASSUME ChatEvent PROVE Aside
    OBVIOUS
  <2>1. PICK e \in Events : events' = Append(events, e)
    BY DEF ChatEvent
  <2>2. events' \in Seq(Events) /\ Len(events') = Len(events) + 1 /\ Len(events) \in Nat
    BY <1>1, <2>1 DEF PetTypeOK
  <2> QED BY <1>1, <1>3, <1>7, <2>2, PetAssumption DEF ChatEvent, Aside, PetTypeOK
<1>17. UNCHANGED petVars => Fine
  BY <1>7 DEF petVars
<1> HIDE DEF Fine
<1> QED BY <1>8, <1>9, <1>10, <1>11, <1>12, <1>13, <1>14, <1>15, <1>16, <1>17 DEF PetNext, Owned

(* The invariant of the pet: its types, one errand at a time, and a        *)
(* purpose for every walk.                                                 *)
THEOREM FitInvariant == PetSpec => []Fit
<1>1. PetInit => Fit
  <2> SUFFICES ASSUME PetInit PROVE Fit
    OBVIOUS
  <2>1. /\ 0 \in 0 .. MaxMoves /\ <<>> \in Seq(Events) /\ Len(<<>>) = 0 /\ 0 <= MaxEvents
        /\ None \in Ways /\ 0 \in 0 .. 3 /\ 0 \in 0 .. 1
    BY PetAssumption DEF Ways
  <2>2. PICK b \in BOOLEAN : win = [mode |-> "idle", purpose |-> "idle", way |-> None, walk |-> FALSE,
               overlay |-> "", flight |-> FALSE, lemon |-> FALSE,
               berry |-> FALSE, stage |-> 0, feed |-> FALSE,
               bed |-> b, onBed |-> b /\ rest = "asleep", away |-> FALSE,
               button |-> FALSE, drag |-> FALSE, moved |-> "no",
               eevee |-> FALSE, missed |-> 0, greet |-> FALSE,
               outside |-> FALSE]
    BY DEF PetInit
  <2>3. (b /\ rest = "asleep") \in BOOLEAN /\ "idle" \in Modes
    BY DEF Modes
  <2>4. win \in PetWindow
    BY <2>1, <2>2, <2>3 DEF PetWindow
  <2>5. Able(win)
    BY <2>2, <2>4 DEF Able, Single, Purposeful
  <2> QED BY <2>1, <2>4, <2>5 DEF PetInit, Fit, PetTypeOK
<1>2. Fit /\ [PetNext]_petVars => Fit'
  BY StepKeeps, StepTypes DEF Fit, PetTypeOK, Aside, Able
<1> QED BY <1>1, <1>2, PTL DEF PetSpec

(* The variables of the pet keep their types.                              *)
THEOREM PetTypeCorrect == PetSpec => []PetTypeOK
<1>1. Fit => PetTypeOK
  BY DEF Fit
<1> QED BY <1>1, FitInvariant, PTL

(* Meals, the lemon game and walks of the pet's own do not mix (ui.py):    *)
(* whatever the queue, the timers and Eevee bring, in whatever order.      *)
THEOREM OneErrandHolds == PetSpec => []OneErrand
<1>1. Fit => OneErrand
  BY DEF Fit, Able, OneErrand
<1> QED BY <1>1, FitInvariant, PTL

(* A task loses what carries it on in the four cases of KeepsGoing only.   *)
THEOREM KeepsGoingHolds == PetSpec => KeepsGoing
<1>1. Fit /\ [PetNext]_petVars
      => [Carried(win) /\ ~Carried(win')
            => \/ win.mode = "feeding" /\ win'.away
               \/ Aground(win')
               \/ /\ win.mode \in {"fetching", "returning"}
                  /\ MouseRelease \/ (MoveStep /\ rest # "awake")]_petVars
  BY StepKeeps DEF Loses
<1> QED BY <1>1, FitInvariant, PTL DEF PetSpec, KeepsGoing
=============================================================================
