---------------------------- MODULE GameStreaming ----------------------------
(***************************************************************************)
(* Sunshine for the phone: game_streaming.py. Each request of the phone is *)
(* a thread of its own; pair() keeps the lock from its attempt to its end, *)
(* prepare() takes it only to create the credentials. Sunshine is external:*)
(* it has the account it was given first, and may lose an answer.          *)
(***************************************************************************)
EXTENDS Naturals, Sequences, FiniteSets

CONSTANTS
    Calls,          \* requests that may be under way at a time
    Limit,          \* PAIR_ATTEMPT_LIMIT
    Window,         \* PAIR_ATTEMPT_WINDOW_SECONDS, in ticks
    MaxTime,        \* ticks of the clock
    MaxFaults,      \* answers that get lost, saves that fail
    None

StreamingAssumption ==
    /\ {Limit, Window} \subseteq Nat \ {0} /\ {MaxTime, MaxFaults} \subseteq Nat
    /\ None \notin Calls

LOCAL INSTANCE SequencesExt

VARIABLES
    stored,     \* sunshine_credentials(): whose account Arfoxia keeps
    account,    \* the account of Sunshine, which SUNSHINE_STATE_FILE tells of
    running,    \* its service
    call,       \* what each request does, and at which step it is
    holder,     \* who has the lock
    attempts,   \* _pair_attempts
    now, faults

vars == <<stored, account, running, call, holder, attempts, now, faults>>

Accounts == {"arfoxia", "owner", None}
Idle == [does |-> "nothing", step |-> "end"]

TypeOK ==
    /\ stored \in {"arfoxia", None} /\ account \in Accounts /\ running \in BOOLEAN
    /\ call \in [Calls -> [does : {"nothing", "prepare", "pair", "remote"},
                           step : {"lock", "service", "credentials", "post", "status",
                                   "pin", "end"}]]
    /\ holder \in Calls \cup {None}
    /\ attempts \in Seq(0 .. MaxTime)
    /\ now \in 0 .. MaxTime /\ faults \in 0 .. MaxFaults

Init ==
    /\ stored = None /\ account \in {None, "owner"} /\ running \in BOOLEAN
    /\ call = [c \in Calls |-> Idle] /\ holder = None
    /\ attempts = <<>> /\ now = 0 /\ faults = 0

-----------------------------------------------------------------------------
At(c, step) == call[c].step = step /\ call[c] # Idle
Goes(c, step) == call' = [call EXCEPT ![c].step = step]
Ends(c) ==
    /\ call' = [call EXCEPT ![c] = Idle]
    /\ holder' = IF holder = c THEN None ELSE holder
Fault == faults < MaxFaults /\ faults' = faults + 1

Ask(c, does) ==
    /\ call[c] = Idle
    /\ call' = [call EXCEPT ![c] = [does |-> does,
                     step |-> IF does = "prepare" THEN "service" ELSE "lock"]]
    /\ UNCHANGED <<stored, account, running, holder, attempts, now, faults>>

(* _record_pair_attempt, in a sliding window.                              *)
Recent == SelectSeq(attempts, LAMBDA t : t + Window > now)

Lock(c) ==
    /\ At(c, "lock") /\ holder = None
    /\ IF Len(Recent) < Limit
       THEN /\ attempts' = Append(Recent, now) /\ holder' = c
            /\ Goes(c, IF call[c].does = "remote" THEN "pin" ELSE "service")
       ELSE attempts' = Recent /\ Ends(c)
    /\ UNCHANGED <<stored, account, running, now, faults>>

(* The service, if it runs or can be started.                              *)
Started == running' = TRUE

(* prepare(): the service is started when it does not run.                 *)
Service(c) ==
    /\ At(c, "service")
    /\ \/ Started /\ Goes(c, "credentials") /\ UNCHANGED holder
       \/ ~running /\ UNCHANGED running /\ Ends(c)
    /\ UNCHANGED <<stored, account, attempts, now, faults>>

(* Mutant: the credentials are kept when Sunshine has answered.            *)
KeptLater == None

(* _create_sunshine_credentials: what is kept before Sunshine is told.     *)
KeptFirst == "arfoxia"

Credentials(c) ==
    /\ At(c, "credentials") /\ holder \in {None, c}
    /\ \/ /\ stored = None /\ account = None
          /\ stored' = KeptFirst /\ holder' = c /\ Goes(c, "post") /\ UNCHANGED faults
       \/ /\ stored = None /\ account = None /\ Fault
          /\ Ends(c) /\ UNCHANGED stored
       \/ /\ stored # None \/ account # None
          /\ Goes(c, "status") /\ UNCHANGED <<stored, holder, faults>>
    /\ UNCHANGED <<account, running, attempts, now>>

Release(c) == holder' = IF call[c].does = "prepare" THEN None ELSE holder

(* Sunshine takes the account when it has none; the answer, or what was    *)
(* asked, may be lost.                                                     *)
Post(c) ==
    /\ At(c, "post")
    /\ \/ /\ account = None /\ running /\ account' = "arfoxia"
          /\ stored' = "arfoxia" /\ Goes(c, "status") /\ Release(c) /\ UNCHANGED faults
       \/ /\ account = None /\ running /\ account' \in {None, "arfoxia"}
          /\ Fault /\ Ends(c) /\ UNCHANGED stored
       \/ /\ account # None \/ ~running
          /\ Ends(c) /\ UNCHANGED <<stored, account, faults>>
    /\ UNCHANGED <<running, attempts, now>>

(* _sunshine_client_status: Sunshine takes the credentials that are kept.  *)
Verified == stored # None /\ stored = account

(* status(): pin_submission_available.                                     *)
Sendable == running /\ Verified

(* prepare() ends; pair() goes on when a PIN can be sent.                  *)
Status(c) ==
    /\ At(c, "status")
    /\ IF call[c].does = "pair" /\ Sendable
       THEN Goes(c, "pin") /\ UNCHANGED holder
       ELSE Ends(c)
    /\ UNCHANGED <<stored, account, running, attempts, now, faults>>

(* The PIN of the phone is sent, here or to the console over ssh.          *)
Pin(c) ==
    /\ At(c, "pin") /\ call[c].does = "pair" /\ Ends(c)
    /\ UNCHANGED <<stored, account, running, attempts, now, faults>>

RemotePin(c) ==
    /\ At(c, "pin") /\ call[c].does = "remote" /\ Ends(c)
    /\ UNCHANGED <<stored, account, running, attempts, now, faults>>

-----------------------------------------------------------------------------
(* The owner at the panel of Sunshine, the service, and the clock.         *)
OwnerCreates ==
    /\ account = None /\ running /\ account' = "owner"
    /\ UNCHANGED <<stored, running, call, holder, attempts, now, faults>>

ServiceStops ==
    /\ running /\ Fault /\ running' = FALSE
    /\ UNCHANGED <<stored, account, call, holder, attempts, now>>

Tick ==
    /\ now < MaxTime /\ now' = now + 1
    /\ UNCHANGED <<stored, account, running, call, holder, attempts, faults>>

Next ==
    \/ \E c \in Calls :
          \/ \E does \in {"prepare", "pair", "remote"} : Ask(c, does)
          \/ Lock(c) \/ Service(c) \/ Credentials(c) \/ Post(c) \/ Status(c)
          \/ Pin(c) \/ RemotePin(c)
    \/ OwnerCreates \/ ServiceStops \/ Tick

Spec == Init /\ [][Next]_vars

-----------------------------------------------------------------------------
(* Once Sunshine has the account that Arfoxia made up, Arfoxia keeps it:   *)
(* nobody else could ever read it, however the answers get lost and however*)
(* many requests prepare at once.                                          *)
KeepsTheKey == account = "arfoxia" => stored = "arfoxia"
=============================================================================
