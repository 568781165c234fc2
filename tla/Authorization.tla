---------------------------- MODULE Authorization -----------------------------
(***************************************************************************)
(* The authorization of sensitive actions: LocalAuthorizationManager       *)
(* (auth.py) with the entry points of CompanionService that use it.        *)
(* Threads answer challenges while others are issued, cancelled and the    *)
(* password is changed; a save may fail; the process may end, and the file *)
(* be damaged.                                                             *)
(*                                                                         *)
(* The manager's lock makes each of its methods one step; authorize_action *)
(* takes it twice.  Time passes in equal units.  A moment is kept as its   *)
(* age, up to the limit it is compared with: a failure window or a lockout *)
(* that is over, and one that never began, are the same to the code.       *)
(***************************************************************************)
EXTENDS Naturals, Sequences, FiniteSets

CONSTANTS
    Passwords, NoPassword,
    Threads, Idle,      \* threads that call authorize_action
    MaxChallenges,      \* bound: challenges issued in one behaviour
    MaxPending,         \* MAX_PENDING_CHALLENGES, 32
    Lifetime,           \* challenge_ttl_seconds, 90 s
    Failures,           \* RATE_LIMIT_FAILURES, 5
    Window,             \* RATE_LIMIT_WINDOW_SECONDS, 60 s; also the remote minute
    MaxRemote,          \* remote requests in a minute, 3
    MaxFaults           \* bound: failed saves, ends and damages together

ASSUME AuthorizationAssumption ==
    /\ NoPassword \notin Passwords
    /\ MaxChallenges \in Nat /\ MaxPending \in Nat /\ MaxRemote \in Nat /\ MaxFaults \in Nat
    /\ Lifetime \in Nat \ {0} /\ Window \in Nat \ {0} /\ Failures \in Nat \ {0, 1}

Challenges == 1 .. MaxChallenges

(* _VerifierRecord: the password whose verifier it holds, the failures of  *)
(* the window, the ages of the window and of the lockout.                  *)
Records == [secret : Passwords, failures : 0 .. Failures,
            window : 0 .. Window, lock : 0 .. Window]
New(p) == [secret |-> p, failures |-> 0, window |-> Window, lock |-> Window]

NoRecord == [secret |-> NoPassword]
Damaged == [secret |-> NoPassword, damaged |-> TRUE]

Questions == [challenge : Challenges, guess : Passwords]
Latest == 2 * Failures - 1      \* wrong guesses the history remembers

VARIABLES
    record,     \* _record; Damaged stands for a _storage_error
    disk,       \* authorization.json
    issued,     \* challenges ever issued
    open,       \* _challenges, with their ages
    remote,     \* ages of the remote requests of the last minute
    asked,      \* of each thread: the question it has looked up
    faults,
    granted,    \* history: the grants
    guesses     \* history: ages of the latest wrong guesses, newest first

manager == <<record, disk>>
history == <<granted, guesses>>
vars == <<manager, issued, open, remote, asked, faults, history>>

TypeOK ==
    /\ record \in Records \cup {NoRecord, Damaged}
    /\ disk \in Records \cup {NoRecord, Damaged}
    /\ issued \in 0 .. MaxChallenges
    /\ DOMAIN open \subseteq 1 .. issued
    /\ open \in [DOMAIN open -> 0 .. Lifetime]
    /\ remote \in [1 .. MaxRemote -> 0 .. Window]
    /\ asked \in [Threads -> Questions \cup {Idle}]
    /\ faults \in 0 .. MaxFaults
    /\ granted \subseteq Questions
    /\ guesses \in Seq(0 .. Window) /\ Len(guesses) <= Latest

Nothing == [c \in {} |-> 0]
Without(f, S) == [c \in DOMAIN f \ S |-> f[c]]
Fault == faults < MaxFaults /\ faults' = faults + 1

Init ==
    /\ record = NoRecord /\ disk = NoRecord
    /\ issued = 0 /\ open = Nothing
    /\ remote = [s \in 1 .. MaxRemote |-> Window]
    /\ asked = [t \in Threads |-> Idle]
    /\ faults = 0
    /\ granted = {} /\ guesses = <<>>

-----------------------------------------------------------------------------
(* _save_record_unlocked replaces the file as a whole, or raises.          *)
Save(r, saved) ==
    IF saved THEN disk' = r /\ UNCHANGED faults ELSE Fault /\ UNCHANGED disk

Configured == record \in Records

Expired == {c \in DOMAIN open : open[c] >= Lifetime}
Pruned == Without(open, Expired)

(* Mutant: a window that is over takes a lockout that began in it along.   *)
RefreshedEarly(r) == IF r.window < Window THEN r ELSE New(r.secret)

(* _refresh_rate_window_unlocked                                           *)
Refreshed(r) ==
    IF r.lock < Window \/ r.window < Window THEN r ELSE [r EXCEPT !.failures = 0]

Locked(r) == r.lock < Window

(* _record_failure_unlocked                                                *)
Failed(r) ==
    LET counted == [r EXCEPT !.failures = @ + 1,
                             !.window = IF @ = Window THEN 0 ELSE @]
    IN  IF counted.failures >= Failures THEN [counted EXCEPT !.lock = 0] ELSE counted

Remembered(s) == SubSeq(s, 1, IF Len(s) < Latest THEN Len(s) ELSE Latest)

(* _verify_password_unlocked when nothing is locked: a wrong password is   *)
(* counted and saved; a right one ends the window, which is saved too.     *)
Compare(guess, saved) ==
    LET r == Refreshed(record) IN
    IF guess # r.secret
    THEN /\ record' = Failed(r)
         /\ Save(record', saved)
         /\ guesses' = Remembered(<<0>> \o guesses)
    ELSE /\ record' = IF r.window < Window THEN New(r.secret) ELSE r
         /\ IF r.window < Window THEN Save(record', saved) ELSE saved /\ UNCHANGED <<disk, faults>>
         /\ guesses' = <<>>

(* Nothing was raised: the caller goes on.                                 *)
Passed(guess, saved) == guess = record.secret /\ saved

-----------------------------------------------------------------------------
(* execute_action of a sensitive action: _request_authorization, for the   *)
(* API with its limit of requests a minute, and issue_challenge.           *)
Issue ==
    IF record # Damaged
    THEN /\ IF Cardinality(DOMAIN Pruned) < MaxPending
            THEN /\ issued < MaxChallenges
                 /\ issued' = issued + 1
                 /\ open' = [c \in DOMAIN Pruned \cup {issued'} |->
                                IF c = issued' THEN 0 ELSE open[c]]
            ELSE open' = Pruned /\ UNCHANGED issued
    ELSE UNCHANGED <<issued, open>>

RequestHere ==
    /\ Issue
    /\ UNCHANGED <<manager, remote, asked, faults, history>>

RequestRemotely ==
    /\ \E s \in 1 .. MaxRemote :
          /\ remote[s] = Window
          /\ remote' = [remote EXCEPT ![s] = 0]
    /\ Issue
    /\ UNCHANGED <<manager, asked, faults, history>>

(* authorize_action looks the challenge up, for the texts of its answer...  *)
Look(t, c, guess) ==
    /\ asked[t] = Idle
    /\ asked' = [asked EXCEPT ![t] = [challenge |-> c, guess |-> guess]]
    /\ open' = Pruned
    /\ UNCHANGED <<manager, issued, remote, faults, history>>

(* ...and authorize_and_consume answers it.                                *)
Unanswerable(c) == record \notin Records \/ c \notin DOMAIN open

Refuse(t, c) ==
    /\ \/ Unanswerable(c) /\ UNCHANGED open
       \/ ~Unanswerable(c) /\ open[c] >= Lifetime /\ open' = Without(open, {c})
       \/ ~Unanswerable(c) /\ open[c] < Lifetime /\ Locked(Refreshed(record)) /\ UNCHANGED open
    /\ UNCHANGED <<manager, faults, history>>

Consume(c, guess, saved) ==
    open' = IF Passed(guess, saved) THEN Without(open, {c}) ELSE open

Grant(c, guess, saved) ==
    /\ ~Unanswerable(c) /\ open[c] < Lifetime /\ ~Locked(Refreshed(record))
    /\ Compare(guess, saved)
    /\ Consume(c, guess, saved)
    /\ granted' = IF Passed(guess, saved)
                  THEN granted \cup {[challenge |-> c, guess |-> guess]} ELSE granted

Answer(t, saved) ==
    /\ asked[t] # Idle
    /\ LET c == asked[t].challenge IN
          \/ saved /\ Refuse(t, c)
          \/ Grant(c, asked[t].guess, saved)
    /\ asked' = [asked EXCEPT ![t] = Idle]
    /\ UNCHANGED <<issued, remote>>

Cancel(c) ==
    /\ c \in DOMAIN open
    /\ open' = Without(open, {c})
    /\ UNCHANGED <<manager, issued, remote, asked, faults, history>>

(* Mutant: a new password that was not saved stays.                        *)
KeptUnsaved(p, old, saved) == New(p)

(* The record after a new password: a failed save brings the old one back. *)
Kept(p, old, saved) == IF saved THEN New(p) ELSE old

(* configure: the first password, from either dialog of the desktop.       *)
Configure(p, saved) ==
    /\ record = NoRecord
    /\ Save(New(p), saved)
    /\ record' = Kept(p, NoRecord, saved)
    /\ UNCHANGED <<issued, open, remote, asked, history>>

(* Mutant: a change leaves the challenges.                                 *)
RevokedNever == open

Revoked == Nothing

(* change_password: a wrong current one is a guess like any other.  After  *)
(* a right one the challenges are gone, whether the save succeeds or not.  *)
(* When ending the failure window cannot be saved, nothing else is done.   *)
ChangePassword(guess, p, saved, savedNew) ==
    /\ Configured /\ ~Locked(Refreshed(record))
    /\ IF Passed(guess, saved)
       THEN LET r == Refreshed(record)
                verified == IF r.window < Window THEN New(r.secret) ELSE r
            IN  /\ record' = Kept(p, verified, savedNew)
                /\ disk' = IF savedNew THEN New(p) ELSE IF r.window < Window THEN verified ELSE disk
                /\ IF savedNew THEN UNCHANGED faults ELSE Fault
                /\ open' = Revoked
                /\ guesses' = <<>>
       ELSE savedNew /\ Compare(guess, saved) /\ UNCHANGED open
    /\ UNCHANGED <<issued, remote, asked, granted>>

-----------------------------------------------------------------------------
Older(age, limit) == IF age < limit THEN age + 1 ELSE age
OlderRecord(r) ==
    IF r \in Records
    THEN [r EXCEPT !.window = Older(@, Window), !.lock = Older(@, Window)] ELSE r

Tick ==
    /\ record' = OlderRecord(record) /\ disk' = OlderRecord(disk)
    /\ open' = [c \in DOMAIN open |-> Older(open[c], Lifetime)]
    /\ remote' = [s \in 1 .. MaxRemote |-> Older(remote[s], Window)]
    /\ guesses' = [i \in 1 .. Len(guesses) |-> Older(guesses[i], Window)]
    /\ UNCHANGED <<issued, asked, faults, granted>>

(* The process ends, with what only it knew, and is started again.  The    *)
(* failures that a failed save kept from the file are forgotten with it.   *)
Restart ==
    /\ Fault
    /\ record' = disk
    /\ open' = Nothing
    /\ remote' = [s \in 1 .. MaxRemote |-> Window]
    /\ asked' = [t \in Threads |-> Idle]
    /\ guesses' = IF disk = record THEN guesses ELSE <<>>
    /\ UNCHANGED <<disk, issued, granted>>

Damage ==
    /\ Fault
    /\ disk \in Records /\ disk' = Damaged
    /\ UNCHANGED <<record, issued, open, remote, asked, history>>

Next ==
    \/ RequestHere \/ RequestRemotely
    \/ \E t \in Threads, c \in 1 .. issued, guess \in Passwords : Look(t, c, guess)
    \/ \E t \in Threads, saved \in BOOLEAN : Answer(t, saved)
    \/ \E c \in Challenges : Cancel(c)
    \/ \E p \in Passwords, saved \in BOOLEAN : Configure(p, saved)
    \/ \E guess, p \in Passwords, saved, savedNew \in BOOLEAN :
          ChangePassword(guess, p, saved, savedNew)
    \/ Tick \/ Restart \/ Damage

Spec == Init /\ [][Next]_vars

-----------------------------------------------------------------------------
(* Within one window's time the manager compares at most 2 * Failures - 2  *)
(* wrong passwords, over restarts too, unless a right one came in between  *)
(* or a failed save lost the count: the windows are fixed, so two of them  *)
(* may meet, but a lockout lasts a whole window.                           *)
GuessesBounded == Len(guesses) = Latest => guesses[Latest] = Window

(* While it runs, the manager knows the password that is in the file: a    *)
(* save that failed has not changed the one without the other.             *)
PasswordIsSaved == disk # Damaged => disk.secret = record.secret

(* The promise: Grants, with the ages and grants of the manager.           *)
Promise == INSTANCE Grants WITH secret <- record.secret, issued <- 1 .. issued
OneUse == Promise!Spec
=============================================================================
