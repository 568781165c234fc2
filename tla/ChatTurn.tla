------------------------------ MODULE ChatTurn -------------------------------
(***************************************************************************)
(* The turns of one conversation: CompanionService.chat and _chat_locked   *)
(* (services.py) with the message table of database.py.  An attempt is one *)
(* arrival of a message with its client_message_id, by POST /api/chat or   *)
(* from a work task; clients send again when an answer is lost, when the   *)
(* process died or on an error.  One turn lock serialises attempts and     *)
(* the deletion of the conversation.                                       *)
(*                                                                         *)
(* What is said is left out; what is kept is when a message, its files,    *)
(* its reply and the execution of tools become visible.                    *)
(***************************************************************************)
EXTENDS Naturals, FiniteSets

CONSTANTS
    Messages,       \* client_message_id values
    WithFiles,      \* those sent with attachments
    NoMessage,
    MaxAttempts,    \* bound: arrivals in one behaviour
    MaxTools,       \* bound: tools of one message over its attempts
    MaxCrashes      \* bound: ends of the process

Attempts == 1 .. MaxAttempts
Free == 0

ASSUME ChatTurnAssumption ==
    /\ NoMessage \notin Messages
    /\ WithFiles \subseteq Messages
    /\ MaxAttempts \in Nat /\ MaxTools \in Nat /\ MaxCrashes \in Nat

(* An attempt waits for the lock; starts; archives files; asks the model;  *)
(* executes the first calls ("tools"), whose request for a password is     *)
(* answered apart ("unnamed"); asks again; executes further calls; stores  *)
(* its reply.                                                              *)
Working == {"archive", "model", "tools", "followup", "more", "report", "unnamed"}
Inside == {"start"} \cup Working
Stages == {"idle", "waiting", "done"} \cup Inside

VARIABLES
    exists,         \* the conversation is in the database
    users,          \* messages stored with role user
    archived,       \* messages whose files are archived and bound
    replied,        \* messages with a reply under _reply_client_message_id
    answers,        \* assistant messages stored for each message
    turn,           \* _turn_lock: the attempt inside, or Free
    stage, message, \* of each attempt
    up, crashes,
    ran,            \* history: tools executed for each message
    asked           \* history: messages for which a password was asked

database == <<exists, users, archived, replied, answers>>
attempts == <<stage, message>>
history == <<ran, asked>>
vars == <<database, turn, attempts, up, crashes, history>>

TypeOK ==
    /\ exists \in BOOLEAN
    /\ users \subseteq Messages
    /\ archived \subseteq users
    /\ replied \subseteq users
    /\ answers \in [Messages -> Nat]
    /\ turn \in Attempts \cup {Free}
    /\ stage \in [Attempts -> Stages]
    /\ message \in [Attempts -> Messages \cup {NoMessage}]
    /\ \A a \in Attempts : message[a] = NoMessage <=> stage[a] = "idle"
    /\ up \in BOOLEAN
    /\ crashes \in 0 .. MaxCrashes
    /\ ran \in [Messages -> 0 .. MaxTools]
    /\ asked \subseteq Messages

Init ==
    /\ exists = TRUE
    /\ users = {} /\ archived = {} /\ replied = {}
    /\ answers = [m \in Messages |-> 0]
    /\ turn = Free
    /\ stage = [a \in Attempts |-> "idle"]
    /\ message = [a \in Attempts |-> NoMessage]
    /\ up = TRUE /\ crashes = 0
    /\ ran = [m \in Messages |-> 0]
    /\ asked = {}

-----------------------------------------------------------------------------
(* A message arrives, for the first time or again.                         *)
Arrive(a, m) ==
    /\ up /\ stage[a] = "idle"
    /\ \A b \in Attempts : b < a => stage[b] # "idle"
    /\ stage' = [stage EXCEPT ![a] = "waiting"]
    /\ message' = [message EXCEPT ![a] = m]
    /\ UNCHANGED <<database, turn, up, crashes, history>>

LockFree(a) == turn = Free

(* _acquire_turn_lock polls every 50 ms.                                   *)
Acquire(a) ==
    /\ stage[a] = "waiting" /\ LockFree(a)
    /\ turn' = a
    /\ stage' = [stage EXCEPT ![a] = "start"]
    /\ UNCHANGED <<database, message, up, crashes, history>>

(* Mutant: an exception leaves the lock taken.                             *)
LeaveLocked(a) == stage' = [stage EXCEPT ![a] = "done"] /\ UNCHANGED turn

(* The turn is over, with a response or an exception: finally releases.    *)
Leave(a) == stage' = [stage EXCEPT ![a] = "done"] /\ turn' = Free
Go(a, next) == stage' = [stage EXCEPT ![a] = next] /\ UNCHANGED turn

Cached(m) == m \in users /\ m \in replied

(* add_message: a message whose id is stored already is not stored again.  *)
Stored(m) == users \cup {m}

(* The head of _chat_locked: an unknown conversation is an error, a stored *)
(* reply is the answer, a stored question is run again without files, and  *)
(* a new message is stored.                                                *)
Start(a) ==
    LET m == message[a] IN
    /\ stage[a] = "start"
    /\ IF ~exists \/ Cached(m)
       THEN Leave(a) /\ UNCHANGED users
       ELSE /\ users' = Stored(m)
            /\ Go(a, IF m \in WithFiles /\ m \notin users THEN "archive" ELSE "model")
    /\ UNCHANGED <<exists, archived, replied, answers, message, up, crashes, history>>

ArchivedAfter(m, stored) == IF stored THEN archived \cup {m} ELSE archived

(* chat_storage.archive; a quota or disk error takes the question back.    *)
Archive(a, stored) ==
    LET m == message[a] IN
    /\ stage[a] = "archive"
    /\ archived' = ArchivedAfter(m, stored)
    /\ IF stored
       THEN Go(a, "model") /\ UNCHANGED users
       ELSE Leave(a) /\ users' = users \ {m}
    /\ UNCHANGED <<exists, replied, answers, message, up, crashes, history>>

(* A posture command is answered at once; a browser plan or an application *)
(* to open is executed without asking the model for calls.                 *)
Direct(a) ==
    /\ stage[a] = "model"
    /\ Go(a, "report") \/ Go(a, "more")
    /\ UNCHANGED <<database, message, up, crashes, history>>

(* The first generation: a text (or the notice that the model is offline), *)
(* or calls.  A work task stores every reply under its id: its calls are   *)
(* all "more".                                                             *)
Propose(a) ==
    /\ stage[a] = "model"
    /\ \E next \in {"report", "tools", "more"} : Go(a, next)
    /\ UNCHANGED <<database, message, up, crashes, history>>

(* The generation that follows the first calls, and _continue_tool_workflow.*)
FollowUp(a) ==
    /\ stage[a] = "followup"
    /\ Go(a, "report") \/ Go(a, "more")
    /\ UNCHANGED <<database, message, up, crashes, history>>

(* One tool: others follow, it was the last, or it needs the password.     *)
Tool(a, outcome) ==
    LET m == message[a] IN
    /\ stage[a] \in {"tools", "more"}
    /\ ran[m] < MaxTools
    /\ ran' = [ran EXCEPT ![m] = @ + 1]
    /\ \/ outcome = "next" /\ UNCHANGED <<stage, turn, asked>>
       \/ outcome = "last" /\ Go(a, "followup") /\ UNCHANGED asked
       \/ /\ outcome = "password"
          /\ asked' = asked \cup {m}
          /\ Go(a, IF stage[a] = "tools" THEN "unnamed" ELSE "report")
    /\ UNCHANGED <<database, message, up, crashes>>

(* Mutant: no reply is stored under the id.                                *)
UnnamedAlways(a) == replied

(* _record_assistant_message: under the reply id, except for the password  *)
(* request of the first calls.                                             *)
NamedReply(a) == IF stage[a] = "report" THEN replied \cup {message[a]} ELSE replied

Report(a) ==
    LET m == message[a] IN
    /\ stage[a] \in {"report", "unnamed"}
    /\ replied' = NamedReply(a)
    /\ answers' = IF stage[a] = "report" /\ m \in replied THEN answers
                  ELSE [answers EXCEPT ![m] = @ + 1]
    /\ Leave(a)
    /\ UNCHANGED <<exists, users, archived, message, up, crashes, history>>

(* The assistant is paused, or a tool, the archive or the database raises. *)
Raise(a) ==
    /\ stage[a] \in Inside
    /\ Leave(a)
    /\ UNCHANGED <<database, message, up, crashes, history>>

Turn(a) ==
    \/ Acquire(a) \/ Start(a) \/ Report(a)
    \/ Direct(a) \/ Propose(a) \/ FollowUp(a)
    \/ \E stored \in BOOLEAN : Archive(a, stored)
    \/ \E outcome \in {"next", "last", "password"} : Tool(a, outcome)

-----------------------------------------------------------------------------
(* Mutant: a deletion does not look at the turn.                           *)
DeletableAlways == exists

Deletable == exists /\ turn = Free

(* delete_conversation refuses during a turn; messages and the records of  *)
(* their files go with the conversation.                                   *)
Delete ==
    /\ up /\ Deletable
    /\ exists' = FALSE
    /\ users' = {} /\ archived' = {} /\ replied' = {}
    /\ answers' = [m \in Messages |-> 0]
    /\ UNCHANGED <<turn, attempts, up, crashes, history>>

(* The process ends: the attempts are lost, the database stays.            *)
Crash ==
    /\ up /\ crashes < MaxCrashes
    /\ up' = FALSE /\ crashes' = crashes + 1
    /\ turn' = Free
    /\ stage' = [a \in Attempts |-> IF stage[a] = "idle" THEN "idle" ELSE "done"]
    /\ UNCHANGED <<database, message, history>>

Restart ==
    /\ ~up
    /\ up' = TRUE
    /\ UNCHANGED <<database, turn, attempts, crashes, history>>

Next ==
    \/ \E a \in Attempts, m \in Messages : Arrive(a, m)
    \/ \E a \in Attempts : Turn(a) \/ Raise(a)
    \/ Delete \/ Crash \/ Restart

Spec == Init /\ [][Next]_vars

(* A turn goes on once it holds the lock: generations and tools have time  *)
(* limits, and when the bound on tools is reached, an error is left.       *)
(* Waiting attempts poll the lock: none of them is promised it.            *)
FairSpec == Spec /\ \A a \in Attempts : WF_vars(turn = a /\ (Turn(a) \/ Raise(a)))

-----------------------------------------------------------------------------
(* One turn at a time, over exceptions and crashes: the attempt inside the *)
(* service is the one that holds the lock.                                 *)
OneTurn == \A a \in Attempts : stage[a] \in Inside <=> turn = a

(* Before the model is asked or a tool runs, the question is stored in a   *)
(* conversation that exists, and stays there until the turn is over.       *)
WorkIsStored ==
    \A a \in Attempts : stage[a] \in Working => exists /\ message[a] \in users

(* A question with a stored reply is settled: until the conversation is    *)
(* deleted no tool runs for it and no second answer appears, however often *)
(* it is sent again.                                                       *)
RepliedIsSettled ==
    [][\A m \in replied : exists' => /\ m \in replied'
                                     /\ ran'[m] = ran[m]
                                     /\ answers'[m] = answers[m]]_vars

(* At most one answer to a message, over retries, errors and crashes,      *)
(* unless its tools asked for the password.                                *)
OneAnswer == \A m \in Messages \ asked : answers[m] <= 1

(* The lock is released again, whatever happens inside the turn.           *)
TurnEnds == \A a \in Attempts : (turn = a) ~> (turn # a)
=============================================================================
