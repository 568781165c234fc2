----------------------------- MODULE MobileChat -----------------------------
(***************************************************************************)
(* The chat of the phone: mobile/src/ChatScreen.tsx with conversations.ts, *)
(* workTasks.ts and api.ts, against the PC.                                *)
(*                                                                         *)
(* The screen is one JavaScript thread: what happens between two awaits is *)
(* one action. A request is in `net' from the moment it is made; one that  *)
(* only reads is answered as things are at that moment, one that changes   *)
(* the PC is served later, and the answer, as old as it may be by then, is *)
(* delivered or the request fails. The PC is abstracted to what its answers tell: which *)
(* conversations there are, the turns of each in their order, and the jobs *)
(* (see WorkTasks and ChatTurn). A question and its reply are one entry.   *)
(***************************************************************************)
EXTENDS Naturals, Sequences, FiniteSets

CONSTANTS
    Chats,      \* conversations there are or will be
    MaxSends,   \* messages sent from the phone
    MaxOthers,  \* turns of other devices
    MaxMoves,   \* what the owner does else: choose, create, delete, here or there
    MaxFaults,  \* requests that fail
    MaxLoads,   \* histories asked for at a time
    Page,       \* HISTORY_PAGE_SIZE
    None

ASSUME PhoneAssumption ==
    /\ MaxSends \in Nat \ {0} /\ MaxLoads \in Nat \ {0} /\ Page \in Nat \ {0}
    /\ {MaxOthers, MaxMoves, MaxFaults} \subseteq Nat
    /\ None \notin Chats \cup Nat

Sends == 1 .. MaxSends
Other == 0
Active == {"queued", "stored", "stuck"}     \* taskActive; a stored one has its question
                                            \* saved, a stuck one has no thread

VARIABLES
    conv,       \* the conversations of the PC: still new, kept or deleted
    log,        \* per conversation, who sent each turn that was stored in it
    jobs,       \* per message of the phone, its job
    chatOf,     \* and the conversation it was sent to
    phone,      \* the state of ChatScreen
    send,       \* the call of send() that is under way, if any
    net,        \* requests under way
    moves, faults

phoneVars == <<conv, log, jobs, chatOf, phone, send, net, moves, faults>>
pc == <<conv, log, jobs, chatOf>>

Idle == [k |-> 0, chat |-> None, text |-> None, step |-> "none", sent |-> FALSE]

Blank == [selected |-> None, listed |-> {}, view |-> <<>>, local |-> {}, draft |-> None,
          files |-> None, task |-> None, older |-> 0]

(* A message that was sent and is not in the history yet. `told' is history*)
(* of the model: FALSE when the call of send() ended with an error of the  *)
(* server or an answer without a body, which say nothing of the job.       *)
Entries == [k : Sends, delivery : {"sending", "uncertain", "failed"}, told : BOOLEAN]

Screen == [selected : Chats \cup {None}, listed : SUBSET Chats,
           view : Seq(Chats \X Nat),                    \* messages
           local : SUBSET Entries,                      \* localEntries
           draft : Chats \cup {None}, files : Chats \cup {None},   \* where it was written
           task : Sends \cup {None}, older : Nat]       \* workTaskId, nextBeforeId

Loads == [kind : {"load"}, chat : Chats, quiet : BOOLEAN, current : BOOLEAN,
          found : BOOLEAN, n : Nat]
Olders == [kind : {"older"}, chat : Chats, before : Nat]
Lists == [kind : {"list"}, default : BOOLEAN, keep : BOOLEAN, current : BOOLEAN,
          chats : SUBSET Chats]
Polls == [kind : {"poll"}, chat : Chats, task : Sends \cup {None}]
Creates == [kind : {"create"}, step : {"asked"}, chat : {None}, heard : BOOLEAN]
             \cup [kind : {"create"}, step : {"answered"}, chat : Chats, heard : BOOLEAN]
Deletes == [kind : {"delete"}, step : {"asked", "answered", "refused"}, chat : Chats,
            other : Chats \cup {None}, was : SUBSET Chats, heard : BOOLEAN]
Posts == [kind : {"post"}, k : Sends, chat : Chats, heard : BOOLEAN,
          step : {"asked", "answered", "refused", "error"}]
Requests == Loads \cup Olders \cup Lists \cup Polls \cup Creates \cup Deletes \cup Posts

PhoneTypeOK ==
    /\ conv \in [Chats -> {"new", "kept", "deleted"}] /\ log \in [Chats -> Seq(Sends \cup {Other})]
    /\ jobs \in [Sends -> {"none", "refused", "over", "done"} \cup Active]
    /\ chatOf \in [Sends -> Chats \cup {None}]
    /\ phone \in Screen
    /\ send \in [k : Sends \cup {0}, chat : Chats \cup {None}, text : Chats \cup {None},
                 sent : BOOLEAN, step : {"none", "upload", "post", "wait"}]
    /\ \A r \in net : r \in Requests
    /\ moves \in 0 .. MaxMoves /\ faults \in 0 .. MaxFaults

-----------------------------------------------------------------------------
(* What a page of a history holds: the last Page turns of the first n.     *)
First(n) == IF n > Page THEN n - Page ELSE 0
PageOf(c, n) == [i \in 1 .. n - First(n) |-> <<c, First(n) + i>>]

(* mergeMessages, which keeps the first place of a message.                *)
Others(incoming, current) ==
    LET f[i \in 0 .. Len(incoming)] ==
            IF i = 0 THEN <<>>
            ELSE IF \E j \in DOMAIN current : current[j] = incoming[i] THEN f[i - 1]
            ELSE Append(f[i - 1], incoming[i])
    IN  f[Len(incoming)]

Appended(view, page) == view \o Others(page, view)
Prepended(view, page) == page \o Others(view, page)

(* reconcileLocalEntries: what the page shows needs no local entry.        *)
Reconciled(local, page) ==
    {e \in local : \A i \in DOMAIN page : log[page[i][1]][page[i][2]] # e.k}

(* Mutant: a timeout is taken for a refusal.                               *)
UncertainOffline(error) == error = "network"

(* Only errors of the connection leave it open whether the message came.   *)
Uncertain(error) == error \in {"network", "timeout"}

-----------------------------------------------------------------------------
Move == moves < MaxMoves /\ moves' = moves + 1
Fault == faults < MaxFaults /\ faults' = faults + 1

(* Making requests. A newer load that empties the screen, and a newer list,*)
(* outdate the older ones: loadGeneration, conversationListGeneration.     *)
Kept == {c \in Chats : conv[c] = "kept"}
Kind(kind) == {r \in net : r.kind = kind}

Load(c, quiet, others) ==
    {IF r.kind = "load" /\ ~quiet /\ ~r.quiet THEN [r EXCEPT !.current = FALSE] ELSE r
        : r \in others}
      \cup {[kind |-> "load", chat |-> c, quiet |-> quiet, current |-> TRUE,
             found |-> c \in Kept, n |-> IF c \in Kept THEN Len(log[c]) ELSE 0]}

List(default, keep, others) ==
    {IF r.kind = "list" THEN [r EXCEPT !.current = FALSE] ELSE r : r \in others}
      \cup {[kind |-> "list", default |-> default, keep |-> keep, current |-> TRUE,
             chats |-> Kept]}

(* The active job of a conversation, of which there is one at most.        *)
ActiveIn(c) == {k \in Sends : jobs[k] \in Active /\ chatOf[k] = c}

Poll(c) ==
    IF c \notin Kept THEN {}
    ELSE {[kind |-> "poll", chat |-> c, task |-> t]
            : t \in IF ActiveIn(c) = {} THEN {None} ELSE ActiveIn(c)}

Emptied(p) == [p EXCEPT !.view = <<>>, !.local = {}]

(* loadConversation, not quiet: the screen is emptied at once.             *)
Opened(p, c) == [Emptied(p) EXCEPT !.selected = c, !.older = 0]

(* Mutant: only the files are put away.                                    *)
ChosenWithText(p, c) == [Opened(p, c) EXCEPT !.files = None]

(* selectConversation: the composer is emptied as well.                    *)
Chosen(p, c) == [Opened(p, c) EXCEPT !.draft = None, !.files = None]

PhoneInit ==
    /\ conv \in [Chats -> {"new", "kept"}] /\ log = [c \in Chats |-> <<>>]
    /\ jobs = [k \in Sends |-> "none"]
    /\ chatOf = [k \in Sends |-> None]
    /\ phone = Blank /\ send = Idle
    /\ net = List(TRUE, FALSE, {})
    /\ moves = 0 /\ faults = 0

-----------------------------------------------------------------------------
(* The PC serves what changes it.                                          *)
Busy == send # Idle
InTurn == \E k \in Sends : jobs[k] = "stored"       \* the turn lock is taken

ServeCreate(r) ==
    /\ r.kind = "create" /\ r.step = "asked"
    /\ \E c \in {d \in Chats : conv[d] = "new"} :
        /\ conv' = [conv EXCEPT ![c] = "kept"]
        /\ net' = (net \ {r}) \cup
                   IF r.heard THEN {[r EXCEPT !.step = "answered", !.chat = c]} ELSE {}
    /\ UNCHANGED <<log, jobs, chatOf, faults>>

(* delete_conversation: not inside a turn.                                 *)
ServeDelete(r) ==
    /\ r.kind = "delete" /\ r.step = "asked"
    /\ IF InTurn \/ r.chat \notin Kept
       THEN /\ net' = (net \ {r}) \cup
                      IF r.heard THEN {[r EXCEPT !.step = "refused"]} ELSE {}
            /\ UNCHANGED conv
       ELSE /\ conv' = [conv EXCEPT ![r.chat] = "deleted"]
            /\ \E o \in IF Kept = {r.chat} THEN {None} ELSE Kept \ {r.chat} :
                net' = (net \ {r}) \cup
                       IF r.heard THEN {[r EXCEPT !.step = "answered", !.other = o]} ELSE {}
    /\ UNCHANGED <<log, jobs, chatOf, faults>>

(* POST /api/tasks: one active job per conversation; it may be refused for *)
(* other reasons. When the first save fails the record stays, active and   *)
(* with no thread, and the answer is an error.                             *)
Taken(c) == IF c \in Kept /\ ActiveIn(c) = {} THEN {"queued", "stuck"} ELSE {}
Answer == [refused |-> "refused", queued |-> "answered", stuck |-> "error"]

ServePost(r) ==
    /\ r.kind = "post" /\ r.step = "asked"
    /\ \E job \in {"refused"} \cup Taken(r.chat) :
        /\ jobs' = [jobs EXCEPT ![r.k] = job]
        /\ net' = (net \ {r}) \cup
                   IF ~r.heard THEN {}
                   ELSE {[r EXCEPT !.step = Answer[job]]}
        /\ IF job = "stuck" THEN Fault ELSE UNCHANGED faults
    /\ UNCHANGED <<conv, log, chatOf>>

(* A job waits for the turn lock and stores its question; it ends with a   *)
(* reply, or stopped, interrupted or refused.                              *)
JobStores(k) ==
    /\ jobs[k] = "queued" /\ ~InTurn /\ chatOf[k] \in Kept
    /\ jobs' = [jobs EXCEPT ![k] = "stored"]
    /\ log' = [log EXCEPT ![chatOf[k]] = Append(@, k)]
    /\ UNCHANGED <<conv, chatOf, phone, send, net, moves, faults>>

JobEnds(k) ==
    /\ jobs[k] \in Active \ {"stuck"}
    /\ jobs' = [jobs EXCEPT ![k] = IF @ = "stored" THEN "done" ELSE "over"]
         \/ jobs' = [jobs EXCEPT ![k] = "over"]
    /\ UNCHANGED <<conv, log, chatOf, phone, send, net, moves, faults>>

(* Only the end of the program of the PC ends a job that has no thread.    *)
Forgotten(k) ==
    /\ jobs[k] = "stuck" /\ jobs' = [jobs EXCEPT ![k] = "over"]
    /\ UNCHANGED <<conv, log, chatOf, phone, send, net, moves, faults>>

(* Another device: a turn, a deletion.                                     *)
OtherTurn(c) ==
    /\ c \in Kept /\ ~InTurn /\ ActiveIn(c) = {}
    /\ Cardinality({x \in Chats \X (1 .. MaxOthers + MaxSends) :
          x[2] \in DOMAIN log[x[1]] /\ log[x[1]][x[2]] = Other}) < MaxOthers
    /\ log' = [log EXCEPT ![c] = Append(@, Other)]
    /\ UNCHANGED <<conv, jobs, chatOf, phone, send, net, moves, faults>>

OtherDeletes(c) ==
    /\ Move /\ c \in Kept /\ ~InTurn /\ conv' = [conv EXCEPT ![c] = "deleted"]
    /\ UNCHANGED <<log, jobs, chatOf, phone, send, net, faults>>

Serve(r) == /\ UNCHANGED <<phone, send, moves>>
            /\ ServeCreate(r) \/ ServeDelete(r) \/ ServePost(r)

-----------------------------------------------------------------------------
(* The owner. The list of conversations opens only while nothing is sent.  *)
Composer == ~Busy /\ phone.task = None /\ phone.selected \in phone.listed

Type ==
    /\ Composer /\ phone.draft = None
    /\ \E files \in {phone.files, phone.selected} :
        phone' = [phone EXCEPT !.draft = phone.selected, !.files = files]
    /\ UNCHANGED <<pc, send, net, moves, faults>>

Post(k, c) == [kind |-> "post", k |-> k, chat |-> c, step |-> "asked", heard |-> TRUE]

Send ==
    /\ Composer
    /\ phone.draft # None
    /\ \E k \in Sends :
        /\ chatOf[k] = None /\ \A j \in 1 .. k - 1 : chatOf[j] # None
        /\ chatOf' = [chatOf EXCEPT ![k] = phone.selected]
        /\ phone' = [phone EXCEPT !.draft = None,
                        !.local = @ \cup {[k |-> k, delivery |-> "sending", told |-> TRUE]}]
        /\ send' = [k |-> k, chat |-> phone.selected, text |-> phone.draft, sent |-> FALSE,
                    step |-> IF phone.files = None THEN "post" ELSE "upload"]
        /\ net' = IF phone.files = None THEN net \cup {Post(k, phone.selected)} ELSE net
    /\ UNCHANGED <<conv, log, jobs, moves, faults>>

Choose(c) ==
    /\ Move /\ ~Busy /\ c \in phone.listed
    /\ Cardinality(Kind("load")) < MaxLoads
    /\ phone' = Chosen(phone, c) /\ net' = Load(c, FALSE, net)
    /\ UNCHANGED <<pc, send, faults>>

Create ==
    /\ Move /\ ~Busy /\ ~\E r \in Kind("create") : r.heard
    /\ net' = net \cup {[kind |-> "create", step |-> "asked", chat |-> None, heard |-> TRUE]}
    /\ UNCHANGED <<pc, phone, send, faults>>

(* The list that the deletion starts from is the one of that moment.       *)
AskDelete(c) ==
    /\ Move /\ ~Busy /\ c \in phone.listed
    /\ ~\E r \in Kind("delete") : r.heard
    /\ net' = net \cup {[kind |-> "delete", step |-> "asked", chat |-> c, other |-> None,
                         was |-> phone.listed, heard |-> TRUE]}
    /\ UNCHANGED <<pc, phone, send, faults>>

LoadOlder ==
    /\ phone.selected \in Kept /\ phone.older > 0 /\ Kind("older") = {}
    /\ net' = net \cup {[kind |-> "older", chat |-> phone.selected, before |-> phone.older]}
    /\ UNCHANGED <<pc, phone, send, moves, faults>>

(* The app ends; what it asked may still come to the PC.                   *)
Unheard(r) == r.kind \in {"create", "delete", "post"} /\ r.step = "asked"

AppRestart ==
    /\ Move /\ phone' = Blank /\ send' = Idle
    /\ net' = List(TRUE, FALSE, {[r EXCEPT !.heard = FALSE] : r \in {q \in net : Unheard(q)}})
    /\ UNCHANGED <<pc, faults>>

-----------------------------------------------------------------------------
(* The timer, and the return to the app.                                   *)
Sync ==
    /\ UNCHANGED <<pc, phone, send, moves, faults>>
    /\ Cardinality(Kind("load")) < MaxLoads /\ Cardinality(Kind("list")) < MaxLoads
    /\ LET c == phone.selected
           more == IF c = None \/ Busy THEN net ELSE Load(c, TRUE, net) \cup Poll(c)
       IN  net' = List(c = None, TRUE, more)

(* Mutant: only the generation is looked at.                               *)
WantedByAge(r) == r.quiet \/ r.current

(* loadConversation: the answer is for the chat that is open, and not older*)
(* than what is on the screen.                                             *)
Wanted(r) == phone.selected = r.chat /\ (r.quiet \/ r.current)

Loaded(r) ==
    /\ r.kind = "load"
    /\ net' = net \ {r}
    /\ LET page == PageOf(r.chat, r.n)
       IN  phone' = IF ~r.found
                    THEN IF phone.selected # r.chat THEN phone
                         ELSE [Emptied(phone) EXCEPT !.listed = @ \ {r.chat},
                                                     !.selected = None]
                    ELSE IF ~Wanted(r) THEN phone
                    ELSE [phone EXCEPT
                            !.view = IF r.quiet THEN Appended(@, page) ELSE page,
                            !.local = Reconciled(@, page),
                            !.listed = @ \cup {r.chat},
                            !.older = IF r.quiet THEN @ ELSE First(r.n)]
    /\ UNCHANGED send

OlderLoaded(r) ==
    /\ r.kind = "older"
    /\ net' = net \ {r}
    /\ phone' = IF phone.selected # r.chat THEN phone
                ELSE [phone EXCEPT !.view = Prepended(@, PageOf(r.chat, r.before)),
                                   !.older = First(r.before)]
    /\ UNCHANGED send

(* loadConversationList with conversationSelectionAfterList.               *)
Listed(r) ==
    /\ r.kind = "list"
    /\ LET p == [phone EXCEPT !.listed = IF r.keep THEN @ \cup r.chats ELSE r.chats]
           stays == p.selected # None /\ (r.keep \/ p.selected \in r.chats)
       IN  IF ~r.current THEN phone' = phone /\ net' = net \ {r}
           ELSE IF ~stays /\ r.default /\ r.chats # {}
           THEN \E c \in r.chats : phone' = Opened(p, c) /\ net' = Load(c, FALSE, net \ {r})
           ELSE /\ net' = net \ {r}
                /\ phone' = IF stays \/ r.keep \/ r.chats # {} THEN p
                            ELSE [Emptied(p) EXCEPT !.selected = None]
    /\ UNCHANGED send

(* Mutant: a job that ended is not taken off the screen.                   *)
PolledOnlyNew(r) ==
    /\ r.kind = "poll"
    /\ net' = net \ {r}
    /\ phone' = IF phone.selected # r.chat \/ r.task = None THEN phone
                ELSE [phone EXCEPT !.task = r.task]
    /\ UNCHANGED send

Polled(r) ==
    /\ r.kind = "poll"
    /\ net' = net \ {r}
    /\ phone' = IF phone.selected # r.chat THEN phone ELSE [phone EXCEPT !.task = r.task]
    /\ UNCHANGED send

Created(r) ==
    /\ r.kind = "create" /\ r.step = "answered"
    /\ phone' = Chosen([phone EXCEPT !.listed = @ \cup {r.chat}], r.chat)
    /\ net' = Load(r.chat, FALSE, net \ {r})
    /\ UNCHANGED send

(* deleteConversation with conversationsAfterDelete.                       *)
Deleted(r) ==
    /\ r.kind = "delete" /\ r.step # "asked"
    /\ LET rest == (r.was \ {r.chat}) \cup ({r.other} \ {None})
           p == [phone EXCEPT !.listed = rest]
       IN  IF r.step = "refused" THEN phone' = phone /\ net' = net \ {r}
           ELSE IF phone.selected # r.chat THEN phone' = p /\ net' = net \ {r}
           ELSE IF rest = {}
           THEN /\ phone' = [Emptied(p) EXCEPT !.selected = None, !.files = None]
                /\ net' = net \ {r}
           ELSE \E c \in rest : phone' = Chosen(p, c) /\ net' = Load(c, FALSE, net \ {r})
    /\ UNCHANGED send

-----------------------------------------------------------------------------
(* send() after its first await. It ends in `finally'.                     *)
Finished == send' = Idle

Failed(error) ==
    LET p == [phone EXCEPT !.task = None]
        back == ~send.sent /\ ~Uncertain(error)
        delivery == IF Uncertain(error) THEN "uncertain" ELSE "failed"
    IN  /\ Finished
        /\ phone' = IF p.selected # send.chat THEN p
                    ELSE [p EXCEPT !.files = IF send.sent THEN None ELSE @,
                                   !.draft = IF back THEN send.text ELSE @,
                                   !.local = {IF e.k = send.k
                                              THEN [e EXCEPT !.delivery = delivery,
                                                             !.told = error # "server"]
                                              ELSE e
                                                : e \in @}]

(* A request of the call fails, or is answered by an error of the server or*)
(* of the proxy before it, or its answer comes without a body: request()   *)
(* returns null then, and reading it throws.                               *)
AnswerFails == \E error \in {"network", "timeout", "server"} : Failed(error)

Upload ==
    /\ send.step = "upload"
    /\ \/ /\ send' = [send EXCEPT !.step = "post", !.sent = TRUE]
          /\ net' = net \cup {Post(send.k, send.chat)}
          /\ UNCHANGED <<phone, faults>>
       \/ /\ \/ Failed("http") /\ UNCHANGED faults
             \/ Fault /\ \E error \in {"network", "timeout"} : Failed(error)
          /\ UNCHANGED net
    /\ UNCHANGED <<pc, moves>>

Posted(r) ==
    /\ r.kind = "post" /\ r.step # "asked" /\ r.heard
    /\ net' = net \ {r}
    /\ IF r.step = "refused" THEN Failed("http")
       ELSE IF r.step = "error" THEN Failed("server")
       ELSE send' = [send EXCEPT !.step = "wait"] /\ UNCHANGED phone

(* The reply, merged into the chat if it is still the one that is open.    *)
Succeeded ==
    LET c == send.chat
        at == CHOOSE i \in DOMAIN log[c] : log[c][i] = send.k
        p == [phone EXCEPT !.task = None, !.listed = @ \cup {c}]
    IN  /\ Finished
        /\ net' = List(FALSE, FALSE, net)
        /\ phone' = IF p.selected # c THEN p
                    ELSE [p EXCEPT !.files = None, !.local = {e \in @ : e.k # send.k},
                                   !.view = Appended(@, <<<<c, at>>>>)]

(* waitForWorkTask: the state of the job, every two seconds.               *)
Follow ==
    /\ send.step = "wait"
    /\ \/ /\ \/ /\ jobs[send.k] \in Active
                /\ phone' = [phone EXCEPT !.task = send.k] /\ UNCHANGED <<send, net>>
             \/ jobs[send.k] = "done" /\ Succeeded
             \/ jobs[send.k] = "over" /\ Failed("ended") /\ UNCHANGED net
          /\ UNCHANGED faults
       \/ Fault /\ AnswerFails /\ UNCHANGED net
    /\ UNCHANGED <<pc, moves>>

Deliver(r) == /\ UNCHANGED <<pc, moves, faults>>
              /\ \/ Loaded(r) \/ OlderLoaded(r) \/ Listed(r) \/ Polled(r)
                 \/ Created(r) \/ Deleted(r) \/ Posted(r)

(* A request fails: it, or its answer, is lost or too late.                *)
Fails(r) ==
    /\ Fault
    /\ r.kind \in {"create", "delete", "post"} => r.heard
    /\ net' \in {net \ {r}} \cup IF ~Unheard(r) THEN {}
                                  ELSE {(net \ {r}) \cup {[r EXCEPT !.heard = FALSE]}}
    /\ IF r.kind = "post" THEN AnswerFails ELSE UNCHANGED <<phone, send>>
    /\ UNCHANGED <<pc, moves>>

-----------------------------------------------------------------------------
PhoneNext ==
    \/ \E r \in net : Serve(r) \/ Deliver(r) \/ Fails(r)
    \/ \E k \in Sends : JobStores(k) \/ JobEnds(k) \/ Forgotten(k)
    \/ \E c \in Chats : OtherTurn(c) \/ OtherDeletes(c) \/ Choose(c) \/ AskDelete(c)
    \/ Type \/ Send \/ Create \/ LoadOlder \/ AppRestart
    \/ Sync \/ Upload \/ Follow

PhoneSpec == PhoneInit /\ [][PhoneNext]_phoneVars

(* The timer goes on, jobs end, and what is asked is answered or given up  *)
(* within the time limit of request(): only MaxFaults of them fail.        *)
Answers(kinds) == \E r \in net : r.kind \in kinds /\ (Serve(r) \/ Deliver(r))
SendGoesOn == Upload \/ Answers({"post"}) \/ Follow

Fairness ==
    /\ WF_phoneVars(Sync) /\ WF_phoneVars(Answers({"load", "list"})) /\ WF_phoneVars(Answers({"poll"}))
    /\ WF_phoneVars(SendGoesOn) /\ \A k \in Sends : WF_phoneVars(JobEnds(k))

FairPhone == PhoneSpec /\ Fairness

-----------------------------------------------------------------------------
(* What is on the screen belongs to the chat that is open, and is there    *)
(* once, however late and in whatever order the answers come.              *)
NoMixing ==
    /\ \A i \in DOMAIN phone.view : phone.view[i][1] = phone.selected
    /\ \A i, j \in DOMAIN phone.view : phone.view[i] = phone.view[j] => i = j
    /\ \A e \in phone.local : chatOf[e.k] = phone.selected

(* A text goes back to the composer, to be sent again, only when the first *)
(* message can no longer become a job, or when what ended the call was an  *)
(* error of the server or an answer without a body.                        *)
ReturnedIsOver ==
    \A e \in phone.local :
        e.delivery = "failed" /\ e.told
          => jobs[e.k] \notin Active /\ \A r \in Kind("post") : r.k # e.k

(* What was written in a chat is sent in another only after the screen was *)
(* left without a chat, or a list chose one by itself.                     *)
DraftFollows ==
    [][\A c \in Chats : phone.draft = c /\ phone'.draft = c /\ phone.selected = c
         => \/ phone'.selected \in {c, None}
            \/ \E r \in net : r.kind = "list" /\ r.default /\ Listed(r)]_phoneVars

(* The phone catches up with the PC: a message of which nobody knew whether*)
(* it came is confirmed once it is stored in the chat that is open, unless *)
(* a page of others came after it; and a composer that is closed because   *)
(* the chat has a job opens when the job is over, whoever started it.      *)
Doubtful(k) == \E e \in phone.local : e.k = k /\ e.delivery = "uncertain"
OnPage(k) == \E i \in DOMAIN log[phone.selected] :
                log[phone.selected][i] = k /\ i > First(Len(log[phone.selected]))
Behind(k) ==
    \/ Doubtful(k) /\ OnPage(k)
    \/ phone.task = k /\ jobs[k] \notin Active /\ phone.selected # None

CatchesUp == \A k \in Sends : Behind(k) ~> ~Behind(k)
=============================================================================
