----------------------------- MODULE CodexBridge -----------------------------
(***************************************************************************)
(* Pausing a task of Codex by its title: codex_bridge.py, one client and   *)
(* one child process per operation, with the fallback of services.py that  *)
(* opens a task that has nothing to pause. The app-server is external: its *)
(* tasks change at any time between two requests.                          *)
(***************************************************************************)
EXTENDS Naturals, Sequences, FiniteSets

CONSTANTS
    Threads,        \* tasks of Codex
    Query, Wider, Another, Nameless,    \* titles: the one asked for, one that
                    \* contains it, one that does not, that of a subagent
    Page,           \* threads that a response of thread/list holds
    Limit,          \* CodexBridge.PAGE_SIZE, tasks that are looked at
    MaxChanges,     \* what others do to the tasks
    MaxNoise,       \* messages that nobody asked for
    None

BridgeAssumption ==
    /\ {Page, Limit} \subseteq Nat \ {0} /\ {MaxChanges, MaxNoise} \subseteq Nat
    /\ IsFiniteSet(Threads) /\ None \notin Threads /\ None \notin Nat
    /\ Query \notin {Wider, Another, Nameless}

Titles == {Query, Wider, Another, Nameless}
Stamps == 0 .. Cardinality(Threads) + MaxChanges

VARIABLES
    title, stamp,   \* of each task: its title, when it was touched last
    turns,          \* and the turns it is in
    op,             \* the operation under way
    inbox,          \* _messages, what the child process wrote
    quiet,          \* tasks that nobody touched since the listing began
    changes, noise

vars == <<title, stamp, turns, op, inbox, quiet, changes, noise>>
server == <<title, stamp, turns>>

Idle == [does |-> "nothing", asks |-> "nothing", id |-> 0, served |-> FALSE,
         listed |-> {}, cursor |-> None, thread |-> None, turn |-> None]

TypeOK ==
    /\ title \in [Threads -> Titles] /\ stamp \in [Threads -> Stamps]
    /\ turns \in [Threads -> SUBSET Stamps]
    /\ op \in [does : {"nothing", "pause", "open"},
               asks : {"nothing", "initialize", "list", "read", "interrupt", "uri"},
               id : Nat, served : BOOLEAN, listed : SUBSET (Threads \X Titles),
               cursor : Stamps \cup {None}, thread : Threads \cup {None},
               turn : Stamps \cup {None}]
    /\ quiet \subseteq Threads /\ changes \in 0 .. MaxChanges /\ noise \in 0 .. MaxNoise

(* Each was touched at another moment; in which order does not matter, as  *)
(* their titles and turns are any.                                         *)
Init ==
    /\ title \in [Threads -> Titles]
    /\ stamp = CHOOSE s \in [Threads -> 1 .. Cardinality(Threads)] :
                  \A t, u \in Threads : s[t] = s[u] => t = u
    /\ turns \in [Threads -> {{}, {0}}]
    /\ op = Idle /\ inbox = <<>> /\ quiet = {} /\ changes = 0 /\ noise = 0

-----------------------------------------------------------------------------
(* A request, with the next id.                                            *)
Asks(o, method) == [o EXCEPT !.asks = method, !.id = @ + 1, !.served = FALSE]
Ends == op' = Idle /\ inbox' = <<>>

Begin(does) ==
    /\ op = Idle
    /\ op' = Asks([Idle EXCEPT !.does = does], "initialize")
    /\ UNCHANGED <<server, inbox, quiet, changes, noise>>

(* What app-server answers, as things are at that moment.                  *)
Older == {t \in Threads : op.cursor = None \/ stamp[t] < op.cursor}
Newer(t) == {u \in Older : stamp[u] > stamp[t]}
Newest(n) == {t \in Older : Cardinality(Newer(t)) < n}
Last(ts) == CHOOSE n \in {stamp[t] : t \in ts} : \A t \in ts : n <= stamp[t]
Room == LET left == Limit - Cardinality(op.listed) IN IF left < Page THEN left ELSE Page

Response ==
    CASE op.asks = "list" ->
           LET ts == Newest(Room)
           IN  [tasks |-> {<<t, title[t]>> : t \in ts},
                next |-> IF ts = Older THEN None ELSE Last(ts)]
      [] op.asks = "read" -> turns[op.thread]
      [] OTHER -> None

Message(kind, id, value) == [kind |-> kind, id |-> id, value |-> value]

(* The turn that is interrupted is the one that was named.                 *)
Named(t) == op.turn \in turns[t]

Serve ==
    /\ op.asks \notin {"nothing", "uri"} /\ ~op.served
    /\ op' = [op EXCEPT !.served = TRUE]
    /\ IF op.asks = "interrupt"
       THEN /\ inbox' = Append(inbox, Message(IF Named(op.thread) THEN "result" ELSE "error",
                                              op.id, None))
            /\ turns' = IF Named(op.thread)
                        THEN [turns EXCEPT ![op.thread] = @ \ {op.turn}] ELSE turns
       ELSE /\ inbox' = Append(inbox, Message("result", op.id, Response))
            /\ UNCHANGED turns
    /\ UNCHANGED <<title, stamp, quiet, changes, noise>>

(* Notifications, and requests of its own, whose ids are of its choice.    *)
Noise ==
    /\ op.asks \notin {"nothing", "uri"} /\ noise < MaxNoise /\ noise' = noise + 1
    /\ inbox' \in {Append(inbox, Message("notification", 0, None)),
                   Append(inbox, Message("request", op.id, None))}
    /\ UNCHANGED <<server, op, quiet, changes>>

-----------------------------------------------------------------------------
Matches(listed, titles) == {x \in listed : x[2] \in titles}

(* Mutant: one of those that match.                                        *)
ResolvedFirst(listed) ==
    LET exact == Matches(listed, {Query})
    IN  IF exact = {} THEN None ELSE (CHOOSE x \in exact : TRUE)[1]

(* _resolve: an exact title first, and one that contains what was asked    *)
(* only when there is no exact one; several are ambiguous.                 *)
Resolved(listed) ==
    LET exact == Matches(listed, {Query})
        partial == Matches(listed, {Query, Wider})
        only(S) == IF Cardinality(S) = 1 THEN (CHOOSE x \in S : TRUE)[1] ELSE None
    IN  IF exact # {} THEN only(exact) ELSE only(partial)

(* _list_tasks: subagents are left out, and pages are asked for until the  *)
(* limit is reached. A task is never in two of them, since it is only      *)
(* touched to become newer: the list is a set.                             *)
Listing(o, response) ==
    LET more == o.listed \cup {x \in response.tasks : x[2] # Nameless}
        o2 == [o EXCEPT !.listed = more, !.cursor = response.next]
    IN  IF response.next # None /\ Cardinality(more) < Limit THEN Asks(o2, "list")
        ELSE [o2 EXCEPT !.thread = Resolved(more)]

(* open_task: only what the title resolves to, with a client of its own.   *)
Opening == Asks([Idle EXCEPT !.does = "open"], "initialize")

Received(m) ==
    CASE op.asks = "initialize" -> Asks(op, "list")
      [] op.asks = "list" ->
           LET o == Listing(op, m.value)
           IN  IF o.asks = "list" /\ o.id > op.id THEN o
               ELSE IF o.thread = None THEN Idle
               ELSE IF o.does = "open" THEN [o EXCEPT !.asks = "uri"]
               ELSE Asks(o, "read")
      [] op.asks = "read" ->
           IF m.value = {} THEN Opening
           ELSE IF Cardinality(m.value) > 1 THEN Idle
           ELSE Asks([op EXCEPT !.turn = CHOOSE n \in m.value : TRUE], "interrupt")
      [] OTHER -> Idle

(* _request_started: its own answer is waited for, and everything else is  *)
(* dropped; what app-server asks for is refused.                           *)
Receive ==
    /\ inbox # <<>>
    /\ LET m == Head(inbox)
       IN  IF m.kind \in {"request", "notification"} \/ m.id # op.id
           THEN inbox' = Tail(inbox) /\ UNCHANGED <<op, quiet>>
           ELSE /\ op' = IF m.kind = "error" THEN Idle ELSE Received(m)
                /\ inbox' = IF op'.asks \in {"nothing", "initialize", "uri"} THEN <<>> ELSE Tail(inbox)
                /\ quiet' = IF op.asks = "initialize" THEN Threads ELSE quiet
    /\ UNCHANGED <<server, changes, noise>>

(* A timeout, a line that is not valid, the end of the process; or the     *)
(* link of the task is handed to Windows.                                  *)
EndsAnyway ==
    /\ op # Idle /\ Ends
    /\ UNCHANGED <<server, quiet, changes, noise>>

-----------------------------------------------------------------------------
(* What others do: a task is renamed, begins a turn or ends one.           *)
Changes(t) ==
    /\ changes < MaxChanges /\ changes' = changes + 1
    /\ LET at == Cardinality(Threads) + changes + 1
       IN  /\ stamp' = [stamp EXCEPT ![t] = at]
           /\ \/ \E new \in Titles : title' = [title EXCEPT ![t] = new] /\ UNCHANGED turns
              \/ turns' = [turns EXCEPT ![t] = {at}] /\ UNCHANGED title
              \/ turns' = [turns EXCEPT ![t] = {}] /\ UNCHANGED title
    /\ quiet' = quiet \ {t}
    /\ UNCHANGED <<op, inbox, noise>>

Next ==
    \/ \E does \in {"pause", "open"} : Begin(does)
    \/ Serve \/ Noise \/ Receive \/ EndsAnyway
    \/ \E t \in Threads : Changes(t)

Spec == Init /\ [][Next]_vars

-----------------------------------------------------------------------------
(* A task is only acted on, be it paused or opened, when no other has the  *)
(* title that was asked for, unless one got it while they were listed, or  *)
(* the list was cut: also over several pages, and with messages of other   *)
(* requests in between.                                                    *)
NoGuess ==
    op.thread # None =>
        \A t \in quiet \ {op.thread} :
            title[t] = Query =>
                Cardinality(op.listed) = Limit /\ \A x \in op.listed : x[1] # t
=============================================================================
