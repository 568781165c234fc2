---------------------------- MODULE DesktopChat -----------------------------
(***************************************************************************)
(* The chat window of ui.py (ChatWindow, Bridge and the events of          *)
(* PetWindow.poll_events): the selected chat, the composer and the drafts, *)
(* the requests awaited, the authorizations in line, and the one thread    *)
(* that waits for jobs, executes authorized actions and switches models.   *)
(*                                                                         *)
(* A handler runs to its end on the UI thread and is one action: a         *)
(* composition of functions on the record `window'.  A dialog opens a      *)
(* nested event loop, so it is two actions with anything in between.  A    *)
(* text or a file is told apart by the chat it was meant for.              *)
(***************************************************************************)
EXTENDS Naturals, Sequences, SequencesExt

CONSTANTS
    Chats, Jobs,
    MaxMoves,       \* the owner's less usual moves
    None            \* no chat, no text, no authorization

ASSUME DesktopAssumption == Chats \cap Jobs = {} /\ None \notin Chats \cup Jobs /\ MaxMoves \in Nat

Blank == [text |-> None, files |-> {}]
Drafts == [text : Chats \cup {None}, files : SUBSET Chats]

VARIABLES
    window,         \* the fields of ChatWindow
    modal,          \* a file or a deletion dialog, and the chat it is for
    pool, signals,  \* Bridge: the queue of its thread; signals to the UI thread
    jobs,           \* each job: its state, chat and origin
    events,         \* CompanionService.events
    chats, ever,    \* the chats that exist, and those that ever did
    left,           \* history: what the owner has left in each composer
    moves           \* the less usual moves so far

vars == <<window, modal, pool, signals, jobs, events, chats, ever, left, moves>>

States == {"none", "refused", "queued", "active", "asking", "answered", "asked", "failed"}
Active == {"queued", "active", "asking"}
Inside == Active \ {"queued"}

Windows == [current : Chats \cup {None}, composer : Drafts, enabled : BOOLEAN,
            drafts : [Chats -> Drafts],
            pending : Jobs \cup {None}, line : Seq(Jobs), draftOf : Chats \cup {None},
            dialog : BOOLEAN, prompt : BOOLEAN, inFlight : BOOLEAN,
            awaited : SUBSET Jobs,
            spoilt : SUBSET Chats]      \* history: see DraftsReturn

TypeOK ==
    /\ window \in Windows
    /\ modal \in [kind : {"none", "files", "delete"}, chat : Chats \cup {None}]
    /\ pool \in Seq([kind : {"wait", "authorize"}, job : Jobs])
    /\ signals \in Seq([kind : {"reply", "asks", "error", "again", "done", "broken"}, job : Jobs])
    /\ jobs \in [Jobs -> [state : States, chat : Chats \cup {None}, desktop : BOOLEAN]]
    /\ events \in Seq([kind : {"progress", "authorization", "deleted"},
                       chat : Chats, job : Jobs \cup {None}])
    /\ chats \subseteq ever /\ ever \subseteq Chats
    /\ left \in [Chats -> Drafts] /\ moves \in 0..MaxMoves

Item(k, j) == [kind |-> k, job |-> j]
Event(k, c, j) == [kind |-> k, chat |-> c, job |-> j]
ActiveIn(js, c) == \E j \in Jobs : js[j].state \in Active /\ js[j].chat = c

Init ==
    \E cs \in SUBSET Chats : \E c \in cs :
    /\ chats = cs /\ ever = cs
    /\ window = [current |-> c, composer |-> Blank, enabled |-> TRUE,
                 drafts |-> [d \in Chats |-> Blank],
                 pending |-> None, line |-> <<>>, draftOf |-> None,
                 dialog |-> FALSE, prompt |-> FALSE, inFlight |-> FALSE,
                 awaited |-> {}, spoilt |-> {}]
    /\ modal = [kind |-> "none", chat |-> None]
    /\ pool = <<>> /\ signals = <<>> /\ events = <<>>
    /\ jobs = [j \in Jobs |-> [state |-> "none", chat |-> None, desktop |-> FALSE]]
    /\ left = [d \in Chats |-> Blank] /\ moves = 0

-----------------------------------------------------------------------------
(* The methods of ChatWindow, as functions on its fields.                  *)

(* _update_composer_state.                                                 *)
Composer(w, js) ==
    [w EXCEPT !.enabled = /\ w.current # None /\ w.pending = None
                          /\ ~ActiveIn(js, w.current)
                          /\ \A j \in w.awaited : js[j].chat # w.current]

(* Mutant: the draft that waits for an authorization is not protected.     *)
SavedAlways(w) ==
    IF w.current = None THEN w ELSE [w EXCEPT !.drafts[w.current] = w.composer]

(* _save_current_draft: the composer of the chat in which an authorization *)
(* was shown has been cleared, and its draft is already kept.              *)
Saved(w) ==
    IF w.current = None \/ (w.pending # None /\ w.current = w.draftOf /\ ~w.enabled)
    THEN w ELSE [w EXCEPT !.drafts[w.current] = w.composer]

(* _restore_current_draft.                                                 *)
Restored(w) ==
    [w EXCEPT !.composer = IF w.current = None THEN Blank ELSE w.drafts[w.current]]

(* _activate_conversation.                                                 *)
Activated(w, c, js) ==
    IF c = w.current THEN w
    ELSE Composer(Restored([Saved(w) EXCEPT !.current = c]), js)

(* refresh_conversations: the preferred chat, else the first of the list.  *)
Selected(cs, preferred) ==
    IF preferred \in cs THEN {preferred} ELSE IF cs # {} THEN cs ELSE {None}

Refreshed(w, c, js) ==
    IF c # w.current THEN Activated(w, c, js)
    ELSE IF c = None THEN Composer(w, js) ELSE w

(* Mutant: the composer keeps the text of a deleted chat.                  *)
DiscardedKept(w, c) == [w EXCEPT !.drafts[c] = Blank]

(* _discard_draft.                                                         *)
Discarded(w, c) ==
    [w EXCEPT !.drafts[c] = Blank,
              !.composer = IF c = w.current THEN Blank ELSE @]

(* _show_pending_authorization clears the composer, and keeps the draft of *)
(* the chat only the first time: a text in another chat is spoilt.         *)
Shown(w) ==
    LET kept == IF w.draftOf = None THEN [Saved(w) EXCEPT !.draftOf = w.current] ELSE w
    IN  [kept EXCEPT !.composer.text = None, !.enabled = FALSE,
                     !.spoilt = IF w.draftOf \notin {None, w.current}
                                THEN @ \cup ({w.current} \ {None}) ELSE @]

(* Mutant: a request that meets another one replaces it.                   *)
AskedReplacing(w, j, auto) ==
    IF j = w.pending THEN w
    ELSE Shown([w EXCEPT !.pending = j, !.prompt = @ \/ auto])

(* request_authorization: one at a time, in the order of arrival.          *)
Asked(w, j, auto) ==
    IF j = w.pending \/ j \in ToSet(w.line) THEN w
    ELSE IF w.pending # None THEN [w EXCEPT !.line = Append(@, j)]
    ELSE Shown([w EXCEPT !.pending = j, !.prompt = @ \/ auto])

(* _finish_pending_authorization.                                          *)
Finished(w, js) ==
    LET w1 == [w EXCEPT !.pending = None, !.inFlight = FALSE] IN
    IF w.line # <<>>
    THEN Shown([w1 EXCEPT !.pending = Head(w.line), !.line = Tail(@),
                          !.prompt = @ \/ js[Head(w.line)].desktop])
    ELSE LET w2 == [w1 EXCEPT !.draftOf = None]
         IN  Composer(IF w.draftOf = w.current THEN Restored(w2) ELSE w2, js)

-----------------------------------------------------------------------------
Quiet == modal.kind = "none" /\ ~window.dialog
Elsewhere == UNCHANGED <<pool, signals, jobs, events, chats, ever>>

(* The owner types; the new text replaces the old one.                     *)
Type ==
    /\ Quiet /\ window.enabled
    /\ window.composer.text # window.current
    /\ window' = [window EXCEPT !.composer.text = window.current]
    /\ left' = [left EXCEPT ![window.current].text = window.current]
    /\ UNCHANGED modal /\ Elsewhere

(* choose_attachments: the dialog, and the files added to what is then the *)
(* composer.                                                               *)
ChooseFiles ==
    /\ Quiet /\ window.enabled
    /\ modal' = [kind |-> "files", chat |-> window.current]
    /\ UNCHANGED <<window, left>> /\ Elsewhere

FilesChosen(some) ==
    /\ modal.kind = "files" /\ ~window.dialog
    /\ modal' = [kind |-> "none", chat |-> None]
    /\ IF some
       THEN /\ window' = [window EXCEPT
                 !.composer.files = @ \cup {modal.chat},
                 !.spoilt = IF window.pending # None \/ window.current # modal.chat
                            THEN @ \cup ({window.current, modal.chat} \ {None}) ELSE @]
            /\ left' = [left EXCEPT ![modal.chat].files = @ \cup {modal.chat}]
       ELSE UNCHANGED <<window, left>>
    /\ Elsewhere

(* clear_attachments: its button stays enabled, also while a draft with    *)
(* the same files waits for an authorization.                              *)
ClearFiles ==
    /\ Quiet /\ window.composer.files # {}
    /\ window' = [window EXCEPT
         !.composer.files = {},
         !.spoilt = IF window.pending # None THEN @ \cup ({window.current} \ {None}) ELSE @]
    /\ IF window.current = None THEN UNCHANGED left
       ELSE left' = [left EXCEPT ![window.current].files = {}]
    /\ UNCHANGED modal /\ Elsewhere

(* start_work_task: refused for a chat that is gone or has a job, and for  *)
(* reasons of its own (a long text, too many jobs).                        *)
Started(j, c, w) ==
    /\ jobs[j].state = "none"
    /\ \/ /\ c \in chats /\ ~ActiveIn(jobs, c)
          /\ jobs' = [jobs EXCEPT ![j] = [state |-> "queued", chat |-> c, desktop |-> TRUE]]
          /\ pool' = Append(pool, Item("wait", j))
          /\ UNCHANGED signals
       \/ /\ jobs' = [jobs EXCEPT ![j] = [state |-> "refused", chat |-> c, desktop |-> TRUE]]
          /\ signals' = Append(signals, Item("error", j))
          /\ UNCHANGED pool
    /\ window' = Composer([w EXCEPT !.drafts[c] = Blank, !.awaited = @ \cup {j}], jobs')
    /\ UNCHANGED <<modal, events, chats, ever>>

(* send and _submit_message.  What is refused is gone from the composer.   *)
Send(j) ==
    /\ Quiet /\ window.enabled /\ window.composer # Blank
    /\ Started(j, window.current, [window EXCEPT !.composer = Blank])
    /\ left' = [left EXCEPT ![window.current] = Blank]

(* submit_quick_message, from the bubble: it also drops the saved draft of *)
(* the chat, which an authorization may have put away.                     *)
QuickSend(j) ==
    /\ Quiet /\ window.current # None
    /\ Started(j, window.current,
               [window EXCEPT !.spoilt = IF window.pending # None
                                         THEN @ \cup {window.current} ELSE @])
    /\ UNCHANGED left

(* A click on the list; the window is shown; "+ Nueva".                    *)
Select(c) ==
    /\ Quiet /\ c \in chats /\ c # window.current
    /\ window' = Activated(window, c, jobs)
    /\ UNCHANGED <<modal, left>> /\ Elsewhere

Refresh ==
    /\ \E c \in Selected(chats, window.current) : window' = Refreshed(window, c, jobs)
    /\ UNCHANGED <<modal, left>> /\ Elsewhere

New(c) ==
    /\ Quiet /\ c \notin ever
    /\ chats' = chats \cup {c} /\ ever' = ever \cup {c}
    /\ window' = Refreshed(window, c, jobs)
    /\ UNCHANGED <<modal, left, pool, signals, jobs, events>>

(* closeEvent: every draft and every file is given up; the text stays in   *)
(* the hidden window, unless it was put away for an authorization.         *)
Close ==
    /\ Quiet
    /\ window' = [window EXCEPT !.drafts = [c \in Chats |-> Blank], !.composer.files = {}]
    /\ left' = [c \in Chats |-> IF c = window.current /\ ~(window.pending # None /\ c = window.draftOf)
                                THEN [text |-> window.composer.text, files |-> {}] ELSE Blank]
    /\ UNCHANGED modal /\ Elsewhere

(* delete_current_conversation: the tests, the question, the deletion.     *)
InLine(c) == \E j \in ToSet(window.line) \cup ({window.pending} \ {None}) : jobs[j].chat = c

AskDelete ==
    /\ Quiet /\ window.current # None
    /\ \A j \in window.awaited : jobs[j].chat # window.current
    /\ ~InLine(window.current)
    /\ modal' = [kind |-> "delete", chat |-> window.current]
    /\ UNCHANGED <<window, left>> /\ Elsewhere

(* The turn lock must be free, which the chat of a phone may prevent.      *)
Deletable(c) == c \in chats /\ \A j \in Jobs : jobs[j].state \notin Inside

AnswerDelete(yes) ==
    /\ modal.kind = "delete" /\ ~window.dialog
    /\ modal' = [kind |-> "none", chat |-> None]
    /\ IF yes /\ Deletable(modal.chat)
       THEN LET w == [Discarded(window, modal.chat) EXCEPT !.current = None] IN
            /\ chats' = chats \ {modal.chat}
            /\ events' = Append(events, Event("deleted", modal.chat, None))
            /\ \E c \in Selected(chats', None) : window' = Refreshed(w, c, jobs)
            /\ left' = [left EXCEPT ![modal.chat] = Blank]
       ELSE UNCHANGED <<chats, events, window, left>>
    /\ UNCHANGED <<pool, signals, jobs, ever>>

-----------------------------------------------------------------------------
(* authorize_pending, by the timer or by the button.                       *)
MayAuthorize == window.pending # None /\ ~window.dialog /\ ~window.inFlight

Prompt ==
    /\ window.prompt
    /\ window' = [window EXCEPT !.prompt = FALSE, !.dialog = MayAuthorize \/ @]
    /\ UNCHANGED <<modal, left>> /\ Elsewhere

Confirm ==
    /\ Quiet /\ MayAuthorize
    /\ window' = [window EXCEPT !.dialog = TRUE]
    /\ UNCHANGED <<modal, left>> /\ Elsewhere

(* The dialog is cancelled; or a first password could not be saved; or the *)
(* password goes to the thread.                                            *)
Reject ==
    /\ window.dialog
    /\ window' = [Finished(window, jobs) EXCEPT !.dialog = FALSE]
    /\ UNCHANGED <<modal, left, pool, signals, jobs, events, chats, ever>>

Accept(saved) ==
    /\ window.dialog
    /\ window' = [window EXCEPT !.dialog = FALSE, !.inFlight = saved]
    /\ pool' = IF saved THEN Append(pool, Item("authorize", window.pending)) ELSE pool
    /\ UNCHANGED <<modal, left, signals, jobs, events, chats, ever>>

-----------------------------------------------------------------------------
(* The thread of Bridge.  A wait ends with its job: with the stored reply  *)
(* if there is one under the reply id, else with an error.                 *)
Emit(signal) ==
    /\ signals' = Append(signals, signal)
    /\ pool' = Tail(pool)
    /\ UNCHANGED <<window, modal, jobs, events, chats, ever, left>>

Wait(j) ==
    /\ pool # <<>> /\ Head(pool) = Item("wait", j)
    /\ jobs[j].state \notin Active
    /\ Emit(Item(CASE jobs[j].state = "answered" -> "reply"
                   [] jobs[j].state = "asked" -> "asks"
                   [] OTHER -> "error", j))

(* authorize_action (Authorization): a wrong password may be tried again;  *)
(* a right one is used up, also when the action then raises; one that      *)
(* comes too late is refused for good.                                     *)
Authorize(j) ==
    /\ pool # <<>> /\ Head(pool) = Item("authorize", j)
    /\ Emit(Item("again", j)) \/ Emit(Item("done", j)) \/ Emit(Item("broken", j))

(* _finish_request: the question is no longer waited for.                  *)
Answered(w, j) == [w EXCEPT !.awaited = @ \ {j}]

(* on_authorization_result, on_authorization_error: a wrong password and an *)
(* error leave the authorization open, anything else ends it.              *)
Authorized(w, s) == IF s.kind = "done" THEN Finished(w, jobs) ELSE [w EXCEPT !.inFlight = FALSE]

(* on_reply, on_error, and the result of an authorization.                 *)
Signal ==
    /\ signals # <<>>
    /\ signals' = Tail(signals)
    /\ LET s == Head(signals)
           done == Answered(window, s.job)
       IN  \/ /\ s.kind \in {"reply", "asks"}
              /\ \E c \in Selected(chats, window.current) :
                    LET w == Refreshed(done, c, jobs)
                    IN  window' = Composer(IF s.kind = "asks" THEN Asked(w, s.job, TRUE) ELSE w,
                                           jobs)
           \/ s.kind = "error" /\ window' = Composer(done, jobs)
           \/ s.kind \in {"again", "broken", "done"} /\ window' = Authorized(window, s)
    /\ UNCHANGED <<modal, left, pool, jobs, events, chats, ever>>

(* handle_service_event, and the part of poll_events about authorizations. *)
Handled(w, e) ==
    CASE e.kind = "progress" -> {IF e.chat = w.current THEN Composer(w, jobs) ELSE w}
      [] e.kind = "authorization" -> {Asked(w, e.job, FALSE)}
      [] e.kind = "deleted" ->
            {Refreshed(Discarded(w, e.chat), c, jobs) : c \in Selected(chats, w.current)}

(* The windows that the events up to i may lead to, one after the other.   *)
Polled[i \in 0 .. Len(events)] ==
    IF i = 0 THEN {window} ELSE UNION {Handled(w, events[i]) : w \in Polled[i - 1]}

(* poll_events empties the queue.                                          *)
Poll ==
    /\ events # <<>> /\ events' = <<>>
    /\ window' \in Polled[Len(events)]
    /\ left' = [c \in Chats |-> IF \E i \in DOMAIN events : events[i] = Event("deleted", c, None)
                               THEN Blank ELSE left[c]]
    /\ UNCHANGED <<modal, pool, signals, jobs, chats, ever>>

-----------------------------------------------------------------------------
(* The service: a job enters the turn lock, may ask for the password, and  *)
(* ends; it fails if its chat is gone.  The challenge of the desktop comes *)
(* with the reply; that of a phone is announced by an event.               *)
Becomes(j, s) == jobs' = [jobs EXCEPT ![j].state = s]
Tell(e) == events' = IF events # <<>> /\ Last(events) = e THEN events ELSE Append(events, e)

Enter(j) ==
    /\ jobs[j].state = "queued"
    /\ \A k \in Jobs : jobs[k].state \notin Inside
    /\ Becomes(j, IF jobs[j].chat \in chats THEN "active" ELSE "failed")
    /\ Tell(Event("progress", jobs[j].chat, None))
    /\ UNCHANGED <<window, modal, pool, signals, chats, ever, left>>

Challenge(j) ==
    /\ jobs[j].state = "active"
    /\ Becomes(j, "asking")
    /\ IF jobs[j].desktop THEN UNCHANGED events ELSE Tell(Event("authorization", jobs[j].chat, j))
    /\ UNCHANGED <<window, modal, pool, signals, chats, ever, left>>

End(j) ==
    /\ jobs[j].state \in Inside
    /\ \/ jobs[j].state = "active" /\ (Becomes(j, "answered") \/ Becomes(j, "failed"))
       \/ jobs[j].state = "asking" /\ Becomes(j, "asked")
    /\ Tell(Event("progress", jobs[j].chat, None))
    /\ UNCHANGED <<window, modal, pool, signals, chats, ever, left>>

(* A phone starts a job, or deletes a chat.                                *)
PhoneStarts(j, c) ==
    /\ jobs[j].state = "none" /\ c \in chats /\ ~ActiveIn(jobs, c)
    /\ jobs' = [jobs EXCEPT ![j] = [state |-> "queued", chat |-> c, desktop |-> FALSE]]
    /\ UNCHANGED <<window, modal, pool, signals, events, chats, ever, left>>

PhoneDeletes(c) ==
    /\ Deletable(c)
    /\ chats' = chats \ {c}
    /\ Tell(Event("deleted", c, None))
    /\ UNCHANGED <<window, modal, pool, signals, jobs, ever, left>>

Owner ==
    \/ /\ \/ Type \/ Refresh \/ Confirm \/ Reject
          \/ \E b \in BOOLEAN : FilesChosen(b) \/ AnswerDelete(b) \/ Accept(b)
          \/ \E j \in Jobs : Send(j)
          \/ \E c \in Chats : Select(c)
          \/ \E j \in Jobs, c \in Chats : PhoneStarts(j, c)
       /\ UNCHANGED moves
    \/ /\ \/ ChooseFiles \/ ClearFiles \/ Close \/ AskDelete
          \/ \E j \in Jobs : QuickSend(j)
          \/ \E c \in Chats : New(c) \/ PhoneDeletes(c)
       /\ moves < MaxMoves /\ moves' = moves + 1

Thread == \E j \in Jobs : Wait(j) \/ Authorize(j)
Service == \E j \in Jobs : Enter(j) \/ End(j)

Next ==
    \/ Owner
    \/ /\ \/ Thread \/ Service \/ Prompt \/ Signal \/ Poll
          \/ \E j \in Jobs : Challenge(j)
       /\ UNCHANGED moves

Spec == Init /\ [][Next]_vars

-----------------------------------------------------------------------------
(* Whenever the owner may write in a chat, its composer holds what the     *)
(* owner left there, whatever authorizations, replies and deletions came   *)
(* in between.  Excepted are the chats in which the code does not keep it: *)
(* the composer was cleared by a second authorization shown in another     *)
(* chat than the first, or a quick message, a file or the removal of files *)
(* met an authorization.                                                   *)
DraftsReturn ==
    window.enabled /\ window.current \notin window.spoilt =>
        window.composer = left[window.current]

(* No text is ever in the composer or the draft of another chat.           *)
NoLeak ==
    /\ window.composer.text \in {None, window.current}
    /\ \A c \in Chats : window.drafts[c].text \in {None, c}

(* The answer on its way is for the authorization shown, and there is      *)
(* exactly one: no second dialog, no result of another request.            *)
Verdicts == {"again", "done", "broken"}
ToCheck == {i \in DOMAIN pool : pool[i].kind = "authorize"}
Checked == {i \in DOMAIN signals : signals[i].kind \in Verdicts}

OneAnswer ==
    /\ window.inFlight =>
          \/ \E i \in ToCheck : ToCheck = {i} /\ pool[i].job = window.pending /\ Checked = {}
          \/ \E i \in Checked : Checked = {i} /\ signals[i].job = window.pending /\ ToCheck = {}
    /\ ~window.inFlight => ToCheck = {} /\ Checked = {}
    /\ window.dialog => window.pending # None /\ ~window.inFlight

=============================================================================
