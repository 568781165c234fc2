------------------------- MODULE ConversationStorage -------------------------
(***************************************************************************)
(* The files of a conversation, from their upload to the sweep that        *)
(* removes them: AttachmentStore (attachments.py) holds uploads in memory, *)
(* ConversationStorage (conversation_storage.py) keeps each content once,  *)
(* in a file named by its SHA-256, and database.py keeps a row for each    *)
(* object and for each attachment of a message.                            *)
(*                                                                         *)
(* Archiving and sweeping run inside the turn lock of services.py, so one  *)
(* of them is under way at a time; uploads come and go meanwhile.  Between *)
(* two steps the process may end; a step on the disk or in the database    *)
(* may fail.  Disk space and the size of the database are the world's: the *)
(* checks on them may refuse at any time.                                  *)
(***************************************************************************)
EXTENDS Naturals, FiniteSets, FiniteSetsExt

CONSTANTS
    Uploads,        \* attachment ids of AttachmentStore (unique tokens)
    Contents, NoContent,
    Content,        \* the digest of each upload
    Size,           \* of each content
    Messages, NoMessage,    \* questions with files
    Chats,
    ChatOf,         \* of each message
    MaxStoreBytes,  \* of AttachmentStore
    Limit,          \* limit_bytes of the archive
    MaxFaults       \* bound: failed steps and ends of the process

ASSUME StorageAssumption ==
    /\ NoContent \notin Contents /\ NoMessage \notin Messages
    /\ Content \in [Uploads -> Contents]
    /\ Size \in [Contents -> Nat]
    /\ ChatOf \in [Messages -> Chats]
    /\ MaxStoreBytes \in Nat /\ Limit \in Nat /\ MaxFaults \in Nat

(* archive checks, writes, registers and binds; undo and unlink take it    *)
(* back in the store and takeback in the conversation.                     *)
(* delete_unreferenced quarantines, drops and shreds each object without   *)
(* reference, and then removes the files without a row.                    *)
Archiving == {"check", "write", "register", "bind", "undo", "unlink"}
Asking == Archiving \cup {"discard", "takeback"}
Sweeping == {"quarantine", "drop", "shred", "orphans"}
Stages == {"idle"} \cup Asking \cup Sweeping

VARIABLES
    pending, old,   \* uploads in memory, and those past their time
    made,           \* history: uploads ever made
    chats,          \* conversations of the database
    messages,       \* questions stored
    asked,          \* history: questions ever stored
    attached,       \* of each message: the uploads its attachment rows are of
    rows,           \* storage_objects
    files,          \* hash files, with their content
    stray,          \* contents left in a .tmp or .deleting file for good
    stage,          \* of the work inside the turn lock
    asking, batch,  \* its message, and the uploads claimed for it
    todo, now,      \* contents its loop has to do, and the one in hand
    fresh,          \* new_digests
    held,           \* contents whose file is a .deleting file of the sweep
    told,           \* the exception is one that takes the question back
    faults          \* history: faults so far

memory == <<pending, old, made>>
database == <<chats, messages, asked, attached, rows>>
disk == <<files, stray>>
locals == <<asking, batch, todo, now, fresh, held, told>>
vars == <<memory, database, disk, stage, locals, faults>>

BytesOf(cs) == LET SizeOf(c) == Size[c] IN MapThenSumSet(SizeOf, cs)
BytesIn(us) == LET SizeOf(u) == Size[Content[u]] IN MapThenSumSet(SizeOf, us)
ContentsOf(us) == {Content[u] : u \in us}
Referenced == UNION {ContentsOf(attached[m]) : m \in Messages}

Flags == told \in BOOLEAN

TypeOK ==
    /\ old \subseteq pending /\ pending \subseteq made /\ made \subseteq Uploads
    /\ chats \subseteq Chats
    /\ messages \subseteq asked /\ asked \subseteq Messages
    /\ \A m \in messages : ChatOf[m] \in chats
    /\ attached \in [Messages -> SUBSET made]
    /\ \A m \in Messages \ messages : attached[m] = {}
    /\ rows \subseteq Contents /\ files \subseteq Contents /\ stray \subseteq Contents
    /\ stage \in Stages
    /\ asking \in messages \cup {NoMessage}
    /\ asking = NoMessage <=> stage \notin Asking
    /\ batch \subseteq made
    /\ todo \subseteq Contents /\ fresh \subseteq Contents
    /\ now \in todo \cup {NoContent}
    /\ held \subseteq {now} \ {NoContent}
    /\ faults \in 0 .. MaxFaults
    /\ Flags

Init ==
    /\ pending = {} /\ old = {} /\ made = {}
    /\ chats = Chats
    /\ messages = {} /\ asked = {}
    /\ attached = [m \in Messages |-> {}]
    /\ rows = {} /\ files = {} /\ stray = {}
    /\ stage = "idle"
    /\ asking = NoMessage /\ batch = {} /\ todo = {} /\ now = NoContent /\ fresh = {}
    /\ held = {} /\ told = FALSE
    /\ faults = 0

-----------------------------------------------------------------------------
(* AttachmentStore, from the windows and the phone, at any time.           *)

(* add_bytes: what is past its time goes first.                            *)
Upload(u) ==
    /\ u \notin made
    /\ made' = made \cup {u}
    /\ old' = {}
    /\ pending' = (pending \ old) \cup
                  (IF BytesIn((pending \ old) \cup {u}) <= MaxStoreBytes THEN {u} ELSE {})
    /\ UNCHANGED <<database, disk, stage, locals, faults>>

(* An upload passes its ten minutes.                                       *)
Age(u) ==
    /\ u \in pending \ old
    /\ old' = old \cup {u}
    /\ UNCHANGED <<pending, made, database, disk, stage, locals, faults>>

(* discard, from a draft that is dropped or a window that closes, and from *)
(* a retry of a stored question.                                           *)
Discard(u) ==
    /\ u \in pending
    /\ pending' = pending \ {u} /\ old' = old \ {u}
    /\ UNCHANGED <<made, database, disk, stage, locals, faults>>

-----------------------------------------------------------------------------
(* The work inside the turn lock.                                          *)

Forget ==
    /\ asking' = NoMessage /\ batch' = {} /\ todo' = {} /\ now' = NoContent
    /\ fresh' = {} /\ held' = {} /\ told' = FALSE
Release == stage' = "idle" /\ Forget
Fault == faults < MaxFaults /\ faults' = faults + 1

(* _chat_locked claims the uploads of a new question without consuming     *)
(* them and stores the question.                                           *)
Ask(m, us) ==
    /\ stage = "idle"
    /\ m \notin asked /\ ChatOf[m] \in chats /\ us # {}
    /\ pending' = pending \ old /\ old' = {}
    /\ IF us \subseteq pending \ old
       THEN /\ messages' = messages \cup {m} /\ asked' = asked \cup {m}
            /\ stage' = "check" /\ asking' = m /\ batch' = us
            /\ UNCHANGED <<todo, now, fresh, held, told>>
       ELSE UNCHANGED <<messages, asked, stage, locals>>
    /\ UNCHANGED <<made, chats, attached, rows, disk, faults>>

(* Mutant: an object with a row is taken to have its file.                 *)
MissingRows(cs) == cs \ rows

Missing(cs) == cs \ files

(* The head of archive: the database may fill the quota, the disk may be   *)
(* near its reserve.                                                       *)
Check(refused) ==
    /\ stage = "check"
    /\ IF refused
       THEN stage' = "takeback" /\ UNCHANGED <<todo, fresh>>
       ELSE /\ stage' = "write"
            /\ todo' = Missing(ContentsOf(batch))
            /\ fresh' = ContentsOf(batch) \ rows
    /\ UNCHANGED <<memory, database, disk, asking, batch, now, held, told, faults>>

(* The database raises before anything was written: the question stays.    *)
CheckRaises ==
    /\ stage = "check"
    /\ Fault /\ Release
    /\ UNCHANGED <<memory, database, disk>>

(* _write_atomic of each content that has no file.                         *)
Write(c) ==
    /\ stage = "write" /\ c \in todo
    /\ files' = files \cup {c}
    /\ todo' = todo \ {c}
    /\ UNCHANGED <<memory, database, stray, stage, asking, batch, now, fresh, held, told, faults>>

(* Mutant: an exception leaves what archive had done.                      *)
AbandonAsIs(caught) == stage' = "undo" /\ todo' = {} /\ told' = caught

(* What follows an exception of archive; caught: ConversationStorageError  *)
(* and OSError, which _chat_locked turns into the removal of the question. *)
Abandon(caught) == stage' = "undo" /\ todo' = fresh /\ told' = caught

(* What keeps a file from being written may keep the .tmp file from being  *)
(* removed too: the finally of _write_atomic fails as well.                *)
WriteFails(c) ==
    /\ stage = "write" /\ c \in todo
    /\ stray' \in {stray, stray \cup {c}}
    /\ Abandon(TRUE) /\ Fault
    /\ UNCHANGED <<memory, database, files, asking, batch, now, fresh, held>>

Written ==
    /\ stage = "write" /\ todo = {}
    /\ stage' = "register"
    /\ UNCHANGED <<memory, database, disk, locals, faults>>

(* register_storage_objects; the quota left depends on the size of the     *)
(* database, so a refusal is possible whatever the objects measure.        *)
Register ==
    /\ stage = "register"
    /\ \/ /\ BytesOf(rows \cup ContentsOf(batch)) <= Limit
          /\ rows' = rows \cup ContentsOf(batch)
          /\ stage' = "bind"
          /\ UNCHANGED <<todo, told, faults>>
       \/ Abandon(TRUE) /\ UNCHANGED <<rows, faults>>
       \/ Abandon(FALSE) /\ Fault /\ UNCHANGED rows
    /\ UNCHANGED <<memory, chats, messages, asked, attached, disk, asking, batch, now, fresh, held>>

(* add_message_attachments, one transaction.                               *)
Bind ==
    /\ stage = "bind"
    /\ \/ /\ attached' = [attached EXCEPT ![asking] = batch]
          /\ stage' = "discard"
          /\ UNCHANGED <<todo, told, faults>>
       \/ Abandon(FALSE) /\ Fault /\ UNCHANGED attached
    /\ UNCHANGED <<memory, chats, messages, asked, rows, disk, asking, batch, now, fresh, held>>

(* Mutant: a question keeps the uploads it consumed for another one.       *)
ConsumedNever == {}

Consumed == batch

(* _chat_locked after archive; the turn goes on without the store.         *)
Consume ==
    /\ stage = "discard"
    /\ pending' = pending \ Consumed /\ old' = old \ Consumed
    /\ Release
    /\ UNCHANGED <<made, database, disk, faults>>

(* delete_storage_object_if_unreferenced.                                  *)
Deleted(c) == rows \ ({c} \ Referenced)

(* The except branch of archive, for each new digest: the row goes if      *)
(* nothing refers to it, then the file.  An exception here leaves the      *)
(* rest as it is and takes the place of the first one.                     *)
Undo(c) ==
    /\ stage = "undo" /\ c \in todo
    /\ \/ /\ rows' = Deleted(c)
          /\ stage' = "unlink" /\ now' = c
          /\ UNCHANGED <<told, todo, faults>>
       \/ /\ Fault /\ todo' = {} /\ told' = FALSE
          /\ UNCHANGED <<rows, stage, now>>
    /\ UNCHANGED <<memory, chats, messages, asked, attached, disk, asking, batch, fresh, held>>

Unlink ==
    /\ stage = "unlink"
    /\ stage' = "undo" /\ now' = NoContent
    /\ \/ /\ files' = IF now \in rows THEN files ELSE files \ {now}
          /\ todo' = todo \ {now}
          /\ UNCHANGED <<told, faults>>
       \/ Fault /\ todo' = {} /\ told' = TRUE /\ UNCHANGED files
    /\ UNCHANGED <<memory, database, stray, asking, batch, fresh, held>>

Undone ==
    /\ stage = "undo" /\ todo = {}
    /\ IF told THEN stage' = "takeback" /\ UNCHANGED locals ELSE Release
    /\ UNCHANGED <<memory, database, disk, faults>>

(* delete_message, which may itself fail.                                  *)
TakeBack ==
    /\ stage = "takeback"
    /\ \/ /\ messages' = messages \ {asking}
          /\ attached' = [attached EXCEPT ![asking] = {}]
          /\ UNCHANGED faults
       \/ Fault /\ UNCHANGED <<messages, attached>>
    /\ Release
    /\ UNCHANGED <<memory, chats, asked, rows, disk>>

-----------------------------------------------------------------------------
(* services.delete_conversation: the rows of the conversation go in one    *)
(* transaction, messages and attachments with it; then the sweep reads the *)
(* objects without reference.                                              *)
Kept(c) == {m \in messages : ChatOf[m] # c}

Delete(c) ==
    /\ stage = "idle" /\ c \in chats
    /\ chats' = chats \ {c}
    /\ messages' = Kept(c)
    /\ attached' = [m \in Messages |-> IF m \in Kept(c) THEN attached[m] ELSE {}]
    /\ stage' = "quarantine"
    /\ todo' = rows \ UNION {ContentsOf(attached'[m]) : m \in Messages}
    /\ UNCHANGED <<memory, asked, rows, disk, asking, batch, now, fresh, held, told, faults>>

(* Each object: its file is renamed, its row deleted, the renamed file     *)
(* unlinked.  A failure ends the sweep.                                    *)
Quarantine(c) ==
    /\ stage = "quarantine" /\ c \in todo
    /\ \/ /\ files' = files \ {c} /\ held' = {c} \cap files
          /\ now' = c /\ stage' = "drop"
          /\ UNCHANGED <<asking, batch, todo, fresh, told, faults>>
       \/ Fault /\ Release /\ UNCHANGED files
    /\ UNCHANGED <<memory, database, stray>>

(* The renamed file gets its name back, or keeps the other one for good.   *)
PutBack == files' = files \cup held /\ UNCHANGED stray
LeaveRenamed == stray' = stray \cup held /\ UNCHANGED files

(* The except branch: whatever made a step fail, a handle that is still    *)
(* open on the file, may make the rename fail too.                         *)
SweepFails == Fault /\ Release /\ (PutBack \/ LeaveRenamed)

Drop ==
    /\ stage = "drop"
    /\ \/ /\ rows' = Deleted(now)
          /\ IF now \in rows'
             THEN \/ /\ PutBack /\ stage' = "quarantine"
                     /\ todo' = todo \ {now} /\ now' = NoContent /\ held' = {}
                     /\ UNCHANGED <<asking, batch, fresh, told, faults>>
                  \/ held # {} /\ SweepFails
             ELSE /\ stage' = "shred"
                  /\ UNCHANGED <<disk, locals, faults>>
       \/ SweepFails /\ UNCHANGED rows
    /\ UNCHANGED <<memory, chats, messages, asked, attached>>

Shred ==
    /\ stage = "shred"
    /\ \/ /\ stage' = "quarantine"
          /\ todo' = todo \ {now} /\ now' = NoContent /\ held' = {}
          /\ UNCHANGED <<disk, asking, batch, fresh, told, faults>>
       \/ held # {} /\ SweepFails
    /\ UNCHANGED <<memory, database>>

Swept ==
    /\ stage = "quarantine" /\ todo = {}
    /\ stage' = "orphans"
    /\ UNCHANGED <<memory, database, disk, locals, faults>>

Orphans == files \ rows

RemoveOrphan(c) ==
    /\ stage = "orphans" /\ c \in Orphans
    /\ \/ files' = files \ {c} /\ UNCHANGED <<stage, locals, faults>>
       \/ Fault /\ Release /\ UNCHANGED files
    /\ UNCHANGED <<memory, database, stray>>

FinishSweep ==
    /\ stage = "orphans" /\ Orphans = {}
    /\ Release
    /\ UNCHANGED <<memory, database, disk, faults>>

-----------------------------------------------------------------------------
(* The process ends and starts again: uploads and locals are gone, and a   *)
(* file that was being written or unlinked stays under its other name.     *)
Temporary == IF stage = "write" THEN todo ELSE {}

Crash(c) ==
    /\ c \in Temporary \cup held \/ (c = NoContent /\ held = {})
    /\ Fault
    /\ pending' = {} /\ old' = {}
    /\ stray' = stray \cup ({c} \ {NoContent})
    /\ Release
    /\ UNCHANGED <<made, database, files>>

Next ==
    \/ \E u \in Uploads : Upload(u) \/ Age(u) \/ Discard(u)
    \/ \E m \in Messages, us \in SUBSET made : Ask(m, us)
    \/ \E refused \in BOOLEAN : Check(refused)
    \/ \E c \in Contents : \/ Write(c) \/ Undo(c)
                           \/ Quarantine(c) \/ RemoveOrphan(c) \/ WriteFails(c)
    \/ CheckRaises \/ Written \/ Register \/ Bind \/ Consume
    \/ Unlink \/ Undone \/ TakeBack
    \/ \E c \in Chats : Delete(c)
    \/ Drop \/ Shred \/ Swept \/ FinishSweep
    \/ \E c \in Contents \cup {NoContent} : Crash(c)

Spec == Init /\ [][Next]_vars

-----------------------------------------------------------------------------
(* A file of a conversation can always be opened: its object has its row   *)
(* and its file, also while objects without reference are taken back or    *)
(* swept, whatever failed and wherever the process ended.                  *)
AttachedIsKept == Referenced \subseteq rows \cap files

(* An upload is sent once: no two questions have it, although it is        *)
(* claimed before it is consumed.                                          *)
SentOnce == \A m, n \in Messages : m # n => attached[m] \cap attached[n] = {}

(* Without a fault the store, its rows and the conversations agree when    *)
(* the turn lock is free: a refusal by the quota leaves no trace, no file  *)
(* stays under another name, where no sweep would see it, and every        *)
(* question has all its files.                                             *)
NoTrace ==
    faults = 0 /\ stage = "idle" =>
        /\ rows = Referenced /\ files = Referenced /\ stray = {}
        /\ \A m \in messages : attached[m] # {}

(* A deletion whose sweep went through leaves exactly the objects that     *)
(* messages refer to, whatever earlier faults left behind.                 *)
SweepCleans ==
    [][stage = "orphans" /\ stage' = "idle" /\ faults' = faults
         => rows' = Referenced' /\ files' = Referenced']_vars
=============================================================================
