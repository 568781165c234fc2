---------------------- MODULE ConversationStorage_proofs ---------------------
(***************************************************************************)
(* Theorems about the store of files, for any uploads, contents, messages, *)
(* sizes and limits.  Careful is the inductive invariant.  Its parts follow *)
(* a content through the stages: which objects a loop still has to do,     *)
(* which rows and files the others have, and who may still send an upload. *)
(***************************************************************************)
EXTENDS ConversationStorage, TLAPS

(* Only the loops that take back or sweep hold a content, and it is theirs *)
(* to do; a renamed file is one of the sweep.                              *)
InHand ==
    /\ now \in todo <=> stage \in {"unlink", "drop", "shred"}
    /\ held # {} => stage \in {"drop", "shred"}

(* Before it is bound a question refers to nothing; its contents get their *)
(* files and then their rows.                                              *)
Prepared ==
    /\ stage \in Archiving \cup {"takeback"} => attached[asking] = {}
    /\ stage = "write" => ContentsOf(batch) \subseteq files \cup todo
    /\ stage = "register" => ContentsOf(batch) \subseteq files
    /\ stage = "bind" => ContentsOf(batch) \subseteq rows \cap files

(* What a loop takes back or sweeps has no reference, and only that.       *)
Unneeded ==
    /\ stage \in {"quarantine", "drop", "shred"} => todo \cap Referenced = {}
    /\ stage \in {"quarantine", "drop"} => rows \subseteq Referenced \cup todo
    /\ stage = "shred" => rows \subseteq Referenced \cup (todo \ {now})
    /\ stage = "orphans" => rows \subseteq Referenced

(* An upload of a question is no longer in memory, but for the one that is *)
(* about to be consumed.                                                   *)
Unsent ==
    /\ \A m \in Messages : attached[m] \cap pending # {} => stage = "discard" /\ m = asking
    /\ stage = "discard" => attached[asking] = batch
    /\ stage \in Asking => batch # {}
    /\ stage \in Asking => \A m \in Messages \ {asking} : attached[m] \cap batch = {}

(* As long as nothing failed: the objects each stage has beside those that *)
(* are referred to.                                                        *)
Exact ==
    faults = 0 =>
        /\ stage \in {"idle", "check", "discard", "takeback", "orphans"} =>
               rows = Referenced /\ files = Referenced
        /\ stage = "write" => rows = Referenced /\ files \cup todo = Referenced \cup ContentsOf(batch)
        /\ stage \in {"write", "register", "bind"} => fresh = ContentsOf(batch) \ Referenced
        /\ stage = "register" => rows = Referenced /\ files = Referenced \cup ContentsOf(batch)
        /\ stage = "bind" => /\ rows = Referenced \cup ContentsOf(batch)
                             /\ files = Referenced \cup ContentsOf(batch)
        /\ stage \in {"undo", "unlink"} => /\ rows = Referenced /\ files = Referenced \cup todo
                                           /\ todo \cap Referenced = {} /\ told = TRUE
        /\ stage = "quarantine" => rows = Referenced \cup todo /\ files = rows
        /\ stage = "drop" => rows = Referenced \cup todo /\ files = rows \ {now}
        /\ stage = "shred" => rows = Referenced \cup (todo \ {now}) /\ files = rows
        /\ \A m \in messages \ {asking} : attached[m] # {}

Careful ==
    /\ TypeOK /\ InHand /\ Prepared /\ Unneeded /\ Unsent /\ Exact
    /\ AttachedIsKept /\ SentOnce
    /\ faults = 0 => stray = {}

-----------------------------------------------------------------------------
(* What is referred to, element by element.                                *)
LEMMA ReferencedIs ==
    \A c : c \in Referenced <=> \E m \in Messages : \E u \in attached[m] : c = Content[u]
BY DEF Referenced, ContentsOf

(* A step that leaves the attachments alone leaves the references alone.   *)
LEMMA ReferencedStays ==
    ASSUME UNCHANGED attached
    PROVE  Referenced' = Referenced
BY DEF Referenced, ContentsOf

(* Binding adds the contents of the batch.                                 *)
LEMMA ReferencedGrows ==
    ASSUME TypeOK, asking \in Messages, attached[asking] = {},
           attached' = [attached EXCEPT ![asking] = batch]
    PROVE  Referenced' = Referenced \cup ContentsOf(batch)
<1>1. \A m \in Messages : attached'[m] = IF m = asking THEN batch ELSE attached[m]
    BY DEF TypeOK
<1>2. \A c : c \in Referenced' <=> \E m \in Messages : \E u \in attached'[m] : c = Content[u]
    BY DEF Referenced, ContentsOf
<1>3. \A c : c \in ContentsOf(batch) <=> \E u \in batch : c = Content[u]
    BY DEF ContentsOf
<1>4. ASSUME NEW c PROVE c \in Referenced' <=> c \in Referenced \/ c \in ContentsOf(batch)
    BY <1>1, <1>2, <1>3, ReferencedIs
<1>5. QED
    BY <1>4

(* Deleting a conversation only removes references.                        *)
LEMMA ReferencedShrinks ==
    ASSUME TypeOK, NEW c \in Chats, Delete(c)
    PROVE  Referenced' \subseteq Referenced /\ todo' = rows \ Referenced'
<1>1. \A m \in Messages : attached'[m] \subseteq attached[m]
    BY DEF TypeOK, Delete
<1>2. \A d : d \in Referenced' <=> \E m \in Messages : \E u \in attached'[m] : d = Content[u]
    BY DEF Referenced, ContentsOf
<1>3. Referenced' \subseteq Referenced
    BY <1>1, <1>2, ReferencedIs
<1>4. todo' = rows \ Referenced'
    BY DEF Delete, Referenced
<1>5. QED
    BY <1>3, <1>4

(* The contents of uploads are contents.                                   *)
LEMMA ContentsTyped ==
    ASSUME NEW us \in SUBSET Uploads
    PROVE  ContentsOf(us) \subseteq Contents
BY StorageAssumption DEF ContentsOf

(* What is referred to is a content.                                       *)
LEMMA ReferencedTyped ==
    ASSUME TypeOK
    PROVE  Referenced \subseteq Contents
<1>1. \A m \in Messages : attached[m] \subseteq Uploads
    BY DEF TypeOK
<1>2. QED
    BY <1>1, ReferencedIs, StorageAssumption

-----------------------------------------------------------------------------
(* The initial state.                                                      *)
LEMMA CarefulInit == Init => Careful
<1> SUFFICES ASSUME Init PROVE Careful
    OBVIOUS
<1> USE StorageAssumption
<1>1. Referenced = {}
    BY ReferencedIs DEF Init
<1>f. Flags
    BY Zenon DEF Init, Flags
<1>2. TypeOK
    BY <1>f DEF Init, TypeOK, Stages, Asking, Archiving, Sweeping
<1>3. InHand /\ Prepared
    BY DEF Init, InHand, Prepared, Archiving
<1>4. Unneeded /\ Unsent /\ Exact
    BY <1>1 DEF Init, Unneeded, Unsent, Exact, Asking, Archiving
<1>5. AttachedIsKept /\ SentOnce /\ (faults = 0 => stray = {})
    BY <1>1 DEF Init, AttachedIsKept, SentOnce
<1>6. QED
    BY <1>2, <1>3, <1>4, <1>5 DEF Careful

-----------------------------------------------------------------------------
(* Every action keeps it.                                                  *)
LEMMA CarefulStep == Careful /\ [Next]_vars => Careful'
<1> SUFFICES ASSUME Careful, [Next]_vars PROVE Careful'
    OBVIOUS
<1> USE StorageAssumption
<1>a. TypeOK /\ InHand /\ Prepared /\ Unneeded /\ Unsent /\ Exact
      /\ AttachedIsKept /\ SentOnce /\ (faults = 0 => stray = {})
    BY DEF Careful
<1>b. Referenced \subseteq Contents
    BY <1>a, ReferencedTyped
<1>1. ASSUME NEW u \in Uploads, Upload(u) PROVE Careful'
  <2>1. Referenced' = Referenced
    BY <1>1, ReferencedStays DEF Upload, memory, database, disk, locals
  <2>f. Flags'
    BY <1>a, <1>1, Zenon DEF Flags, TypeOK, Upload, memory, database, disk, locals
  <2>2. TypeOK'
    BY <1>a, <1>b, <1>1, <2>1, <2>f DEF TypeOK, InHand, Stages, Asking, Archiving, Sweeping, Upload, memory, database, disk, locals
  <2>3. InHand' /\ Prepared'
    BY <1>a, <1>b, <1>1, <2>1 DEF TypeOK, InHand, Prepared, Stages, Asking, Archiving, Sweeping, Upload, memory, database, disk, locals
  <2>4. Unneeded' /\ AttachedIsKept'
    BY <1>a, <1>b, <1>1, <2>1 DEF TypeOK, InHand, Prepared, Unneeded, AttachedIsKept, Stages, Asking, Archiving, Sweeping, Upload, memory, database, disk, locals
  <2>5. Unsent' /\ SentOnce'
    BY <1>a, <1>b, <1>1, <2>1 DEF TypeOK, InHand, Prepared, Unsent, SentOnce, Stages, Asking, Archiving, Sweeping, Upload, memory, database, disk, locals
  <2>6. Exact'
    BY <1>a, <1>b, <1>1, <2>1 DEF TypeOK, InHand, Prepared, Unneeded, Unsent, AttachedIsKept, Exact, Stages, Asking, Archiving, Sweeping, Upload, memory, database, disk, locals
  <2>7. (faults = 0 => stray = {})'
    BY <1>a, <1>b, <1>1, <2>1 DEF InHand, Upload, memory, database, disk, locals
  <2>8. QED
    BY <2>2, <2>3, <2>4, <2>5, <2>6, <2>7 DEF Careful
<1>2. ASSUME NEW u \in Uploads, Age(u) PROVE Careful'
  <2>1. Referenced' = Referenced
    BY <1>2, ReferencedStays DEF Age, memory, database, disk, locals
  <2>f. Flags'
    BY <1>a, <1>2, Zenon DEF Flags, TypeOK, Age, memory, database, disk, locals
  <2>2. TypeOK'
    BY <1>a, <1>b, <1>2, <2>1, <2>f DEF TypeOK, InHand, Stages, Asking, Archiving, Sweeping, Age, memory, database, disk, locals
  <2>3. InHand' /\ Prepared'
    BY <1>a, <1>b, <1>2, <2>1 DEF TypeOK, InHand, Prepared, Stages, Asking, Archiving, Sweeping, Age, memory, database, disk, locals
  <2>4. Unneeded' /\ AttachedIsKept'
    BY <1>a, <1>b, <1>2, <2>1 DEF TypeOK, InHand, Prepared, Unneeded, AttachedIsKept, Stages, Asking, Archiving, Sweeping, Age, memory, database, disk, locals
  <2>5. Unsent' /\ SentOnce'
    BY <1>a, <1>b, <1>2, <2>1 DEF TypeOK, InHand, Prepared, Unsent, SentOnce, Stages, Asking, Archiving, Sweeping, Age, memory, database, disk, locals
  <2>6. Exact'
    BY <1>a, <1>b, <1>2, <2>1 DEF TypeOK, InHand, Prepared, Unneeded, Unsent, AttachedIsKept, Exact, Stages, Asking, Archiving, Sweeping, Age, memory, database, disk, locals
  <2>7. (faults = 0 => stray = {})'
    BY <1>a, <1>b, <1>2, <2>1 DEF InHand, Age, memory, database, disk, locals
  <2>8. QED
    BY <2>2, <2>3, <2>4, <2>5, <2>6, <2>7 DEF Careful
<1>3. ASSUME NEW u \in Uploads, Discard(u) PROVE Careful'
  <2>1. Referenced' = Referenced
    BY <1>3, ReferencedStays DEF Discard, memory, database, disk, locals
  <2>f. Flags'
    BY <1>a, <1>3, Zenon DEF Flags, TypeOK, Discard, memory, database, disk, locals
  <2>2. TypeOK'
    BY <1>a, <1>b, <1>3, <2>1, <2>f DEF TypeOK, InHand, Stages, Asking, Archiving, Sweeping, Discard, memory, database, disk, locals
  <2>3. InHand' /\ Prepared'
    BY <1>a, <1>b, <1>3, <2>1 DEF TypeOK, InHand, Prepared, Stages, Asking, Archiving, Sweeping, Discard, memory, database, disk, locals
  <2>4. Unneeded' /\ AttachedIsKept'
    BY <1>a, <1>b, <1>3, <2>1 DEF TypeOK, InHand, Prepared, Unneeded, AttachedIsKept, Stages, Asking, Archiving, Sweeping, Discard, memory, database, disk, locals
  <2>5. Unsent' /\ SentOnce'
    BY <1>a, <1>b, <1>3, <2>1 DEF TypeOK, InHand, Prepared, Unsent, SentOnce, Stages, Asking, Archiving, Sweeping, Discard, memory, database, disk, locals
  <2>6. Exact'
    BY <1>a, <1>b, <1>3, <2>1 DEF TypeOK, InHand, Prepared, Unneeded, Unsent, AttachedIsKept, Exact, Stages, Asking, Archiving, Sweeping, Discard, memory, database, disk, locals
  <2>7. (faults = 0 => stray = {})'
    BY <1>a, <1>b, <1>3, <2>1 DEF InHand, Discard, memory, database, disk, locals
  <2>8. QED
    BY <2>2, <2>3, <2>4, <2>5, <2>6, <2>7 DEF Careful
<1>4. ASSUME NEW m \in Messages, NEW us \in SUBSET made, Ask(m, us) PROVE Careful'
  <2>1. Referenced' = Referenced
    BY <1>4, ReferencedStays DEF Ask, memory, database, disk, locals
  <2>f. Flags'
    BY <1>a, <1>4, Zenon DEF Flags, TypeOK, Ask, memory, database, disk, locals
  <2>2. TypeOK'
    BY <1>a, <1>b, <1>4, <2>1, <2>f DEF TypeOK, InHand, Stages, Asking, Archiving, Sweeping, Ask, memory, database, disk, locals
  <2>3. InHand' /\ Prepared'
    BY <1>a, <1>b, <1>4, <2>1 DEF TypeOK, InHand, Prepared, Stages, Asking, Archiving, Sweeping, Ask, memory, database, disk, locals
  <2>4. Unneeded' /\ AttachedIsKept'
    BY <1>a, <1>b, <1>4, <2>1 DEF TypeOK, InHand, Prepared, Unneeded, AttachedIsKept, Stages, Asking, Archiving, Sweeping, Ask, memory, database, disk, locals
  <2>5. Unsent' /\ SentOnce'
    <3>1. stage = "idle" /\ pending' \subseteq pending /\ attached' = attached
      BY <1>a, <1>4 DEF Ask, TypeOK, database
    <3>2. \A n \in Messages : attached[n] \cap pending = {}
      BY <1>a, <3>1 DEF Unsent
    <3>3. CASE us \subseteq pending \ old
      <4>a. stage' = "check" /\ batch' = us
        BY <1>4, <3>3 DEF Ask
      <4>b. us # {}
        BY <1>4 DEF Ask
      <4>1. stage' = "check" /\ batch' = us /\ us # {} /\ us \subseteq pending
        BY <4>a, <4>b, <3>3
      <4>2. QED
        BY <1>a, <3>1, <3>2, <4>1 DEF Unsent, SentOnce
    <3>4. CASE ~(us \subseteq pending \ old)
      <4>1. stage' = stage
        BY <1>4, <3>4 DEF Ask
      <4>2. QED
        BY <1>a, <3>1, <3>2, <4>1 DEF Unsent, SentOnce, Asking, Archiving
    <3>5. QED
      BY <3>3, <3>4
  <2>6. Exact'
    BY <1>a, <1>b, <1>4, <2>1 DEF TypeOK, InHand, Prepared, Unneeded, Unsent, AttachedIsKept, Exact, Stages, Asking, Archiving, Sweeping, Ask, memory, database, disk, locals
  <2>7. (faults = 0 => stray = {})'
    BY <1>a, <1>b, <1>4, <2>1 DEF InHand, Ask, memory, database, disk, locals
  <2>8. QED
    BY <2>2, <2>3, <2>4, <2>5, <2>6, <2>7 DEF Careful
<1>5. ASSUME NEW refused \in BOOLEAN, Check(refused) PROVE Careful'
  <2>1. Referenced' = Referenced
    BY <1>5, ReferencedStays DEF Check, memory, database, disk, locals
  <2>c. ContentsOf(batch) \subseteq Contents
    <3>1. batch \in SUBSET Uploads
      BY <1>a DEF TypeOK
    <3>2. QED
      BY <3>1, ContentsTyped
  <2>f. Flags'
    BY <1>a, <1>5, Zenon DEF Flags, TypeOK, Check, Missing, memory, database, disk, locals
  <2>2. TypeOK'
    <3>1. CASE refused
      BY <1>a, <1>5, <3>1, <2>f DEF TypeOK, InHand, Check, memory, database, disk, Stages, Asking, Archiving, Sweeping
    <3>2. CASE ~refused
      BY <1>a, <1>5, <3>2, <2>c, <2>f DEF TypeOK, InHand, Check, Missing, memory, database, disk, Stages, Asking, Archiving, Sweeping
    <3>3. QED
      BY <3>1, <3>2
  <2>3. InHand' /\ Prepared'
    <3>1. CASE refused
      BY <1>a, <1>5, <3>1 DEF TypeOK, InHand, Prepared, Check, database, disk, Stages, Asking, Archiving, Sweeping
    <3>2. CASE ~refused
      BY <1>a, <1>5, <3>2, <2>c DEF TypeOK, InHand, Prepared, Check, Missing, database, disk, Stages, Asking, Archiving, Sweeping
    <3>3. QED
      BY <3>1, <3>2
  <2>4. Unneeded' /\ AttachedIsKept'
    BY <1>a, <1>b, <1>5, <2>1 DEF TypeOK, InHand, Prepared, Unneeded, AttachedIsKept, Stages, Asking, Archiving, Sweeping, Check, Missing, memory, database, disk, locals
  <2>5. Unsent' /\ SentOnce'
    BY <1>a, <1>b, <1>5, <2>1 DEF TypeOK, InHand, Prepared, Unsent, SentOnce, Stages, Asking, Archiving, Sweeping, Check, Missing, memory, database, disk, locals
  <2>6. Exact'
    BY <1>a, <1>b, <1>5, <2>1 DEF TypeOK, InHand, Prepared, Unneeded, Unsent, AttachedIsKept, Exact, Stages, Asking, Archiving, Sweeping, Check, Missing, memory, database, disk, locals
  <2>7. (faults = 0 => stray = {})'
    BY <1>a, <1>b, <1>5, <2>1 DEF InHand, Check, Missing, memory, database, disk, locals
  <2>8. QED
    BY <2>2, <2>3, <2>4, <2>5, <2>6, <2>7 DEF Careful
<1>6. ASSUME NEW c \in Contents, Write(c) PROVE Careful'
  <2>1. Referenced' = Referenced
    BY <1>6, ReferencedStays DEF Write, memory, database, disk, locals
  <2>f. Flags'
    BY <1>a, <1>6, Zenon DEF Flags, TypeOK, Write, memory, database, disk, locals
  <2>2. TypeOK'
    BY <1>a, <1>b, <1>6, <2>1, <2>f DEF TypeOK, InHand, Stages, Asking, Archiving, Sweeping, Write, memory, database, disk, locals
  <2>3. InHand' /\ Prepared'
    BY <1>a, <1>b, <1>6, <2>1 DEF TypeOK, InHand, Prepared, Stages, Asking, Archiving, Sweeping, Write, memory, database, disk, locals
  <2>4. Unneeded' /\ AttachedIsKept'
    BY <1>a, <1>b, <1>6, <2>1 DEF TypeOK, InHand, Prepared, Unneeded, AttachedIsKept, Stages, Asking, Archiving, Sweeping, Write, memory, database, disk, locals
  <2>5. Unsent' /\ SentOnce'
    BY <1>a, <1>b, <1>6, <2>1 DEF TypeOK, InHand, Prepared, Unsent, SentOnce, Stages, Asking, Archiving, Sweeping, Write, memory, database, disk, locals
  <2>6. Exact'
    BY <1>a, <1>b, <1>6, <2>1 DEF TypeOK, InHand, Prepared, Unneeded, Unsent, AttachedIsKept, Exact, Stages, Asking, Archiving, Sweeping, Write, memory, database, disk, locals
  <2>7. (faults = 0 => stray = {})'
    BY <1>a, <1>b, <1>6, <2>1 DEF InHand, Write, memory, database, disk, locals
  <2>8. QED
    BY <2>2, <2>3, <2>4, <2>5, <2>6, <2>7 DEF Careful
<1>7. ASSUME NEW c \in Contents, WriteFails(c) PROVE Careful'
  <2>1. Referenced' = Referenced
    BY <1>7, ReferencedStays DEF WriteFails, Abandon, Fault, memory, database, disk, locals
  <2>f. Flags'
    BY <1>a, <1>7, Zenon DEF Flags, TypeOK, WriteFails, Abandon, Fault, memory, database, disk, locals
  <2>2. TypeOK'
    BY <1>a, <1>b, <1>7, <2>1, <2>f DEF TypeOK, InHand, Stages, Asking, Archiving, Sweeping, WriteFails, Abandon, Fault, memory, database, disk, locals
  <2>3. InHand' /\ Prepared'
    BY <1>a, <1>b, <1>7, <2>1 DEF TypeOK, InHand, Prepared, Stages, Asking, Archiving, Sweeping, WriteFails, Abandon, Fault, memory, database, disk, locals
  <2>4. Unneeded' /\ AttachedIsKept'
    BY <1>a, <1>b, <1>7, <2>1 DEF TypeOK, InHand, Prepared, Unneeded, AttachedIsKept, Stages, Asking, Archiving, Sweeping, WriteFails, Abandon, Fault, memory, database, disk, locals
  <2>5. Unsent' /\ SentOnce'
    BY <1>a, <1>b, <1>7, <2>1 DEF TypeOK, InHand, Prepared, Unsent, SentOnce, Stages, Asking, Archiving, Sweeping, WriteFails, Abandon, Fault, memory, database, disk, locals
  <2>6. Exact'
    BY <1>a, <1>b, <1>7, <2>1 DEF TypeOK, InHand, Prepared, Unneeded, Unsent, AttachedIsKept, Exact, Stages, Asking, Archiving, Sweeping, WriteFails, Abandon, Fault, memory, database, disk, locals
  <2>7. (faults = 0 => stray = {})'
    BY <1>a, <1>b, <1>7, <2>1 DEF TypeOK, InHand, WriteFails, Abandon, Fault, memory, database, disk, locals
  <2>8. QED
    BY <2>2, <2>3, <2>4, <2>5, <2>6, <2>7 DEF Careful
<1>8. CASE Written
  <2>1. Referenced' = Referenced
    BY <1>8, ReferencedStays DEF Written, memory, database, disk, locals
  <2>f. Flags'
    BY <1>a, <1>8, Zenon DEF Flags, TypeOK, Written, memory, database, disk, locals
  <2>2. TypeOK'
    BY <1>a, <1>b, <1>8, <2>1, <2>f DEF TypeOK, InHand, Stages, Asking, Archiving, Sweeping, Written, memory, database, disk, locals
  <2>3. InHand' /\ Prepared'
    BY <1>a, <1>b, <1>8, <2>1 DEF TypeOK, InHand, Prepared, Stages, Asking, Archiving, Sweeping, Written, memory, database, disk, locals
  <2>4. Unneeded' /\ AttachedIsKept'
    BY <1>a, <1>b, <1>8, <2>1 DEF TypeOK, InHand, Prepared, Unneeded, AttachedIsKept, Stages, Asking, Archiving, Sweeping, Written, memory, database, disk, locals
  <2>5. Unsent' /\ SentOnce'
    BY <1>a, <1>b, <1>8, <2>1 DEF TypeOK, InHand, Prepared, Unsent, SentOnce, Stages, Asking, Archiving, Sweeping, Written, memory, database, disk, locals
  <2>6. Exact'
    BY <1>a, <1>b, <1>8, <2>1 DEF TypeOK, InHand, Prepared, Unneeded, Unsent, AttachedIsKept, Exact, Stages, Asking, Archiving, Sweeping, Written, memory, database, disk, locals
  <2>7. (faults = 0 => stray = {})'
    BY <1>a, <1>b, <1>8, <2>1 DEF InHand, Written, memory, database, disk, locals
  <2>8. QED
    BY <2>2, <2>3, <2>4, <2>5, <2>6, <2>7 DEF Careful
<1>9. CASE Register
  <2>1. Referenced' = Referenced
    BY <1>9, ReferencedStays DEF Register, Abandon, Fault, memory, database, disk, locals
  <2>c. ContentsOf(batch) \subseteq Contents
    <3>1. batch \in SUBSET Uploads
      BY <1>a DEF TypeOK
    <3>2. QED
      BY <3>1, ContentsTyped
  <2>f. Flags'
    BY <1>a, <1>9, Zenon DEF Flags, TypeOK, Register, Abandon, Fault, memory, database, disk, locals
  <2>2. TypeOK'
    BY <1>a, <1>9, <2>c, <2>f DEF TypeOK, InHand, Register, Abandon, Fault, memory, disk, Stages, Asking, Archiving, Sweeping
  <2>3. InHand' /\ Prepared'
    BY <1>a, <1>b, <1>9, <2>1 DEF TypeOK, InHand, Prepared, Stages, Asking, Archiving, Sweeping, Register, Abandon, Fault, memory, database, disk, locals
  <2>4. Unneeded' /\ AttachedIsKept'
    BY <1>a, <1>b, <1>9, <2>1 DEF TypeOK, InHand, Prepared, Unneeded, AttachedIsKept, Stages, Asking, Archiving, Sweeping, Register, Abandon, Fault, memory, database, disk, locals
  <2>5. Unsent' /\ SentOnce'
    BY <1>a, <1>b, <1>9, <2>1 DEF TypeOK, InHand, Prepared, Unsent, SentOnce, Stages, Asking, Archiving, Sweeping, Register, Abandon, Fault, memory, database, disk, locals
  <2>6. Exact'
    BY <1>a, <1>b, <1>9, <2>1 DEF TypeOK, InHand, Prepared, Unneeded, Unsent, AttachedIsKept, Exact, Stages, Asking, Archiving, Sweeping, Register, Abandon, Fault, memory, database, disk, locals
  <2>7. (faults = 0 => stray = {})'
    BY <1>a, <1>b, <1>9, <2>1 DEF TypeOK, InHand, Register, Abandon, Fault, memory, database, disk, locals
  <2>8. QED
    BY <2>2, <2>3, <2>4, <2>5, <2>6, <2>7 DEF Careful
<1>10. CASE Bind
  <2>1. \/ Referenced' = Referenced
        \/ stage' = "discard" /\ Referenced' = Referenced \cup ContentsOf(batch)
    <3>1. asking \in Messages /\ attached[asking] = {}
      BY <1>a, <1>10 DEF Bind, TypeOK, Prepared, Asking, Archiving
    <3>2. CASE attached' = attached
      <4>1. Referenced' = Referenced
        BY <3>2, ReferencedStays
      <4>2. QED
        BY <4>1, Zenon
    <3>3. CASE attached' = [attached EXCEPT ![asking] = batch] /\ stage' = "discard"
      BY <1>a, <3>1, <3>3, ReferencedGrows
    <3>4. QED
      BY <1>10, <3>2, <3>3 DEF Bind
  <2>f. Flags'
    BY <1>a, <1>10, Zenon DEF Flags, TypeOK, Bind, Abandon, Fault, memory, database, disk, locals
  <2>2. TypeOK'
    BY <1>a, <1>b, <1>10, <2>1, <2>f DEF TypeOK, InHand, Stages, Asking, Archiving, Sweeping, Bind, Abandon, Fault, memory, database, disk, locals
  <2>3. InHand' /\ Prepared'
    BY <1>a, <1>b, <1>10, <2>1 DEF TypeOK, InHand, Prepared, Stages, Asking, Archiving, Sweeping, Bind, Abandon, Fault, memory, database, disk, locals
  <2>4. Unneeded' /\ AttachedIsKept'
    BY <1>a, <1>b, <1>10, <2>1 DEF TypeOK, InHand, Prepared, Unneeded, AttachedIsKept, Stages, Asking, Archiving, Sweeping, Bind, Abandon, Fault, memory, database, disk, locals
  <2>5. Unsent' /\ SentOnce'
    BY <1>a, <1>b, <1>10, <2>1 DEF TypeOK, InHand, Prepared, Unsent, SentOnce, Stages, Asking, Archiving, Sweeping, Bind, Abandon, Fault, memory, database, disk, locals
  <2>6. Exact'
    <3>1. CASE Fault
      <4>1. faults' # 0
        BY <1>a, <3>1 DEF Fault, TypeOK
      <4>2. QED
        BY <4>1 DEF Exact
    <3>2. CASE ~Fault
      <4>1. /\ attached' = [attached EXCEPT ![asking] = batch] /\ stage' = "discard" /\ stage = "bind"
            /\ faults' = faults /\ files' = files /\ rows' = rows
            /\ messages' = messages /\ asking' = asking
        BY <1>10, <3>2 DEF Bind, disk
      <4>2. asking \in Messages /\ attached[asking] = {}
        BY <1>a, <4>1 DEF TypeOK, Prepared, Asking, Archiving
      <4>3. Referenced' = Referenced \cup ContentsOf(batch)
        BY <1>a, <4>1, <4>2, ReferencedGrows
      <4>4. \A m \in messages' \ {asking'} : attached'[m] # {}  \/ faults # 0
        BY <1>a, <4>1, <4>2 DEF TypeOK, Exact
      <4>5. QED
        BY <1>a, <4>1, <4>3, <4>4 DEF Exact
    <3>3. QED
      BY <3>1, <3>2
  <2>7. (faults = 0 => stray = {})'
    BY <1>a, <1>b, <1>10, <2>1 DEF TypeOK, InHand, Bind, Abandon, Fault, memory, database, disk, locals
  <2>8. QED
    BY <2>2, <2>3, <2>4, <2>5, <2>6, <2>7 DEF Careful
<1>11. CASE Consume
  <2>1. Referenced' = Referenced
    BY <1>11, ReferencedStays DEF Consume, Consumed, Release, Forget, memory, database, disk, locals
  <2>f. Flags'
    BY <1>a, <1>11, Zenon DEF Flags, TypeOK, Consume, Consumed, Release, Forget, memory, database, disk, locals
  <2>2. TypeOK'
    BY <1>a, <1>b, <1>11, <2>1, <2>f DEF TypeOK, InHand, Stages, Asking, Archiving, Sweeping, Consume, Consumed, Release, Forget, memory, database, disk, locals
  <2>3. InHand' /\ Prepared'
    BY <1>a, <1>b, <1>11, <2>1 DEF TypeOK, InHand, Prepared, Stages, Asking, Archiving, Sweeping, Consume, Consumed, Release, Forget, memory, database, disk, locals
  <2>4. Unneeded' /\ AttachedIsKept'
    BY <1>a, <1>b, <1>11, <2>1 DEF TypeOK, InHand, Prepared, Unneeded, AttachedIsKept, Stages, Asking, Archiving, Sweeping, Consume, Consumed, Release, Forget, memory, database, disk, locals
  <2>5. Unsent' /\ SentOnce'
    BY <1>a, <1>b, <1>11, <2>1 DEF TypeOK, InHand, Prepared, Unsent, SentOnce, Stages, Asking, Archiving, Sweeping, Consume, Consumed, Release, Forget, memory, database, disk, locals
  <2>6. Exact'
    BY <1>a, <1>b, <1>11, <2>1 DEF TypeOK, InHand, Prepared, Unneeded, Unsent, AttachedIsKept, Exact, Stages, Asking, Archiving, Sweeping, Consume, Consumed, Release, Forget, memory, database, disk, locals
  <2>7. (faults = 0 => stray = {})'
    BY <1>a, <1>b, <1>11, <2>1 DEF InHand, Consume, Consumed, Release, Forget, memory, database, disk, locals
  <2>8. QED
    BY <2>2, <2>3, <2>4, <2>5, <2>6, <2>7 DEF Careful
<1>12. ASSUME NEW c \in Contents, Undo(c) PROVE Careful'
  <2>1. Referenced' = Referenced
    BY <1>12, ReferencedStays DEF Undo, Deleted, Fault, memory, database, disk, locals
  <2>f. Flags'
    BY <1>a, <1>12, Zenon DEF Flags, TypeOK, Undo, Deleted, Fault, memory, database, disk, locals
  <2>2. TypeOK'
    BY <1>a, <1>b, <1>12, <2>1, <2>f DEF TypeOK, InHand, Stages, Asking, Archiving, Sweeping, Undo, Deleted, Fault, memory, database, disk, locals
  <2>3. InHand' /\ Prepared'
    BY <1>a, <1>b, <1>12, <2>1 DEF TypeOK, InHand, Prepared, Stages, Asking, Archiving, Sweeping, Undo, Deleted, Fault, memory, database, disk, locals
  <2>4. Unneeded' /\ AttachedIsKept'
    BY <1>a, <1>b, <1>12, <2>1 DEF TypeOK, InHand, Prepared, Unneeded, AttachedIsKept, Stages, Asking, Archiving, Sweeping, Undo, Deleted, Fault, memory, database, disk, locals
  <2>5. Unsent' /\ SentOnce'
    BY <1>a, <1>b, <1>12, <2>1 DEF TypeOK, InHand, Prepared, Unsent, SentOnce, Stages, Asking, Archiving, Sweeping, Undo, Deleted, Fault, memory, database, disk, locals
  <2>6. Exact'
    <3>1. CASE Fault
      <4>1. faults' # 0
        BY <1>a, <3>1 DEF Fault, TypeOK
      <4>2. QED
        BY <4>1 DEF Exact
    <3>2. CASE ~Fault
      <4>1. /\ rows' = Deleted(c) /\ stage' = "unlink" /\ now' = c /\ todo' = todo
            /\ told' = told /\ faults' = faults /\ files' = files /\ stage = "undo" /\ c \in todo
            /\ messages' = messages /\ asking' = asking /\ attached' = attached
        BY <1>12, <3>2 DEF Undo, database, disk
      <4>2. QED
        BY <1>a, <2>1, <4>1 DEF Exact, Deleted
    <3>3. QED
      BY <3>1, <3>2
  <2>7. (faults = 0 => stray = {})'
    BY <1>a, <1>b, <1>12, <2>1 DEF TypeOK, InHand, Undo, Deleted, Fault, memory, database, disk, locals
  <2>8. QED
    BY <2>2, <2>3, <2>4, <2>5, <2>6, <2>7 DEF Careful
<1>13. CASE Unlink
  <2>1. Referenced' = Referenced
    BY <1>13, ReferencedStays DEF Unlink, Fault, memory, database, disk, locals
  <2>f. Flags'
    BY <1>a, <1>13, Zenon DEF Flags, TypeOK, Unlink, Fault, memory, database, disk, locals
  <2>2. TypeOK'
    BY <1>a, <1>b, <1>13, <2>1, <2>f DEF TypeOK, InHand, Stages, Asking, Archiving, Sweeping, Unlink, Fault, memory, database, disk, locals
  <2>3. InHand' /\ Prepared'
    BY <1>a, <1>b, <1>13, <2>1 DEF TypeOK, InHand, Prepared, Stages, Asking, Archiving, Sweeping, Unlink, Fault, memory, database, disk, locals
  <2>4. Unneeded' /\ AttachedIsKept'
    BY <1>a, <1>b, <1>13, <2>1 DEF TypeOK, InHand, Prepared, Unneeded, AttachedIsKept, Stages, Asking, Archiving, Sweeping, Unlink, Fault, memory, database, disk, locals
  <2>5. Unsent' /\ SentOnce'
    BY <1>a, <1>b, <1>13, <2>1 DEF TypeOK, InHand, Prepared, Unsent, SentOnce, Stages, Asking, Archiving, Sweeping, Unlink, Fault, memory, database, disk, locals
  <2>6. Exact'
    BY <1>a, <1>b, <1>13, <2>1 DEF TypeOK, InHand, Prepared, Unneeded, Unsent, AttachedIsKept, Exact, Stages, Asking, Archiving, Sweeping, Unlink, Fault, memory, database, disk, locals
  <2>7. (faults = 0 => stray = {})'
    BY <1>a, <1>b, <1>13, <2>1 DEF TypeOK, InHand, Unlink, Fault, memory, database, disk, locals
  <2>8. QED
    BY <2>2, <2>3, <2>4, <2>5, <2>6, <2>7 DEF Careful
<1>14. CASE Undone
  <2>1. Referenced' = Referenced
    BY <1>14, ReferencedStays DEF Undone, Release, Forget, memory, database, disk, locals
  <2>f. Flags'
    BY <1>a, <1>14, Zenon DEF Flags, TypeOK, Undone, Release, Forget, memory, database, disk, locals
  <2>2. TypeOK'
    BY <1>a, <1>b, <1>14, <2>1, <2>f DEF TypeOK, InHand, Stages, Asking, Archiving, Sweeping, Undone, Release, Forget, memory, database, disk, locals
  <2>3. InHand' /\ Prepared'
    BY <1>a, <1>b, <1>14, <2>1 DEF TypeOK, InHand, Prepared, Stages, Asking, Archiving, Sweeping, Undone, Release, Forget, memory, database, disk, locals
  <2>4. Unneeded' /\ AttachedIsKept'
    BY <1>a, <1>b, <1>14, <2>1 DEF TypeOK, InHand, Prepared, Unneeded, AttachedIsKept, Stages, Asking, Archiving, Sweeping, Undone, Release, Forget, memory, database, disk, locals
  <2>5. Unsent' /\ SentOnce'
    BY <1>a, <1>b, <1>14, <2>1 DEF TypeOK, InHand, Prepared, Unsent, SentOnce, Stages, Asking, Archiving, Sweeping, Undone, Release, Forget, memory, database, disk, locals
  <2>6. Exact'
    BY <1>a, <1>b, <1>14, <2>1 DEF TypeOK, InHand, Prepared, Unneeded, Unsent, AttachedIsKept, Exact, Stages, Asking, Archiving, Sweeping, Undone, Release, Forget, memory, database, disk, locals
  <2>7. (faults = 0 => stray = {})'
    BY <1>a, <1>b, <1>14, <2>1 DEF InHand, Undone, Release, Forget, memory, database, disk, locals
  <2>8. QED
    BY <2>2, <2>3, <2>4, <2>5, <2>6, <2>7 DEF Careful
<1>15. CASE TakeBack
  <2>1. Referenced' = Referenced
    <3>1. attached' = attached
      BY <1>a, <1>15 DEF TakeBack, TypeOK, Prepared, Asking, Archiving
    <3>2. QED
      BY <3>1, ReferencedStays
  <2>f. Flags'
    BY <1>a, <1>15, Zenon DEF Flags, TypeOK, TakeBack, Release, Forget, Fault, memory, database, disk, locals
  <2>2. TypeOK'
    BY <1>a, <1>b, <1>15, <2>1, <2>f DEF TypeOK, InHand, Stages, Asking, Archiving, Sweeping, TakeBack, Release, Forget, Fault, memory, database, disk, locals
  <2>3. InHand' /\ Prepared'
    BY <1>a, <1>b, <1>15, <2>1 DEF TypeOK, InHand, Prepared, Stages, Asking, Archiving, Sweeping, TakeBack, Release, Forget, Fault, memory, database, disk, locals
  <2>4. Unneeded' /\ AttachedIsKept'
    BY <1>a, <1>b, <1>15, <2>1 DEF TypeOK, InHand, Prepared, Unneeded, AttachedIsKept, Stages, Asking, Archiving, Sweeping, TakeBack, Release, Forget, Fault, memory, database, disk, locals
  <2>5. Unsent' /\ SentOnce'
    BY <1>a, <1>b, <1>15, <2>1 DEF TypeOK, InHand, Prepared, Unsent, SentOnce, Stages, Asking, Archiving, Sweeping, TakeBack, Release, Forget, Fault, memory, database, disk, locals
  <2>6. Exact'
    BY <1>a, <1>b, <1>15, <2>1 DEF TypeOK, InHand, Prepared, Unneeded, Unsent, AttachedIsKept, Exact, Stages, Asking, Archiving, Sweeping, TakeBack, Release, Forget, Fault, memory, database, disk, locals
  <2>7. (faults = 0 => stray = {})'
    BY <1>a, <1>b, <1>15, <2>1 DEF TypeOK, InHand, TakeBack, Release, Forget, Fault, memory, database, disk, locals
  <2>8. QED
    BY <2>2, <2>3, <2>4, <2>5, <2>6, <2>7 DEF Careful
<1>16. ASSUME NEW c \in Chats, Delete(c) PROVE Careful'
  <2>1. Referenced' \subseteq Referenced /\ todo' = rows \ Referenced'
    BY <1>a, <1>16, ReferencedShrinks
  <2>f. Flags'
    BY <1>a, <1>16, Zenon DEF Flags, TypeOK, Delete, Kept, memory, database, disk, locals
  <2>2. TypeOK'
    BY <1>a, <1>b, <1>16, <2>1, <2>f DEF TypeOK, InHand, Stages, Asking, Archiving, Sweeping, Delete, Kept, memory, database, disk, locals
  <2>3. InHand' /\ Prepared'
    BY <1>a, <1>b, <1>16, <2>1 DEF TypeOK, InHand, Prepared, Stages, Asking, Archiving, Sweeping, Delete, Kept, memory, database, disk, locals
  <2>4. Unneeded' /\ AttachedIsKept'
    BY <1>a, <1>b, <1>16, <2>1 DEF TypeOK, InHand, Prepared, Unneeded, AttachedIsKept, Stages, Asking, Archiving, Sweeping, Delete, Kept, memory, database, disk, locals
  <2>5. Unsent' /\ SentOnce'
    BY <1>a, <1>b, <1>16, <2>1 DEF TypeOK, InHand, Prepared, Unsent, SentOnce, Stages, Asking, Archiving, Sweeping, Delete, Kept, memory, database, disk, locals
  <2>6. Exact'
    BY <1>a, <1>b, <1>16, <2>1 DEF TypeOK, InHand, Prepared, Unneeded, Unsent, AttachedIsKept, Exact, Stages, Asking, Archiving, Sweeping, Delete, Kept, memory, database, disk, locals
  <2>7. (faults = 0 => stray = {})'
    BY <1>a, <1>b, <1>16, <2>1 DEF InHand, Delete, Kept, memory, database, disk, locals
  <2>8. QED
    BY <2>2, <2>3, <2>4, <2>5, <2>6, <2>7 DEF Careful
<1>17. ASSUME NEW c \in Contents, Quarantine(c) PROVE Careful'
  <2>1. Referenced' = Referenced
    BY <1>17, ReferencedStays DEF Quarantine, Release, Forget, Fault, memory, database, disk, locals
  <2>f. Flags'
    BY <1>a, <1>17, Zenon DEF Flags, TypeOK, Quarantine, Release, Forget, Fault, memory, database, disk, locals
  <2>2. TypeOK'
    BY <1>a, <1>b, <1>17, <2>1, <2>f DEF TypeOK, InHand, Stages, Asking, Archiving, Sweeping, Quarantine, Release, Forget, Fault, memory, database, disk, locals
  <2>3. InHand' /\ Prepared'
    BY <1>a, <1>b, <1>17, <2>1 DEF TypeOK, InHand, Prepared, Stages, Asking, Archiving, Sweeping, Quarantine, Release, Forget, Fault, memory, database, disk, locals
  <2>4. Unneeded' /\ AttachedIsKept'
    BY <1>a, <1>b, <1>17, <2>1 DEF TypeOK, InHand, Prepared, Unneeded, AttachedIsKept, Stages, Asking, Archiving, Sweeping, Quarantine, Release, Forget, Fault, memory, database, disk, locals
  <2>5. Unsent' /\ SentOnce'
    BY <1>a, <1>b, <1>17, <2>1 DEF TypeOK, InHand, Prepared, Unsent, SentOnce, Stages, Asking, Archiving, Sweeping, Quarantine, Release, Forget, Fault, memory, database, disk, locals
  <2>6. Exact'
    BY <1>a, <1>b, <1>17, <2>1 DEF TypeOK, InHand, Prepared, Unneeded, Unsent, AttachedIsKept, Exact, Stages, Asking, Archiving, Sweeping, Quarantine, Release, Forget, Fault, memory, database, disk, locals
  <2>7. (faults = 0 => stray = {})'
    BY <1>a, <1>b, <1>17, <2>1 DEF TypeOK, InHand, Quarantine, Release, Forget, Fault, memory, database, disk, locals
  <2>8. QED
    BY <2>2, <2>3, <2>4, <2>5, <2>6, <2>7 DEF Careful
<1>18. CASE Drop
  <2>1. Referenced' = Referenced
    BY <1>18, ReferencedStays DEF Drop, Deleted, PutBack, LeaveRenamed, SweepFails, Release, Forget, Fault, memory, database, disk, locals
  <2>f. Flags'
    BY <1>a, <1>18, Zenon DEF Flags, TypeOK, Drop, Deleted, PutBack, LeaveRenamed, SweepFails, Release, Forget, Fault, memory, database, disk, locals
  <2>2. TypeOK'
    BY <1>a, <1>b, <1>18, <2>1, <2>f DEF TypeOK, InHand, Stages, Asking, Archiving, Sweeping, Drop, Deleted, PutBack, LeaveRenamed, SweepFails, Release, Forget, Fault, memory, database, disk, locals
  <2>3. InHand' /\ Prepared'
    BY <1>a, <1>b, <1>18, <2>1 DEF TypeOK, InHand, Prepared, Stages, Asking, Archiving, Sweeping, Drop, Deleted, PutBack, LeaveRenamed, SweepFails, Release, Forget, Fault, memory, database, disk, locals
  <2>4. Unneeded' /\ AttachedIsKept'
    BY <1>a, <1>b, <1>18, <2>1 DEF TypeOK, InHand, Prepared, Unneeded, AttachedIsKept, Stages, Asking, Archiving, Sweeping, Drop, Deleted, PutBack, LeaveRenamed, SweepFails, Release, Forget, Fault, memory, database, disk, locals
  <2>5. Unsent' /\ SentOnce'
    BY <1>a, <1>b, <1>18, <2>1 DEF TypeOK, InHand, Prepared, Unsent, SentOnce, Stages, Asking, Archiving, Sweeping, Drop, Deleted, PutBack, LeaveRenamed, SweepFails, Release, Forget, Fault, memory, database, disk, locals
  <2>6. Exact'
    <3>1. CASE Fault
      <4>1. faults' # 0
        BY <1>a, <3>1 DEF Fault, TypeOK
      <4>2. QED
        BY <4>1 DEF Exact
    <3>2. CASE ~Fault
      <4>1. /\ rows' = rows \ {now} /\ stage' = "shred" /\ stage = "drop" /\ now' = now
            /\ todo' = todo /\ files' = files /\ faults' = faults
            /\ messages' = messages /\ asking' = asking /\ attached' = attached
        BY <1>a, <1>18, <3>2 DEF Drop, SweepFails, Deleted, Unneeded, InHand, database, disk, locals
      <4>2. QED
        BY <1>a, <2>1, <4>1 DEF Exact, Unneeded, InHand
    <3>3. QED
      BY <3>1, <3>2
  <2>7. (faults = 0 => stray = {})'
    BY <1>a, <1>b, <1>18, <2>1 DEF TypeOK, InHand, Drop, Deleted, PutBack, LeaveRenamed, SweepFails, Release, Forget, Fault, memory, database, disk, locals
  <2>8. QED
    BY <2>2, <2>3, <2>4, <2>5, <2>6, <2>7 DEF Careful
<1>19. CASE Shred
  <2>1. Referenced' = Referenced
    BY <1>19, ReferencedStays DEF Shred, PutBack, LeaveRenamed, SweepFails, Release, Forget, Fault, memory, database, disk, locals
  <2>f. Flags'
    BY <1>a, <1>19, Zenon DEF Flags, TypeOK, Shred, PutBack, LeaveRenamed, SweepFails, Release, Forget, Fault, memory, database, disk, locals
  <2>2. TypeOK'
    BY <1>a, <1>b, <1>19, <2>1, <2>f DEF TypeOK, InHand, Stages, Asking, Archiving, Sweeping, Shred, PutBack, LeaveRenamed, SweepFails, Release, Forget, Fault, memory, database, disk, locals
  <2>3. InHand' /\ Prepared'
    BY <1>a, <1>b, <1>19, <2>1 DEF TypeOK, InHand, Prepared, Stages, Asking, Archiving, Sweeping, Shred, PutBack, LeaveRenamed, SweepFails, Release, Forget, Fault, memory, database, disk, locals
  <2>4. Unneeded' /\ AttachedIsKept'
    BY <1>a, <1>b, <1>19, <2>1 DEF TypeOK, InHand, Prepared, Unneeded, AttachedIsKept, Stages, Asking, Archiving, Sweeping, Shred, PutBack, LeaveRenamed, SweepFails, Release, Forget, Fault, memory, database, disk, locals
  <2>5. Unsent' /\ SentOnce'
    BY <1>a, <1>b, <1>19, <2>1 DEF TypeOK, InHand, Prepared, Unsent, SentOnce, Stages, Asking, Archiving, Sweeping, Shred, PutBack, LeaveRenamed, SweepFails, Release, Forget, Fault, memory, database, disk, locals
  <2>6. Exact'
    BY <1>a, <1>b, <1>19, <2>1 DEF TypeOK, InHand, Prepared, Unneeded, Unsent, AttachedIsKept, Exact, Stages, Asking, Archiving, Sweeping, Shred, PutBack, LeaveRenamed, SweepFails, Release, Forget, Fault, memory, database, disk, locals
  <2>7. (faults = 0 => stray = {})'
    BY <1>a, <1>b, <1>19, <2>1 DEF TypeOK, InHand, Shred, PutBack, LeaveRenamed, SweepFails, Release, Forget, Fault, memory, database, disk, locals
  <2>8. QED
    BY <2>2, <2>3, <2>4, <2>5, <2>6, <2>7 DEF Careful
<1>20. CASE Swept
  <2>1. Referenced' = Referenced
    BY <1>20, ReferencedStays DEF Swept, memory, database, disk, locals
  <2>f. Flags'
    BY <1>a, <1>20, Zenon DEF Flags, TypeOK, Swept, memory, database, disk, locals
  <2>2. TypeOK'
    BY <1>a, <1>b, <1>20, <2>1, <2>f DEF TypeOK, InHand, Stages, Asking, Archiving, Sweeping, Swept, memory, database, disk, locals
  <2>3. InHand' /\ Prepared'
    BY <1>a, <1>b, <1>20, <2>1 DEF TypeOK, InHand, Prepared, Stages, Asking, Archiving, Sweeping, Swept, memory, database, disk, locals
  <2>4. Unneeded' /\ AttachedIsKept'
    BY <1>a, <1>b, <1>20, <2>1 DEF TypeOK, InHand, Prepared, Unneeded, AttachedIsKept, Stages, Asking, Archiving, Sweeping, Swept, memory, database, disk, locals
  <2>5. Unsent' /\ SentOnce'
    BY <1>a, <1>b, <1>20, <2>1 DEF TypeOK, InHand, Prepared, Unsent, SentOnce, Stages, Asking, Archiving, Sweeping, Swept, memory, database, disk, locals
  <2>6. Exact'
    BY <1>a, <1>b, <1>20, <2>1 DEF TypeOK, InHand, Prepared, Unneeded, Unsent, AttachedIsKept, Exact, Stages, Asking, Archiving, Sweeping, Swept, memory, database, disk, locals
  <2>7. (faults = 0 => stray = {})'
    BY <1>a, <1>b, <1>20, <2>1 DEF InHand, Swept, memory, database, disk, locals
  <2>8. QED
    BY <2>2, <2>3, <2>4, <2>5, <2>6, <2>7 DEF Careful
<1>21. ASSUME NEW c \in Contents, RemoveOrphan(c) PROVE Careful'
  <2>1. Referenced' = Referenced
    BY <1>21, ReferencedStays DEF RemoveOrphan, Orphans, Release, Forget, Fault, memory, database, disk, locals
  <2>f. Flags'
    BY <1>a, <1>21, Zenon DEF Flags, TypeOK, RemoveOrphan, Orphans, Release, Forget, Fault, memory, database, disk, locals
  <2>2. TypeOK'
    BY <1>a, <1>b, <1>21, <2>1, <2>f DEF TypeOK, InHand, Stages, Asking, Archiving, Sweeping, RemoveOrphan, Orphans, Release, Forget, Fault, memory, database, disk, locals
  <2>3. InHand' /\ Prepared'
    BY <1>a, <1>b, <1>21, <2>1 DEF TypeOK, InHand, Prepared, Stages, Asking, Archiving, Sweeping, RemoveOrphan, Orphans, Release, Forget, Fault, memory, database, disk, locals
  <2>4. Unneeded' /\ AttachedIsKept'
    BY <1>a, <1>b, <1>21, <2>1 DEF TypeOK, InHand, Prepared, Unneeded, AttachedIsKept, Stages, Asking, Archiving, Sweeping, RemoveOrphan, Orphans, Release, Forget, Fault, memory, database, disk, locals
  <2>5. Unsent' /\ SentOnce'
    BY <1>a, <1>b, <1>21, <2>1 DEF TypeOK, InHand, Prepared, Unsent, SentOnce, Stages, Asking, Archiving, Sweeping, RemoveOrphan, Orphans, Release, Forget, Fault, memory, database, disk, locals
  <2>6. Exact'
    BY <1>a, <1>b, <1>21, <2>1 DEF TypeOK, InHand, Prepared, Unneeded, Unsent, AttachedIsKept, Exact, Stages, Asking, Archiving, Sweeping, RemoveOrphan, Orphans, Release, Forget, Fault, memory, database, disk, locals
  <2>7. (faults = 0 => stray = {})'
    BY <1>a, <1>b, <1>21, <2>1 DEF TypeOK, InHand, RemoveOrphan, Orphans, Release, Forget, Fault, memory, database, disk, locals
  <2>8. QED
    BY <2>2, <2>3, <2>4, <2>5, <2>6, <2>7 DEF Careful
<1>22. CASE FinishSweep
  <2>1. Referenced' = Referenced
    BY <1>22, ReferencedStays DEF FinishSweep, Orphans, Release, Forget, memory, database, disk, locals
  <2>f. Flags'
    BY <1>a, <1>22, Zenon DEF Flags, TypeOK, FinishSweep, Orphans, Release, Forget, memory, database, disk, locals
  <2>2. TypeOK'
    BY <1>a, <1>b, <1>22, <2>1, <2>f DEF TypeOK, InHand, Stages, Asking, Archiving, Sweeping, FinishSweep, Orphans, Release, Forget, memory, database, disk, locals
  <2>3. InHand' /\ Prepared'
    BY <1>a, <1>b, <1>22, <2>1 DEF TypeOK, InHand, Prepared, Stages, Asking, Archiving, Sweeping, FinishSweep, Orphans, Release, Forget, memory, database, disk, locals
  <2>4. Unneeded' /\ AttachedIsKept'
    BY <1>a, <1>b, <1>22, <2>1 DEF TypeOK, InHand, Prepared, Unneeded, AttachedIsKept, Stages, Asking, Archiving, Sweeping, FinishSweep, Orphans, Release, Forget, memory, database, disk, locals
  <2>5. Unsent' /\ SentOnce'
    BY <1>a, <1>b, <1>22, <2>1 DEF TypeOK, InHand, Prepared, Unsent, SentOnce, Stages, Asking, Archiving, Sweeping, FinishSweep, Orphans, Release, Forget, memory, database, disk, locals
  <2>6. Exact'
    BY <1>a, <1>b, <1>22, <2>1 DEF TypeOK, InHand, Prepared, Unneeded, Unsent, AttachedIsKept, Exact, Stages, Asking, Archiving, Sweeping, FinishSweep, Orphans, Release, Forget, memory, database, disk, locals
  <2>7. (faults = 0 => stray = {})'
    BY <1>a, <1>b, <1>22, <2>1 DEF InHand, FinishSweep, Orphans, Release, Forget, memory, database, disk, locals
  <2>8. QED
    BY <2>2, <2>3, <2>4, <2>5, <2>6, <2>7 DEF Careful
<1>23. ASSUME NEW c \in Contents \cup {NoContent}, Crash(c) PROVE Careful'
  <2>1. Referenced' = Referenced
    BY <1>23, ReferencedStays DEF Crash, Fault, Temporary, Release, Forget, memory, database, disk, locals
  <2>f. Flags'
    BY <1>a, <1>23, Zenon DEF Flags, TypeOK, Crash, Fault, Temporary, Release, Forget, memory, database, disk, locals
  <2>2. TypeOK'
    BY <1>a, <1>b, <1>23, <2>1, <2>f DEF TypeOK, InHand, Stages, Asking, Archiving, Sweeping, Crash, Fault, Temporary, Release, Forget, memory, database, disk, locals
  <2>3. InHand' /\ Prepared'
    BY <1>a, <1>b, <1>23, <2>1 DEF TypeOK, InHand, Prepared, Stages, Asking, Archiving, Sweeping, Crash, Fault, Temporary, Release, Forget, memory, database, disk, locals
  <2>4. Unneeded' /\ AttachedIsKept'
    BY <1>a, <1>b, <1>23, <2>1 DEF TypeOK, InHand, Prepared, Unneeded, AttachedIsKept, Stages, Asking, Archiving, Sweeping, Crash, Fault, Temporary, Release, Forget, memory, database, disk, locals
  <2>5. Unsent' /\ SentOnce'
    BY <1>a, <1>b, <1>23, <2>1 DEF TypeOK, InHand, Prepared, Unsent, SentOnce, Stages, Asking, Archiving, Sweeping, Crash, Fault, Temporary, Release, Forget, memory, database, disk, locals
  <2>6. Exact'
    BY <1>a, <1>b, <1>23, <2>1 DEF TypeOK, InHand, Prepared, Unneeded, Unsent, AttachedIsKept, Exact, Stages, Asking, Archiving, Sweeping, Crash, Fault, Temporary, Release, Forget, memory, database, disk, locals
  <2>7. (faults = 0 => stray = {})'
    BY <1>a, <1>b, <1>23, <2>1 DEF TypeOK, InHand, Crash, Fault, Temporary, Release, Forget, memory, database, disk, locals
  <2>8. QED
    BY <2>2, <2>3, <2>4, <2>5, <2>6, <2>7 DEF Careful
<1>24. CASE UNCHANGED vars
  <2>1. Referenced' = Referenced
    BY <1>24, ReferencedStays DEF memory, database, disk, locals, vars
  <2>f. Flags'
    BY <1>a, <1>24, Zenon DEF Flags, TypeOK, memory, database, disk, locals, vars
  <2>2. TypeOK'
    BY <1>a, <1>b, <1>24, <2>1, <2>f DEF TypeOK, InHand, Stages, Asking, Archiving, Sweeping, memory, database, disk, locals, vars
  <2>3. InHand' /\ Prepared'
    BY <1>a, <1>b, <1>24, <2>1 DEF TypeOK, InHand, Prepared, Stages, Asking, Archiving, Sweeping, memory, database, disk, locals, vars
  <2>4. Unneeded' /\ AttachedIsKept'
    BY <1>a, <1>b, <1>24, <2>1 DEF TypeOK, InHand, Prepared, Unneeded, AttachedIsKept, Stages, Asking, Archiving, Sweeping, memory, database, disk, locals, vars
  <2>5. Unsent' /\ SentOnce'
    BY <1>a, <1>b, <1>24, <2>1 DEF TypeOK, InHand, Prepared, Unsent, SentOnce, Stages, Asking, Archiving, Sweeping, memory, database, disk, locals, vars
  <2>6. Exact'
    BY <1>a, <1>b, <1>24, <2>1 DEF TypeOK, InHand, Prepared, Unneeded, Unsent, AttachedIsKept, Exact, Stages, Asking, Archiving, Sweeping, memory, database, disk, locals, vars
  <2>7. (faults = 0 => stray = {})'
    BY <1>a, <1>b, <1>24, <2>1 DEF InHand, memory, database, disk, locals, vars
  <2>8. QED
    BY <2>2, <2>3, <2>4, <2>5, <2>6, <2>7 DEF Careful
<1>25. CASE CheckRaises
  <2>1. Referenced' = Referenced
    BY <1>25, ReferencedStays DEF CheckRaises, Fault, Release, Forget, memory, database, disk, locals
  <2>f. Flags'
    BY <1>a, <1>25, Zenon DEF Flags, TypeOK, CheckRaises, Fault, Release, Forget, memory, database, disk, locals
  <2>2. TypeOK'
    BY <1>a, <1>b, <1>25, <2>1, <2>f DEF TypeOK, InHand, Stages, Asking, Archiving, Sweeping, CheckRaises, Fault, Release, Forget, memory, database, disk, locals
  <2>3. InHand' /\ Prepared'
    BY <1>a, <1>b, <1>25, <2>1 DEF TypeOK, InHand, Prepared, Stages, Asking, Archiving, Sweeping, CheckRaises, Fault, Release, Forget, memory, database, disk, locals
  <2>4. Unneeded' /\ AttachedIsKept'
    BY <1>a, <1>b, <1>25, <2>1 DEF TypeOK, InHand, Prepared, Unneeded, AttachedIsKept, Stages, Asking, Archiving, Sweeping, CheckRaises, Fault, Release, Forget, memory, database, disk, locals
  <2>5. Unsent' /\ SentOnce'
    BY <1>a, <1>b, <1>25, <2>1 DEF TypeOK, InHand, Prepared, Unsent, SentOnce, Stages, Asking, Archiving, Sweeping, CheckRaises, Fault, Release, Forget, memory, database, disk, locals
  <2>6. Exact'
    BY <1>a, <1>b, <1>25, <2>1 DEF TypeOK, InHand, Prepared, Unneeded, Unsent, AttachedIsKept, Exact, Stages, Asking, Archiving, Sweeping, CheckRaises, Fault, Release, Forget, memory, database, disk, locals
  <2>7. (faults = 0 => stray = {})'
    BY <1>a, <1>b, <1>25, <2>1 DEF TypeOK, InHand, CheckRaises, Fault, Release, Forget, memory, database, disk, locals
  <2>8. QED
    BY <2>2, <2>3, <2>4, <2>5, <2>6, <2>7 DEF Careful
<1>26. QED
    BY <1>1, <1>2, <1>3, <1>4, <1>5, <1>6, <1>7, <1>8, <1>9, <1>10, <1>11, <1>12, <1>13, <1>14, <1>15, <1>16, <1>17, <1>18, <1>19, <1>20, <1>21, <1>22, <1>23, <1>24, <1>25 DEF Next

(* Careful is an invariant.                                                *)
THEOREM CarefulInvariant == Spec => []Careful
<1>1. Init => Careful
    BY CarefulInit
<1>2. Careful /\ [Next]_vars => Careful'
    BY CarefulStep
<1>3. QED
    BY <1>1, <1>2, PTL DEF Spec

(* The variables keep their types: a question belongs to a conversation    *)
(* that exists, and has attachments only while it is stored.               *)
THEOREM TypeCorrect == Spec => []TypeOK
<1>1. Careful => TypeOK
    BY DEF Careful
<1>2. QED
    BY <1>1, CarefulInvariant, PTL

(* The file and the row of an attachment are there as long as its message. *)
THEOREM AttachedIsKeptHolds == Spec => []AttachedIsKept
<1>1. Careful => AttachedIsKept
    BY DEF Careful
<1>2. QED
    BY <1>1, CarefulInvariant, PTL

(* No upload is in two questions.                                          *)
THEOREM SentOnceHolds == Spec => []SentOnce
<1>1. Careful => SentOnce
    BY DEF Careful
<1>2. QED
    BY <1>1, CarefulInvariant, PTL

(* Without faults nothing is kept that is not referred to, under whatever  *)
(* name, and no question lacks its files.                                  *)
THEOREM NoTraceHolds == Spec => []NoTrace
<1>1. Careful => NoTrace
  <2>1. ASSUME Careful, faults = 0, stage = "idle"
        PROVE  rows = Referenced /\ files = Referenced /\ \A m \in messages : attached[m] # {}
    <3>1. asking = NoMessage /\ NoMessage \notin messages
      BY <2>1, StorageAssumption DEF Careful, TypeOK, Asking, Archiving
    <3>2. QED
      BY <2>1, <3>1 DEF Careful, Exact
  <2>2. Careful => (faults = 0 => stray = {})
    BY Zenon DEF Careful
  <2>3. QED
    BY <2>1, <2>2, Zenon DEF NoTrace
<1>2. QED
    BY <1>1, CarefulInvariant, PTL

(* A sweep that goes through leaves what is referred to and nothing else.  *)
THEOREM SweepCleansHolds == Spec => SweepCleans
<1> DEFINE Clean == stage = "orphans" /\ stage' = "idle" /\ faults' = faults
                      => rows' = Referenced' /\ files' = Referenced'
<1>1. Careful /\ [Next]_vars => [Clean]_vars
  <2> SUFFICES ASSUME Careful, Next, stage = "orphans", stage' = "idle", faults' = faults
               PROVE  rows' = Referenced' /\ files' = Referenced'
    OBVIOUS
  <2>1. faults \in Nat
    BY StorageAssumption DEF Careful, TypeOK
  <2>2. FinishSweep
    BY <2>1 DEF Next, Upload, Age, Discard, Ask, Check, CheckRaises, Write,
        WriteFails, Written, Register,
        Bind, Consume, Undo, Unlink, Undone, TakeBack, Delete, Quarantine, Drop, Shred, Swept,
        RemoveOrphan, Crash, SweepFails, Fault
  <2>3. Referenced' = Referenced
    BY <2>2, ReferencedStays DEF FinishSweep, database
  <2>4. QED
    BY <2>2, <2>3 DEF Careful, Unneeded, AttachedIsKept, FinishSweep, Orphans, database, disk
<1>2. QED
    BY <1>1, CarefulInvariant, PTL DEF Spec, SweepCleans
=============================================================================
