-------------------------- MODULE DesktopChat_proofs -------------------------
(***************************************************************************)
(* Theorems about the chat window, for any number of chats, jobs and moves *)
(* of the owner.  A handler is a composition of functions on the record    *)
(* `window', so that most of the argument is about these functions; what   *)
(* they preserve together is Sound.                                        *)
(***************************************************************************)
EXTENDS DesktopChat, WellFoundedInduction, TLAPS

(* Where what the owner left in a chat is kept: in the composer while the  *)
(* chat is open, else in its draft; the draft of the chat in which an      *)
(* authorization was shown first is put away until that is over.           *)
Held(w, c) == IF c # w.current \/ c = w.draftOf THEN w.drafts[c] ELSE w.composer

(* What the methods of the window preserve, for what the owner left, l.    *)
Kept(w, l) ==
    /\ w \in Windows
    /\ w.draftOf # None => w.pending # None
    /\ w.composer.text \in {None, w.current}
    /\ \A c \in Chats : w.drafts[c].text \in {None, c}
    /\ \A c \in Chats \ w.spoilt : Held(w, c) = l[c]

Sound(w, l) == Kept(w, l) /\ (w.enabled => w.current # None /\ w.pending = None)

Rows == [Jobs -> [state : States, chat : Chats \cup {None}, desktop : BOOLEAN]]

(* Between w and v no authorization was decided or replaced.               *)
Steady(w, v) ==
    /\ v.inFlight = w.inFlight /\ v.dialog = w.dialog
    /\ w.pending # None => v.pending = w.pending

LEMMA NoneApart == None \notin Chats /\ None \notin Jobs
BY DesktopAssumption

-----------------------------------------------------------------------------
(* The methods of ChatWindow.                                              *)
LEMMA ComposerSound ==
    ASSUME NEW l, NEW w, Kept(w, l), NEW js
    PROVE  /\ Sound(Composer(w, js), l) /\ Steady(w, Composer(w, js))
           /\ Composer(w, js).current = w.current
           /\ Composer(w, js).pending = w.pending
           /\ Composer(w, js).draftOf = w.draftOf
BY DEF Composer, Kept, Sound, Steady, Windows, Held

LEMMA SavedSound ==
    ASSUME NEW l, NEW w, Sound(w, l)
    PROVE  /\ Sound(Saved(w), l) /\ Steady(w, Saved(w))
           /\ Saved(w) = [w EXCEPT !.drafts = Saved(w).drafts]
           /\ \A c \in Chats \ w.spoilt : Saved(w).drafts[c] = l[c]
<1>1. CASE w.current = None \/ (w.pending # None /\ w.current = w.draftOf /\ ~w.enabled)
  BY <1>1, NoneApart DEF Saved, Kept, Sound, Steady, Windows, Held
<1>2. CASE ~(w.current = None \/ (w.pending # None /\ w.current = w.draftOf /\ ~w.enabled))
  <2>1. w.current \in Chats /\ w.current # w.draftOf
    BY <1>2 DEF Kept, Sound, Windows
  <2>2. Saved(w) = [w EXCEPT !.drafts[w.current] = w.composer]
    BY <1>2 DEF Saved
  <2>3. Saved(w).drafts \in [Chats -> Drafts]
    BY <2>1, <2>2 DEF Kept, Sound, Windows
  <2> QED BY <2>1, <2>2, <2>3 DEF Kept, Sound, Steady, Windows, Held
<1> QED BY <1>1, <1>2

(* Another chat is opened; Composer follows.                               *)
Opened(w, c) == Restored([Saved(w) EXCEPT !.current = c])

LEMMA OpenedKept ==
    ASSUME NEW l, NEW w, Sound(w, l), NEW c \in Chats \cup {None}
    PROVE  /\ Kept(Opened(w, c), l) /\ Steady(w, Opened(w, c))
           /\ Opened(w, c).current = c
<1> DEFINE s == Saved(w)
           v == [s EXCEPT !.current = c]
           b == IF c = None THEN Blank ELSE s.drafts[c]
<1>1. /\ Sound(s, l) /\ Steady(w, s) /\ s \in Windows
      /\ \A d \in Chats \ s.spoilt : s.drafts[d] = l[d]
  <2>1. Sound(s, l) /\ Steady(w, s)
    BY SavedSound
  <2>2. s = [w EXCEPT !.drafts = s.drafts] /\ \A d \in Chats \ w.spoilt : s.drafts[d] = l[d]
    BY SavedSound
  <2>3. s.spoilt = w.spoilt
    BY <2>2 DEF Sound, Kept, Windows
  <2> HIDE DEF s
  <2> QED BY <2>1, <2>2, <2>3 DEF Sound, Kept
<1>2. Opened(w, c) = [v EXCEPT !.composer = b]
  BY <1>1 DEF Opened, Restored, Windows
<1>3. b \in Drafts /\ b.text \in {None, c}
  BY <1>1 DEF Sound, Kept, Windows, Blank, Drafts
<1> HIDE DEF s, b
<1>4. Kept(Opened(w, c), l)
  <2>1. Opened(w, c) \in Windows
    BY <1>1, <1>2, <1>3 DEF Windows
  <2>2. \A d \in Chats \ s.spoilt : Held(Opened(w, c), d) = l[d]
    <3> SUFFICES ASSUME NEW d \in Chats \ s.spoilt PROVE Held(Opened(w, c), d) = l[d]
      OBVIOUS
    <3>1. s.drafts[d] = l[d] /\ Opened(w, c).drafts = s.drafts /\ Opened(w, c).current = c
      BY <1>1, <1>2 DEF Windows
    <3>2. d = c => Opened(w, c).composer = s.drafts[d]
      BY <1>1, <1>2, NoneApart DEF Windows, b
    <3> QED BY <3>1, <3>2 DEF Held
  <2> QED BY <1>1, <1>2, <1>3, <2>1, <2>2 DEF Sound, Kept, Windows
<1> QED BY <1>1, <1>2, <1>4 DEF Steady, Windows

LEMMA ActivatedSound ==
    ASSUME NEW l, NEW w, Sound(w, l), NEW c \in Chats \cup {None}, NEW js
    PROVE  /\ Sound(Activated(w, c, js), l) /\ Steady(w, Activated(w, c, js))
           /\ Activated(w, c, js).current = c
<1>1. CASE c = w.current
  BY <1>1 DEF Activated, Steady
<1>2. CASE c # w.current
  <2>1. Activated(w, c, js) = Composer(Opened(w, c), js)
    BY <1>2 DEF Activated, Opened
  <2> QED BY <2>1, OpenedKept, ComposerSound DEF Steady
<1> QED BY <1>1, <1>2

LEMMA RefreshedSound ==
    ASSUME NEW l, NEW w, Sound(w, l), NEW c \in Chats \cup {None}, NEW js
    PROVE  /\ Sound(Refreshed(w, c, js), l) /\ Steady(w, Refreshed(w, c, js))
           /\ Refreshed(w, c, js).current = c
<1>1. Steady(w, w)
  BY DEF Steady
<1> QED BY <1>1, ActivatedSound, ComposerSound DEF Refreshed, Sound

(* After a deletion no chat is open until another one is selected.         *)
LEMMA ReopenedSound ==
    ASSUME NEW l, NEW w, Kept(w, l), w.current = None, NEW c \in Chats \cup {None}, NEW js
    PROVE  /\ Sound(Refreshed(w, c, js), l) /\ Steady(w, Refreshed(w, c, js))
           /\ Refreshed(w, c, js).current = c
<1>1. CASE c = None
  BY <1>1, ComposerSound DEF Refreshed
<1>2. CASE c # None
  <2> DEFINE v == [w EXCEPT !.current = c, !.composer = w.drafts[c]]
  <2>1. Refreshed(w, c, js) = Composer(v, js)
    BY <1>2 DEF Refreshed, Activated, Restored, Saved, Kept, Windows
  <2>2. /\ v \in Windows /\ v.current = c /\ v.composer = w.drafts[c] /\ v.drafts = w.drafts
        /\ v.draftOf = w.draftOf /\ v.pending = w.pending /\ v.spoilt = w.spoilt
        /\ Steady(w, v)
    BY <1>2 DEF Kept, Windows, Steady
  <2> HIDE DEF v
  <2>3. Kept(v, l)
    BY <1>2, <2>2, NoneApart DEF Kept, Held
  <2> QED BY <2>1, <2>2, <2>3, ComposerSound DEF Steady
<1> QED BY <1>1, <1>2

(* The draft of a deleted chat is given up, and so is what was left there. *)
LEMMA DiscardedSound ==
    ASSUME NEW l \in [Chats -> Drafts], NEW w, Sound(w, l), NEW c \in Chats
    PROVE  /\ Sound(Discarded(w, c), [l EXCEPT ![c] = Blank])
           /\ Steady(w, Discarded(w, c))
           /\ Discarded(w, c).current = w.current
           /\ Discarded(w, c).drafts[c] = Blank
           /\ c = w.current => Discarded(w, c).composer = Blank
BY NoneApart DEF Discarded, Sound, Kept, Steady, Held, Windows, Blank, Drafts

(* An authorization is shown: the first one puts the draft of its chat     *)
(* away, a later one may spoil the draft of another chat.                  *)
LEMMA ShownSound ==
    ASSUME NEW l, NEW w, Kept(w, l), w.pending # None
    PROVE  /\ Sound(Shown(w), l)
           /\ Shown(w).inFlight = w.inFlight /\ Shown(w).dialog = w.dialog
           /\ Shown(w).pending = w.pending /\ Shown(w).current = w.current
<1> DEFINE kept == IF w.draftOf = None THEN [Saved(w) EXCEPT !.draftOf = w.current] ELSE w
           q == IF w.draftOf \notin {None, w.current}
                THEN w.spoilt \cup ({w.current} \ {None}) ELSE w.spoilt
<1>1. /\ kept \in Windows /\ kept = [w EXCEPT !.drafts = kept.drafts, !.draftOf = kept.draftOf]
      /\ kept.draftOf = IF w.draftOf = None THEN w.current ELSE w.draftOf
      /\ \A c \in Chats : kept.drafts[c].text \in {None, c}
      /\ \A c \in Chats \ w.spoilt : c # w.current \/ c = kept.draftOf => kept.drafts[c] = l[c]
  <2>1. CASE w.draftOf = None
    <3> DEFINE d == IF w.current = None THEN w.drafts ELSE [w.drafts EXCEPT ![w.current] = w.composer]
    <3>1. Saved(w) = [w EXCEPT !.drafts = d]
      BY <2>1 DEF Saved, Kept, Windows
    <3>2. kept = [w EXCEPT !.drafts = d, !.draftOf = w.current]
      BY <2>1, <3>1 DEF Kept, Windows
    <3>3. d \in [Chats -> Drafts] /\ \A c \in Chats : d[c].text \in {None, c}
      BY DEF Windows, Kept
    <3>4. \A c \in Chats \ w.spoilt : d[c] = l[c]
      BY <2>1, NoneApart DEF Windows, Kept, Held
    <3> HIDE DEF d
    <3> QED BY <2>1, <3>2, <3>3, <3>4 DEF Kept, Windows
  <2>2. CASE w.draftOf # None
    BY <2>2 DEF Kept, Windows, Held
  <2> QED BY <2>1, <2>2
<1>2. /\ kept.current = w.current /\ kept.composer = w.composer /\ kept.pending = w.pending
      /\ kept.inFlight = w.inFlight /\ kept.dialog = w.dialog /\ kept.spoilt = w.spoilt
      /\ w.composer \in Drafts /\ q \subseteq Chats
  <2> HIDE DEF kept
  <2> QED BY <1>1 DEF Kept, Windows
<1>3. Shown(w) = [kept EXCEPT !.composer.text = None, !.enabled = FALSE, !.spoilt = q]
  BY <1>2 DEF Shown
<1> HIDE DEF kept, q
<1>4. Shown(w) \in Windows
  <2> DEFINE b == [w.composer EXCEPT !.text = None]
  <2>1. b \in Drafts
    BY <1>2 DEF Drafts
  <2>2. Shown(w) = [kept EXCEPT !.composer = b, !.enabled = FALSE, !.spoilt = q]
    BY <1>1, <1>2, <1>3 DEF Windows
  <2> HIDE DEF b
  <2> QED BY <1>1, <1>2, <2>1, <2>2 DEF Windows
<1>5. /\ Shown(w).drafts = kept.drafts /\ Shown(w).draftOf = kept.draftOf
      /\ Shown(w).composer.text = None /\ Shown(w).composer.files = w.composer.files
      /\ ~Shown(w).enabled /\ Shown(w).spoilt = q
      /\ Shown(w).pending = w.pending /\ Shown(w).current = w.current
      /\ Shown(w).inFlight = w.inFlight /\ Shown(w).dialog = w.dialog
  BY <1>1, <1>2, <1>3 DEF Windows, Drafts
<1>6. \A c \in Chats \ q : Held(Shown(w), c) = l[c]
  BY <1>1, <1>5, NoneApart DEF Held, Kept, q
<1> QED BY <1>1, <1>4, <1>5, <1>6, NoneApart DEF Sound, Kept

LEMMA AskedSound ==
    ASSUME NEW l, NEW w, Sound(w, l), NEW j \in Jobs, NEW auto \in BOOLEAN
    PROVE  /\ Sound(Asked(w, j, auto), l) /\ Steady(w, Asked(w, j, auto))
           /\ Asked(w, j, auto).current = w.current
<1>1. CASE j = w.pending \/ j \in ToSet(w.line)
  BY <1>1 DEF Asked, Steady
<1>2. CASE ~(j = w.pending \/ j \in ToSet(w.line)) /\ w.pending # None
  <2>1. Asked(w, j, auto) = [w EXCEPT !.line = Append(w.line, j)]
    BY <1>2 DEF Asked, Sound, Kept, Windows
  <2>2. Append(w.line, j) \in Seq(Jobs)
    BY DEF Sound, Kept, Windows
  <2> QED BY <2>1, <2>2 DEF Sound, Kept, Windows, Held, Steady
<1>3. CASE ~(j = w.pending \/ j \in ToSet(w.line)) /\ w.pending = None
  <2> DEFINE v == [w EXCEPT !.pending = j, !.prompt = w.prompt \/ auto]
  <2>1. Asked(w, j, auto) = Shown(v)
    BY <1>3 DEF Asked, Sound, Kept, Windows
  <2>2. /\ Kept(v, l) /\ v.pending # None /\ v.inFlight = w.inFlight
        /\ v.dialog = w.dialog /\ v.current = w.current
    BY <1>3, NoneApart DEF Sound, Kept, Windows, Held
  <2> HIDE DEF v
  <2> QED BY <1>3, <2>1, <2>2, ShownSound DEF Steady
<1> QED BY <1>1, <1>2, <1>3

(* The authorization is over: the next one is shown, or the draft returns. *)
LEMMA FinishedSound ==
    ASSUME NEW l, NEW w, Sound(w, l), NEW js \in Rows, w.pending # None
    PROVE  /\ Sound(Finished(w, js), l)
           /\ ~Finished(w, js).inFlight /\ Finished(w, js).dialog = w.dialog
           /\ Finished(w, js).current = w.current
<1> DEFINE w1 == [w EXCEPT !.pending = None, !.inFlight = FALSE]
<1>1. CASE w.line # <<>>
  <2> DEFINE j == Head(w.line)
             r == Tail(w.line)
             p == w.prompt \/ js[j].desktop
             v == [w EXCEPT !.pending = j, !.prompt = p, !.line = r, !.inFlight = FALSE]
  <2>1. j \in Jobs /\ r \in Seq(Jobs) /\ p \in BOOLEAN
    BY <1>1 DEF Sound, Kept, Windows, Rows
  <2>2. Finished(w, js) = Shown(v)
    BY <1>1 DEF Finished, Sound, Kept, Windows
  <2> HIDE DEF j, r, p
  <2>3. /\ Kept(v, l) /\ v.pending # None /\ v.inFlight = FALSE
        /\ v.dialog = w.dialog /\ v.current = w.current
    BY <2>1, NoneApart DEF Sound, Kept, Windows, Held
  <2> HIDE DEF v
  <2> QED BY <2>2, <2>3, ShownSound
<1>2. CASE w.line = <<>>
  <2> DEFINE w2 == [w1 EXCEPT !.draftOf = None]
             w3 == IF w.draftOf = w.current THEN Restored(w2) ELSE w2
  <2>1. Finished(w, js) = Composer(w3, js)
    BY <1>2 DEF Finished
  <2>2. w2 = [w EXCEPT !.pending = None, !.inFlight = FALSE, !.draftOf = None]
    BY DEF Sound, Kept, Windows
  <2>3. Kept(w3, l) /\ w3.inFlight = FALSE /\ w3.dialog = w.dialog /\ w3.current = w.current
    <3>1. CASE w.draftOf = w.current
      <4> DEFINE b == IF w.current = None THEN Blank ELSE w.drafts[w.current]
      <4>1. w3 = [w EXCEPT !.pending = None, !.inFlight = FALSE, !.draftOf = None, !.composer = b]
        BY <2>2, <3>1 DEF Restored, Sound, Kept, Windows
      <4>2. b \in Drafts /\ b.text \in {None, w.current}
        BY DEF Sound, Kept, Windows, Blank, Drafts
      <4>3. \A c \in Chats : c = w.current => b = w.drafts[c]
        BY NoneApart
      <4> HIDE DEF b, w2, w3
      <4>4. w3 \in Windows /\ w3.drafts = w.drafts /\ w3.draftOf = None /\ w3.composer = b
        BY <4>1, <4>2 DEF Sound, Kept, Windows
      <4>5. w3.inFlight = FALSE /\ w3.dialog = w.dialog /\ w3.current = w.current /\ w3.spoilt = w.spoilt
        BY <4>1 DEF Sound, Kept, Windows
      <4>6. \A c \in Chats \ w.spoilt : Held(w3, c) = l[c]
        BY <3>1, <4>3, <4>4, <4>5, NoneApart DEF Sound, Kept, Held
      <4> QED BY <4>2, <4>4, <4>5, <4>6 DEF Sound, Kept
    <3>2. CASE w.draftOf # w.current
      <4> HIDE DEF w2
      <4>1. w3 = w2 /\ w2 \in Windows
        BY <2>2, <3>2 DEF Sound, Kept, Windows
      <4>2. /\ w2.drafts = w.drafts /\ w2.draftOf = None /\ w2.composer = w.composer
            /\ w2.inFlight = FALSE /\ w2.dialog = w.dialog /\ w2.current = w.current
            /\ w2.spoilt = w.spoilt
        BY <2>2 DEF Sound, Kept, Windows
      <4>3. \A c \in Chats \ w.spoilt : Held(w2, c) = l[c]
        BY <3>2, <4>2, NoneApart DEF Sound, Kept, Held
      <4> HIDE DEF w3
      <4> QED BY <4>1, <4>2, <4>3 DEF Sound, Kept
    <3> QED BY <3>1, <3>2
  <2> HIDE DEF w3
  <2> QED BY <2>1, <2>3, ComposerSound DEF Steady
<1> QED BY <1>1, <1>2

-----------------------------------------------------------------------------
(* What jobs, dialogs and events speak of exists.                          *)
Addressed ==
    /\ \A j \in Jobs : jobs[j].state # "none" => jobs[j].chat \in Chats
    /\ \A i \in DOMAIN events :
          /\ events[i].kind = "authorization" => events[i].job \in Jobs
          /\ events[i].kind = "deleted" => events[i].job = None

(* A chat whose deletion is being asked for is the open one, or gone.      *)
Asking ==
    /\ modal.kind # "none" => modal.chat \in Chats
    /\ modal.kind = "delete" /\ modal.chat \in chats => window.current = modal.chat

(* The inductive invariant.                                                *)
Arranged == TypeOK /\ Sound(window, left) /\ Addressed /\ Asking /\ OneAnswer

Works == [kind : {"wait", "authorize"}, job : Jobs]
Tidings == [kind : {"reply", "asks", "error", "again", "done", "broken"}, job : Jobs]
Events == [kind : {"progress", "authorization", "deleted"}, chat : Chats, job : Jobs \cup {None}]

LEMMA TypesAre ==
    TypeOK <=> /\ window \in Windows
               /\ modal \in [kind : {"none", "files", "delete"}, chat : Chats \cup {None}]
               /\ pool \in Seq(Works) /\ signals \in Seq(Tidings) /\ events \in Seq(Events)
               /\ jobs \in Rows
               /\ chats \subseteq ever /\ ever \subseteq Chats
               /\ left \in [Chats -> Drafts] /\ moves \in 0..MaxMoves
BY DEF TypeOK, Works, Tidings, Events, Rows

LEMMA InitArranged == Init => Arranged
<1> SUFFICES ASSUME Init PROVE Arranged
  OBVIOUS
<1>1. TypeOK
  BY TypesAre, DesktopAssumption DEF Init, Windows, Drafts, Blank, Rows, States
<1>2. Sound(window, left)
  BY <1>1, TypesAre, NoneApart DEF Init, Sound, Kept, Held, Blank
<1>3. Addressed /\ Asking
  BY DEF Init, Addressed, Asking
<1>4. OneAnswer
  <2>1. DOMAIN pool = {} /\ DOMAIN signals = {}
    BY DEF Init
  <2>2. ~window.inFlight /\ ~window.dialog
    BY DEF Init
  <2> QED BY <2>1, <2>2 DEF OneAnswer, ToCheck, Checked
<1> QED BY <1>1, <1>2, <1>3, <1>4 DEF Arranged

LEMMA SteadyOn ==
    ASSUME NEW u, NEW v, NEW w, Steady(u, v), Steady(v, w)
    PROVE  Steady(u, w)
BY DEF Steady

(* While an answer is on its way an authorization is shown.                *)
LEMMA InFlightPending == Arranged /\ window.inFlight => window.pending \in Jobs /\ window.pending # None
<1> SUFFICES ASSUME Arranged, window.inFlight PROVE window.pending \in Jobs
  BY NoneApart
<1>1. CASE \E i \in ToCheck : pool[i].job = window.pending
  <2>1. pool \in Seq(Works)
    BY TypesAre DEF Arranged
  <2>2. PICK i \in DOMAIN pool : pool[i].job = window.pending
    BY <1>1 DEF ToCheck
  <2>3. pool[i] \in Works
    BY <2>1
  <2> QED BY <2>2, <2>3 DEF Works
<1>2. CASE \E i \in Checked : signals[i].job = window.pending
  <2>1. signals \in Seq(Tidings)
    BY TypesAre DEF Arranged
  <2>2. PICK i \in DOMAIN signals : signals[i].job = window.pending
    BY <1>2 DEF Checked
  <2>3. signals[i] \in Tidings
    BY <2>1
  <2> QED BY <2>2, <2>3 DEF Tidings
<1> QED BY <1>1, <1>2 DEF Arranged, OneAnswer

(* Answers stay where they are.                                            *)
LEMMA StillOne ==
    ASSUME Arranged, Steady(window, window'),
           ToCheck' = ToCheck, \A i \in ToCheck : pool'[i].job = pool[i].job,
           Checked' = Checked, \A i \in Checked : signals'[i].job = signals[i].job
    PROVE  OneAnswer'
<1>1. window'.inFlight = window.inFlight /\ window'.dialog = window.dialog
  BY DEF Steady
<1>2. window.pending # None => window'.pending = window.pending
  BY DEF Steady
<1>3. CASE window.inFlight
  BY <1>1, <1>2, <1>3, InFlightPending DEF Arranged, OneAnswer
<1>4. CASE ~window.inFlight
  BY <1>1, <1>2, <1>4 DEF Arranged, OneAnswer
<1> QED BY <1>3, <1>4

LEMMA QueuesStay ==
    ASSUME UNCHANGED <<pool, signals>>
    PROVE  /\ ToCheck' = ToCheck /\ \A i \in ToCheck : pool'[i].job = pool[i].job
           /\ Checked' = Checked /\ \A i \in Checked : signals'[i].job = signals[i].job
BY DEF ToCheck, Checked

LEMMA SelectedIs ==
    ASSUME NEW cs \in SUBSET Chats, NEW p \in Chats \cup {None}, NEW c \in Selected(cs, p)
    PROVE  c \in Chats \cup {None} /\ (p \in cs => c = p)
BY DEF Selected

(* A step of the owner that leaves the queues alone.                       *)
LEMMA OwnerStep ==
    ASSUME Arranged, Sound(window', left'), Steady(window, window'),
           left' \in [Chats -> Drafts], Elsewhere, moves' \in 0 .. MaxMoves,
           modal' \in [kind : {"none", "files", "delete"}, chat : Chats \cup {None}], Asking'
    PROVE  Arranged'
<1>1. TypeOK'
  <2>1. window' \in Windows
    BY DEF Sound, Kept
  <2> QED BY <2>1, TypesAre DEF Arranged, Elsewhere, TypeOK
<1>2. Addressed'
  BY DEF Arranged, Addressed, Elsewhere
<1>3. OneAnswer'
  BY StillOne, QueuesStay DEF Elsewhere
<1> QED BY <1>1, <1>2, <1>3 DEF Arranged

LEMMA TypeKeeps ==
    ASSUME Arranged, Type, moves' \in 0 .. MaxMoves PROVE Arranged'
<1>1. window.current \in Chats /\ window.pending = None /\ window.draftOf = None
  BY NoneApart DEF Arranged, Type, Sound, Kept, Windows
<1> DEFINE f == [window.composer EXCEPT !.text = window.current]
           g == [left[window.current] EXCEPT !.text = window.current]
<1>2. window' = [window EXCEPT !.composer = f] /\ left' = [left EXCEPT ![window.current] = g]
  BY DEF Type, Arranged, TypeOK, Windows
<1>3. f \in Drafts /\ g \in Drafts /\ f.text = window.current
      /\ (window.composer = left[window.current] => f = g)
  BY <1>1, TypesAre DEF Arranged, Windows, Drafts
<1> HIDE DEF f, g
<1>4. left' \in [Chats -> Drafts]
  BY <1>1, <1>2, <1>3, TypesAre DEF Arranged
<1>5. \A c \in Chats \ window.spoilt : Held(window', c) = left'[c]
  BY <1>1, <1>2, <1>3, NoneApart, TypesAre DEF Arranged, Sound, Kept, Held, Windows
<1>6. Sound(window', left') /\ Steady(window, window') /\ window'.current = window.current
  BY <1>1, <1>2, <1>3, <1>5 DEF Arranged, Sound, Kept, Steady, Windows
<1> QED BY <1>4, <1>6, OwnerStep DEF Arranged, TypeOK, Asking, Type, Elsewhere

LEMMA ChooseFilesKeeps ==
    ASSUME Arranged, ChooseFiles, moves' \in 0 .. MaxMoves PROVE Arranged'
<1>1. window.current \in Chats
  BY DEF Arranged, ChooseFiles, Sound, Kept, Windows
<1>2. Sound(window', left') /\ Steady(window, window')
  BY DEF Arranged, ChooseFiles, Steady
<1> QED BY <1>1, <1>2, OwnerStep DEF Arranged, TypeOK, Asking, ChooseFiles, Elsewhere

LEMMA FilesChosenKeeps ==
    ASSUME Arranged, NEW b \in BOOLEAN, FilesChosen(b), moves' \in 0 .. MaxMoves PROVE Arranged'
<1>1. modal.chat \in Chats
  BY DEF Arranged, Asking, FilesChosen
<1>2. /\ Sound(window', left') /\ Steady(window, window') /\ window'.current = window.current
      /\ left' \in [Chats -> Drafts]
  <2>1. CASE b
    <3> DEFINE q == IF window.pending # None \/ window.current # modal.chat
                    THEN window.spoilt \cup ({window.current, modal.chat} \ {None})
                    ELSE window.spoilt
               f == [window.composer EXCEPT !.files = @ \cup {modal.chat}]
    <3>1. window' = [window EXCEPT !.composer = f, !.spoilt = q]
      BY <2>1 DEF FilesChosen, Arranged, TypeOK, Windows
    <3> DEFINE g == [left[modal.chat] EXCEPT !.files = @ \cup {modal.chat}]
    <3>2. left' = [left EXCEPT ![modal.chat] = g]
      BY <2>1 DEF FilesChosen
    <3>3. f \in Drafts /\ f.text = window.composer.text /\ q \subseteq Chats /\ window.spoilt \subseteq q
      BY <1>1 DEF Arranged, TypeOK, Windows, Drafts
    <3>4. left' \in [Chats -> Drafts]
      <4>1. g \in Drafts
        <5>1. left[modal.chat] \in Drafts
          BY <1>1, TypesAre DEF Arranged
        <5> QED BY <1>1, <5>1 DEF Drafts
      <4> HIDE DEF g
      <4> QED BY <1>1, <3>2, <4>1, TypesAre DEF Arranged
    <3>5. \A c \in Chats \ q : Held(window', c) = left'[c]
      <4> SUFFICES ASSUME NEW c \in Chats \ q PROVE Held(window', c) = left'[c]
        OBVIOUS
      <4>1. Held(window, c) = left[c]
        BY <3>3 DEF Arranged, Sound, Kept
      <4>2. CASE c = modal.chat
        <5>1. window.pending = None /\ window.current = c /\ window.draftOf = None
          BY <1>1, <4>2, NoneApart DEF Arranged, Sound, Kept
        <5>2. left'[c] = [left[c] EXCEPT !.files = @ \cup {modal.chat}]
          BY <3>2, <4>2, TypesAre DEF Arranged
        <5>3. Held(window', c) = f
          BY <3>1, <5>1, NoneApart DEF Held, Arranged, TypeOK, Windows
        <5> QED BY <4>1, <5>1, <5>2, <5>3, NoneApart DEF Held
      <4>3. CASE c # modal.chat
        <5>1. left'[c] = left[c]
          BY <3>2, <4>3 DEF Arranged, TypeOK
        <5>2. c # window.current \/ c = window.draftOf
          BY <1>1, <4>3, NoneApart
        <5> QED BY <3>1, <4>1, <5>1, <5>2 DEF Held, Arranged, TypeOK, Windows
      <4> QED BY <4>2, <4>3
    <3> HIDE DEF f, q
    <3> QED BY <3>1, <3>3, <3>4, <3>5 DEF Arranged, TypeOK, Sound, Kept, Steady, Windows
  <2>2. CASE ~b
    BY <2>2 DEF Arranged, TypeOK, FilesChosen, Steady
  <2> QED BY <2>1, <2>2
<1> QED BY <1>2, OwnerStep DEF Arranged, TypeOK, Asking, FilesChosen, Elsewhere

LEMMA ClearFilesKeeps ==
    ASSUME Arranged, ClearFiles, moves' \in 0 .. MaxMoves PROVE Arranged'
<1> DEFINE q == IF window.pending # None THEN window.spoilt \cup ({window.current} \ {None})
                ELSE window.spoilt
           f == [window.composer EXCEPT !.files = {}]
<1>1. window' = [window EXCEPT !.composer = f, !.spoilt = q]
  BY DEF ClearFiles, Arranged, TypeOK, Windows
<1>2. f \in Drafts /\ f.text = window.composer.text /\ q \subseteq Chats /\ window.spoilt \subseteq q
  BY DEF Arranged, TypeOK, Windows, Drafts
<1>3. left' = IF window.current = None THEN left ELSE [left EXCEPT ![window.current].files = {}]
  BY DEF ClearFiles
<1>4. left' \in [Chats -> Drafts]
  BY <1>3 DEF Arranged, TypeOK, Windows, Drafts
<1>5. \A c \in Chats \ q : Held(window', c) = left'[c]
  <2> SUFFICES ASSUME NEW c \in Chats \ q PROVE Held(window', c) = left'[c]
    OBVIOUS
  <2>1. Held(window, c) = left[c]
    BY <1>2 DEF Arranged, Sound, Kept
  <2>2. CASE c = window.current
    <3>1. window.pending = None /\ window.draftOf = None
      BY <2>2, NoneApart DEF Arranged, Sound, Kept
    <3>2. left'[c] = [left[c] EXCEPT !.files = {}]
      BY <1>3, <2>2, NoneApart DEF Arranged, TypeOK
    <3>3. Held(window', c) = f
      BY <1>1, <2>2, <3>1, NoneApart DEF Held, Arranged, TypeOK, Windows
    <3> QED BY <2>1, <2>2, <3>1, <3>2, <3>3, NoneApart DEF Held
  <2>3. CASE c # window.current
    <3>1. left'[c] = left[c]
      BY <1>3, <2>3 DEF Arranged, TypeOK
    <3> QED BY <1>1, <2>1, <2>3, <3>1 DEF Held, Arranged, TypeOK, Windows
  <2> QED BY <2>2, <2>3
<1> HIDE DEF f, q
<1>6. Sound(window', left') /\ Steady(window, window') /\ window'.current = window.current
  BY <1>1, <1>2, <1>4, <1>5 DEF Arranged, TypeOK, Sound, Kept, Steady, Windows
<1> QED BY <1>4, <1>6, OwnerStep DEF Arranged, TypeOK, Asking, ClearFiles, Elsewhere

LEMMA CloseKeeps ==
    ASSUME Arranged, Close, moves' \in 0 .. MaxMoves PROVE Arranged'
<1> DEFINE f == [window.composer EXCEPT !.files = {}]
           d == [c \in Chats |-> Blank]
<1>1. window' = [window EXCEPT !.drafts = d, !.composer = f]
  BY DEF Close, Arranged, TypeOK, Windows
<1>2. /\ f \in Drafts /\ f = [text |-> window.composer.text, files |-> {}]
      /\ d \in [Chats -> Drafts] /\ Blank.text = None
  <2>1. window.composer \in Drafts
    BY TypesAre DEF Arranged, Windows
  <2> QED BY <2>1 DEF Drafts, Blank
<1>3. left' \in [Chats -> Drafts]
  BY <1>2 DEF Close, Drafts, Blank
<1>4. \A c \in Chats : Held(window', c) = left'[c]
  <2> SUFFICES ASSUME NEW c \in Chats PROVE Held(window', c) = left'[c]
    OBVIOUS
  <2>1. window.draftOf = c => window.pending # None
    BY NoneApart DEF Arranged, Sound, Kept
  <2>2. left'[c] = IF c = window.current /\ c # window.draftOf THEN f ELSE Blank
    BY <1>2, <2>1 DEF Close
  <2> HIDE DEF f
  <2> QED BY <1>1, <2>2 DEF Held, Arranged, TypeOK, Windows
<1> HIDE DEF f, d
<1>5. Sound(window', left') /\ Steady(window, window') /\ window'.current = window.current
  <2>1. \A c \in Chats : d[c].text = None
    BY <1>2 DEF d
  <2> QED BY <1>1, <1>2, <1>3, <1>4, <2>1 DEF Arranged, TypeOK, Sound, Kept, Steady, Windows
<1> QED BY <1>3, <1>5, OwnerStep DEF Arranged, TypeOK, Asking, Close, Elsewhere

LEMMA SelectKeeps ==
    ASSUME Arranged, NEW c \in Chats, Select(c), moves' \in 0 .. MaxMoves PROVE Arranged'
<1>1. Sound(window', left') /\ Steady(window, window')
  BY ActivatedSound DEF Arranged, Select
<1> QED BY <1>1, OwnerStep DEF Arranged, TypeOK, Asking, Select, Quiet, Elsewhere

LEMMA RefreshKeeps ==
    ASSUME Arranged, Refresh, moves' \in 0 .. MaxMoves PROVE Arranged'
<1> PICK c \in Selected(chats, window.current) : window' = Refreshed(window, c, jobs)
  BY DEF Refresh
<1>1. c \in Chats \cup {None} /\ (window.current \in chats => c = window.current)
  BY SelectedIs DEF Arranged, TypeOK, Windows
<1>2. Sound(window', left') /\ Steady(window, window') /\ window'.current = c
  BY <1>1, RefreshedSound DEF Arranged, Refresh
<1> QED BY <1>1, <1>2, OwnerStep DEF Arranged, TypeOK, Asking, Refresh, Elsewhere

LEMMA AskDeleteKeeps ==
    ASSUME Arranged, AskDelete, moves' \in 0 .. MaxMoves PROVE Arranged'
<1>1. window.current \in Chats
  BY DEF Arranged, TypeOK, AskDelete, Windows
<1>2. Sound(window', left') /\ Steady(window, window')
  BY DEF Arranged, AskDelete, Steady
<1> QED BY <1>1, <1>2, OwnerStep DEF Arranged, TypeOK, Asking, AskDelete, Elsewhere

-----------------------------------------------------------------------------
(* Sending, deleting and new chats.                                        *)
LEMMA Rest ==
    ASSUME Arranged, Sound(window', left'), left' \in [Chats -> Drafts], moves' \in 0 .. MaxMoves,
           modal' \in [kind : {"none", "files", "delete"}, chat : Chats \cup {None}],
           pool' \in Seq(Works), signals' \in Seq(Tidings), events' \in Seq(Events), jobs' \in Rows,
           chats' \subseteq ever', ever' \subseteq Chats,
           Addressed', Asking', OneAnswer'
    PROVE  Arranged'
<1>1. window' \in Windows
  BY DEF Sound, Kept
<1> QED BY <1>1, TypesAre DEF Arranged, TypeOK, Works, Tidings, Events, Rows

(* What is appended to a queue, and what its head takes with it.           *)
LEMMA Appended ==
    ASSUME NEW S, NEW s \in Seq(S), NEW x \in S
    PROVE  /\ Append(s, x) \in Seq(S) /\ DOMAIN s = 1 .. Len(s) /\ Len(s) \in Nat
           /\ DOMAIN Append(s, x) = 1 .. Len(s) + 1
           /\ Append(s, x)[Len(s) + 1] = x
           /\ \A i \in DOMAIN s : Append(s, x)[i] = s[i] /\ i \in 1 .. Len(s)
OBVIOUS

LEMMA Shortened ==
    ASSUME NEW S, NEW s \in Seq(S), s # <<>>
    PROVE  /\ Tail(s) \in Seq(S) /\ Head(s) = s[1] /\ Head(s) \in S
           /\ DOMAIN s = 1 .. Len(s) /\ Len(s) \in Nat \ {0} /\ DOMAIN Tail(s) = 1 .. Len(s) - 1
           /\ \A i \in 1 .. Len(s) - 1 : Tail(s)[i] = s[i + 1]
OBVIOUS

LEMMA PoolGrows ==
    ASSUME pool \in Seq(Works), NEW x \in Works, pool' = Append(pool, x)
    PROVE  /\ pool' \in Seq(Works)
           /\ x.kind # "authorize" => ToCheck' = ToCheck
           /\ x.kind = "authorize" => ToCheck' = ToCheck \cup {Len(pool) + 1}
           /\ \A i \in ToCheck : pool'[i].job = pool[i].job
           /\ pool'[Len(pool) + 1] = x
BY Appended DEF ToCheck

LEMMA SignalsGrow ==
    ASSUME signals \in Seq(Tidings), NEW x \in Tidings, signals' = Append(signals, x)
    PROVE  /\ signals' \in Seq(Tidings)
           /\ x.kind \notin Verdicts => Checked' = Checked
           /\ x.kind \in Verdicts => Checked' = Checked \cup {Len(signals) + 1}
           /\ \A i \in Checked : signals'[i].job = signals[i].job
           /\ signals'[Len(signals) + 1] = x
BY Appended DEF Checked

LEMMA StartedKeeps ==
    ASSUME Arranged, NEW j \in Jobs, NEW c \in Chats, NEW w,
           Started(j, c, w), w \in Windows, Steady(window, w), w.current = window.current,
           Kept([w EXCEPT !.drafts[c] = Blank, !.awaited = @ \cup {j}], left'),
           left' \in [Chats -> Drafts], moves' \in 0 .. MaxMoves
    PROVE  Arranged'
<1> DEFINE v == [w EXCEPT !.drafts[c] = Blank, !.awaited = @ \cup {j}]
<1>1. window' = Composer(v, jobs')
  BY DEF Started
<1>2. Steady(w, v) /\ v.current = w.current
  BY DEF Steady, Windows
<1>3. Kept(v, left')
  OBVIOUS
<1> HIDE DEF v
<1>4. Sound(window', left') /\ Steady(window, window') /\ window'.current = window.current
  BY <1>1, <1>2, <1>3, ComposerSound, SteadyOn
<1>5. /\ UNCHANGED <<modal, events, chats, ever>>
      /\ \E s \in {"queued", "refused"} :
            jobs' = [jobs EXCEPT ![j] = [state |-> s, chat |-> c, desktop |-> TRUE]]
      /\ \/ pool' = Append(pool, Item("wait", j)) /\ UNCHANGED signals
         \/ signals' = Append(signals, Item("error", j)) /\ UNCHANGED pool
  BY DEF Started
<1>6. jobs' \in Rows /\ Addressed'
  BY <1>5, TypesAre DEF Arranged, Addressed, Rows, States
<1>7. /\ pool' \in Seq(Works) /\ ToCheck' = ToCheck /\ \A i \in ToCheck : pool'[i].job = pool[i].job
  <2>1. CASE pool' = Append(pool, Item("wait", j))
    <3>1. Item("wait", j) \in Works /\ Item("wait", j).kind = "wait"
      BY DEF Item, Works
    <3> QED BY <2>1, <3>1, PoolGrows, TypesAre DEF Arranged
  <2>2. CASE UNCHANGED pool
    BY <2>2, TypesAre DEF Arranged, ToCheck
  <2> QED BY <1>5, <2>1, <2>2
<1>8. /\ signals' \in Seq(Tidings) /\ Checked' = Checked
      /\ \A i \in Checked : signals'[i].job = signals[i].job
  <2>1. CASE signals' = Append(signals, Item("error", j))
    <3>1. Item("error", j) \in Tidings /\ Item("error", j).kind \notin Verdicts
      BY DEF Item, Tidings, Verdicts
    <3> QED BY <2>1, <3>1, SignalsGrow, TypesAre DEF Arranged
  <2>2. CASE UNCHANGED signals
    BY <2>2, TypesAre DEF Arranged, Checked
  <2> QED BY <1>5, <2>1, <2>2
<1>9. OneAnswer'
  BY <1>4, <1>7, <1>8, StillOne
<1>10. Asking'
  BY <1>4, <1>5 DEF Arranged, Asking
<1> QED BY <1>4, <1>5, <1>6, <1>7, <1>8, <1>9, <1>10, Rest, TypesAre DEF Arranged

LEMMA SendKeeps ==
    ASSUME Arranged, NEW j \in Jobs, Send(j), moves' \in 0 .. MaxMoves PROVE Arranged'
<1> DEFINE c == window.current
           w == [window EXCEPT !.composer = Blank]
<1>1. c \in Chats /\ window.pending = None /\ window.draftOf = None
  BY NoneApart DEF Arranged, Send, Sound, Kept, Windows
<1>2. Blank \in Drafts /\ Blank.text = None
  BY DEF Blank, Drafts
<1>3. left' = [left EXCEPT ![c] = Blank] /\ left' \in [Chats -> Drafts]
  BY <1>1, <1>2, TypesAre DEF Arranged, Send
<1>4. Steady(window, w) /\ w.current = window.current /\ w \in Windows
  BY <1>2 DEF Steady, Arranged, Sound, Kept, Windows
<1>5. Kept([w EXCEPT !.drafts[c] = Blank, !.awaited = @ \cup {j}], left')
  <2> DEFINE d == [window.drafts EXCEPT ![c] = Blank]
             v == [window EXCEPT !.composer = Blank, !.drafts = d, !.awaited = @ \cup {j}]
  <2>1. [w EXCEPT !.drafts[c] = Blank, !.awaited = @ \cup {j}] = v
    BY DEF Arranged, Sound, Kept, Windows
  <2>2. d \in [Chats -> Drafts] /\ \A b \in Chats : d[b].text \in {None, b}
    BY <1>2 DEF Arranged, Sound, Kept, Windows
  <2>3. \A b \in Chats \ window.spoilt : (IF b # c THEN d[b] ELSE Blank) = left'[b]
    <3> SUFFICES ASSUME NEW b \in Chats \ window.spoilt
                 PROVE  (IF b # c THEN d[b] ELSE Blank) = left'[b]
      OBVIOUS
    <3>1. Held(window, b) = left[b]
      BY DEF Arranged, Sound, Kept
    <3> QED BY <1>1, <1>3, <3>1, TypesAre DEF Held, Arranged, Windows
  <2> HIDE DEF d
  <2>4. Kept(v, left')
    <3>1. /\ v \in Windows /\ v.drafts = d /\ v.composer = Blank /\ v.current = c
          /\ v.draftOf = None /\ v.spoilt = window.spoilt
      BY <1>1, <1>2, <2>2 DEF Arranged, Sound, Kept, Windows
    <3> HIDE DEF v
    <3> QED BY <1>1, <1>2, <2>2, <2>3, <3>1, NoneApart DEF Kept, Held
  <2> QED BY <2>1, <2>4
<1>6. Started(j, c, w)
  BY DEF Send
<1> HIDE DEF w, c
<1> QED BY <1>1, <1>3, <1>4, <1>5, <1>6, StartedKeeps

LEMMA QuickSendKeeps ==
    ASSUME Arranged, NEW j \in Jobs, QuickSend(j), moves' \in 0 .. MaxMoves PROVE Arranged'
<1> DEFINE c == window.current
           q == IF window.pending # None THEN window.spoilt \cup {c} ELSE window.spoilt
           w == [window EXCEPT !.spoilt = q]
<1>1. c \in Chats /\ left' = left /\ left \in [Chats -> Drafts]
  BY TypesAre DEF Arranged, QuickSend, Windows
<1>2. Blank \in Drafts /\ Blank.text = None
  BY DEF Blank, Drafts
<1>3. Started(j, c, w)
  BY DEF QuickSend, Arranged, Sound, Kept, Windows
<1>4. q \subseteq Chats /\ window.spoilt \subseteq q /\ (window.draftOf # None => c \in q)
  BY <1>1 DEF Arranged, Sound, Kept, Windows
<1> HIDE DEF q
<1>5. Steady(window, w) /\ w.current = window.current /\ w \in Windows
  BY <1>4 DEF Steady, Arranged, Sound, Kept, Windows
<1>6. Kept([w EXCEPT !.drafts[c] = Blank, !.awaited = @ \cup {j}], left')
  <2> DEFINE d == [window.drafts EXCEPT ![c] = Blank]
             v == [window EXCEPT !.spoilt = q, !.drafts = d, !.awaited = @ \cup {j}]
  <2>1. [w EXCEPT !.drafts[c] = Blank, !.awaited = @ \cup {j}] = v
    BY DEF Arranged, Sound, Kept, Windows
  <2>2. d \in [Chats -> Drafts] /\ \A b \in Chats : d[b].text \in {None, b}
    BY <1>2 DEF Arranged, Sound, Kept, Windows
  <2>3. \A b \in Chats : b # c => d[b] = window.drafts[b]
    BY DEF Arranged, Sound, Kept, Windows
  <2> HIDE DEF d
  <2>4. /\ v \in Windows /\ v.drafts = d /\ v.composer = window.composer /\ v.current = c
        /\ v.draftOf = window.draftOf /\ v.spoilt = q /\ v.pending = window.pending
    BY <1>1, <1>4, <2>2 DEF Arranged, Sound, Kept, Windows
  <2> HIDE DEF v
  <2>5. \A b \in Chats \ q : Held(v, b) = left[b]
    <3> SUFFICES ASSUME NEW b \in Chats \ q PROVE Held(v, b) = left[b]
      OBVIOUS
    <3>1. Held(window, b) = left[b]
      BY <1>4 DEF Arranged, Sound, Kept
    <3>2. b = c => b # window.draftOf
      BY <1>4, NoneApart
    <3> QED BY <2>3, <2>4, <3>1, <3>2 DEF Held
  <2> QED BY <1>1, <2>1, <2>2, <2>4, <2>5 DEF Arranged, Sound, Kept
<1> HIDE DEF w, c
<1> QED BY <1>1, <1>3, <1>5, <1>6, StartedKeeps

LEMMA NewKeeps ==
    ASSUME Arranged, NEW c \in Chats, New(c), moves' \in 0 .. MaxMoves PROVE Arranged'
<1>1. Sound(window', left') /\ Steady(window, window')
  BY RefreshedSound DEF Arranged, New
<1>2. /\ chats' \subseteq ever' /\ ever' \subseteq Chats /\ left' \in [Chats -> Drafts]
      /\ UNCHANGED <<modal, left, pool, signals, jobs, events>>
  BY TypesAre DEF Arranged, New
<1>3. Addressed' /\ Asking'
  BY <1>2 DEF Arranged, Addressed, Asking, New, Quiet
<1>4. OneAnswer'
  BY <1>1, <1>2, StillOne, QueuesStay
<1> QED BY <1>1, <1>2, <1>3, <1>4, Rest, TypesAre DEF Arranged

(* An event is put into the queue, unless it repeats the last one.         *)
LEMMA ToldTo ==
    ASSUME Arranged, NEW e \in Events,
           \/ events' = events \/ events' = Append(events, e),
           e.kind = "authorization" => e.job \in Jobs,
           e.kind = "deleted" => e.job = None
    PROVE  /\ events' \in Seq(Events)
           /\ \A i \in DOMAIN events' :
                 /\ events'[i].kind = "authorization" => events'[i].job \in Jobs
                 /\ events'[i].kind = "deleted" => events'[i].job = None
<1>1. events \in Seq(Events)
  BY TypesAre DEF Arranged
<1>2. CASE events' = Append(events, e)
  BY <1>1, <1>2, Appended DEF Arranged, Addressed
<1>3. CASE events' = events
  BY <1>1, <1>3 DEF Arranged, Addressed
<1> QED BY <1>2, <1>3

LEMMA Told ==
    ASSUME Arranged, NEW e \in Events, UNCHANGED jobs,
           \/ events' = events \/ events' = Append(events, e),
           e.kind = "authorization" => e.job \in Jobs,
           e.kind = "deleted" => e.job = None
    PROVE  events' \in Seq(Events) /\ Addressed'
BY ToldTo DEF Arranged, Addressed

LEMMA AnswerDeleteKeeps ==
    ASSUME Arranged, NEW yes \in BOOLEAN, AnswerDelete(yes), moves' \in 0 .. MaxMoves
    PROVE  Arranged'
<1> DEFINE m == modal.chat
<1>1. /\ m \in Chats /\ modal' = [kind |-> "none", chat |-> None]
      /\ UNCHANGED <<pool, signals, jobs, ever>> /\ left \in [Chats -> Drafts]
  BY TypesAre DEF Arranged, Asking, AnswerDelete
<1>2. Asking' /\ modal' \in [kind : {"none", "files", "delete"}, chat : Chats \cup {None}]
  BY <1>1 DEF Asking
<1>3. CASE yes /\ Deletable(m)
  <2> DEFINE w == [Discarded(window, m) EXCEPT !.current = None]
             l == [left EXCEPT ![m] = Blank]
  <2>1. /\ chats' = chats \ {m} /\ left' = l
        /\ events' = Append(events, Event("deleted", m, None))
        /\ \E c \in Selected(chats', None) : window' = Refreshed(w, c, jobs)
    BY <1>3 DEF AnswerDelete
  <2>2. window.current = m
    BY <1>3 DEF Arranged, Asking, AnswerDelete, Deletable
  <2>3. Kept(w, l) /\ Steady(window, w) /\ w.current = None
    <3> DEFINE v == Discarded(window, m)
    <3>1. /\ Sound(v, l) /\ Steady(window, v) /\ v.current = m
          /\ v.drafts[m] = Blank /\ v.composer = Blank
      BY <1>1, <2>2, DiscardedSound DEF Arranged
    <3>2. w = [v EXCEPT !.current = None]
      OBVIOUS
    <3> HIDE DEF v, w
    <3>3. /\ w \in Windows /\ w.current = None /\ w.drafts = v.drafts /\ w.composer = Blank
          /\ w.draftOf = v.draftOf /\ w.pending = v.pending /\ w.spoilt = v.spoilt
          /\ Steady(v, w)
      BY <3>1, <3>2 DEF Sound, Kept, Windows, Steady
    <3>4. Blank.text = None /\ l[m] = Blank
      BY <1>1 DEF Blank
    <3>5. \A b \in Chats \ v.spoilt : Held(w, b) = l[b]
      <4> SUFFICES ASSUME NEW b \in Chats \ v.spoilt PROVE w.drafts[b] = l[b]
        BY <3>3, NoneApart DEF Held
      <4>1. Held(v, b) = l[b]
        BY <3>1 DEF Sound, Kept
      <4> QED BY <3>1, <3>3, <3>4, <4>1 DEF Held
    <3> HIDE DEF l
    <3> QED BY <3>1, <3>3, <3>4, <3>5, SteadyOn DEF Sound, Kept
  <2> PICK c \in Selected(chats', None) : window' = Refreshed(w, c, jobs)
    BY <2>1
  <2>4. c \in Chats \cup {None} /\ chats' \subseteq ever' /\ ever' \subseteq Chats
    BY <1>1, <2>1, SelectedIs, TypesAre DEF Arranged
  <2>5. left' \in [Chats -> Drafts]
    BY <1>1, <2>1 DEF Blank, Drafts
  <2> HIDE DEF w, l
  <2>6. Sound(window', left') /\ Steady(window, window')
    BY <2>1, <2>3, <2>4, ReopenedSound, SteadyOn
  <2>7. OneAnswer'
    BY <1>1, <2>6, StillOne, QueuesStay
  <2>8. events' \in Seq(Events) /\ Addressed'
    <3>1. /\ Event("deleted", m, None) \in Events /\ Event("deleted", m, None).kind = "deleted"
          /\ Event("deleted", m, None).job = None
      BY <1>1 DEF Event, Events
    <3> QED BY <1>1, <2>1, <3>1, Told
  <2> QED BY <1>1, <1>2, <2>4, <2>5, <2>6, <2>7, <2>8, Rest, TypesAre DEF Arranged
<1>4. CASE ~(yes /\ Deletable(m))
  <2>1. UNCHANGED <<chats, events, window, left>>
    BY <1>4 DEF AnswerDelete
  <2>2. Steady(window, window') /\ Addressed' /\ Sound(window', left')
    BY <1>1, <2>1 DEF Steady, Arranged, Addressed
  <2> QED BY <1>1, <1>2, <2>1, <2>2, StillOne, QueuesStay, Rest, TypesAre DEF Arranged
<1> QED BY <1>3, <1>4

-----------------------------------------------------------------------------
(* Authorizations.                                                         *)
LEMMA PromptKeeps ==
    ASSUME Arranged, Prompt \/ Confirm, moves' \in 0 .. MaxMoves PROVE Arranged'
<1> PICK d \in BOOLEAN, p \in BOOLEAN :
        /\ window' = [window EXCEPT !.prompt = p, !.dialog = d]
        /\ d => MayAuthorize \/ window.dialog
        /\ window.dialog => d
  <2>1. CASE Prompt
    <3> DEFINE d == MayAuthorize \/ window.dialog
    <3>1. window' = [window EXCEPT !.prompt = FALSE, !.dialog = d] /\ d \in BOOLEAN
      BY <2>1 DEF Prompt, Arranged, Sound, Kept, Windows
    <3> QED BY <3>1
  <2>2. CASE Confirm
    <3> DEFINE p == window.prompt
    <3>1. window' = [window EXCEPT !.prompt = p, !.dialog = TRUE] /\ p \in BOOLEAN /\ MayAuthorize
      BY <2>2 DEF Confirm, Arranged, Sound, Kept, Windows
    <3> QED BY <3>1
  <2> QED BY <2>1, <2>2
<1>1. /\ window' \in Windows /\ window'.current = window.current
      /\ window'.enabled = window.enabled /\ window'.pending = window.pending
      /\ window'.draftOf = window.draftOf /\ window'.composer = window.composer
      /\ window'.drafts = window.drafts /\ window'.spoilt = window.spoilt
      /\ window'.inFlight = window.inFlight /\ window'.dialog = d
  BY DEF Arranged, Sound, Kept, Windows
<1>2. UNCHANGED <<modal, left, moves>> \/ UNCHANGED <<modal, left>>
  BY DEF Prompt, Confirm
<1>3. UNCHANGED <<pool, signals, jobs, events, chats, ever>>
  BY DEF Prompt, Confirm, Elsewhere
<1>4. Sound(window', left')
  BY <1>1, <1>2 DEF Arranged, Sound, Kept, Held
<1>5. OneAnswer'
  <2>1. d => window.pending # None /\ ~window.inFlight
    BY DEF MayAuthorize, Arranged, OneAnswer
  <2> QED BY <1>1, <1>3, <2>1, QueuesStay DEF Arranged, OneAnswer
<1>6. Addressed' /\ Asking'
  BY <1>1, <1>2, <1>3 DEF Arranged, Addressed, Asking
<1> QED BY <1>2, <1>3, <1>4, <1>5, <1>6, Rest, TypesAre DEF Arranged

LEMMA RejectKeeps ==
    ASSUME Arranged, Reject, moves' \in 0 .. MaxMoves PROVE Arranged'
<1> DEFINE v == Finished(window, jobs)
<1>1. window.pending # None /\ ~window.inFlight /\ ToCheck = {} /\ Checked = {}
  BY DEF Arranged, OneAnswer, Reject
<1>2. /\ Sound(v, left) /\ ~v.inFlight /\ v.current = window.current
      /\ window' = [v EXCEPT !.dialog = FALSE]
      /\ UNCHANGED <<modal, left, pool, signals, jobs, events, chats, ever>>
  BY <1>1, FinishedSound, TypesAre DEF Arranged, Reject
<1> HIDE DEF v
<1>3. /\ window' \in Windows /\ window'.current = v.current
      /\ window'.enabled = v.enabled /\ window'.pending = v.pending
      /\ window'.draftOf = v.draftOf /\ window'.composer = v.composer
      /\ window'.drafts = v.drafts /\ window'.spoilt = v.spoilt
      /\ ~window'.inFlight /\ ~window'.dialog
  BY <1>2 DEF Sound, Kept, Windows
<1>4. Sound(window', left')
  BY <1>2, <1>3 DEF Sound, Kept, Held
<1>5. OneAnswer'
  BY <1>1, <1>2, <1>3, QueuesStay DEF OneAnswer
<1>6. Addressed' /\ Asking'
  BY <1>2, <1>3 DEF Arranged, Addressed, Asking
<1> QED BY <1>2, <1>4, <1>5, <1>6, Rest, TypesAre DEF Arranged

LEMMA AcceptKeeps ==
    ASSUME Arranged, NEW saved \in BOOLEAN, Accept(saved), moves' \in 0 .. MaxMoves PROVE Arranged'
<1> DEFINE p == window.pending
<1>1. p # None /\ p \in Jobs /\ ~window.inFlight /\ ToCheck = {} /\ Checked = {}
  BY TypesAre DEF Arranged, OneAnswer, Accept, Windows
<1>2. /\ window' = [window EXCEPT !.dialog = FALSE, !.inFlight = saved]
      /\ UNCHANGED <<modal, left, signals, jobs, events, chats, ever>>
  BY DEF Accept
<1>3. /\ window' \in Windows /\ window'.current = window.current
      /\ window'.enabled = window.enabled /\ window'.pending = p
      /\ window'.draftOf = window.draftOf /\ window'.composer = window.composer
      /\ window'.drafts = window.drafts /\ window'.spoilt = window.spoilt
      /\ window'.inFlight = saved /\ ~window'.dialog
  BY <1>2 DEF Arranged, Sound, Kept, Windows
<1>4. Sound(window', left')
  BY <1>2, <1>3 DEF Arranged, Sound, Kept, Held
<1>5. Addressed' /\ Asking' /\ Checked' = {}
  BY <1>1, <1>2, <1>3 DEF Arranged, Addressed, Asking, Checked
<1>6. pool' \in Seq(Works) /\ OneAnswer'
  <2>1. CASE saved
    <3>1. Item("authorize", p) \in Works /\ Item("authorize", p).kind = "authorize"
          /\ Item("authorize", p).job = p
      BY <1>1 DEF Item, Works
    <3>2. pool' = Append(pool, Item("authorize", p)) /\ pool \in Seq(Works)
      BY <2>1, TypesAre DEF Accept, Arranged
    <3> HIDE DEF p
    <3>3. /\ pool' \in Seq(Works) /\ ToCheck' = {Len(pool) + 1} /\ pool'[Len(pool) + 1].job = p
      BY <1>1, <3>1, <3>2, PoolGrows
    <3> QED BY <1>3, <1>5, <2>1, <3>3 DEF OneAnswer
  <2>2. CASE ~saved
    <3>1. pool' = pool /\ ToCheck' = {}
      BY <1>1, <2>2 DEF Accept, ToCheck
    <3> QED BY <1>3, <1>5, <2>2, <3>1, TypesAre DEF OneAnswer, Arranged
  <2> QED BY <2>1, <2>2
<1> QED BY <1>2, <1>4, <1>5, <1>6, Rest, TypesAre DEF Arranged

-----------------------------------------------------------------------------
(* The thread of Bridge and its signals.                                   *)
LEMMA PoolShrinks ==
    ASSUME pool \in Seq(Works), pool # <<>>, pool' = Tail(pool)
    PROVE  /\ pool' \in Seq(Works) /\ Head(pool) = pool[1] /\ 1 \in DOMAIN pool
           /\ ToCheck = {} => ToCheck' = {}
           /\ ToCheck = {1} => ToCheck' = {}
           /\ \A i \in ToCheck : ToCheck = {i} /\ i # 1 =>
                 i - 1 \in ToCheck' /\ ToCheck' = {i - 1} /\ pool'[i - 1] = pool[i]
BY Shortened DEF ToCheck

LEMMA SignalsShrink ==
    ASSUME signals \in Seq(Tidings), signals # <<>>, signals' = Tail(signals)
    PROVE  /\ signals' \in Seq(Tidings) /\ Head(signals) = signals[1] /\ 1 \in DOMAIN signals
           /\ Head(signals) \in Tidings
           /\ Checked = {} => Checked' = {}
           /\ Checked = {1} => Checked' = {}
           /\ \A i \in Checked : Checked = {i} /\ i # 1 =>
                 i - 1 \in Checked' /\ Checked' = {i - 1} /\ signals'[i - 1] = signals[i]
BY Shortened DEF Checked

LEMMA EmitKeeps ==
    ASSUME Arranged, NEW s \in Tidings, Emit(s), pool # <<>>, OneAnswer', moves' \in 0 .. MaxMoves
    PROVE  Arranged'
<1>1. /\ UNCHANGED <<window, modal, jobs, events, chats, ever, left>>
      /\ pool' = Tail(pool) /\ signals' = Append(signals, s)
  BY DEF Emit
<1>2. pool' \in Seq(Works) /\ signals' \in Seq(Tidings)
  BY <1>1, PoolShrinks, SignalsGrow, TypesAre DEF Arranged
<1>3. Addressed' /\ Asking' /\ Sound(window', left')
  BY <1>1 DEF Arranged, Addressed, Asking
<1> QED BY <1>1, <1>2, <1>3, Rest, TypesAre DEF Arranged

LEMMA WaitKeeps ==
    ASSUME Arranged, NEW j \in Jobs, Wait(j), moves' \in 0 .. MaxMoves PROVE Arranged'
<1>1. PICK k \in {"reply", "asks", "error"} : Emit(Item(k, j))
  BY DEF Wait
<1>2. Item(k, j) \in Tidings /\ Item(k, j).kind \notin Verdicts
  BY DEF Item, Tidings, Verdicts
<1>3. pool # <<>> /\ pool[1].kind = "wait" /\ pool \in Seq(Works) /\ signals \in Seq(Tidings)
  BY TypesAre DEF Wait, Item, Arranged
<1>4. window' = window /\ pool' = Tail(pool) /\ signals' = Append(signals, Item(k, j))
  BY <1>1 DEF Emit
<1>5. Checked' = Checked /\ \A i \in Checked : signals'[i].job = signals[i].job
  BY <1>2, <1>3, <1>4, SignalsGrow
<1>6. 1 \notin ToCheck
  BY <1>3 DEF ToCheck
<1>7. /\ ToCheck = {} => ToCheck' = {}
      /\ \A i \in ToCheck : ToCheck = {i} =>
            i - 1 \in ToCheck' /\ ToCheck' = {i - 1} /\ pool'[i - 1] = pool[i]
  BY <1>3, <1>4, <1>6, PoolShrinks
<1>8. OneAnswer'
  <2>1. CASE ~window.inFlight
    BY <1>4, <1>5, <1>7, <2>1 DEF Arranged, OneAnswer
  <2>2. CASE window.inFlight
    <3>1. CASE \E i \in ToCheck : ToCheck = {i} /\ pool[i].job = window.pending /\ Checked = {}
      BY <1>4, <1>5, <1>7, <2>2, <3>1 DEF Arranged, OneAnswer
    <3>2. CASE \E i \in Checked : Checked = {i} /\ signals[i].job = window.pending /\ ToCheck = {}
      BY <1>4, <1>5, <1>7, <2>2, <3>2 DEF Arranged, OneAnswer
    <3> QED BY <2>2, <3>1, <3>2 DEF Arranged, OneAnswer
  <2> QED BY <2>1, <2>2
<1> QED BY <1>1, <1>2, <1>3, <1>8, EmitKeeps

LEMMA AuthorizeKeeps ==
    ASSUME Arranged, NEW j \in Jobs, Authorize(j), moves' \in 0 .. MaxMoves PROVE Arranged'
<1>1. PICK k \in Verdicts : Emit(Item(k, j))
  BY DEF Authorize, Verdicts
<1>2. Item(k, j) \in Tidings /\ Item(k, j).kind \in Verdicts /\ Item(k, j).job = j
  BY DEF Item, Tidings, Verdicts
<1>3. /\ pool # <<>> /\ Head(pool) = Item("authorize", j)
      /\ pool \in Seq(Works) /\ signals \in Seq(Tidings)
  BY TypesAre DEF Authorize, Arranged
<1>4. window' = window /\ pool' = Tail(pool) /\ signals' = Append(signals, Item(k, j))
  BY <1>1 DEF Emit
<1>5. 1 \in ToCheck /\ pool[1].job = j
  BY <1>3, <1>4, PoolShrinks DEF ToCheck, Item
<1>6. window.inFlight /\ ToCheck = {1} /\ Checked = {} /\ window.pending = j
  BY <1>5 DEF Arranged, OneAnswer
<1>7. ToCheck' = {}
  BY <1>3, <1>4, <1>6, PoolShrinks
<1>8. Checked' = {Len(signals) + 1} /\ signals'[Len(signals) + 1].job = j
  BY <1>2, <1>3, <1>4, <1>6, SignalsGrow
<1>9. OneAnswer'
  BY <1>4, <1>6, <1>7, <1>8 DEF Arranged, OneAnswer
<1> QED BY <1>1, <1>2, <1>3, <1>9, EmitKeeps

LEMMA SignalKeeps ==
    ASSUME Arranged, Signal, moves' \in 0 .. MaxMoves PROVE Arranged'
<1> DEFINE s == Head(signals)
           done == Answered(window, s.job)
<1>1. /\ signals # <<>> /\ signals' = Tail(signals) /\ signals \in Seq(Tidings)
      /\ UNCHANGED <<modal, left, pool, jobs, events, chats, ever>>
  BY TypesAre DEF Signal, Arranged
<1>2. s \in Tidings /\ s = signals[1]
  BY <1>1, SignalsShrink
<1>3. s.job \in Jobs
  BY <1>2 DEF Tidings
<1>4. /\ \/ /\ s.kind \in {"reply", "asks"}
            /\ \E c \in Selected(chats, window.current) :
                  LET w == Refreshed(done, c, jobs)
                  IN  window' = Composer(IF s.kind = "asks" THEN Asked(w, s.job, TRUE) ELSE w,
                                         jobs)
         \/ s.kind = "error" /\ window' = Composer(done, jobs)
         \/ s.kind \in Verdicts /\ window' = Authorized(window, s)
  BY DEF Signal, Verdicts
<1>5. Sound(done, left) /\ Steady(window, done) /\ done.current = window.current
  BY DEF Arranged, Sound, Kept, Windows, Steady, Held, Answered
<1> HIDE DEF s, done
<1>6. CASE s.kind \notin Verdicts
  <2>1. /\ Sound(window', left) /\ Steady(window, window')
        /\ window.current \in chats => window'.current = window.current
    <3>1. CASE s.kind = "error"
      <4>1. window' = Composer(done, jobs)
        BY <1>4, <1>6, <3>1
      <4> QED BY <1>5, <4>1, ComposerSound, SteadyOn DEF Sound
    <3>2. CASE s.kind \in {"reply", "asks"}
      <4>1. PICK c \in Selected(chats, window.current) :
               window' = Composer(IF s.kind = "asks" THEN Asked(Refreshed(done, c, jobs), s.job, TRUE)
                                  ELSE Refreshed(done, c, jobs), jobs)
        BY <1>4, <1>6, <3>2
      <4> DEFINE w == Refreshed(done, c, jobs)
                 v == IF s.kind = "asks" THEN Asked(w, s.job, TRUE) ELSE w
      <4>2. c \in Chats \cup {None} /\ (window.current \in chats => c = window.current)
        BY SelectedIs, TypesAre DEF Arranged, Windows
      <4>3. Sound(w, left) /\ Steady(window, w) /\ w.current = c
        BY <1>5, <4>2, RefreshedSound, SteadyOn
      <4> HIDE DEF w
      <4>4. Sound(v, left) /\ Steady(window, v) /\ v.current = c
        BY <1>3, <4>3, AskedSound, SteadyOn
      <4>5. window' = Composer(v, jobs)
        BY <4>1 DEF w
      <4> HIDE DEF v
      <4> QED BY <4>2, <4>4, <4>5, ComposerSound, SteadyOn DEF Sound
    <3> QED BY <1>2, <1>6, <3>1, <3>2 DEF Tidings, Verdicts
  <2>2. 1 \notin Checked
    BY <1>2, <1>6 DEF Checked
  <2>3. /\ signals' \in Seq(Tidings)
        /\ Checked = {} => Checked' = {}
        /\ \A i \in Checked : Checked = {i} =>
              i - 1 \in Checked' /\ Checked' = {i - 1} /\ signals'[i - 1] = signals[i]
    BY <1>1, <2>2, SignalsShrink
  <2>4. ToCheck' = ToCheck /\ \A i \in ToCheck : pool'[i] = pool[i]
    BY <1>1 DEF ToCheck
  <2>5. OneAnswer'
    <3>1. window'.inFlight = window.inFlight /\ window'.dialog = window.dialog
          /\ (window.pending # None => window'.pending = window.pending)
      BY <2>1 DEF Steady
    <3>2. CASE ~window.inFlight
      BY <2>3, <2>4, <3>1, <3>2 DEF Arranged, OneAnswer
    <3>3. CASE window.inFlight
      <4>1. window'.pending = window.pending
        BY <3>1, <3>3, InFlightPending
      <4>2. CASE \E i \in ToCheck : ToCheck = {i} /\ pool[i].job = window.pending /\ Checked = {}
        BY <2>3, <2>4, <3>1, <3>3, <4>1, <4>2 DEF Arranged, OneAnswer
      <4>3. CASE \E i \in Checked : Checked = {i} /\ signals[i].job = window.pending /\ ToCheck = {}
        BY <2>3, <2>4, <3>1, <3>3, <4>1, <4>3 DEF Arranged, OneAnswer
      <4> QED BY <3>3, <4>2, <4>3 DEF Arranged, OneAnswer
    <3> QED BY <3>2, <3>3
  <2>6. Addressed' /\ Asking'
    BY <1>1, <2>1 DEF Arranged, Addressed, Asking
  <2> QED BY <1>1, <2>1, <2>3, <2>5, <2>6, Rest, TypesAre DEF Arranged
<1>7. CASE s.kind \in Verdicts
  <2>1. window' = Authorized(window, s)
    BY <1>4, <1>7 DEF Verdicts
  <2>2. 1 \in Checked
    BY <1>1, <1>2, <1>7, SignalsShrink DEF Checked
  <2>3. /\ window.inFlight /\ Checked = {1} /\ ToCheck = {} /\ window.pending # None
        /\ ~window.dialog
    BY <2>2, InFlightPending DEF Arranged, OneAnswer
  <2>4. /\ Sound(window', left) /\ ~window'.inFlight /\ ~window'.dialog
        /\ window'.current = window.current
    <3>1. CASE s.kind = "done"
      BY <2>1, <2>3, <3>1, FinishedSound, TypesAre DEF Authorized, Arranged
    <3>2. CASE s.kind # "done"
      BY <2>1, <2>3, <3>2 DEF Authorized, Arranged, Sound, Kept, Held, Windows
    <3> QED BY <3>1, <3>2
  <2>5. signals' \in Seq(Tidings) /\ Checked' = {} /\ ToCheck' = {}
    BY <1>1, <2>3, SignalsShrink DEF ToCheck
  <2>6. OneAnswer'
    BY <2>4, <2>5 DEF OneAnswer
  <2>7. Addressed' /\ Asking'
    BY <1>1, <2>4 DEF Arranged, Addressed, Asking
  <2> QED BY <1>1, <2>4, <2>5, <2>6, <2>7, Rest, TypesAre DEF Arranged
<1> QED BY <1>6, <1>7

-----------------------------------------------------------------------------
(* The service and the phones: the window and its queues stay.             *)
LEMMA ServiceStep ==
    ASSUME Arranged, UNCHANGED <<window, modal, pool, signals, ever, left>>,
           jobs' \in Rows, chats' \subseteq chats, events' \in Seq(Events), Addressed',
           moves' \in 0 .. MaxMoves
    PROVE  Arranged'
<1>1. Sound(window', left') /\ Steady(window, window') /\ Asking'
  BY DEF Arranged, Asking, Steady
<1>2. OneAnswer'
  BY <1>1, StillOne, QueuesStay
<1> QED BY <1>1, <1>2, Rest, TypesAre DEF Arranged

LEMMA TellIs == \A e : Tell(e) => events' = events \/ events' = Append(events, e)
BY DEF Tell

LEMMA BecomesKeeps ==
    ASSUME Arranged, NEW j \in Jobs, NEW s \in States, Becomes(j, s), jobs[j].state # "none"
    PROVE  jobs' \in Rows /\ \A k \in Jobs : jobs'[k].state # "none" => jobs'[k].chat \in Chats
BY TypesAre DEF Arranged, Becomes, Addressed, Rows

LEMMA EnterKeeps ==
    ASSUME Arranged, NEW j \in Jobs, Enter(j) \/ End(j), moves' \in 0 .. MaxMoves PROVE Arranged'
<1> DEFINE e == Event("progress", jobs[j].chat, None)
<1>1. PICK s \in States : Becomes(j, s)
  BY DEF Enter, End, States
<1>2. /\ jobs[j].state # "none" /\ Tell(e)
      /\ UNCHANGED <<window, modal, pool, signals, chats, ever, left>>
  BY DEF Enter, End, Inside, Active
<1>3. e \in Events /\ e.kind = "progress"
  BY <1>2 DEF Event, Events, Arranged, Addressed
<1>4. jobs' \in Rows /\ \A k \in Jobs : jobs'[k].state # "none" => jobs'[k].chat \in Chats
  BY <1>1, <1>2, BecomesKeeps
<1> HIDE DEF e
<1>5. events' \in Seq(Events)
      /\ \A i \in DOMAIN events' :
          /\ events'[i].kind = "authorization" => events'[i].job \in Jobs
          /\ events'[i].kind = "deleted" => events'[i].job = None
  BY <1>2, <1>3, ToldTo, TellIs
<1> QED BY <1>2, <1>4, <1>5, ServiceStep DEF Addressed

LEMMA ChallengeKeeps ==
    ASSUME Arranged, NEW j \in Jobs, Challenge(j), moves' \in 0 .. MaxMoves PROVE Arranged'
<1> DEFINE e == Event("authorization", jobs[j].chat, j)
<1>1. /\ jobs[j].state # "none" /\ Becomes(j, "asking")
      /\ Tell(e) \/ UNCHANGED events
      /\ UNCHANGED <<window, modal, pool, signals, chats, ever, left>>
  BY DEF Challenge
<1>2. e \in Events /\ e.kind = "authorization" /\ e.job \in Jobs
  BY <1>1 DEF Event, Events, Arranged, Addressed
<1>3. jobs' \in Rows /\ \A k \in Jobs : jobs'[k].state # "none" => jobs'[k].chat \in Chats
  BY <1>1, BecomesKeeps DEF States
<1> HIDE DEF e
<1>4. events' \in Seq(Events)
      /\ \A i \in DOMAIN events' :
          /\ events'[i].kind = "authorization" => events'[i].job \in Jobs
          /\ events'[i].kind = "deleted" => events'[i].job = None
  BY <1>1, <1>2, ToldTo, TellIs
<1> QED BY <1>1, <1>3, <1>4, ServiceStep DEF Addressed

LEMMA PhoneStartsKeeps ==
    ASSUME Arranged, NEW j \in Jobs, NEW c \in Chats, PhoneStarts(j, c), moves' \in 0 .. MaxMoves
    PROVE  Arranged'
<1>1. jobs' \in Rows /\ Addressed'
  BY TypesAre DEF Arranged, Addressed, PhoneStarts, Rows, States
<1> QED BY <1>1, ServiceStep, TypesAre DEF PhoneStarts, Arranged

LEMMA PhoneDeletesKeeps ==
    ASSUME Arranged, NEW c \in Chats, PhoneDeletes(c), moves' \in 0 .. MaxMoves PROVE Arranged'
<1> DEFINE e == Event("deleted", c, None)
<1>1. e \in Events /\ e.kind = "deleted" /\ e.job = None
  BY DEF Event, Events
<1>2. /\ Tell(e) /\ chats' \subseteq chats
      /\ UNCHANGED <<window, modal, pool, signals, jobs, ever, left>>
  BY DEF PhoneDeletes
<1> HIDE DEF e
<1>3. events' \in Seq(Events) /\ Addressed'
  BY <1>1, <1>2, Told, TellIs
<1> QED BY <1>2, <1>3, ServiceStep, TypesAre DEF Arranged

-----------------------------------------------------------------------------
(* The events of one poll, one after the other.                            *)
LEMMA LeastOf ==
    ASSUME NEW S \in SUBSET Nat, S # {}
    PROVE  \E n \in S : \A m \in S : n <= m
<1> DEFINE R == {p \in Nat \X Nat : p[1] < p[2]}
<1>1. IsWellFoundedOn(R, Nat)
  BY NatLessThanWellFounded DEF OpToRel
<1>2. PICK n \in S : \A m \in S : ~(<<m, n>> \in R)
  BY <1>1, WFMin, Zenon
<1>3. ASSUME NEW m \in S PROVE n <= m
  <2>1. m \in Nat /\ n \in Nat /\ <<m, n>> \in Nat \X Nat
    OBVIOUS
  <2>2. ~(m < n)
    <3> SUFFICES ASSUME m < n PROVE <<m, n>> \in R
      BY <1>2
    <3> QED BY <2>1
  <2> QED BY <2>1, <2>2
<1> QED BY <1>3

(* The recursive function is what its equation says: the windows after i   *)
(* events are those that event i makes of the windows before it.           *)
After(ws, i) == UNION {Handled(w, events[i]) : w \in ws}

LEMMA PolledIs ==
    ASSUME Len(events) \in Nat
    PROVE  \A i \in 0 .. Len(events) :
              Polled[i] = IF i = 0 THEN {window} ELSE After(Polled[i - 1], i)
<1> DEFINE Table(n) == \E g : g = [i \in 0 .. n |-> IF i = 0 THEN {window} ELSE After(g[i - 1], i)]
           Bad == {n \in Nat : ~Table(n)}
<1>1. Bad = {}
  <2> SUFFICES ASSUME Bad # {} PROVE FALSE
    OBVIOUS
  <2>1. PICK n \in Bad : \A m \in Bad : n <= m
    BY LeastOf
  <2>2. n # 0
    <3> DEFINE g == [i \in 0 .. 0 |-> {window}]
    <3>1. g = [i \in 0 .. 0 |-> IF i = 0 THEN {window} ELSE After(g[i - 1], i)]
      OBVIOUS
    <3> QED BY <3>1
  <2>3. n \in Nat /\ n - 1 \in Nat /\ Table(n - 1)
    <3> HIDE DEF Table
    <3> QED BY <2>1, <2>2
  <2>4. PICK g : g = [i \in 0 .. n - 1 |-> IF i = 0 THEN {window} ELSE After(g[i - 1], i)]
    BY <2>3
  <2> DEFINE h == [i \in 0 .. n |-> IF i = 0 THEN {window} ELSE After(g[i - 1], i)]
  <2>5. \A i \in 0 .. n - 1 : h[i] = g[i]
    <3> SUFFICES ASSUME NEW i \in 0 .. n - 1 PROVE h[i] = g[i]
      OBVIOUS
    <3>1. g[i] = IF i = 0 THEN {window} ELSE After(g[i - 1], i)
      BY <2>4
    <3>2. i \in 0 .. n
      BY <2>3
    <3> QED BY <3>1, <3>2
  <2>6. h = [i \in 0 .. n |-> IF i = 0 THEN {window} ELSE After(h[i - 1], i)]
    <3> HIDE DEF h
    <3>1. \A i \in 0 .. n : i # 0 => h[i - 1] = g[i - 1]
      <4> SUFFICES ASSUME NEW i \in 0 .. n, i # 0 PROVE h[i - 1] = g[i - 1]
        OBVIOUS
      <4>1. n \in Nat
        BY <2>3
      <4>2. i - 1 \in 0 .. n - 1
        BY <4>1
      <4> QED BY <4>2, <2>5
    <3>2. h = [i \in 0 .. n |-> IF i = 0 THEN {window} ELSE After(g[i - 1], i)]
      BY DEF h
    <3> QED BY <3>1, <3>2
  <2> HIDE DEF h
  <2>7. Table(n)
    BY <2>6
  <2> QED BY <2>1, <2>7
<1>2. Table(Len(events))
  BY <1>1
<1>3. Polled = [i \in 0 .. Len(events) |-> IF i = 0 THEN {window} ELSE After(Polled[i - 1], i)]
  BY <1>2 DEF Polled, After
<1> QED BY <1>3

(* What the owner left, once the deletions up to event i are known.        *)
LeftAt(i) ==
    [c \in Chats |-> IF \E k \in 1 .. i : events[k] = Event("deleted", c, None)
                     THEN Blank ELSE left[c]]

LEMMA HandledSound ==
    ASSUME Arranged, NEW i \in DOMAIN events, NEW w, Sound(w, LeftAt(i - 1)), Steady(window, w),
           window.current \in chats => w.current = window.current,
           NEW v \in Handled(w, events[i])
    PROVE  /\ Sound(v, LeftAt(i)) /\ Steady(window, v)
           /\ window.current \in chats => v.current = window.current
<1> DEFINE e == events[i]
<1>1. /\ events \in Seq(Events) /\ e \in Events /\ i \in 1 .. Len(events)
      /\ e.kind = "authorization" => e.job \in Jobs
      /\ e.kind = "deleted" => e.job = None
  BY TypesAre DEF Arranged, Addressed
<1>2. left \in [Chats -> Drafts] /\ LeftAt(i - 1) \in [Chats -> Drafts] /\ chats \subseteq Chats
  BY TypesAre DEF Arranged, LeftAt, Blank, Drafts
<1>3. e.kind # "deleted" => LeftAt(i) = LeftAt(i - 1)
  BY <1>1 DEF LeftAt, Event
<1>4. e.kind = "deleted" => LeftAt(i) = [LeftAt(i - 1) EXCEPT ![e.chat] = Blank]
  <2> SUFFICES ASSUME e.kind = "deleted" PROVE LeftAt(i) = [LeftAt(i - 1) EXCEPT ![e.chat] = Blank]
    OBVIOUS
  <2>1. \A c \in Chats : e = Event("deleted", c, None) <=> c = e.chat
    BY <1>1 DEF Event, Events
  <2>2. \A c \in Chats : (\E k \in 1 .. i : events[k] = Event("deleted", c, None))
                         <=> c = e.chat \/ \E k \in 1 .. i - 1 : events[k] = Event("deleted", c, None)
    <3>1. \A k : k \in 1 .. i <=> k = i \/ k \in 1 .. i - 1
      BY <1>1
    <3> QED BY <2>1, <3>1
  <2>3. \A c \in Chats : LeftAt(i)[c] = IF c = e.chat THEN Blank ELSE LeftAt(i - 1)[c]
    BY <2>2 DEF LeftAt
  <2>4. LeftAt(i) = [c \in Chats |-> LeftAt(i)[c]]
    BY DEF LeftAt
  <2> QED BY <1>2, <2>3, <2>4
<1> HIDE DEF e
<1>5. CASE e.kind = "progress"
  <2>1. v = Composer(w, jobs) \/ v = w
    BY <1>5 DEF Handled, e
  <2> QED BY <1>3, <1>5, <2>1, ComposerSound, SteadyOn DEF Sound
<1>6. CASE e.kind = "authorization"
  <2>1. v = Asked(w, e.job, FALSE)
    BY <1>6 DEF Handled, e
  <2> QED BY <1>1, <1>3, <1>6, <2>1, AskedSound, SteadyOn
<1>7. CASE e.kind = "deleted"
  <2>1. PICK c \in Selected(chats, w.current) : v = Refreshed(Discarded(w, e.chat), c, jobs)
    BY <1>7 DEF Handled, e
  <2>2. c \in Chats \cup {None} /\ (w.current \in chats => c = w.current)
    BY <1>2, SelectedIs DEF Sound, Kept, Windows
  <2>3. e.chat \in Chats
    BY <1>1 DEF Events
  <2> DEFINE d == Discarded(w, e.chat)
  <2>4. Sound(d, LeftAt(i)) /\ Steady(w, d)
    BY <1>2, <1>4, <1>7, <2>3, DiscardedSound
  <2>5. v = Refreshed(d, c, jobs)
    BY <2>1
  <2> HIDE DEF d
  <2> QED BY <2>2, <2>4, <2>5, RefreshedSound, SteadyOn
<1> QED BY <1>1, <1>5, <1>6, <1>7 DEF Events

LEMMA PollKeeps ==
    ASSUME Arranged, Poll, moves' \in 0 .. MaxMoves PROVE Arranged'
<1> DEFINE Right(i) == \A w \in Polled[i] :
                          /\ Sound(w, LeftAt(i)) /\ Steady(window, w)
                          /\ window.current \in chats => w.current = window.current
           Bad == {i \in 0 .. Len(events) : ~Right(i)}
<1>1. events \in Seq(Events) /\ Len(events) \in Nat /\ DOMAIN events = 1 .. Len(events)
  BY TypesAre DEF Arranged
<1>2. Right(0)
  <2>1. Polled[0] = {window}
    BY <1>1, PolledIs
  <2>2. LeftAt(0) = left
    BY TypesAre DEF LeftAt, Arranged
  <2> QED BY <2>1, <2>2 DEF Arranged, Steady
<1>3. Bad = {}
  <2> SUFFICES ASSUME Bad # {} PROVE FALSE
    OBVIOUS
  <2>1. PICK n \in Bad : \A m \in Bad : n <= m
    <3>1. Bad \in SUBSET Nat
      BY <1>1
    <3> HIDE DEF Bad
    <3> QED BY <3>1, LeastOf
  <2>2. n \in DOMAIN events /\ n - 1 \in 0 .. Len(events) /\ n # 0
    BY <1>1, <1>2, <2>1
  <2>3. Right(n - 1)
    BY <1>1, <2>1, <2>2
  <2>4. Polled[n] = After(Polled[n - 1], n)
    BY <1>1, <2>2, PolledIs
  <2>5. Right(n)
    <3> SUFFICES ASSUME NEW v \in Polled[n]
                 PROVE  /\ Sound(v, LeftAt(n)) /\ Steady(window, v)
                        /\ window.current \in chats => v.current = window.current
      OBVIOUS
    <3>1. PICK w \in Polled[n - 1] : v \in Handled(w, events[n])
      BY <2>4 DEF After
    <3> QED BY <2>2, <2>3, <3>1, HandledSound
  <2> QED BY <2>1, <2>5
<1>4. Right(Len(events))
  BY <1>1, <1>3
<1>5. /\ window' \in Polled[Len(events)] /\ events' = <<>>
      /\ UNCHANGED <<modal, pool, signals, jobs, chats, ever>>
      /\ left' = LeftAt(Len(events))
  BY <1>1 DEF Poll, LeftAt
<1>6. /\ Sound(window', left') /\ Steady(window, window')
      /\ window.current \in chats => window'.current = window.current
  BY <1>4, <1>5
<1>7. left' \in [Chats -> Drafts]
  BY <1>5, TypesAre DEF LeftAt, Arranged, Blank, Drafts
<1>8. events' \in Seq(Events) /\ Addressed' /\ Asking'
  BY <1>5, <1>6 DEF Arranged, Addressed, Asking
<1>9. OneAnswer'
  BY <1>5, <1>6, StillOne, QueuesStay
<1> QED BY <1>5, <1>6, <1>7, <1>8, <1>9, Rest, TypesAre DEF Arranged

-----------------------------------------------------------------------------
LEMMA NextKeeps == Arranged /\ [Next]_vars => Arranged'
<1> SUFFICES ASSUME Arranged, [Next]_vars PROVE Arranged'
  OBVIOUS
<1>1. moves \in 0 .. MaxMoves /\ MaxMoves \in Nat
  BY TypesAre, DesktopAssumption DEF Arranged
<1>2. CASE UNCHANGED vars
  BY <1>2 DEF vars, Arranged, TypeOK, Sound, Addressed, Asking, OneAnswer, ToCheck, Checked
<1>3. ASSUME moves' = moves,
             \/ Type \/ Refresh \/ Confirm \/ Reject
             \/ \E b \in BOOLEAN : FilesChosen(b) \/ AnswerDelete(b) \/ Accept(b)
             \/ \E j \in Jobs : Send(j)
             \/ \E c \in Chats : Select(c)
             \/ \E j \in Jobs, c \in Chats : PhoneStarts(j, c)
      PROVE  Arranged'
  BY <1>1, <1>3, TypeKeeps, RefreshKeeps, PromptKeeps, RejectKeeps, FilesChosenKeeps,
     AnswerDeleteKeeps, AcceptKeeps, SendKeeps, SelectKeeps, PhoneStartsKeeps
<1>4. ASSUME moves < MaxMoves, moves' = moves + 1,
             \/ ChooseFiles \/ ClearFiles \/ Close \/ AskDelete
             \/ \E j \in Jobs : QuickSend(j)
             \/ \E c \in Chats : New(c) \/ PhoneDeletes(c)
      PROVE  Arranged'
  <2>1. moves' \in 0 .. MaxMoves
    BY <1>1, <1>4
  <2> QED BY <1>4, <2>1, ChooseFilesKeeps, ClearFilesKeeps, CloseKeeps, AskDeleteKeeps,
             QuickSendKeeps, NewKeeps, PhoneDeletesKeeps
<1>5. CASE Owner
  BY <1>3, <1>4, <1>5 DEF Owner
<1>6. ASSUME moves' = moves,
             \/ Thread \/ Service \/ Prompt \/ Signal \/ Poll
             \/ \E j \in Jobs : Challenge(j)
      PROVE  Arranged'
  BY <1>1, <1>6, WaitKeeps, AuthorizeKeeps, EnterKeeps, PromptKeeps, SignalKeeps, PollKeeps,
     ChallengeKeeps DEF Thread, Service
<1> QED BY <1>2, <1>5, <1>6 DEF Next

(* The invariant of the window: what is kept where, and for whom.          *)
THEOREM ArrangedInvariant == Spec => []Arranged
BY InitArranged, NextKeeps, PTL DEF Spec

(* Windows, queues and jobs keep their types, for any chats and jobs.      *)
THEOREM TypeCorrect == Spec => []TypeOK
<1>1. Arranged => TypeOK
  BY DEF Arranged
<1> QED BY <1>1, ArrangedInvariant, PTL

(* Whenever the owner may write, the composer holds what the owner left in *)
(* that chat, over authorizations, replies, deletions and events.          *)
THEOREM DraftsReturnHolds == Spec => []DraftsReturn
<1>1. Arranged => DraftsReturn
  <2> SUFFICES ASSUME Arranged, window.enabled, window.current \notin window.spoilt
               PROVE  window.composer = left[window.current]
    BY DEF DraftsReturn
  <2>1. window.current \in Chats \ window.spoilt /\ window.current # window.draftOf
    BY DEF Arranged, Sound, Kept, Windows
  <2> QED BY <2>1 DEF Arranged, Sound, Kept, Held
<1> QED BY <1>1, ArrangedInvariant, PTL

(* No text is ever in the composer or the draft of another chat.           *)
THEOREM NoLeakHolds == Spec => []NoLeak
<1>1. Arranged => NoLeak
  BY DEF Arranged, Sound, Kept, NoLeak
<1> QED BY <1>1, ArrangedInvariant, PTL

(* The one answer on its way is for the authorization shown.               *)
THEOREM OneAnswerHolds == Spec => []OneAnswer
<1>1. Arranged => OneAnswer
  BY DEF Arranged
<1> QED BY <1>1, ArrangedInvariant, PTL
=============================================================================
