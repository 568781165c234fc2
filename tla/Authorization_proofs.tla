------------------------- MODULE Authorization_proofs -------------------------
(***************************************************************************)
(* Theorems about the authorization manager, for any limits, lifetimes,    *)
(* passwords and threads.  Guarded is the inductive invariant: it says how *)
(* the counters of a record bound the ages of the wrong guesses.           *)
(***************************************************************************)
EXTENDS Authorization, SequenceTheorems, TLAPS

(* Counters that the code can produce: no failures without a window, a     *)
(* lockout exactly with the last failure, and no older than the window.    *)
Sound(r) ==
    /\ r \in Records
    /\ r.failures = 0 => r.window = Window
    /\ r.failures = Failures => r.lock <= r.window
    /\ r.failures < Failures => r.lock = Window

(* Wrong guesses of ages s, newest first, under a record: the failures of  *)
(* the window are the newest; the window before it had one failure less    *)
(* than a lockout, and its first is a whole window old.                    *)
Spread(s, r) ==
    /\ \A i, k \in 1 .. Len(s) : i <= k => s[i] <= s[k]
    /\ r \in Records =>
        \A i \in 1 .. Len(s) :
            /\ i >= r.failures => s[i] >= r.window
            /\ r.failures = Failures => s[i] >= r.lock
            /\ i >= r.failures + Failures - 1 => s[i] = Window

Guarded ==
    /\ TypeOK
    /\ record \in Records => Sound(record)
    /\ disk \in Records => Sound(disk)
    /\ PasswordIsSaved
    /\ record = Damaged => disk = Damaged
    /\ Spread(guesses, record)
    /\ record \notin Records => guesses = <<>>

-----------------------------------------------------------------------------
(* The three kinds of record are told apart by what they hold.             *)
LEMMA KindsDiffer ==
    /\ NoRecord \notin Records /\ Damaged \notin Records /\ NoRecord # Damaged
    /\ NoRecord.secret = NoPassword /\ Damaged.secret = NoPassword
<1>1. NoRecord.secret = NoPassword /\ Damaged.secret = NoPassword
    BY DEF NoRecord, Damaged
<1>2. \A r \in Records : r.secret # NoPassword
    BY AuthorizationAssumption DEF Records
<1>3. DOMAIN NoRecord = {"secret"} /\ DOMAIN Damaged = {"secret", "damaged"}
    BY DEF NoRecord, Damaged
<1>4. QED
    BY <1>1, <1>2, <1>3

(* A new record is sound.                                                  *)
LEMMA NewIsSound ==
    ASSUME NEW p \in Passwords
    PROVE  Sound(New(p)) /\ New(p).secret = p /\ New(p).window = Window
    BY AuthorizationAssumption DEF Sound, New, Records

(* Refreshing keeps the password and the clocks; what is not locked then   *)
(* has fewer failures than a lockout, and none without a window.           *)
LEMMA RefreshedIsSound ==
    ASSUME NEW r, Sound(r)
    PROVE  /\ Sound(Refreshed(r))
           /\ Refreshed(r).secret = r.secret
           /\ Refreshed(r).lock = r.lock /\ Refreshed(r).window = r.window
           /\ r.window < Window => Refreshed(r).failures = r.failures
           /\ r.lock = Window /\ r.window = Window => Refreshed(r).failures = 0
<1>1. /\ r \in Records /\ r.window \in 0 .. Window /\ r.lock \in 0 .. Window
      /\ r.failures \in 0 .. Failures /\ r.secret \in Passwords
    BY DEF Sound, Records
<1>2. CASE r.lock < Window \/ r.window < Window
    BY <1>1, <1>2, AuthorizationAssumption DEF Refreshed
<1>3. CASE ~(r.lock < Window \/ r.window < Window)
  <2>1. Refreshed(r) = [r EXCEPT !.failures = 0]
    BY <1>3 DEF Refreshed
  <2>2. r.window = Window /\ r.lock = Window
    BY <1>1, <1>3, AuthorizationAssumption
  <2>3. QED
    BY <1>1, <2>1, <2>2, AuthorizationAssumption DEF Sound, Records
<1>4. QED
    BY <1>2, <1>3

(* A failure outside a lockout opens a window or adds to it; the last one  *)
(* begins the lockout.                                                     *)
LEMMA FailedIsSound ==
    ASSUME NEW r, Sound(r), ~Locked(Refreshed(r))
    PROVE  LET n == Failed(Refreshed(r)) IN
           /\ Sound(n) /\ n.secret = r.secret
           /\ n.window = (IF r.window = Window THEN 0 ELSE r.window)
           /\ n.failures = (IF r.window = Window THEN 1 ELSE r.failures + 1)
           /\ n.failures = Failures => n.lock = 0
           /\ r.window < Window => r.failures < Failures /\ r.failures > 0
           /\ r.lock = Window
<1> DEFINE e == Refreshed(r)
           c == [e EXCEPT !.failures = @ + 1, !.window = IF @ = Window THEN 0 ELSE @]
           n == Failed(e)
<1>1. /\ Sound(e) /\ e.secret = r.secret /\ e.lock = r.lock /\ e.window = r.window
      /\ r.window < Window => e.failures = r.failures
      /\ r.lock = Window /\ r.window = Window => e.failures = 0
    BY RefreshedIsSound
<1>2. /\ e \in Records /\ e.window \in 0 .. Window /\ e.lock \in 0 .. Window
      /\ e.failures \in 0 .. Failures /\ e.secret \in Passwords
    BY <1>1 DEF Sound, Records
<1> HIDE DEF e
<1>3. e.lock = Window /\ r.lock = Window
    BY <1>1, <1>2, AuthorizationAssumption DEF Locked, e
<1>4. e.failures < Failures /\ (r.window < Window => r.failures > 0)
    BY <1>1, <1>2, <1>3, AuthorizationAssumption DEF Sound
<1>5. /\ c.secret = r.secret /\ c.lock = Window
      /\ c.window = (IF r.window = Window THEN 0 ELSE r.window)
      /\ c.failures = e.failures + 1
      /\ c \in Records
  <2>1. e.failures + 1 \in 0 .. Failures /\ 0 \in 0 .. Window
    BY <1>2, <1>4, AuthorizationAssumption
  <2>2. (IF e.window = Window THEN 0 ELSE e.window) \in 0 .. Window
    BY <1>2, <2>1
  <2>3. /\ c.secret = e.secret /\ c.lock = e.lock
        /\ c.window = (IF e.window = Window THEN 0 ELSE e.window)
        /\ c.failures = e.failures + 1
    BY <1>2 DEF Records
  <2>4. c \in Records
    BY <1>2, <2>1, <2>2 DEF Records
  <2>5. QED
    BY <1>1, <1>3, <2>3, <2>4
<1>6. n = IF c.failures >= Failures THEN [c EXCEPT !.lock = 0] ELSE c
    BY DEF Failed
<1> HIDE DEF c, n
<1>7. /\ n \in Records /\ n.secret = r.secret /\ n.window = c.window
      /\ n.failures = c.failures
      /\ n.lock = (IF c.failures >= Failures THEN 0 ELSE Window)
    BY <1>5, <1>6, AuthorizationAssumption DEF Records
<1>8. r.window \in 0 .. Window
    BY <1>1, <1>2
<1>9. Sound(n)
    BY <1>1, <1>2, <1>4, <1>5, <1>7, <1>8, AuthorizationAssumption DEF Sound
<1>10. n.failures = (IF r.window = Window THEN 1 ELSE r.failures + 1)
    BY <1>1, <1>3, <1>5, <1>7, <1>8, AuthorizationAssumption
<1>11. r.window < Window => r.failures < Failures
    BY <1>1, <1>4
<1>12. n.failures = Failures => n.lock = 0
    BY <1>7, AuthorizationAssumption
<1>13. n = Failed(Refreshed(r))
    BY DEF n, e
<1>14. QED
    BY <1>3, <1>4, <1>5, <1>7, <1>9, <1>10, <1>11, <1>12, <1>13

(* The age of a record changes its clocks only.                            *)
LEMMA OlderIsSound ==
    ASSUME NEW r, Sound(r)
    PROVE  /\ Sound(OlderRecord(r)) /\ OlderRecord(r).secret = r.secret
           /\ OlderRecord(r).failures = r.failures
           /\ OlderRecord(r).window = Older(r.window, Window)
           /\ OlderRecord(r).lock = Older(r.lock, Window)
<1>1. /\ r \in Records /\ r.window \in 0 .. Window /\ r.lock \in 0 .. Window
      /\ r.failures \in 0 .. Failures /\ r.secret \in Passwords
    BY DEF Sound, Records
<1>2. /\ Older(r.window, Window) \in 0 .. Window /\ Older(r.lock, Window) \in 0 .. Window
      /\ r.window = Window => Older(r.window, Window) = Window
      /\ r.lock = Window => Older(r.lock, Window) = Window
      /\ r.lock <= r.window => Older(r.lock, Window) <= Older(r.window, Window)
    BY <1>1, AuthorizationAssumption DEF Older
<1> DEFINE n == [r EXCEPT !.window = Older(@, Window), !.lock = Older(@, Window)]
<1>3. /\ n \in Records /\ n.secret = r.secret /\ n.failures = r.failures
      /\ n.window = Older(r.window, Window) /\ n.lock = Older(r.lock, Window)
    BY <1>1, <1>2 DEF Records
<1>4. OlderRecord(r) = n
    BY <1>1 DEF OlderRecord
<1> HIDE DEF n
<1>5. Sound(n)
    BY <1>2, <1>3 DEF Sound
<1>6. QED
    BY <1>3, <1>4, <1>5

(* One more wrong guess, on top of those before.                           *)
LEMMA RememberedIsSpread ==
    ASSUME NEW s \in Seq(0 .. Window), NEW r, Spread(s, r), Sound(r),
           ~Locked(Refreshed(r)), Len(s) <= Latest
    PROVE  /\ Remembered(<<0>> \o s) \in Seq(0 .. Window)
           /\ Len(Remembered(<<0>> \o s)) <= Latest
           /\ Spread(Remembered(<<0>> \o s), Failed(Refreshed(r)))
<1> DEFINE g == <<0>> \o s
           t == Remembered(g)
           n == Failed(Refreshed(r))
<1>1. /\ g \in Seq(0 .. Window) /\ Len(g) = Len(s) + 1 /\ g[1] = 0
      /\ \A i \in 2 .. Len(g) : g[i] = s[i - 1]
  <2>1. <<0>> \in Seq(0 .. Window) /\ Len(<<0>>) = 1 /\ <<0>>[1] = 0
    BY AuthorizationAssumption
  <2>2. QED
    BY <2>1, ConcatProperties
<1>2. Latest \in Nat
    BY AuthorizationAssumption DEF Latest
<1> HIDE DEF g
<1>3. /\ t \in Seq(0 .. Window) /\ Len(t) <= Latest /\ Len(t) <= Len(g)
      /\ \A i \in 1 .. Len(t) : t[i] = g[i]
  <2> DEFINE m == IF Len(g) < Latest THEN Len(g) ELSE Latest
  <2>1. m \in 0 .. Len(g) /\ m <= Latest /\ Len(g) \in Nat /\ t = SubSeq(g, 1, m)
    BY <1>1, <1>2, LenProperties DEF Remembered
  <2> HIDE DEF m, t
  <2>2. \A i \in 1 .. m : g[i] \in 0 .. Window
    <3>1. \A i \in 1 .. Len(g) : g[i] \in 0 .. Window
        BY <1>1, ElementOfSeq
    <3>2. QED
        BY <3>1, <2>1
  <2>3. m \in Int /\ 1 \in Int /\ m - 1 + 1 = m /\ \A i \in 1 .. m : 1 + i - 1 = i
    BY <2>1
  <2>4. /\ SubSeq(g, 1, m) \in Seq(0 .. Window) /\ Len(SubSeq(g, 1, m)) = m
        /\ \A i \in 1 .. m - 1 + 1 : SubSeq(g, 1, m)[i] = g[1 + i - 1]
    BY <2>1, <2>2, <2>3, SubSeqProperties
  <2>5. QED
    BY <2>1, <2>3, <2>4
<1>4. /\ Sound(n)
      /\ n.window = (IF r.window = Window THEN 0 ELSE r.window)
      /\ n.failures = (IF r.window = Window THEN 1 ELSE r.failures + 1)
      /\ n.failures = Failures => n.lock = 0
      /\ r.window < Window => r.failures < Failures /\ r.failures > 0
      /\ r.lock = Window
    BY FailedIsSound
<1> HIDE DEF t, n
<1>5. /\ r \in Records /\ r.window \in 0 .. Window /\ r.failures \in 0 .. Failures
      /\ n.failures \in 0 .. Failures
    BY <1>4 DEF Sound, Records
<1>6. \A i \in 1 .. Len(s) : s[i] \in 0 .. Window
    BY ElementOfSeq
<1>7. \A i \in 1 .. Len(t) : t[i] \in 0 .. Window
    BY <1>3, ElementOfSeq
<1>8. \A i \in 1 .. Len(t) : i > 1 => i - 1 \in 1 .. Len(s) /\ t[i] = s[i - 1]
    BY <1>1, <1>3
<1>9. t # <<>> => 1 \in 1 .. Len(t) /\ t[1] = 0
    BY <1>1, <1>3
<1>10. ASSUME NEW i \in 1 .. Len(t), NEW k \in 1 .. Len(t), i <= k
       PROVE  t[i] <= t[k]
  <2>1. CASE i = 1
    BY <2>1, <1>7, <1>9
  <2>2. CASE i > 1
    <3>1. k > 1 /\ i - 1 <= k - 1
        BY <1>10, <2>2
    <3>2. QED
        BY <3>1, <2>2, <1>8, <1>10 DEF Spread
  <2>3. QED
    BY <2>1, <2>2
<1>11. ASSUME NEW i \in 1 .. Len(t)
       PROVE  /\ i >= n.failures => t[i] >= n.window
              /\ n.failures = Failures => t[i] >= n.lock
              /\ i >= n.failures + Failures - 1 => t[i] = Window
  <2>1. n.failures = Failures => t[i] >= n.lock
    BY <1>4, <1>7
  <2>2. CASE r.window = Window
    <3>1. n.window = 0 /\ n.failures = 1
        BY <1>4, <2>2
    <3>2. ASSUME i >= Failures PROVE t[i] = Window
      <4>1. i > 1 /\ i - 1 \in 1 .. Len(s) /\ t[i] = s[i - 1]
        BY <3>2, <1>8, AuthorizationAssumption
      <4>2. i - 1 >= Failures - 1
        BY <3>2, AuthorizationAssumption
      <4>3. CASE r.failures = Failures
        BY <4>1, <4>3, <1>4, <1>5, <1>6 DEF Spread
      <4>4. CASE r.failures < Failures
        <5>1. i - 1 >= r.failures
            BY <4>2, <4>4, <1>5, AuthorizationAssumption
        <5>2. s[i - 1] >= Window
            BY <5>1, <4>1, <1>5, <2>2 DEF Spread
        <5>3. QED
            BY <5>2, <4>1, <1>6, AuthorizationAssumption
      <4>5. QED
        BY <4>3, <4>4, <1>5, AuthorizationAssumption
    <3>3. QED
        BY <2>1, <3>1, <3>2, <1>7, AuthorizationAssumption
  <2>3. CASE r.window < Window
    <3>1. /\ n.window = r.window /\ n.failures = r.failures + 1
          /\ r.failures > 0
        BY <1>4, <1>5, <2>3, AuthorizationAssumption
    <3>2. ASSUME i >= n.failures PROVE t[i] >= n.window
      <4>1. i > 1 /\ i - 1 >= r.failures
        BY <3>1, <3>2, <1>5
      <4>2. QED
        BY <4>1, <3>1, <1>5, <1>8 DEF Spread
    <3>3. ASSUME i >= n.failures + Failures - 1 PROVE t[i] = Window
      <4>1. i > 1 /\ i - 1 >= r.failures + Failures - 1
        BY <3>1, <3>3, <1>5, AuthorizationAssumption
      <4>2. QED
        BY <4>1, <1>5, <1>8 DEF Spread
    <3>4. QED
        BY <2>1, <3>2, <3>3
  <2>4. QED
    BY <2>2, <2>3, <1>5, AuthorizationAssumption
<1>12. Spread(t, n)
    BY <1>10, <1>11 DEF Spread
<1>13. QED
    BY <1>3, <1>12 DEF t, n, g

-----------------------------------------------------------------------------
(* Empty functions and parts of open keep its type.                        *)
OpenTyped(f) == DOMAIN f \subseteq 1 .. issued /\ f \in [DOMAIN f -> 0 .. Lifetime]

LEMMA PartsAreTyped ==
    ASSUME NEW f, OpenTyped(f), NEW S
    PROVE  OpenTyped(Without(f, S)) /\ OpenTyped(Nothing)
    BY DEF OpenTyped, Without, Nothing

(* A sound record has the fields of one.                                   *)
LEMMA SoundIsRecord == ASSUME NEW r, Sound(r) PROVE r \in Records
    BY DEF Sound

(* A save changes the file and the faults, or the faults only.             *)
LEMMA SaveTyped ==
    ASSUME Guarded, NEW r, Sound(r), NEW saved \in BOOLEAN, Save(r, saved)
    PROVE  /\ disk' \in Records \cup {NoRecord, Damaged}
           /\ disk' \in Records => Sound(disk')
           /\ faults' \in 0 .. MaxFaults
           /\ disk' \in {r, disk}
           /\ saved => disk' = r
<1>1. CASE saved
    BY <1>1, SoundIsRecord DEF Save, Guarded, TypeOK
<1>2. CASE ~saved
    BY <1>2, AuthorizationAssumption DEF Save, Fault, Guarded, TypeOK
<1>3. QED
    BY <1>1, <1>2

(* What a comparison leaves: a sound record with the same password, a file *)
(* with it or a damaged one, and guesses that its failures bound.          *)
Compared ==
    /\ record' \in Records /\ Sound(record') /\ record'.secret = record.secret
    /\ disk' \in Records \cup {NoRecord, Damaged}
    /\ disk' \in Records => Sound(disk')
    /\ disk' # Damaged => disk'.secret = record.secret
    /\ faults' \in 0 .. MaxFaults
    /\ guesses' \in Seq(0 .. Window) /\ Len(guesses') <= Latest
    /\ Spread(guesses', record')

LEMMA CompareKeeps ==
    ASSUME Guarded, NEW guess \in Passwords, NEW saved \in BOOLEAN,
           record \in Records, ~Locked(Refreshed(record)), Compare(guess, saved)
    PROVE  Compared
<1> DEFINE r == Refreshed(record)
<1>1. /\ Sound(record) /\ Spread(guesses, record) /\ record.secret \in Passwords
      /\ guesses \in Seq(0 .. Window) /\ Len(guesses) <= Latest
      /\ disk # Damaged => disk.secret = record.secret
    BY DEF Guarded, TypeOK, PasswordIsSaved, Records
<1>2. /\ Sound(r) /\ r.secret = record.secret /\ r.window = record.window
    BY <1>1, RefreshedIsSound
<1>3. /\ Latest \in Nat /\ Len(<<>>) = 0 /\ <<>> \in Seq(0 .. Window)
      /\ \A n : Spread(<<>>, n)
    BY AuthorizationAssumption DEF Latest, Spread
<1>4. CASE guess # r.secret
  <2>1. /\ record' = Failed(r) /\ Save(record', saved)
        /\ guesses' = Remembered(<<0>> \o guesses)
    BY <1>4 DEF Compare
  <2>2. Sound(record') /\ record'.secret = record.secret
    BY <1>1, <2>1, FailedIsSound
  <2>3. /\ guesses' \in Seq(0 .. Window) /\ Len(guesses') <= Latest
        /\ Spread(guesses', record')
    BY <1>1, <2>1, RememberedIsSpread
  <2>4. /\ disk' \in Records \cup {NoRecord, Damaged}
        /\ disk' \in Records => Sound(disk')
        /\ faults' \in 0 .. MaxFaults
        /\ disk' \in {record', disk}
    BY <2>1, <2>2, SaveTyped
  <2>5. QED
    BY <1>1, <2>2, <2>3, <2>4, SoundIsRecord DEF Compared
<1>5. CASE guess = r.secret /\ r.window < Window
  <2>1. /\ record' = New(r.secret) /\ Save(record', saved) /\ guesses' = <<>>
    BY <1>5 DEF Compare
  <2>2. Sound(record') /\ record'.secret = record.secret
    BY <1>1, <1>2, <2>1, NewIsSound
  <2>3. /\ disk' \in Records \cup {NoRecord, Damaged}
        /\ disk' \in Records => Sound(disk')
        /\ faults' \in 0 .. MaxFaults
        /\ disk' \in {record', disk}
    BY <2>1, <2>2, SaveTyped
  <2>4. QED
    BY <1>1, <1>3, <2>1, <2>2, <2>3, SoundIsRecord DEF Compared
<1>6. CASE guess = r.secret /\ ~(r.window < Window)
  <2>1. record' = r /\ UNCHANGED <<disk, faults>> /\ guesses' = <<>>
    BY <1>6 DEF Compare
  <2>2. QED
    BY <1>1, <1>2, <1>3, <2>1, SoundIsRecord DEF Compared, Guarded, TypeOK
<1>7. QED
    BY <1>4, <1>5, <1>6

-----------------------------------------------------------------------------
LEMMA InitGuarded == Init => Guarded
<1> SUFFICES ASSUME Init PROVE Guarded
    OBVIOUS
<1>1. /\ <<>> \in Seq(0 .. Window) /\ Len(<<>>) = 0 /\ Latest \in Nat
      /\ Window \in 0 .. Window /\ 0 \in 0 .. MaxChallenges /\ 0 \in 0 .. MaxFaults
    BY AuthorizationAssumption DEF Latest
<1>2. DOMAIN Nothing = {} /\ Nothing \in [{} -> 0 .. Lifetime]
    BY DEF Nothing
<1>3. TypeOK
    BY <1>1, <1>2, AuthorizationAssumption DEF Init, TypeOK
<1>4. Spread(guesses, record)
    BY <1>1 DEF Init, Spread
<1>5. QED
    BY <1>3, <1>4, KindsDiffer DEF Init, Guarded, PasswordIsSaved

(* Issuing adds a fresh challenge or only sweeps.                          *)
LEMMA IssueKeeps ==
    ASSUME TypeOK, Issue
    PROVE  /\ issued' \in 0 .. MaxChallenges
           /\ DOMAIN open' \subseteq 1 .. issued' /\ open' \in [DOMAIN open' -> 0 .. Lifetime]
<1>1. /\ issued \in 0 .. MaxChallenges /\ OpenTyped(open) /\ OpenTyped(Pruned)
    BY PartsAreTyped DEF TypeOK, Pruned, OpenTyped
<1>2. CASE issued' = issued /\ open' \in {open, Pruned}
    BY <1>1, <1>2 DEF OpenTyped
<1>3. CASE /\ issued < MaxChallenges /\ issued' = issued + 1
           /\ open' = [c \in DOMAIN Pruned \cup {issued'} |-> IF c = issued' THEN 0 ELSE open[c]]
  <2>1. issued' \in 0 .. MaxChallenges /\ 0 \in 0 .. Lifetime
    BY <1>1, <1>3, AuthorizationAssumption
  <2>2. DOMAIN Pruned \subseteq DOMAIN open /\ DOMAIN open \subseteq 1 .. issued
    BY <1>1 DEF Pruned, Without, OpenTyped
  <2>3. \A c \in DOMAIN Pruned : open[c] \in 0 .. Lifetime
    BY <1>1, <2>2 DEF OpenTyped
  <2>4. QED
    BY <1>1, <1>3, <2>1, <2>2, <2>3
<1>4. QED
    BY <1>2, <1>3 DEF Issue

(* A step of the challenges only.                                          *)
LEMMA ChallengesOnly ==
    ASSUME Guarded, UNCHANGED <<manager, faults, guesses>>, TypeOK'
    PROVE  Guarded'
    BY DEF Guarded, manager, PasswordIsSaved, Spread, Sound

LEMMA ConfigureKeeps ==
    ASSUME Guarded, NEW p \in Passwords, NEW saved \in BOOLEAN, Configure(p, saved)
    PROVE  Guarded'
<1>1. Sound(New(p)) /\ New(p).secret = p /\ New(p) \in Records
    BY NewIsSound, SoundIsRecord
<1>2. guesses = <<>> /\ record.secret = NoPassword /\ record # Damaged
    BY KindsDiffer DEF Guarded, Configure
<1>3. /\ disk' \in Records \cup {NoRecord, Damaged}
      /\ disk' \in Records => Sound(disk')
      /\ faults' \in 0 .. MaxFaults
      /\ disk' \in {New(p), disk} /\ (saved => disk' = New(p))
    BY <1>1, SaveTyped DEF Configure
<1>4. ~saved => disk' = disk
    BY DEF Configure, Save
<1>5. record' = (IF saved THEN New(p) ELSE NoRecord)
    BY DEF Configure, Kept
<1>6. \A n : Spread(<<>>, n)
    BY DEF Spread
<1>7. TypeOK'
    BY <1>1, <1>3, <1>5 DEF Guarded, TypeOK, Configure, history
<1>8. guesses' = <<>>
    BY <1>2 DEF Configure, history
<1>9. QED
    BY <1>1, <1>2, <1>3, <1>4, <1>5, <1>6, <1>7, <1>8, KindsDiffer
    DEF Guarded, PasswordIsSaved, Configure

LEMMA ChangeKeeps ==
    ASSUME Guarded, NEW guess \in Passwords, NEW p \in Passwords,
           NEW saved \in BOOLEAN, NEW savedNew \in BOOLEAN,
           ChangePassword(guess, p, saved, savedNew)
    PROVE  Guarded'
<1> DEFINE r == Refreshed(record)
           verified == IF r.window < Window THEN New(r.secret) ELSE r
<1>1. /\ record \in Records /\ Sound(record) /\ record.secret \in Passwords
      /\ ~Locked(r)
      /\ disk # Damaged => disk.secret = record.secret
    BY DEF Guarded, ChangePassword, Configured, Records, PasswordIsSaved
<1>2. CASE Passed(guess, saved)
  <2>1. Sound(r) /\ r.secret = record.secret
    BY <1>1, RefreshedIsSound
  <2>2. Sound(New(r.secret)) /\ New(r.secret).secret = r.secret
    BY <1>1, <2>1, NewIsSound
  <2>3. /\ Sound(verified) /\ verified.secret = record.secret
        /\ verified \in Records
    BY <2>1, <2>2, SoundIsRecord
  <2>4. Sound(New(p)) /\ New(p) \in Records
    BY NewIsSound, SoundIsRecord
  <2>5. /\ record' = (IF savedNew THEN New(p) ELSE verified)
        /\ disk' = (IF savedNew THEN New(p) ELSE IF r.window < Window THEN verified ELSE disk)
        /\ IF savedNew THEN UNCHANGED faults ELSE Fault
        /\ open' = Nothing /\ guesses' = <<>>
    BY <1>2 DEF ChangePassword, Kept, Revoked
  <2> HIDE DEF r, verified
  <2>6. faults' \in 0 .. MaxFaults
    BY <2>5, AuthorizationAssumption DEF Fault, Guarded, TypeOK
  <2>7. record' \in Records /\ Sound(record')
    BY <2>3, <2>4, <2>5
  <2>8. /\ disk' \in Records \cup {NoRecord, Damaged}
        /\ disk' \in Records => Sound(disk')
        /\ disk' # Damaged => disk'.secret = record'.secret
    BY <1>1, <2>3, <2>4, <2>5 DEF Guarded, TypeOK
  <2>9. /\ <<>> \in Seq(0 .. Window) /\ Len(<<>>) = 0 /\ Latest \in Nat
        /\ \A n : Spread(<<>>, n)
    BY AuthorizationAssumption DEF Latest, Spread
  <2>10. DOMAIN Nothing = {} /\ Nothing \in [{} -> 0 .. Lifetime]
    BY DEF Nothing
  <2>11. UNCHANGED <<issued, remote, asked, granted>>
    BY DEF ChangePassword
  <2>12. TypeOK'
    BY <2>5, <2>6, <2>7, <2>8, <2>9, <2>10, <2>11 DEF Guarded, TypeOK
  <2>13. QED
    BY <2>5, <2>7, <2>8, <2>9, <2>12, KindsDiffer DEF Guarded, PasswordIsSaved
<1>3. CASE ~Passed(guess, saved)
  <2>1. Compare(guess, saved) /\ UNCHANGED <<open, issued, remote, asked, granted>>
    BY <1>3 DEF ChangePassword
  <2>2. Compared
    BY <1>1, <2>1, CompareKeeps
  <2>3. TypeOK'
    BY <2>1, <2>2 DEF Guarded, TypeOK, Compared
  <2>4. QED
    BY <2>2, <2>3, KindsDiffer DEF Guarded, PasswordIsSaved, Compared
<1>4. QED
    BY <1>2, <1>3

LEMMA AnswerKeeps ==
    ASSUME Guarded, NEW t \in Threads, NEW saved \in BOOLEAN, Answer(t, saved)
    PROVE  Guarded'
<1> DEFINE c == asked[t].challenge
           guess == asked[t].guess
<1>1. asked[t] \in Questions /\ c \in Challenges /\ guess \in Passwords
    BY DEF Guarded, TypeOK, Answer, Questions
<1>2. asked' \in [Threads -> Questions \cup {Idle}] /\ UNCHANGED <<issued, remote>>
    BY DEF Guarded, TypeOK, Answer
<1>3. OpenTyped(open) /\ OpenTyped(Without(open, {c}))
    BY PartsAreTyped DEF Guarded, TypeOK, OpenTyped
<1>4. CASE Refuse(t, c)
  <2>1. open' \in {open, Without(open, {c})} /\ UNCHANGED <<manager, faults, history>>
    BY <1>4 DEF Refuse
  <2>2. TypeOK'
    BY <1>2, <1>3, <2>1 DEF Guarded, TypeOK, OpenTyped, manager, history
  <2>3. QED
    BY <2>1, <2>2, ChallengesOnly DEF history
<1>5. CASE Grant(c, guess, saved)
  <2>1. /\ record \in Records /\ ~Locked(Refreshed(record))
        /\ Compare(guess, saved)
        /\ open' \in {open, Without(open, {c})}
        /\ granted' \in {granted, granted \cup {[challenge |-> c, guess |-> guess]}}
    BY <1>5 DEF Grant, Unanswerable, Consume
  <2>2. Compared
    BY <1>1, <2>1, CompareKeeps
  <2>3. granted' \subseteq Questions
    BY <1>1, <2>1 DEF Guarded, TypeOK, Questions
  <2>4. TypeOK'
    BY <1>2, <1>3, <2>1, <2>2, <2>3 DEF Guarded, TypeOK, Compared, OpenTyped
  <2>5. QED
    BY <2>2, <2>4, KindsDiffer DEF Guarded, PasswordIsSaved, Compared
<1>6. QED
    BY <1>4, <1>5 DEF Answer

LEMMA TickKeeps == ASSUME Guarded, Tick PROVE Guarded'
<1>1. \A a \in 0 .. Window : Older(a, Window) \in 0 .. Window
    BY AuthorizationAssumption DEF Older
<1>2. \A a \in 0 .. Lifetime : Older(a, Lifetime) \in 0 .. Lifetime
    BY AuthorizationAssumption DEF Older
<1>3. ASSUME NEW r \in Records \cup {NoRecord, Damaged}, r \in Records => Sound(r)
      PROVE  /\ OlderRecord(r) \in Records \cup {NoRecord, Damaged}
             /\ OlderRecord(r) \in Records => Sound(OlderRecord(r)) /\ r \in Records
             /\ OlderRecord(r).secret = r.secret
             /\ OlderRecord(r) = Damaged <=> r = Damaged
  <2>1. CASE r \in Records
    BY <1>3, <2>1, OlderIsSound, KindsDiffer DEF Sound
  <2>2. CASE r \notin Records
    BY <2>2 DEF OlderRecord
  <2>3. QED
    BY <2>1, <2>2
<1>4. /\ record' = OlderRecord(record) /\ disk' = OlderRecord(disk)
      /\ UNCHANGED <<issued, asked, faults, granted>>
      /\ open' = [c \in DOMAIN open |-> Older(open[c], Lifetime)]
      /\ remote' = [s \in 1 .. MaxRemote |-> Older(remote[s], Window)]
      /\ guesses' = [i \in 1 .. Len(guesses) |-> Older(guesses[i], Window)]
    BY DEF Tick
<1>5. /\ guesses \in Seq(0 .. Window) /\ Len(guesses) \in Nat /\ Len(guesses) <= Latest
      /\ \A i \in 1 .. Len(guesses) : guesses[i] \in 0 .. Window
    BY ElementOfSeq, LenProperties DEF Guarded, TypeOK
<1>6. /\ guesses' \in Seq(0 .. Window) /\ Len(guesses') = Len(guesses)
      /\ \A i \in 1 .. Len(guesses) : guesses'[i] = Older(guesses[i], Window)
    BY <1>1, <1>4, <1>5, IsASeq, LenProperties
<1>7. TypeOK'
  <2>1. open' \in [DOMAIN open' -> 0 .. Lifetime] /\ DOMAIN open' \subseteq 1 .. issued'
    BY <1>2, <1>4 DEF Guarded, TypeOK
  <2>2. remote' \in [1 .. MaxRemote -> 0 .. Window]
    BY <1>1, <1>4 DEF Guarded, TypeOK
  <2>3. /\ record' \in Records \cup {NoRecord, Damaged}
        /\ disk' \in Records \cup {NoRecord, Damaged}
    BY <1>3, <1>4 DEF Guarded, TypeOK
  <2>4. QED
    BY <1>4, <1>5, <1>6, <2>1, <2>2, <2>3 DEF Guarded, TypeOK
<1>8. Spread(guesses', record')
  <2>1. \A a, b \in 0 .. Window :
          /\ a <= b => Older(a, Window) <= Older(b, Window)
          /\ a = Window => Older(a, Window) = Window
    BY AuthorizationAssumption DEF Older
  <2>2. \A i, k \in 1 .. Len(guesses') : i <= k => guesses'[i] <= guesses'[k]
    BY <1>5, <1>6, <2>1 DEF Guarded, Spread
  <2>3. ASSUME record' \in Records, NEW i \in 1 .. Len(guesses')
        PROVE  /\ i >= record'.failures => guesses'[i] >= record'.window
               /\ record'.failures = Failures => guesses'[i] >= record'.lock
               /\ i >= record'.failures + Failures - 1 => guesses'[i] = Window
    <3>1. record \in Records /\ Sound(record)
        BY <1>3, <1>4, <2>3 DEF Guarded, TypeOK
    <3>2. /\ record'.failures = record.failures
          /\ record'.window = Older(record.window, Window)
          /\ record'.lock = Older(record.lock, Window)
        BY <1>4, <3>1, OlderIsSound
    <3>3. record.window \in 0 .. Window /\ record.lock \in 0 .. Window
        BY <3>1 DEF Records
    <3>4. /\ i >= record.failures => guesses[i] >= record.window
          /\ record.failures = Failures => guesses[i] >= record.lock
          /\ i >= record.failures + Failures - 1 => guesses[i] = Window
        BY <1>6, <3>1 DEF Guarded, Spread
    <3>5. guesses[i] \in 0 .. Window /\ guesses'[i] = Older(guesses[i], Window)
        BY <1>5, <1>6
    <3>6. QED
        BY <2>1, <3>2, <3>3, <3>4, <3>5
  <2>4. QED
    BY <2>2, <2>3 DEF Spread
<1>9. record' \notin Records => guesses' = <<>>
  <2>1. record' \notin Records => record \notin Records
    BY <1>4, OlderIsSound DEF Guarded, Sound
  <2>2. guesses = <<>> => guesses' = <<>>
    BY <1>5, <1>6, EmptySeq
  <2>3. QED
    BY <2>1, <2>2 DEF Guarded
<1>10. /\ record' \in Records => Sound(record')
       /\ disk' \in Records => Sound(disk')
       /\ PasswordIsSaved' /\ (record' = Damaged => disk' = Damaged)
    BY <1>3, <1>4 DEF Guarded, TypeOK, PasswordIsSaved
<1>11. QED
    BY <1>7, <1>8, <1>9, <1>10 DEF Guarded

LEMMA RestartKeeps == ASSUME Guarded, Restart PROVE Guarded'
<1>1. /\ record' = disk /\ disk' = disk /\ open' = Nothing
      /\ guesses' \in {guesses, <<>>} /\ (guesses' = guesses => disk = record \/ guesses = <<>>)
      /\ remote' = [s \in 1 .. MaxRemote |-> Window]
      /\ asked' = [t \in Threads |-> Idle]
      /\ UNCHANGED <<issued, granted>>
    BY DEF Restart
<1>2. faults' \in 0 .. MaxFaults
    BY AuthorizationAssumption DEF Restart, Fault, Guarded, TypeOK
<1>3. /\ <<>> \in Seq(0 .. Window) /\ Len(<<>>) = 0 /\ Latest \in Nat
      /\ Window \in 0 .. Window
      /\ \A n : Spread(<<>>, n)
    BY AuthorizationAssumption DEF Latest, Spread
<1>4. DOMAIN Nothing = {} /\ Nothing \in [{} -> 0 .. Lifetime]
    BY DEF Nothing
<1>5. TypeOK'
  <2>1. guesses' \in Seq(0 .. Window) /\ Len(guesses') <= Latest
    <3>1. CASE guesses' = guesses
        BY <3>1 DEF Guarded, TypeOK
    <3>2. CASE guesses' = <<>>
        BY <1>3, <3>2, AuthorizationAssumption DEF Latest
    <3>3. QED
        BY <1>1, <3>1, <3>2
  <2>2. /\ open' \in [DOMAIN open' -> 0 .. Lifetime] /\ DOMAIN open' \subseteq 1 .. issued'
        /\ remote' \in [1 .. MaxRemote -> 0 .. Window]
        /\ asked' \in [Threads -> Questions \cup {Idle}]
    BY <1>1, <1>3, <1>4
  <2>3. QED
    BY <1>1, <1>2, <2>1, <2>2 DEF Guarded, TypeOK
<1>6. Spread(guesses', record')
    BY <1>1, <1>3 DEF Guarded
<1>7. record' \notin Records => guesses' = <<>>
    BY <1>1 DEF Guarded
<1>8. QED
    BY <1>1, <1>5, <1>6, <1>7 DEF Guarded, PasswordIsSaved

LEMMA DamageKeeps == ASSUME Guarded, Damage PROVE Guarded'
<1>1. /\ disk' = Damaged /\ UNCHANGED <<record, issued, open, remote, asked, history>>
    BY DEF Damage
<1>2. faults' \in 0 .. MaxFaults
    BY AuthorizationAssumption DEF Damage, Fault, Guarded, TypeOK
<1>3. TypeOK'
    BY <1>1, <1>2 DEF Guarded, TypeOK, history
<1>4. QED
    BY <1>1, <1>3, KindsDiffer DEF Guarded, PasswordIsSaved, history, Spread, Sound

LEMMA NextGuarded == Guarded /\ [Next]_vars => Guarded'
<1> SUFFICES ASSUME Guarded, [Next]_vars PROVE Guarded'
    OBVIOUS
<1>1. ASSUME RequestHere \/ RequestRemotely PROVE Guarded'
  <2>1. /\ Issue /\ UNCHANGED <<manager, asked, faults, history>>
        /\ remote' \in [1 .. MaxRemote -> 0 .. Window]
    <3>1. CASE RequestHere
        BY <3>1 DEF RequestHere, Guarded, TypeOK
    <3>2. CASE RequestRemotely
      <4>1. 0 \in 0 .. Window
        BY AuthorizationAssumption
      <4>2. QED
        BY <3>2, <4>1 DEF RequestRemotely, Guarded, TypeOK
    <3>3. QED
        BY <1>1, <3>1, <3>2
  <2>2. TypeOK'
    BY <2>1, IssueKeeps DEF Guarded, TypeOK, manager, history
  <2>3. QED
    BY <2>1, <2>2, ChallengesOnly DEF history
<1>2. ASSUME NEW t \in Threads, NEW c \in 1 .. issued, NEW guess \in Passwords,
             Look(t, c, guess)
      PROVE  Guarded'
  <2>1. /\ UNCHANGED <<manager, issued, remote, faults, history>> /\ open' = Pruned
        /\ asked' = [asked EXCEPT ![t] = [challenge |-> c, guess |-> guess]]
    BY <1>2 DEF Look
  <2>2. c \in Challenges
    BY AuthorizationAssumption DEF Guarded, TypeOK, Challenges
  <2>3. OpenTyped(open) /\ OpenTyped(Pruned)
    BY PartsAreTyped DEF Guarded, TypeOK, OpenTyped, Pruned
  <2>4. TypeOK'
    BY <2>1, <2>2, <2>3 DEF Guarded, TypeOK, OpenTyped, Questions, manager, history
  <2>5. QED
    BY <2>1, <2>4, ChallengesOnly DEF history
<1>3. ASSUME NEW c \in Challenges, Cancel(c) PROVE Guarded'
  <2>1. /\ UNCHANGED <<manager, issued, remote, asked, faults, history>>
        /\ open' = Without(open, {c})
    BY <1>3 DEF Cancel
  <2>2. OpenTyped(open) /\ OpenTyped(Without(open, {c}))
    BY PartsAreTyped DEF Guarded, TypeOK, OpenTyped
  <2>3. TypeOK'
    BY <2>1, <2>2 DEF Guarded, TypeOK, OpenTyped, manager, history
  <2>4. QED
    BY <2>1, <2>3, ChallengesOnly DEF history
<1>4. CASE UNCHANGED vars
  <2>1. TypeOK'
    BY <1>4 DEF vars, manager, history, Guarded, TypeOK
  <2>2. QED
    BY <1>4, <2>1, ChallengesOnly DEF vars, history
<1>5. QED
    BY <1>1, <1>2, <1>3, <1>4, AnswerKeeps, ConfigureKeeps, ChangeKeeps, TickKeeps,
       RestartKeeps, DamageKeeps
    DEF Next

THEOREM GuardedInvariant == Spec => []Guarded
    BY InitGuarded, NextGuarded, PTL DEF Spec

(* The manager's variables keep their types for any limits and threads.    *)
THEOREM TypeCorrect == Spec => []TypeOK
<1>1. Guarded => TypeOK
    BY DEF Guarded
<1>2. QED
    BY <1>1, GuardedInvariant, PTL

(* At most 2 * Failures - 2 wrong passwords are compared in the time of a  *)
(* window, unless a right one or the loss of the count came in between.    *)
THEOREM GuessesAreBounded == Spec => []GuessesBounded
<1>1. Guarded => GuessesBounded
  <2> SUFFICES ASSUME Guarded, Len(guesses) = Latest PROVE guesses[Latest] = Window
    BY DEF GuessesBounded
  <2>1. Latest \in 1 .. Len(guesses)
    BY AuthorizationAssumption DEF Latest
  <2>2. record \in Records
    BY <2>1, EmptySeq DEF Guarded
  <2>3. record.failures \in 0 .. Failures /\ Latest >= record.failures + Failures - 1
    BY <2>2, AuthorizationAssumption DEF Records, Latest
  <2>4. QED
    BY <2>1, <2>2, <2>3 DEF Guarded, Spread
<1>2. QED
    BY <1>1, GuardedInvariant, PTL

(* The password in memory is the one in the file, whatever saves fail.     *)
THEOREM PasswordSaved == Spec => []PasswordIsSaved
<1>1. Guarded => PasswordIsSaved
    BY DEF Guarded
<1>2. QED
    BY <1>1, GuardedInvariant, PTL

-----------------------------------------------------------------------------
(* The steps of the promise.                                               *)
LEMMA OpenParts ==
    ASSUME NEW S, open' = Without(open, S), UNCHANGED <<record, issued, granted>>
    PROVE  [Promise!Next]_(Promise!vars)
<1>1. /\ S \cap DOMAIN open \in SUBSET DOMAIN open
      /\ open' = Promise!Without(open, S \cap DOMAIN open)
    BY DEF Without, Promise!Without
<1>2. QED
    BY <1>1 DEF Promise!Next, Promise!Drop

LEMMA IssueRefines ==
    ASSUME Guarded, Issue, UNCHANGED <<record, granted>>
    PROVE  [Promise!Next]_(Promise!vars)
<1>1. Pruned = Without(open, Expired) /\ Expired \in SUBSET DOMAIN open
    BY DEF Pruned, Expired
<1>2. CASE open' = Pruned /\ issued' = issued
    BY <1>1, <1>2, OpenParts
<1>3. CASE open' = open /\ issued' = issued
    BY <1>3 DEF Promise!vars
<1>4. CASE /\ issued < MaxChallenges /\ issued' = issued + 1
           /\ open' = [c \in DOMAIN Pruned \cup {issued'} |-> IF c = issued' THEN 0 ELSE open[c]]
  <2>1. /\ issued' \in Challenges \ (1 .. issued)
        /\ 1 .. issued' = (1 .. issued) \cup {issued'}
    <3>1. issued \in Nat /\ MaxChallenges \in Nat /\ issued' = issued + 1 /\ issued < MaxChallenges
        BY <1>4, AuthorizationAssumption DEF Guarded, TypeOK
    <3>2. QED
        BY <3>1 DEF Challenges
  <2>2. DOMAIN Pruned = DOMAIN open \ Expired
    BY <1>1 DEF Without
  <2>3. Promise!Issue
    BY <1>1, <1>4, <2>1, <2>2 DEF Promise!Issue
  <2>4. QED
    BY <2>3 DEF Promise!Next
<1>5. QED
    BY <1>2, <1>3, <1>4 DEF Issue

LEMMA AnswerRefines ==
    ASSUME Guarded, NEW t \in Threads, NEW saved \in BOOLEAN, Answer(t, saved)
    PROVE  [Promise!Next]_(Promise!vars)
<1> DEFINE c == asked[t].challenge
           guess == asked[t].guess
<1>1. guess \in Passwords
    BY DEF Guarded, TypeOK, Answer, Questions
<1>2. CASE Refuse(t, c)
  <2>1. UNCHANGED <<record, issued, granted>>
    BY <1>2 DEF Refuse, Answer, manager, history
  <2>2. open' = open \/ open' = Without(open, {c})
    BY <1>2 DEF Refuse
  <2>3. QED
    BY <2>1, <2>2, OpenParts DEF Promise!vars
<1>3. CASE Grant(c, guess, saved)
  <2>1. /\ c \in DOMAIN open /\ record \in Records /\ open[c] < Lifetime
        /\ ~Locked(Refreshed(record)) /\ Compare(guess, saved) /\ issued' = issued
    BY <1>3 DEF Grant, Unanswerable, Answer
  <2>2. record'.secret = record.secret
    BY <1>1, <2>1, CompareKeeps DEF Compared
  <2>3. CASE Passed(guess, saved)
    <3>1. /\ open' = Without(open, {c})
          /\ granted' = granted \cup {[challenge |-> c, guess |-> record.secret]}
        BY <1>3, <2>3 DEF Grant, Consume, Passed
    <3>2. record.secret # NoPassword
        BY <2>1, AuthorizationAssumption DEF Records
    <3>3. Promise!Grant
        BY <2>1, <2>2, <3>1, <3>2 DEF Promise!Grant, Promise!Without, Without
    <3>4. QED
        BY <3>3 DEF Promise!Next
  <2>4. CASE ~Passed(guess, saved)
    <3>1. open' = open /\ granted' = granted
        BY <1>3, <2>4 DEF Grant, Consume
    <3>2. QED
        BY <2>1, <2>2, <3>1 DEF Promise!vars
  <2>5. QED
    BY <2>3, <2>4
<1>4. QED
    BY <1>2, <1>3 DEF Answer

LEMMA ChangeRefines ==
    ASSUME Guarded, NEW guess \in Passwords, NEW p \in Passwords,
           NEW saved \in BOOLEAN, NEW savedNew \in BOOLEAN,
           ChangePassword(guess, p, saved, savedNew)
    PROVE  [Promise!Next]_(Promise!vars)
<1> DEFINE r == Refreshed(record)
<1>1. /\ record \in Records /\ Sound(record) /\ ~Locked(r)
      /\ record.secret \in Passwords /\ record.secret # NoPassword
    BY AuthorizationAssumption DEF Guarded, ChangePassword, Configured, Records
<1>2. issued' = issued /\ granted' = granted
    BY DEF ChangePassword
<1>3. CASE Passed(guess, saved)
  <2>1. r.secret = record.secret
    BY <1>1, RefreshedIsSound
  <2>2. New(p).secret = p /\ New(r.secret).secret = r.secret
    BY DEF New
  <2>3. record'.secret \in Passwords /\ open' = Nothing
    BY <1>1, <1>3, <2>1, <2>2 DEF ChangePassword, Kept, Revoked
  <2>4. Promise!Replace
    BY <1>1, <1>2, <2>3 DEF Promise!Replace, Promise!Nothing, Nothing
  <2>5. QED
    BY <2>4 DEF Promise!Next
<1>4. CASE ~Passed(guess, saved)
  <2>1. Compare(guess, saved) /\ open' = open
    BY <1>4 DEF ChangePassword
  <2>2. record'.secret = record.secret
    BY <1>1, <2>1, CompareKeeps DEF Compared
  <2>3. QED
    BY <1>2, <2>1, <2>2 DEF Promise!vars
<1>5. QED
    BY <1>3, <1>4

LEMMA ConfigureRefines ==
    ASSUME Guarded, NEW p \in Passwords, NEW saved \in BOOLEAN, Configure(p, saved)
    PROVE  [Promise!Next]_(Promise!vars)
<1>1. /\ record.secret = NoPassword /\ record'.secret \in Passwords \cup {NoPassword}
      /\ open' = open /\ issued' = issued /\ granted' = granted
    BY KindsDiffer DEF Configure, Kept, New, history
<1>2. Promise!Replace
    BY <1>1 DEF Promise!Replace
<1>3. QED
    BY <1>2 DEF Promise!Next

LEMMA TickRefines == ASSUME Guarded, Tick PROVE [Promise!Next]_(Promise!vars)
<1>1. /\ record' = OlderRecord(record) /\ issued' = issued /\ granted' = granted
      /\ open' = [c \in DOMAIN open |-> Older(open[c], Lifetime)]
    BY DEF Tick
<1>2. record'.secret = record.secret
  <2>1. CASE record \in Records
    BY <1>1, <2>1, OlderIsSound DEF Guarded
  <2>2. CASE record \notin Records
    BY <1>1, <2>2 DEF OlderRecord
  <2>3. QED
    BY <2>1, <2>2
<1>3. Promise!Age
    BY <1>1, <1>2 DEF Promise!Age, Older
<1>4. QED
    BY <1>3 DEF Promise!Next

LEMMA RestartRefines == ASSUME Guarded, Restart PROVE [Promise!Next]_(Promise!vars)
<1>1. record' = disk /\ open' = Nothing /\ issued' = issued /\ granted' = granted
    BY DEF Restart
<1>2. CASE disk.secret = record.secret
  <2>1. /\ DOMAIN open \in SUBSET DOMAIN open
        /\ open' = Promise!Without(open, DOMAIN open)
    BY <1>1 DEF Nothing, Promise!Without
  <2>2. Promise!Drop
    BY <1>1, <1>2, <2>1 DEF Promise!Drop
  <2>3. QED
    BY <2>2 DEF Promise!Next
<1>3. CASE disk.secret # record.secret
  <2>1. disk = Damaged /\ record.secret # NoPassword
    BY <1>3, KindsDiffer DEF Guarded, PasswordIsSaved
  <2>2. Promise!Replace
    BY <1>1, <2>1, KindsDiffer DEF Promise!Replace, Promise!Nothing, Nothing
  <2>3. QED
    BY <2>2 DEF Promise!Next
<1>4. QED
    BY <1>2, <1>3

(* The manager keeps the promise of Grants: a challenge is granted at most *)
(* once, in its time, to the password in force, and never after it was     *)
(* cancelled, or a change of the password was tried with the right one.    *)
THEOREM OneUseHolds == Spec => OneUse
<1>1. Init => Promise!Init
  <2>1. Init => record.secret = NoPassword /\ 1 .. issued = {}
    BY KindsDiffer DEF Init
  <2>2. QED
    BY <2>1 DEF Init, Promise!Init, Promise!Nothing, Nothing
<1>2. Guarded /\ [Next]_vars => [Promise!Next]_(Promise!vars)
  <2> SUFFICES ASSUME Guarded, [Next]_vars PROVE [Promise!Next]_(Promise!vars)
    OBVIOUS
  <2>1. ASSUME RequestHere \/ RequestRemotely PROVE [Promise!Next]_(Promise!vars)
    BY <2>1, IssueRefines DEF RequestHere, RequestRemotely, manager, history
  <2>2. ASSUME NEW t \in Threads, NEW c \in 1 .. issued, NEW guess \in Passwords,
               Look(t, c, guess)
        PROVE  [Promise!Next]_(Promise!vars)
    BY <2>2, OpenParts DEF Look, Pruned, manager, history
  <2>3. ASSUME NEW c \in Challenges, Cancel(c) PROVE [Promise!Next]_(Promise!vars)
    BY <2>3, OpenParts DEF Cancel, manager, history
  <2>4. CASE Damage \/ UNCHANGED vars
    BY <2>4 DEF Damage, vars, manager, history, Promise!vars
  <2>5. QED
    BY <2>1, <2>2, <2>3, <2>4, AnswerRefines, ConfigureRefines, ChangeRefines,
       TickRefines, RestartRefines
    DEF Next
<1>3. QED
    BY <1>1, <1>2, GuardedInvariant, PTL DEF Spec, OneUse, Promise!Spec
=============================================================================
