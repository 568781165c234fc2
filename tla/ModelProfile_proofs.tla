------------------------- MODULE ModelProfile_proofs -------------------------
(***************************************************************************)
(* Theorems about the model profiles, for any number of requests and       *)
(* faults.  Orderly is the inductive invariant: the turn lock and the      *)
(* switch in progress say together who may start a server, load a model or *)
(* end a pause, and the mode tells a turn of the Dual server.              *)
(***************************************************************************)
EXTENDS ModelProfile, TLAPS

OnlyProfiles == {"prepare", "verify", "clear", "start", "mark", "load",
                 "recheck", "undo", "done", "failed"}
OnlyUnload == {"stop", "unload", "count"}

(* The lock, the step and the switch that was claimed.                     *)
Locking ==
    /\ turn = "switch" <=> step \in OnlyProfiles \cup OnlyUnload
    /\ turn = "chat" <=> chat # "idle"
    /\ turn = "guard" <=> guard = "evict"
    /\ step = "idle" => switching = "none"
    /\ step \in OnlyProfiles => switching \in Profiles
    /\ step \in OnlyUnload => switching = "unload"
    /\ step \in {"start", "mark"} => switching \in {"gaming", "dual"}
    /\ step = "load" => switching # "normal"
    /\ step = "recheck" => switching = "gaming"

(* Where the owner's pause is while a profile is being activated.          *)
Pausing ==
    /\ off => saved
    /\ off => IF step \in OnlyProfiles THEN was ELSE paused
    /\ switching = "unload" => off

(* What was released stays so while the lock is away from a profile.       *)
Releasing ==
    /\ released => off /\ step \notin OnlyProfiles
    /\ released => loaded = {} /\ dual \notin Owned /\ gaming \notin Owned
    /\ step \in {"unload", "count"} => dual \notin Owned /\ gaming \notin Owned

(* A Dual server that runs is the mode and the selection of the turn; only *)
(* its own activation starts it, and after everything else has gone.       *)
DualRuns ==
    /\ dual \in Owned => loaded = {} /\ gaming \notin Owned
    /\ dual \in Owned /\ step \notin {"mark", "load"} => mode = "dual"
    /\ dual \in Owned /\ chat \in {"ask", "answer", "failed"} => tier = "dual"
    /\ step \in {"verify", "clear", "start", "recheck"} => dual \notin Owned
    /\ dual \in Owned /\ step \in {"mark", "load"} => switching = "dual"
    /\ step \in {"clear", "start"} /\ switching = "dual" => gaming \notin Owned
    /\ step = "start" /\ switching = "dual" => loaded = {}

Orderly == TypeOK /\ Locking /\ Pausing /\ Releasing /\ DualRuns

-----------------------------------------------------------------------------
(* Each step keeps every part of the invariant.                            *)
LEMMA OrderlyStep ==
    ASSUME Orderly, [Next]_vars
    PROVE  Orderly'
<1> USE ProfileAssumption
<1> USE DEF flags, switch, servers, talk, history, Profiles, Models, Serving,
            Owned, Servers, Steps, OnlyProfiles, OnlyUnload
<1>a. TypeOK /\ Locking /\ Pausing /\ Releasing /\ DualRuns
    BY DEF Orderly
<1>1. ASSUME NEW profile \in Profiles, Choose(profile)
      PROVE  Orderly'
  <2>1. TypeOK'
    BY <1>a, <1>1 DEF Choose, Busy, TypeOK
  <2>2. Locking'
    BY <1>a, <1>1 DEF Choose, Busy, Locking
  <2>3. Pausing'
    BY <1>a, <1>1 DEF Choose, Busy, Locking, Pausing
  <2>4. Releasing'
    BY <1>a, <1>1 DEF Choose, Busy, Releasing
  <2>5. DualRuns'
    BY <1>a, <1>1 DEF Choose, Busy, DualRuns
  <2>6. QED
    BY <2>1, <2>2, <2>3, <2>4, <2>5 DEF Orderly
<1>2. CASE Withdraw
  <2>1. TypeOK'
    BY <1>a, <1>2 DEF Withdraw, TypeOK
  <2>2. Locking'
    BY <1>a, <1>2 DEF Withdraw, Locking
  <2>3. Pausing'
    BY <1>a, <1>2 DEF Withdraw, Pausing
  <2>4. Releasing'
    BY <1>a, <1>2 DEF Withdraw, Releasing
  <2>5. DualRuns'
    BY <1>a, <1>2 DEF Withdraw, DualRuns
  <2>6. QED
    BY <2>1, <2>2, <2>3, <2>4, <2>5 DEF Orderly
<1>3. CASE Begin
  <2>1. TypeOK'
    <3>1. paused' \in BOOLEAN /\ saved' \in BOOLEAN
        BY <1>a, <1>3 DEF Begin, TypeOK
    <3>2. was' \in BOOLEAN /\ game' \in BOOLEAN
        BY <1>a, <1>3 DEF Begin, TypeOK
    <3>3. off' \in BOOLEAN /\ released' \in BOOLEAN
        BY <1>a, <1>3 DEF Begin, TypeOK
    <3>4. /\ mode' \in Profiles
          /\ switching' \in Profiles \cup {"none", "unload"}
        BY <1>a, <1>3 DEF Begin, TypeOK
    <3>5. /\ step' \in Steps
          /\ turn' \in {"free", "switch", "chat", "guard"}
        BY <1>a, <1>3 DEF Begin, TypeOK
    <3>6. /\ dual' \in Servers
          /\ gaming' \in Servers
        BY <1>a, <1>3 DEF Begin, TypeOK
    <3>7. loaded' \subseteq Models
        BY <1>a, <1>3 DEF Begin, TypeOK
    <3>8. /\ chat' \in {"idle", "choose", "ask", "answer", "failed"}
          /\ tier' \in Profiles
          /\ asks' \in 0 .. MaxAsks
        BY <1>a, <1>3 DEF Begin, TypeOK
    <3>9. /\ guard' \in {"asleep", "awake", "evict"}
          /\ status' \in {"idle", "fine", "nogaming", "blind", "stop"}
          /\ faults' \in 0 .. MaxFaults
        BY <1>a, <1>3 DEF Begin, TypeOK
    <3>10. QED
        BY <3>1, <3>2, <3>3, <3>4, <3>5, <3>6, <3>7, <3>8, <3>9 DEF TypeOK
  <2>2. Locking'
    BY <1>a, <1>3 DEF Begin, Locking
  <2>3. Pausing'
    BY <1>a, <1>3 DEF Begin, Pausing
  <2>4. Releasing'
    BY <1>a, <1>3 DEF Begin, Releasing
  <2>5. DualRuns'
    BY <1>a, <1>3 DEF Begin, DualRuns
  <2>6. QED
    BY <2>1, <2>2, <2>3, <2>4, <2>5 DEF Orderly
<1>4. CASE Prepare
  <2>1. TypeOK'
    BY <1>a, <1>4 DEF Prepare, Stopped, Fault, TypeOK
  <2>2. Locking'
    BY <1>a, <1>4 DEF Prepare, Stopped, Fault, Locking
  <2>3. Pausing'
    BY <1>a, <1>4 DEF Prepare, Stopped, Fault, Pausing
  <2>4. Releasing'
    BY <1>a, <1>4 DEF Prepare, Stopped, Fault, Releasing
  <2>5. DualRuns'
    BY <1>a, <1>4 DEF Prepare, Stopped, Fault, DualRuns
  <2>6. QED
    BY <2>1, <2>2, <2>3, <2>4, <2>5 DEF Orderly
<1>5. CASE Verify
  <2>1. TypeOK'
    BY <1>a, <1>5 DEF Verify, Stopped, Fault, TypeOK
  <2>2. Locking'
    BY <1>a, <1>5 DEF Verify, Stopped, Fault, Locking
  <2>3. Pausing'
    BY <1>a, <1>5 DEF Verify, Stopped, Fault, Pausing
  <2>4. Releasing'
    BY <1>a, <1>5 DEF Verify, Stopped, Fault, Releasing
  <2>5. DualRuns'
    BY <1>a, <1>5 DEF Verify, Stopped, Fault, DualRuns
  <2>6. QED
    BY <2>1, <2>2, <2>3, <2>4, <2>5 DEF Orderly
<1>6. CASE Clear
  <2>1. TypeOK'
    BY <1>a, <1>6 DEF Clear, Fault, Leaving, MayStay, NextStep, TypeOK
  <2>2. Locking'
    BY <1>a, <1>6 DEF Clear, Fault, Leaving, MayStay, NextStep, Locking
  <2>3. Pausing'
    BY <1>a, <1>6 DEF Clear, Fault, Leaving, MayStay, NextStep, Pausing
  <2>4. Releasing'
    BY <1>a, <1>6 DEF Clear, Fault, Leaving, MayStay, NextStep, Releasing
  <2>5. DualRuns'
    BY <1>a, <1>6 DEF Clear, Fault, Leaving, MayStay, NextStep, TypeOK,
       DualRuns
  <2>6. QED
    BY <2>1, <2>2, <2>3, <2>4, <2>5 DEF Orderly
<1>7. CASE Start
  <2>1. TypeOK'
    <3>1. paused' \in BOOLEAN /\ saved' \in BOOLEAN
        BY <1>a, <1>7 DEF Start, Abort, Stopped, Fault, TypeOK
    <3>2. was' \in BOOLEAN /\ game' \in BOOLEAN
        BY <1>a, <1>7 DEF Start, Abort, Stopped, Fault, TypeOK
    <3>3. off' \in BOOLEAN /\ released' \in BOOLEAN
        BY <1>a, <1>7 DEF Start, Abort, Stopped, Fault, TypeOK
    <3>4. /\ mode' \in Profiles
          /\ switching' \in Profiles \cup {"none", "unload"}
        BY <1>a, <1>7 DEF Start, Abort, Stopped, Fault, TypeOK
    <3>5. /\ step' \in Steps
          /\ turn' \in {"free", "switch", "chat", "guard"}
        BY <1>a, <1>7 DEF Start, Abort, Stopped, Fault, TypeOK
    <3>6. /\ dual' \in Servers
          /\ gaming' \in Servers
        BY <1>a, <1>7 DEF Start, Abort, Stopped, Fault, TypeOK
    <3>7. loaded' \subseteq Models
        BY <1>a, <1>7 DEF Start, Abort, Stopped, Fault, TypeOK
    <3>8. /\ chat' \in {"idle", "choose", "ask", "answer", "failed"}
          /\ tier' \in Profiles
          /\ asks' \in 0 .. MaxAsks
        BY <1>a, <1>7 DEF Start, Abort, Stopped, Fault, TypeOK
    <3>9. /\ guard' \in {"asleep", "awake", "evict"}
          /\ status' \in {"idle", "fine", "nogaming", "blind", "stop"}
          /\ faults' \in 0 .. MaxFaults
        BY <1>a, <1>7 DEF Start, Abort, Stopped, Fault, TypeOK
    <3>10. QED
        BY <3>1, <3>2, <3>3, <3>4, <3>5, <3>6, <3>7, <3>8, <3>9 DEF TypeOK
  <2>2. Locking'
    BY <1>a, <1>7 DEF Start, Abort, Stopped, Fault, Locking
  <2>3. Pausing'
    BY <1>a, <1>7 DEF Start, Abort, Stopped, Fault, Pausing
  <2>4. Releasing'
    BY <1>a, <1>7 DEF Start, Abort, Stopped, Fault, Releasing
  <2>5. DualRuns'
    BY <1>a, <1>7 DEF Start, Abort, Stopped, Fault, Locking, DualRuns
  <2>6. QED
    BY <2>1, <2>2, <2>3, <2>4, <2>5 DEF Orderly
<1>8. CASE Mark
  <2>1. TypeOK'
    <3>1. paused' \in BOOLEAN /\ saved' \in BOOLEAN
        BY <1>a, <1>8 DEF Mark, Abort, Stopped, Fault, TypeOK
    <3>2. was' \in BOOLEAN /\ game' \in BOOLEAN
        BY <1>a, <1>8 DEF Mark, Abort, Stopped, Fault, TypeOK
    <3>3. off' \in BOOLEAN /\ released' \in BOOLEAN
        BY <1>a, <1>8 DEF Mark, Abort, Stopped, Fault, TypeOK
    <3>4. /\ mode' \in Profiles
          /\ switching' \in Profiles \cup {"none", "unload"}
        BY <1>a, <1>8 DEF Mark, Abort, Stopped, Fault, TypeOK
    <3>5. /\ step' \in Steps
          /\ turn' \in {"free", "switch", "chat", "guard"}
        BY <1>a, <1>8 DEF Mark, Abort, Stopped, Fault, TypeOK
    <3>6. /\ dual' \in Servers
          /\ gaming' \in Servers
        BY <1>a, <1>8 DEF Mark, Abort, Stopped, Fault, TypeOK
    <3>7. loaded' \subseteq Models
        BY <1>a, <1>8 DEF Mark, Abort, Stopped, Fault, TypeOK
    <3>8. /\ chat' \in {"idle", "choose", "ask", "answer", "failed"}
          /\ tier' \in Profiles
          /\ asks' \in 0 .. MaxAsks
        BY <1>a, <1>8 DEF Mark, Abort, Stopped, Fault, TypeOK
    <3>9. /\ guard' \in {"asleep", "awake", "evict"}
          /\ status' \in {"idle", "fine", "nogaming", "blind", "stop"}
          /\ faults' \in 0 .. MaxFaults
        BY <1>a, <1>8 DEF Mark, Abort, Stopped, Fault, TypeOK
    <3>10. QED
        BY <3>1, <3>2, <3>3, <3>4, <3>5, <3>6, <3>7, <3>8, <3>9 DEF TypeOK
  <2>2. Locking'
    BY <1>a, <1>8 DEF Mark, Abort, Stopped, Fault, Locking
  <2>3. Pausing'
    BY <1>a, <1>8 DEF Mark, Abort, Stopped, Fault, Pausing
  <2>4. Releasing'
    BY <1>a, <1>8 DEF Mark, Abort, Stopped, Fault, Releasing
  <2>5. DualRuns'
    BY <1>a, <1>8 DEF Mark, Abort, Stopped, Fault, DualRuns
  <2>6. QED
    BY <2>1, <2>2, <2>3, <2>4, <2>5 DEF Orderly
<1>9. CASE Load
  <2>1. TypeOK'
    <3>1. paused' \in BOOLEAN /\ saved' \in BOOLEAN
        BY <1>a, <1>9 DEF Load, Abort, Stopped, Fault, TypeOK
    <3>2. was' \in BOOLEAN /\ game' \in BOOLEAN
        BY <1>a, <1>9 DEF Load, Abort, Stopped, Fault, TypeOK
    <3>3. off' \in BOOLEAN /\ released' \in BOOLEAN
        BY <1>a, <1>9 DEF Load, Abort, Stopped, Fault, TypeOK
    <3>4. /\ mode' \in Profiles
          /\ switching' \in Profiles \cup {"none", "unload"}
        BY <1>a, <1>9 DEF Load, Abort, Stopped, Fault, TypeOK
    <3>5. /\ step' \in Steps
          /\ turn' \in {"free", "switch", "chat", "guard"}
        BY <1>a, <1>9 DEF Load, Abort, Stopped, Fault, TypeOK
    <3>6. /\ dual' \in Servers
          /\ gaming' \in Servers
        BY <1>a, <1>9 DEF Load, Abort, Stopped, Fault, TypeOK
    <3>7. loaded' \subseteq Models
        BY <1>a, <1>9 DEF Load, Abort, Stopped, Fault, TypeOK
    <3>8. /\ chat' \in {"idle", "choose", "ask", "answer", "failed"}
          /\ tier' \in Profiles
          /\ asks' \in 0 .. MaxAsks
        BY <1>a, <1>9 DEF Load, Abort, Stopped, Fault, TypeOK
    <3>9. /\ guard' \in {"asleep", "awake", "evict"}
          /\ status' \in {"idle", "fine", "nogaming", "blind", "stop"}
          /\ faults' \in 0 .. MaxFaults
        BY <1>a, <1>9 DEF Load, Abort, Stopped, Fault, TypeOK
    <3>10. QED
        BY <3>1, <3>2, <3>3, <3>4, <3>5, <3>6, <3>7, <3>8, <3>9 DEF TypeOK
  <2>2. Locking'
    BY <1>a, <1>9 DEF Load, Abort, Stopped, Fault, Locking
  <2>3. Pausing'
    BY <1>a, <1>9 DEF Load, Abort, Stopped, Fault, Pausing
  <2>4. Releasing'
    BY <1>a, <1>9 DEF Load, Abort, Stopped, Fault, Releasing
  <2>5. DualRuns'
    BY <1>a, <1>9 DEF Load, Abort, Stopped, Fault, DualRuns
  <2>6. QED
    BY <2>1, <2>2, <2>3, <2>4, <2>5 DEF Orderly
<1>10. CASE Recheck
  <2>1. TypeOK'
    <3>1. paused' \in BOOLEAN /\ saved' \in BOOLEAN
        BY <1>a, <1>10 DEF Recheck, Abort, Stopped, Fault, TypeOK
    <3>2. was' \in BOOLEAN /\ game' \in BOOLEAN
        BY <1>a, <1>10 DEF Recheck, Abort, Stopped, Fault, TypeOK
    <3>3. off' \in BOOLEAN /\ released' \in BOOLEAN
        BY <1>a, <1>10 DEF Recheck, Abort, Stopped, Fault, TypeOK
    <3>4. /\ mode' \in Profiles
          /\ switching' \in Profiles \cup {"none", "unload"}
        BY <1>a, <1>10 DEF Recheck, Abort, Stopped, Fault, TypeOK
    <3>5. /\ step' \in Steps
          /\ turn' \in {"free", "switch", "chat", "guard"}
        BY <1>a, <1>10 DEF Recheck, Abort, Stopped, Fault, TypeOK
    <3>6. /\ dual' \in Servers
          /\ gaming' \in Servers
        BY <1>a, <1>10 DEF Recheck, Abort, Stopped, Fault, TypeOK
    <3>7. loaded' \subseteq Models
        BY <1>a, <1>10 DEF Recheck, Abort, Stopped, Fault, TypeOK
    <3>8. /\ chat' \in {"idle", "choose", "ask", "answer", "failed"}
          /\ tier' \in Profiles
          /\ asks' \in 0 .. MaxAsks
        BY <1>a, <1>10 DEF Recheck, Abort, Stopped, Fault, TypeOK
    <3>9. /\ guard' \in {"asleep", "awake", "evict"}
          /\ status' \in {"idle", "fine", "nogaming", "blind", "stop"}
          /\ faults' \in 0 .. MaxFaults
        BY <1>a, <1>10 DEF Recheck, Abort, Stopped, Fault, TypeOK
    <3>10. QED
        BY <3>1, <3>2, <3>3, <3>4, <3>5, <3>6, <3>7, <3>8, <3>9 DEF TypeOK
  <2>2. Locking'
    BY <1>a, <1>10 DEF Recheck, Abort, Stopped, Fault, Locking
  <2>3. Pausing'
    BY <1>a, <1>10 DEF Recheck, Abort, Stopped, Fault, Pausing
  <2>4. Releasing'
    BY <1>a, <1>10 DEF Recheck, Abort, Stopped, Fault, Releasing
  <2>5. DualRuns'
    BY <1>a, <1>10 DEF Recheck, Abort, Stopped, Fault, DualRuns
  <2>6. QED
    BY <2>1, <2>2, <2>3, <2>4, <2>5 DEF Orderly
<1>11. CASE Undo
  <2>1. TypeOK'
    <3>1. paused' \in BOOLEAN /\ saved' \in BOOLEAN
        BY <1>a, <1>11 DEF Undo, Stopped, Fault, TypeOK
    <3>2. was' \in BOOLEAN /\ game' \in BOOLEAN
        BY <1>a, <1>11 DEF Undo, Stopped, Fault, TypeOK
    <3>3. off' \in BOOLEAN /\ released' \in BOOLEAN
        BY <1>a, <1>11 DEF Undo, Stopped, Fault, TypeOK
    <3>4. /\ mode' \in Profiles
          /\ switching' \in Profiles \cup {"none", "unload"}
        BY <1>a, <1>11 DEF Undo, Stopped, Fault, TypeOK
    <3>5. /\ step' \in Steps
          /\ turn' \in {"free", "switch", "chat", "guard"}
        BY <1>a, <1>11 DEF Undo, Stopped, Fault, TypeOK
    <3>6. /\ dual' \in Servers
          /\ gaming' \in Servers
        BY <1>a, <1>11 DEF Undo, Stopped, Fault, TypeOK
    <3>7. loaded' \subseteq Models
        BY <1>a, <1>11 DEF Undo, Stopped, Fault, TypeOK
    <3>8. /\ chat' \in {"idle", "choose", "ask", "answer", "failed"}
          /\ tier' \in Profiles
          /\ asks' \in 0 .. MaxAsks
        BY <1>a, <1>11 DEF Undo, Stopped, Fault, TypeOK
    <3>9. /\ guard' \in {"asleep", "awake", "evict"}
          /\ status' \in {"idle", "fine", "nogaming", "blind", "stop"}
          /\ faults' \in 0 .. MaxFaults
        BY <1>a, <1>11 DEF Undo, Stopped, Fault, TypeOK
    <3>10. QED
        BY <3>1, <3>2, <3>3, <3>4, <3>5, <3>6, <3>7, <3>8, <3>9 DEF TypeOK
  <2>2. Locking'
    BY <1>a, <1>11 DEF Undo, Stopped, Fault, Locking
  <2>3. Pausing'
    BY <1>a, <1>11 DEF Undo, Stopped, Fault, Pausing
  <2>4. Releasing'
    BY <1>a, <1>11 DEF Undo, Stopped, Fault, Releasing
  <2>5. DualRuns'
    BY <1>a, <1>11 DEF Undo, Stopped, Fault, DualRuns
  <2>6. QED
    BY <2>1, <2>2, <2>3, <2>4, <2>5 DEF Orderly
<1>12. CASE Finish
  <2>1. TypeOK'
    <3>1. paused' \in BOOLEAN /\ saved' \in BOOLEAN
        BY <1>a, <1>12 DEF Finish, PauseAfter, Fault, TypeOK
    <3>2. was' \in BOOLEAN /\ game' \in BOOLEAN
        BY <1>a, <1>12 DEF Finish, PauseAfter, Fault, TypeOK
    <3>3. off' \in BOOLEAN /\ released' \in BOOLEAN
        BY <1>a, <1>12 DEF Finish, PauseAfter, Fault, TypeOK
    <3>4. /\ mode' \in Profiles
          /\ switching' \in Profiles \cup {"none", "unload"}
        BY <1>a, <1>12 DEF Finish, PauseAfter, Fault, TypeOK
    <3>5. /\ step' \in Steps
          /\ turn' \in {"free", "switch", "chat", "guard"}
        BY <1>a, <1>12 DEF Finish, PauseAfter, Fault, TypeOK
    <3>6. /\ dual' \in Servers
          /\ gaming' \in Servers
        BY <1>a, <1>12 DEF Finish, PauseAfter, Fault, TypeOK
    <3>7. loaded' \subseteq Models
        BY <1>a, <1>12 DEF Finish, PauseAfter, Fault, TypeOK
    <3>8. /\ chat' \in {"idle", "choose", "ask", "answer", "failed"}
          /\ tier' \in Profiles
          /\ asks' \in 0 .. MaxAsks
        BY <1>a, <1>12 DEF Finish, PauseAfter, Fault, TypeOK
    <3>9. /\ guard' \in {"asleep", "awake", "evict"}
          /\ status' \in {"idle", "fine", "nogaming", "blind", "stop"}
          /\ faults' \in 0 .. MaxFaults
        BY <1>a, <1>12 DEF Finish, PauseAfter, Fault, TypeOK
    <3>10. QED
        BY <3>1, <3>2, <3>3, <3>4, <3>5, <3>6, <3>7, <3>8, <3>9 DEF TypeOK
  <2>2. Locking'
    BY <1>a, <1>12 DEF Finish, PauseAfter, Fault, Locking
  <2>3. Pausing'
    BY <1>a, <1>12 DEF Finish, PauseAfter, Fault, TypeOK, Pausing
  <2>4. Releasing'
    BY <1>a, <1>12 DEF Finish, PauseAfter, Fault, Releasing
  <2>5. DualRuns'
    BY <1>a, <1>12 DEF Finish, PauseAfter, Fault, DualRuns
  <2>6. QED
    BY <2>1, <2>2, <2>3, <2>4, <2>5 DEF Orderly
<1>13. CASE Claim
  <2>1. TypeOK'
    <3>1. paused' \in BOOLEAN /\ saved' \in BOOLEAN
        BY <1>a, <1>13 DEF Claim, Busy, Fault, TypeOK
    <3>2. was' \in BOOLEAN /\ game' \in BOOLEAN
        BY <1>a, <1>13 DEF Claim, Busy, Fault, TypeOK
    <3>3. off' \in BOOLEAN /\ released' \in BOOLEAN
        BY <1>a, <1>13 DEF Claim, Busy, Fault, TypeOK
    <3>4. /\ mode' \in Profiles
          /\ switching' \in Profiles \cup {"none", "unload"}
        BY <1>a, <1>13 DEF Claim, Busy, Fault, TypeOK
    <3>5. /\ step' \in Steps
          /\ turn' \in {"free", "switch", "chat", "guard"}
        BY <1>a, <1>13 DEF Claim, Busy, Fault, TypeOK
    <3>6. /\ dual' \in Servers
          /\ gaming' \in Servers
        BY <1>a, <1>13 DEF Claim, Busy, Fault, TypeOK
    <3>7. loaded' \subseteq Models
        BY <1>a, <1>13 DEF Claim, Busy, Fault, TypeOK
    <3>8. /\ chat' \in {"idle", "choose", "ask", "answer", "failed"}
          /\ tier' \in Profiles
          /\ asks' \in 0 .. MaxAsks
        BY <1>a, <1>13 DEF Claim, Busy, Fault, TypeOK
    <3>9. /\ guard' \in {"asleep", "awake", "evict"}
          /\ status' \in {"idle", "fine", "nogaming", "blind", "stop"}
          /\ faults' \in 0 .. MaxFaults
        BY <1>a, <1>13 DEF Claim, Busy, Fault, TypeOK
    <3>10. QED
        BY <3>1, <3>2, <3>3, <3>4, <3>5, <3>6, <3>7, <3>8, <3>9 DEF TypeOK
  <2>2. Locking'
    BY <1>a, <1>13 DEF Claim, Busy, Fault, Locking
  <2>3. Pausing'
    BY <1>a, <1>13 DEF Claim, Busy, Fault, Pausing
  <2>4. Releasing'
    BY <1>a, <1>13 DEF Claim, Busy, Fault, Releasing
  <2>5. DualRuns'
    BY <1>a, <1>13 DEF Claim, Busy, Fault, DualRuns
  <2>6. QED
    BY <2>1, <2>2, <2>3, <2>4, <2>5 DEF Orderly
<1>14. CASE Enter
  <2>1. TypeOK'
    BY <1>a, <1>14 DEF Enter, TypeOK
  <2>2. Locking'
    BY <1>a, <1>14 DEF Enter, Locking
  <2>3. Pausing'
    BY <1>a, <1>14 DEF Enter, Pausing
  <2>4. Releasing'
    BY <1>a, <1>14 DEF Enter, Releasing
  <2>5. DualRuns'
    BY <1>a, <1>14 DEF Enter, DualRuns
  <2>6. QED
    BY <2>1, <2>2, <2>3, <2>4, <2>5 DEF Orderly
<1>15. CASE StopServers
  <2>1. TypeOK'
    BY <1>a, <1>15 DEF StopServers, Stopped, TypeOK
  <2>2. Locking'
    BY <1>a, <1>15 DEF StopServers, Stopped, Locking
  <2>3. Pausing'
    BY <1>a, <1>15 DEF StopServers, Stopped, Pausing
  <2>4. Releasing'
    BY <1>a, <1>15 DEF StopServers, Stopped, Releasing
  <2>5. DualRuns'
    BY <1>a, <1>15 DEF StopServers, Stopped, DualRuns
  <2>6. QED
    BY <2>1, <2>2, <2>3, <2>4, <2>5 DEF Orderly
<1>16. CASE Unload
  <2>1. TypeOK'
    <3>1. paused' \in BOOLEAN /\ saved' \in BOOLEAN
        BY <1>a, <1>16 DEF Unload, Leave, Fault, TypeOK
    <3>2. was' \in BOOLEAN /\ game' \in BOOLEAN
        BY <1>a, <1>16 DEF Unload, Leave, Fault, TypeOK
    <3>3. off' \in BOOLEAN /\ released' \in BOOLEAN
        BY <1>a, <1>16 DEF Unload, Leave, Fault, TypeOK
    <3>4. /\ mode' \in Profiles
          /\ switching' \in Profiles \cup {"none", "unload"}
        BY <1>a, <1>16 DEF Unload, Leave, Fault, TypeOK
    <3>5. /\ step' \in Steps
          /\ turn' \in {"free", "switch", "chat", "guard"}
        BY <1>a, <1>16 DEF Unload, Leave, Fault, TypeOK
    <3>6. /\ dual' \in Servers
          /\ gaming' \in Servers
        BY <1>a, <1>16 DEF Unload, Leave, Fault, TypeOK
    <3>7. loaded' \subseteq Models
        BY <1>a, <1>16 DEF Unload, Leave, Fault, TypeOK
    <3>8. /\ chat' \in {"idle", "choose", "ask", "answer", "failed"}
          /\ tier' \in Profiles
          /\ asks' \in 0 .. MaxAsks
        BY <1>a, <1>16 DEF Unload, Leave, Fault, TypeOK
    <3>9. /\ guard' \in {"asleep", "awake", "evict"}
          /\ status' \in {"idle", "fine", "nogaming", "blind", "stop"}
          /\ faults' \in 0 .. MaxFaults
        BY <1>a, <1>16 DEF Unload, Leave, Fault, TypeOK
    <3>10. QED
        BY <3>1, <3>2, <3>3, <3>4, <3>5, <3>6, <3>7, <3>8, <3>9 DEF TypeOK
  <2>2. Locking'
    BY <1>a, <1>16 DEF Unload, Leave, Fault, Locking
  <2>3. Pausing'
    BY <1>a, <1>16 DEF Unload, Leave, Fault, Pausing
  <2>4. Releasing'
    <3>1. released' => released
        BY <1>a, <1>16 DEF Unload, Leave, Fault, TypeOK
    <3>2. /\ UNCHANGED <<off, dual, gaming>> /\ loaded' \in SUBSET loaded
          /\ step = "unload" /\ step' \in {"count", "idle"}
        BY <1>a, <1>16 DEF Unload, Leave, Fault, TypeOK
    <3>3. QED
        BY <3>1, <3>2, <1>a DEF Releasing
  <2>5. DualRuns'
    BY <1>a, <1>16 DEF Unload, Leave, Fault, DualRuns
  <2>6. QED
    BY <2>1, <2>2, <2>3, <2>4, <2>5 DEF Orderly
<1>17. CASE Count
  <2>1. TypeOK'
    BY <1>a, <1>17 DEF Count, Leave, TypeOK
  <2>2. Locking'
    BY <1>a, <1>17 DEF Count, Leave, Locking
  <2>3. Pausing'
    BY <1>a, <1>17 DEF Count, Leave, Pausing
  <2>4. Releasing'
    BY <1>a, <1>17 DEF Count, Leave, Locking, Pausing, Releasing
  <2>5. DualRuns'
    BY <1>a, <1>17 DEF Count, Leave, DualRuns
  <2>6. QED
    BY <2>1, <2>2, <2>3, <2>4, <2>5 DEF Orderly
<1>18. CASE TakeTurn
  <2>1. TypeOK'
    BY <1>a, <1>18 DEF TakeTurn, TypeOK
  <2>2. Locking'
    BY <1>a, <1>18 DEF TakeTurn, Locking
  <2>3. Pausing'
    BY <1>a, <1>18 DEF TakeTurn, Pausing
  <2>4. Releasing'
    BY <1>a, <1>18 DEF TakeTurn, Releasing
  <2>5. DualRuns'
    BY <1>a, <1>18 DEF TakeTurn, DualRuns
  <2>6. QED
    BY <2>1, <2>2, <2>3, <2>4, <2>5 DEF Orderly
<1>19. CASE Select
  <2>1. TypeOK'
    BY <1>a, <1>19 DEF Select, EndTurn, Stopped, Fault, TypeOK
  <2>2. Locking'
    BY <1>a, <1>19 DEF Select, EndTurn, Stopped, Fault, Locking
  <2>3. Pausing'
    BY <1>a, <1>19 DEF Select, EndTurn, Stopped, Fault, Pausing
  <2>4. Releasing'
    BY <1>a, <1>19 DEF Select, EndTurn, Stopped, Fault, Releasing
  <2>5. DualRuns'
    BY <1>a, <1>19 DEF Select, EndTurn, Stopped, Fault, Locking, DualRuns
  <2>6. QED
    BY <2>1, <2>2, <2>3, <2>4, <2>5 DEF Orderly
<1>20. CASE Ask
  <2>1. TypeOK'
    <3>1. paused' \in BOOLEAN /\ saved' \in BOOLEAN
        BY <1>a, <1>20 DEF Ask, EndTurn, TypeOK
    <3>2. was' \in BOOLEAN /\ game' \in BOOLEAN
        BY <1>a, <1>20 DEF Ask, EndTurn, TypeOK
    <3>3. off' \in BOOLEAN /\ released' \in BOOLEAN
        BY <1>a, <1>20 DEF Ask, EndTurn, TypeOK
    <3>4. /\ mode' \in Profiles
          /\ switching' \in Profiles \cup {"none", "unload"}
        BY <1>a, <1>20 DEF Ask, EndTurn, TypeOK
    <3>5. /\ step' \in Steps
          /\ turn' \in {"free", "switch", "chat", "guard"}
        BY <1>a, <1>20 DEF Ask, EndTurn, TypeOK
    <3>6. /\ dual' \in Servers
          /\ gaming' \in Servers
        BY <1>a, <1>20 DEF Ask, EndTurn, TypeOK
    <3>7. loaded' \subseteq Models
        BY <1>a, <1>20 DEF Ask, EndTurn, TypeOK
    <3>8. /\ chat' \in {"idle", "choose", "ask", "answer", "failed"}
          /\ tier' \in Profiles
          /\ asks' \in 0 .. MaxAsks
        BY <1>a, <1>20 DEF Ask, EndTurn, TypeOK
    <3>9. /\ guard' \in {"asleep", "awake", "evict"}
          /\ status' \in {"idle", "fine", "nogaming", "blind", "stop"}
          /\ faults' \in 0 .. MaxFaults
        BY <1>a, <1>20 DEF Ask, EndTurn, TypeOK
    <3>10. QED
        BY <3>1, <3>2, <3>3, <3>4, <3>5, <3>6, <3>7, <3>8, <3>9 DEF TypeOK
  <2>2. Locking'
    BY <1>a, <1>20 DEF Ask, EndTurn, Locking
  <2>3. Pausing'
    BY <1>a, <1>20 DEF Ask, EndTurn, Pausing
  <2>4. Releasing'
    BY <1>a, <1>20 DEF Ask, EndTurn, Pausing, Releasing
  <2>5. DualRuns'
    BY <1>a, <1>20 DEF Ask, EndTurn, Locking, DualRuns
  <2>6. QED
    BY <2>1, <2>2, <2>3, <2>4, <2>5 DEF Orderly
<1>21. CASE Answer
  <2>1. TypeOK'
    BY <1>a, <1>21 DEF Answer, EndTurn, More, Lost, Fault, TypeOK
  <2>2. Locking'
    BY <1>a, <1>21 DEF Answer, EndTurn, More, Lost, Fault, Locking
  <2>3. Pausing'
    BY <1>a, <1>21 DEF Answer, EndTurn, More, Lost, Fault, Pausing
  <2>4. Releasing'
    BY <1>a, <1>21 DEF Answer, EndTurn, More, Lost, Fault, Releasing
  <2>5. DualRuns'
    BY <1>a, <1>21 DEF Answer, EndTurn, More, Lost, Fault, DualRuns
  <2>6. QED
    BY <2>1, <2>2, <2>3, <2>4, <2>5 DEF Orderly
<1>22. CASE FallBack
  <2>1. TypeOK'
    BY <1>a, <1>22 DEF FallBack, MayFallBack, Stopped, TypeOK
  <2>2. Locking'
    BY <1>a, <1>22 DEF FallBack, MayFallBack, Stopped, Locking
  <2>3. Pausing'
    BY <1>a, <1>22 DEF FallBack, MayFallBack, Stopped, Pausing
  <2>4. Releasing'
    BY <1>a, <1>22 DEF FallBack, MayFallBack, Stopped, Releasing
  <2>5. DualRuns'
    BY <1>a, <1>22 DEF FallBack, MayFallBack, Stopped, DualRuns
  <2>6. QED
    BY <2>1, <2>2, <2>3, <2>4, <2>5 DEF Orderly
<1>23. CASE GiveUp
  <2>1. TypeOK'
    BY <1>a, <1>23 DEF GiveUp, EndTurn, TypeOK
  <2>2. Locking'
    BY <1>a, <1>23 DEF GiveUp, EndTurn, Locking
  <2>3. Pausing'
    BY <1>a, <1>23 DEF GiveUp, EndTurn, Pausing
  <2>4. Releasing'
    BY <1>a, <1>23 DEF GiveUp, EndTurn, Releasing
  <2>5. DualRuns'
    BY <1>a, <1>23 DEF GiveUp, EndTurn, DualRuns
  <2>6. QED
    BY <2>1, <2>2, <2>3, <2>4, <2>5 DEF Orderly
<1>24. CASE Wake
  <2>1. TypeOK'
    BY <1>a, <1>24 DEF Wake, TypeOK
  <2>2. Locking'
    BY <1>a, <1>24 DEF Wake, Locking
  <2>3. Pausing'
    BY <1>a, <1>24 DEF Wake, Pausing
  <2>4. Releasing'
    BY <1>a, <1>24 DEF Wake, Releasing
  <2>5. DualRuns'
    BY <1>a, <1>24 DEF Wake, DualRuns
  <2>6. QED
    BY <2>1, <2>2, <2>3, <2>4, <2>5 DEF Orderly
<1>25. CASE Act
  <2>1. TypeOK'
    BY <1>a, <1>25 DEF Act, Yield, Stopped, Fault, TypeOK
  <2>2. Locking'
    BY <1>a, <1>25 DEF Act, Yield, Stopped, Fault, Locking
  <2>3. Pausing'
    BY <1>a, <1>25 DEF Act, Yield, Stopped, Fault, Pausing
  <2>4. Releasing'
    BY <1>a, <1>25 DEF Act, Yield, Stopped, Fault, Releasing
  <2>5. DualRuns'
    BY <1>a, <1>25 DEF Act, Yield, Stopped, Fault, DualRuns
  <2>6. QED
    BY <2>1, <2>2, <2>3, <2>4, <2>5 DEF Orderly
<1>26. CASE Evict
  <2>1. TypeOK'
    BY <1>a, <1>26 DEF Evict, TypeOK
  <2>2. Locking'
    BY <1>a, <1>26 DEF Evict, Locking
  <2>3. Pausing'
    BY <1>a, <1>26 DEF Evict, Pausing
  <2>4. Releasing'
    BY <1>a, <1>26 DEF Evict, Releasing
  <2>5. DualRuns'
    BY <1>a, <1>26 DEF Evict, DualRuns
  <2>6. QED
    BY <2>1, <2>2, <2>3, <2>4, <2>5 DEF Orderly
<1>27. CASE Look
  <2>1. TypeOK'
    BY <1>a, <1>27 DEF Look, Fault, TypeOK
  <2>2. Locking'
    BY <1>a, <1>27 DEF Look, Fault, Locking
  <2>3. Pausing'
    BY <1>a, <1>27 DEF Look, Fault, Pausing
  <2>4. Releasing'
    BY <1>a, <1>27 DEF Look, Fault, Releasing
  <2>5. DualRuns'
    BY <1>a, <1>27 DEF Look, Fault, DualRuns
  <2>6. QED
    BY <2>1, <2>2, <2>3, <2>4, <2>5 DEF Orderly
<1>28. CASE Conclude
  <2>1. TypeOK'
    BY <1>a, <1>28 DEF Conclude, TypeOK
  <2>2. Locking'
    BY <1>a, <1>28 DEF Conclude, Locking
  <2>3. Pausing'
    BY <1>a, <1>28 DEF Conclude, Pausing
  <2>4. Releasing'
    BY <1>a, <1>28 DEF Conclude, Releasing
  <2>5. DualRuns'
    BY <1>a, <1>28 DEF Conclude, DualRuns
  <2>6. QED
    BY <2>1, <2>2, <2>3, <2>4, <2>5 DEF Orderly
<1>29. CASE StopGaming
  <2>1. TypeOK'
    BY <1>a, <1>29 DEF StopGaming, Stopped, TypeOK
  <2>2. Locking'
    BY <1>a, <1>29 DEF StopGaming, Stopped, Locking
  <2>3. Pausing'
    BY <1>a, <1>29 DEF StopGaming, Stopped, Pausing
  <2>4. Releasing'
    BY <1>a, <1>29 DEF StopGaming, Stopped, Releasing
  <2>5. DualRuns'
    BY <1>a, <1>29 DEF StopGaming, Stopped, DualRuns
  <2>6. QED
    BY <2>1, <2>2, <2>3, <2>4, <2>5 DEF Orderly
<1>30. CASE Play
  <2>1. TypeOK'
    BY <1>a, <1>30 DEF Play, TypeOK
  <2>2. Locking'
    BY <1>a, <1>30 DEF Play, Locking
  <2>3. Pausing'
    BY <1>a, <1>30 DEF Play, Pausing
  <2>4. Releasing'
    BY <1>a, <1>30 DEF Play, Releasing
  <2>5. DualRuns'
    BY <1>a, <1>30 DEF Play, DualRuns
  <2>6. QED
    BY <2>1, <2>2, <2>3, <2>4, <2>5 DEF Orderly
<1>31. CASE ServerEnds
  <2>1. TypeOK'
    BY <1>a, <1>31 DEF ServerEnds, Fault, TypeOK
  <2>2. Locking'
    BY <1>a, <1>31 DEF ServerEnds, Fault, Locking
  <2>3. Pausing'
    BY <1>a, <1>31 DEF ServerEnds, Fault, Pausing
  <2>4. Releasing'
    BY <1>a, <1>31 DEF ServerEnds, Fault, Releasing
  <2>5. DualRuns'
    BY <1>a, <1>31 DEF ServerEnds, Fault, DualRuns
  <2>6. QED
    BY <2>1, <2>2, <2>3, <2>4, <2>5 DEF Orderly
<1>32. CASE Restart
  <2>1. TypeOK'
    <3>1. paused' \in BOOLEAN /\ saved' \in BOOLEAN
        BY <1>a, <1>32 DEF Restart, Found, Stopped, TypeOK
    <3>2. was' \in BOOLEAN /\ game' \in BOOLEAN
        BY <1>a, <1>32 DEF Restart, Found, Stopped, TypeOK
    <3>3. off' \in BOOLEAN /\ released' \in BOOLEAN
        BY <1>a, <1>32 DEF Restart, Found, Stopped, TypeOK
    <3>4. /\ mode' \in Profiles
          /\ switching' \in Profiles \cup {"none", "unload"}
        BY <1>a, <1>32 DEF Restart, Found, Stopped, TypeOK
    <3>5. /\ step' \in Steps
          /\ turn' \in {"free", "switch", "chat", "guard"}
        BY <1>a, <1>32 DEF Restart, Found, Stopped, TypeOK
    <3>6. /\ dual' \in Servers
          /\ gaming' \in Servers
        BY <1>a, <1>32 DEF Restart, Found, Stopped, TypeOK
    <3>7. loaded' \subseteq Models
        BY <1>a, <1>32 DEF Restart, Found, Stopped, TypeOK
    <3>8. /\ chat' \in {"idle", "choose", "ask", "answer", "failed"}
          /\ tier' \in Profiles
          /\ asks' \in 0 .. MaxAsks
        BY <1>a, <1>32 DEF Restart, Found, Stopped, TypeOK
    <3>9. /\ guard' \in {"asleep", "awake", "evict"}
          /\ status' \in {"idle", "fine", "nogaming", "blind", "stop"}
          /\ faults' \in 0 .. MaxFaults
        BY <1>a, <1>32 DEF Restart, Found, Stopped, TypeOK
    <3>10. QED
        BY <3>1, <3>2, <3>3, <3>4, <3>5, <3>6, <3>7, <3>8, <3>9 DEF TypeOK
  <2>2. Locking'
    BY <1>a, <1>32 DEF Restart, Found, Stopped, Locking
  <2>3. Pausing'
    BY <1>a, <1>32 DEF Restart, Found, Stopped, Pausing
  <2>4. Releasing'
    BY <1>a, <1>32 DEF Restart, Found, Stopped, Releasing
  <2>5. DualRuns'
    BY <1>a, <1>32 DEF Restart, Found, Stopped, DualRuns
  <2>6. QED
    BY <2>1, <2>2, <2>3, <2>4, <2>5 DEF Orderly
<1>33. CASE UNCHANGED vars
  <2>1. TypeOK'
    BY <1>a, <1>33 DEF TypeOK, vars
  <2>2. Locking'
    BY <1>a, <1>33 DEF Locking, vars
  <2>3. Pausing'
    BY <1>a, <1>33 DEF Pausing, vars
  <2>4. Releasing'
    BY <1>a, <1>33 DEF Releasing, vars
  <2>5. DualRuns'
    BY <1>a, <1>33 DEF DualRuns, vars
  <2>6. QED
    BY <2>1, <2>2, <2>3, <2>4, <2>5 DEF Orderly
<1>34. QED
    BY <1>1, <1>2, <1>3, <1>4, <1>5, <1>6, <1>7, <1>8, <1>9, <1>10, <1>11,
       <1>12, <1>13, <1>14, <1>15, <1>16, <1>17, <1>18, <1>19, <1>20, <1>21, <1>22,
       <1>23, <1>24, <1>25, <1>26, <1>27, <1>28, <1>29, <1>30, <1>31, <1>32, <1>33
    DEF Next, Switching, Unloading, Talking, Guarding

(* The invariant holds at the start. *)
LEMMA OrderlyInit == Init => Orderly
<1> SUFFICES ASSUME Init PROVE Orderly
    OBVIOUS
<1> USE ProfileAssumption DEF Init, Profiles, Models, Serving, Owned, Servers,
            Steps, OnlyProfiles, OnlyUnload
<1>1. paused \in BOOLEAN /\ saved \in BOOLEAN /\ off \in BOOLEAN /\ released \in BOOLEAN
    OBVIOUS
<1>2. was \in BOOLEAN /\ game \in BOOLEAN
    OBVIOUS
<1>3. TypeOK
    BY <1>1, <1>2 DEF TypeOK
<1>4. Locking
    BY DEF Locking
<1>5. Pausing
    BY DEF Pausing
<1>6. Releasing
    BY DEF Releasing
<1>7. DualRuns
    BY DEF DualRuns
<1>8. QED
    BY <1>3, <1>4, <1>5, <1>6, <1>7 DEF Orderly

(* The invariant holds throughout every behaviour. *)
THEOREM OrderlyInvariant == Spec => []Orderly
<1>1. Orderly /\ [Next]_vars => Orderly'
    BY OrderlyStep
<1>2. QED
    BY <1>1, OrderlyInit, PTL DEF Spec

-----------------------------------------------------------------------------
(* Type correctness. *)
THEOREM TypeCorrect == Spec => []TypeOK
<1>1. Orderly => TypeOK
    BY DEF Orderly
<1>2. QED
    BY <1>1, OrderlyInvariant, PTL

(* After a confirmed release (unload_model) nothing is loaded again until  *)
(* the owner chooses a profile.                                            *)
THEOREM ReleasedIsFreeHolds == Spec => []ReleasedIsFree
<1>1. Orderly => ReleasedIsFree
    BY DEF Orderly, Releasing, ReleasedIsFree
<1>2. QED
    BY <1>1, OrderlyInvariant, PTL

(* The pause of the owner ends with a completed activation only: the       *)
(* finally of set_model_mode and the order of unload_model keep it.        *)
THEOREM PauseIsKeptHolds == Spec => []PauseIsKept
<1>1. Orderly => PauseIsKept
    BY DEF Orderly, Locking, Pausing, PauseIsKept
<1>2. QED
    BY <1>1, OrderlyInvariant, PTL

(* The Dual server never shares the cards with another own model, adopted  *)
(* after a restart or not.                                                 *)
THEOREM DualAloneHolds == Spec => []DualAlone
<1>1. Orderly => DualAlone
    BY DEF Orderly, DualRuns, DualAlone
<1>2. QED
    BY <1>1, OrderlyInvariant, PTL

=============================================================================
