---------------------------- MODULE Parts_proofs ----------------------------
(* Proofs about the parts that share nothing with each other, for any      *)
(* requests, processes, calls and tasks, and any bounds.                   *)
EXTENDS MCParts, SequenceTheorems, FiniteSetTheorems, FunctionTheorems, WellFoundedInduction, TLAPS

(***************************************************************************)
(* Game streaming: what is posted to Sunshine was kept before.             *)
(***************************************************************************)
Kept ==
    /\ call \in [Calls -> [does : {"nothing", "prepare", "pair", "remote"},
                           step : {"lock", "service", "credentials", "post", "status",
                                   "pin", "end"}]]
    /\ account = "arfoxia" => stored = "arfoxia"
    /\ \A c \in Calls : call[c].step = "post" => stored = "arfoxia"

LEMMA InitKept == Sunshine!Init => Kept
BY DEF Sunshine!Init, Kept, Sunshine!Idle

LEMMA NextKept == Kept /\ Sunshine!Next => Kept'
<1> SUFFICES ASSUME Kept, Sunshine!Next PROVE Kept'
  OBVIOUS
<1> USE DEF Kept, Sunshine!At, Sunshine!Goes, Sunshine!Ends, Sunshine!Idle, Sunshine!Fault
<1>1. ASSUME NEW c \in Calls, NEW does \in {"prepare", "pair", "remote"}, Sunshine!Ask(c, does)
      PROVE  Kept'
  BY <1>1 DEF Sunshine!Ask
<1>2. ASSUME NEW c \in Calls, Sunshine!Lock(c) PROVE Kept'
  BY <1>2 DEF Sunshine!Lock
<1>3. ASSUME NEW c \in Calls, Sunshine!Service(c) PROVE Kept'
  BY <1>3 DEF Sunshine!Service
<1>4. ASSUME NEW c \in Calls, Sunshine!Credentials(c) PROVE Kept'
  BY <1>4 DEF Sunshine!Credentials, Sunshine!KeptFirst
<1>5. ASSUME NEW c \in Calls, Sunshine!Post(c) PROVE Kept'
  BY <1>5 DEF Sunshine!Post
<1>6. ASSUME NEW c \in Calls, Sunshine!Status(c) PROVE Kept'
  BY <1>6 DEF Sunshine!Status
<1>7. ASSUME NEW c \in Calls, Sunshine!Pin(c) \/ Sunshine!RemotePin(c) PROVE Kept'
  BY <1>7 DEF Sunshine!Pin, Sunshine!RemotePin
<1>8. CASE Sunshine!OwnerCreates \/ Sunshine!ServiceStops \/ Sunshine!Tick
  BY <1>8 DEF Sunshine!OwnerCreates, Sunshine!ServiceStops, Sunshine!Tick
<1> QED BY <1>1, <1>2, <1>3, <1>4, <1>5, <1>6, <1>7, <1>8 DEF Sunshine!Next

(* KeepsTheKey, whatever answers get lost and however many requests of the *)
(* phone prepare at once.                                                  *)
THEOREM PartsKeepTheKey == Spec => []KeepsTheKey
<1>1. Init => (part = "sunshine" => Kept)
  BY InitKept DEF Init
<1>2. (part = "sunshine" => Kept) /\ [Next]_vars => (part = "sunshine" => Kept)'
  <2> SUFFICES ASSUME part = "sunshine", Kept, [Next]_vars PROVE Kept'
    BY DEF Next, vars
  <2>1. CASE Next
    BY <2>1, NextKept DEF Next
  <2>2. CASE UNCHANGED vars
    BY <2>2 DEF vars, games, Kept
  <2> QED BY <2>1, <2>2
<1>3. (part = "sunshine" => Kept) => KeepsTheKey
  BY DEF Kept, KeepsTheKey, Sunshine!KeepsTheKey
<1> QED BY <1>1, <1>2, <1>3, PTL DEF Spec

(***************************************************************************)
(* The supervisor of Expo. A process is in hand where it can still be told *)
(* to end: the worker has registered or ended it last, stop() has taken it,*)
(* or the manager supervises it.                                           *)
(***************************************************************************)
InHand(m) ==
    \/ worker.at \in {"register", "end", "restart"} /\ m = worker.held
    \/ closer.at = "end" /\ m = closer.held
    \/ run.alive /\ m = sup.process

(* What the worker saw at the beginning is still what there is, or stop()  *)
(* has taken it; it only starts a process when there is none.              *)
Coherent ==
    /\ worker.at = "look" => sup.process \in {worker.held, None}
    /\ worker.at \in {"start", "register"} => sup.process = None
    /\ closer.at # "away" => sup.closed
    /\ closer.at \in {"end", "done"} => sup.process = None

(* The inductive invariant.                                                *)
Supervision ==
    /\ Metro!TypeOK
    /\ Coherent
    /\ \A m \in Metros : Metro!Live(m) /\ m \notin lost => InHand(m)

LEMMA MetroFacts ==
    /\ Grace \in Nat /\ LastDelay \in Nat /\ FailureLimit \in Nat \ {0}
    /\ FirstDelay \in 1 .. LastDelay /\ MaxRuns \in Nat \ {0} /\ None \notin Metros
BY PartsAssumption DEF Metro!RuntimeAssumption

LEMMA InitSupervision == Metro!Init => Supervision
BY MetroFacts
   DEF Metro!Init, Supervision, Metro!TypeOK, Coherent, Metro!Live, Metro!Away, Metro!Fresh

(* The manager's record keeps its type when a restart is scheduled and when*)
(* its process is dropped.                                                 *)
Managers == [process : Metros \cup {None}, age : 0 .. Grace, ready : BOOLEAN,
             failures : 0 .. FailureLimit, delay : 0 .. LastDelay,
             wait : 0 .. LastDelay, closed : BOOLEAN]

LEMMA ManagerKeepsType ==
    ASSUME NEW s \in Managers
    PROVE  /\ Metro!Emptied(s) \in Managers
           /\ Metro!Emptied(s).process = None /\ Metro!Emptied(s).closed = s.closed
           /\ Metro!Scheduled(s) \in Managers
           /\ Metro!Scheduled(s).process = s.process /\ Metro!Scheduled(s).closed = s.closed
<1>1. /\ Metro!Emptied(s) \in Managers
      /\ Metro!Emptied(s).process = None /\ Metro!Emptied(s).closed = s.closed
  <2>1. Metro!Emptied(s) = [process |-> None, age |-> 0, ready |-> FALSE, failures |-> 0,
                            delay |-> s.delay, wait |-> s.wait, closed |-> s.closed]
    <3>1. ASSUME NEW e, e = [s EXCEPT !.process = None, !.age = 0, !.ready = FALSE, !.failures = 0]
          PROVE  e = [process |-> None, age |-> 0, ready |-> FALSE, failures |-> 0,
                      delay |-> s.delay, wait |-> s.wait, closed |-> s.closed]
      BY <3>1 DEF Managers
    <3> QED BY <3>1 DEF Metro!Emptied
  <2> QED BY <2>1, MetroFacts DEF Managers
<1>2. /\ Metro!Scheduled(s) \in Managers
      /\ Metro!Scheduled(s).process = s.process /\ Metro!Scheduled(s).closed = s.closed
  <2>1. ASSUME NEW d \in 0 .. LastDelay, NEW t, t = [s EXCEPT !.delay = d, !.wait = d]
        PROVE  t \in Managers /\ t.process = s.process /\ t.closed = s.closed
    BY <2>1 DEF Managers
  <2>2. /\ FirstDelay \in 0 .. LastDelay /\ LastDelay \in 0 .. LastDelay
        /\ 2 * s.delay < LastDelay => 2 * s.delay \in 0 .. LastDelay
    BY MetroFacts DEF Managers
  <2>3. CASE s.closed
    BY <2>3 DEF Metro!Scheduled
  <2>4. CASE ~s.closed
    <3>1. PICK d \in 0 .. LastDelay : Metro!Scheduled(s) = [s EXCEPT !.delay = d, !.wait = d]
      BY <2>2, <2>4 DEF Metro!Scheduled
    <3> QED BY <2>1, <3>1, Zenon
  <2> QED BY <2>3, <2>4
<1> QED BY <1>1, <1>2

LEMMA NextSupervision == Supervision /\ Metro!Next => Supervision'
<1> SUFFICES ASSUME Supervision, Metro!Next PROVE Supervision'
  OBVIOUS
<1>0. /\ sup \in Managers /\ Metro!Emptied(sup) \in Managers
      /\ Metro!Scheduled(sup) \in Managers /\ Metro!Scheduled(Metro!Emptied(sup)) \in Managers
      /\ Metro!Emptied(sup).process = None /\ Metro!Emptied(sup).closed = sup.closed
      /\ Metro!Scheduled(sup).process = sup.process /\ Metro!Scheduled(sup).closed = sup.closed
      /\ Metro!Scheduled(Metro!Emptied(sup)).process = None
      /\ Metro!Scheduled(Metro!Emptied(sup)).closed = sup.closed
  BY ManagerKeepsType DEF Supervision, Metro!TypeOK, Managers
<1> USE MetroFacts
<1> USE DEF Supervision, Metro!TypeOK, Coherent, InHand, Metro!Live, Metro!At, Metro!Goes
<1>1. CASE Metro!EnsureStarted
  BY <1>1 DEF Metro!EnsureStarted
<1>2. CASE Metro!Begin
  BY <1>2 DEF Metro!Begin, Metro!Away
<1>3. CASE Metro!LookAtLive
  <2>1. CASE sup' = [sup EXCEPT !.ready = TRUE, !.failures = 0, !.delay = 0, !.wait = 0]
             /\ worker' = Metro!Away
    <3>1. sup' \in Managers /\ sup'.process = sup.process /\ sup'.closed = sup.closed
      <4>1. sup' = [process |-> sup.process, age |-> sup.age, ready |-> TRUE, failures |-> 0,
                    delay |-> 0, wait |-> 0, closed |-> sup.closed]
        BY <2>1, <1>0 DEF Managers
      <4> QED BY <4>1, <1>0 DEF Managers
    <3> QED BY <1>3, <2>1, <3>1 DEF Metro!LookAtLive, Managers, Metro!Away
  <2>2. CASE worker' = Metro!Away /\ UNCHANGED sup
    BY <1>3, <2>2 DEF Metro!LookAtLive, Metro!Away
  <2>3. CASE /\ sup.failures + 1 < FailureLimit
             /\ sup' = [sup EXCEPT !.failures = @ + 1] /\ worker' = Metro!Away
    BY <1>3, <2>3 DEF Metro!LookAtLive, Metro!Away
  <2>4. CASE sup' = Metro!Emptied(sup) /\ Metro!Goes("restart", sup.process)
    BY <1>3, <2>4, <1>0 DEF Metro!LookAtLive, Managers
  <2> QED BY <1>3, <2>1, <2>2, <2>3, <2>4 DEF Metro!LookAtLive
<1>4. CASE Metro!LookAtDead
  BY <1>4, <1>0 DEF Metro!LookAtDead, Managers, Metro!Away
<1>5. CASE Metro!LookForNone
  BY <1>5 DEF Metro!LookForNone, Metro!Missing, Metro!Away
<1>6. CASE Metro!Start
  BY <1>6, <1>0 DEF Metro!Start, Managers, Metro!Away
<1>7. CASE Metro!Register
  BY <1>7, <1>0 DEF Metro!Register, Managers, Metro!Away
<1>8. CASE Metro!WorkerEnds
  BY <1>8, <1>0 DEF Metro!WorkerEnds, Managers, Metro!Away, Metro!Ended
<1>9. CASE Metro!Close
  BY <1>9 DEF Metro!Close
<1>10. CASE Metro!Take
  BY <1>10, <1>0 DEF Metro!Take, Managers
<1>11. CASE Metro!CloserEnds
  BY <1>11 DEF Metro!CloserEnds, Metro!Ended
<1>12. CASE Metro!Exit
  BY <1>12 DEF Metro!Exit
<1>13. CASE Metro!Reopen
  BY <1>13 DEF Metro!Reopen, Metro!Fresh, Metro!Away
<1>14. CASE Metro!Tick
  <2>1. sup' \in Managers /\ sup'.process = sup.process /\ sup'.closed = sup.closed
    <3>1. sup' = [process |-> sup.process, age |-> sup'.age, ready |-> sup.ready,
                  failures |-> sup.failures, delay |-> sup.delay, wait |-> sup'.wait,
                  closed |-> sup.closed]
      BY <1>14, <1>0 DEF Metro!Tick, Managers
    <3>2. sup'.age \in 0 .. Grace /\ sup'.wait \in 0 .. LastDelay
      <4>1. /\ sup'.age = IF sup.age < Grace THEN sup.age + 1 ELSE sup.age
            /\ sup'.wait = IF sup.wait > 0 THEN sup.wait - 1 ELSE sup.wait
        BY <1>14, <1>0 DEF Metro!Tick, Managers
      <4> QED BY <4>1, <1>0 DEF Managers
    <3> QED BY <3>1, <3>2, <1>0 DEF Managers
  <2> QED BY <1>14, <2>1 DEF Metro!Tick, Managers
<1>15. ASSUME NEW m \in Metros, Metro!Moves(m) PROVE Supervision'
  BY <1>15 DEF Metro!Moves
<1> QED BY <1>1, <1>2, <1>3, <1>4, <1>5, <1>6, <1>7, <1>8, <1>9, <1>10, <1>11, <1>12,
           <1>13, <1>14, <1>15 DEF Metro!Next

(* MetroIsHeld, for any number of processes of Expo and of runs of the     *)
(* application, wherever the worker is cut off.                            *)
THEOREM PartsHoldMetro == Spec => []MetroIsHeld
<1>1. Init => (part = "metro" => Supervision)
  BY InitSupervision DEF Init
<1>2. (part = "metro" => Supervision) /\ [Next]_vars => (part = "metro" => Supervision)'
  <2> SUFFICES ASSUME part = "metro", Supervision, [Next]_vars PROVE Supervision'
    BY DEF Next, vars
  <2>1. CASE Next
    BY <2>1, NextSupervision DEF Next
  <2>2. CASE UNCHANGED vars
    BY <2>2 DEF vars, metros, Supervision, Metro!TypeOK, Coherent, InHand, Metro!Live
  <2> QED BY <2>1, <2>2
<1>3. (part = "metro" => Supervision) => MetroIsHeld
  BY DEF Supervision, InHand, MetroIsHeld, Metro!MetroIsHeld, Metro!Supervised
<1> QED BY <1>1, <1>2, <1>3, PTL DEF Spec
(***************************************************************************)
(* File operations. Which operations come to which stage, in the order of  *)
(* the code.                                                               *)
(***************************************************************************)
InPlace(r) == Files!Op(r) \in {"copy", "move"} /\ ~order[r].overwrite

Reached(r) ==
    /\ at[r] = "kind" => Files!Op(r) \in {"copy", "move", "rename"}
    /\ at[r] = "verify" => Files!Op(r) \in Files!Writes
    /\ at[r] = "recheck" => Files!Op(r) = "replace_text"
    /\ at[r] \in {"read", "flag"} => Files!Op(r) = "append_text"
    /\ at[r] = "temporary" => Files!Op(r) \in Files!Writes \cup {"copy"}
    /\ at[r] = "load" => Files!Op(r) = "copy"
    /\ at[r] = "put" => Files!Op(r) \in Files!Writes \cup {"copy", "create_directory", "trash"}
    /\ at[r] = "open" => Files!Op(r) = "copy" /\ InPlace(r)
    /\ at[r] = "swap" => Files!Op(r) = "rename" \/ order[r].overwrite
    /\ at[r] \in {"into", "attempt", "fallback", "unlink"} => Files!Op(r) = "move" /\ InPlace(r)
    /\ at[r] = "fill" => InPlace(r)

Ordered == \A r \in Requests : at[r] # "idle" => order[r] \in Files!Orders /\ Reached(r)

(* A request that fills a copy has what it copies, and the file it fills is*)
(* there: nobody could take it away.                                       *)
Filling ==
    \A r \in Requests : at[r] = "fill" =>
        disk[Files!Target(r)] # Absent /\ hand[r] # Absent

FileShape == Files!TypeOK /\ Ordered /\ Filling

LEMMA FileFacts ==
    /\ MaxChanges \in Nat /\ MaxFaults \in Nat /\ Absent \notin Files!Nodes
    /\ Requests \cap Paths = {} /\ Other \notin Requests \cup Paths
BY PartsAssumption DEF Files!FileAssumption

LEMMA OrderFields ==
    ASSUME NEW x \in Files!Orders
    PROVE  /\ x.path \in Paths /\ x.destination \in Paths
           /\ x.op \in Files!Single \cup {"write_text", "copy", "move", "rename"}
           /\ x.op \in {"copy", "move", "rename"} => x.path # x.destination
           /\ x.op \notin {"copy", "move", "rename"} => x.path = x.destination
BY DEF Files!Orders, Files!Order, Files!Single

LEMMA InitFileShape == Files!Init => FileShape
BY FileFacts DEF Files!Init, FileShape, Files!TypeOK, Ordered, Filling, Files!Absentee, Files!Nodes, Files!Node,
       Files!Stages, Files!Pieces

LEMMA NodesAreNodes ==
    /\ \A s \in SUBSET Files!Pieces :
          Files!Node("file", s) \in Files!Nodes /\ Files!Node("folder", s) \in Files!Nodes
    /\ \A r \in Requests : {r} \in SUBSET Files!Pieces
    /\ \A r \in Requests, n \in Files!Absentee : Files!With(r, n) \in Files!Nodes
    /\ \A n \in Files!Nodes :
          /\ n.of \in SUBSET Files!Pieces /\ n.torn \in SUBSET Requests
          /\ Files!Node(n.kind, {}) \in Files!Nodes
BY DEF Files!Node, Files!Nodes, Files!Absentee, Files!With, Files!Pieces

LEMMA TrackTypes ==
    ASSUME during \in [Requests -> SUBSET Files!Absentee], disk' \in [Paths -> Files!Absentee],
           Files!Track,
           \A r \in Requests : at'[r] \in Files!Running => order[r].path \in Paths
    PROVE  during' \in [Requests -> SUBSET Files!Absentee]
BY DEF Files!Track

(* Each action of a request brings it to a stage that its operation has.   *)
LEMMA StepOrders ==
    ASSUME FileShape, NEW r \in Requests, Files!Step(r)
    PROVE  /\ order' \in [Requests -> Files!Orders \cup {NoOrder}]
           /\ at' \in [Requests -> Files!Stages]
           /\ Ordered'
<1> USE OrderFields
    DEF FileShape, Files!TypeOK, Ordered, Reached, InPlace, Files!Stages, Files!Becomes, Files!Ends, Files!Alone,
        Files!bound, Files!Proceeds, Files!Fails, Files!Op, Files!Writes
<1> DEFINE Goal == /\ order' \in [Requests -> Files!Orders \cup {NoOrder}]
                   /\ at' \in [Requests -> Files!Stages]
                   /\ Ordered'
<1>1. ASSUME NEW o \in Files!Orders, Files!Ask(r, o) PROVE Goal
  BY <1>1 DEF Files!Ask
<1>2. CASE Files!Bind(r) \/ Files!Drop(r) \/ Files!Begin(r)
  BY <1>2 DEF Files!Bind, Files!Drop, Files!Begin
<1>3. CASE Files!Check(r)
  BY <1>3 DEF Files!Check
<1>4. CASE Files!Kind(r) \/ Files!Verify(r) \/ Files!Recheck(r)
  BY <1>4 DEF Files!Kind, Files!Verify, Files!Recheck, Files!Route
<1>5. CASE Files!Read(r) \/ Files!Flag(r) \/ Files!Temporary(r) \/ Files!Load(r)
  BY <1>5 DEF Files!Read, Files!Flag, Files!Temporary, Files!Load
<1>6. CASE Files!Put(r) \/ Files!MakeDirectory(r) \/ Files!Trash(r)
  BY <1>6 DEF Files!Put, Files!MakeDirectory, Files!Trash, Files!Placeable
<1>7. CASE Files!Swap(r) \/ Files!Attempt(r)
  BY <1>7 DEF Files!Swap, Files!Attempt, Files!Movable, Files!Placeable, Files!Moved
<1>8. CASE Files!Into(r)
  BY <1>8 DEF Files!Into
<1>9. CASE Files!Open(r) \/ Files!Fallback(r)
  BY <1>9 DEF Files!Open, Files!Fallback, Files!Opens
<1>10. CASE Files!Fill(r)
  BY <1>10 DEF Files!Fill
<1>11. CASE Files!Unlink(r)
  BY <1>11 DEF Files!Unlink
<1>12. CASE Files!Report(r) \/ Files!Fault(r)
  BY <1>12 DEF Files!Report, Files!Fault, Files!Running, Files!Waiting
<1> QED BY <1>1, <1>2, <1>3, <1>4, <1>5, <1>6, <1>7, <1>8, <1>9, <1>10, <1>11, <1>12 DEF Files!Step


(* The first tests of a handler touch no path.                             *)
LEMMA CheckIs ==
    ASSUME NEW r \in Requests, Files!Check(r)
    PROVE  /\ disk' = disk
           /\ hand' = hand \/ Files!Holds(r, Files!With(r, disk[Files!Source(r)]))
BY DEF Files!Check, Files!Proceeds, Files!Fails, Files!own

(* It keeps the types of everything else.                                  *)
LEMMA StepDisk ==
    ASSUME FileShape, NEW r \in Requests, Files!Step(r)
    PROVE  disk' \in [Paths -> Files!Absentee] /\ hand' \in [Requests -> Files!Absentee]
<1> USE NodesAreNodes, OrderFields
    DEF FileShape, Files!TypeOK, Ordered, Files!Alone, Files!own, Files!Proceeds, Files!Fails, Files!Holds,
        Files!Target, Files!Source, Files!Exists, Files!IsFile, Files!IsFolder, Files!Absentee
<1> DEFINE Goal == disk' \in [Paths -> Files!Absentee] /\ hand' \in [Requests -> Files!Absentee]
<1>1. ASSUME NEW o \in Files!Orders, Files!Ask(r, o) PROVE Goal
  BY <1>1 DEF Files!Ask
<1>2. CASE Files!Bind(r) \/ Files!Drop(r) \/ Files!Begin(r)
  BY <1>2 DEF Files!Bind, Files!Drop, Files!Begin
<1>3. CASE Files!Check(r)
  <2>1. at[r] = "check" /\ Files!Source(r) \in Paths
    BY <1>3 DEF Files!Check
  <2> QED BY <1>3, <2>1, CheckIs
<1>4. CASE Files!Kind(r) \/ Files!Verify(r) \/ Files!Recheck(r)
  BY <1>4 DEF Files!Kind, Files!Verify, Files!Recheck, Files!Route
<1>5. CASE Files!Read(r) \/ Files!Flag(r) \/ Files!Temporary(r) \/ Files!Load(r)
  BY <1>5 DEF Files!Read, Files!Flag, Files!Temporary, Files!Load
<1>6. CASE Files!Put(r) \/ Files!MakeDirectory(r) \/ Files!Trash(r)
  BY <1>6 DEF Files!Put, Files!MakeDirectory, Files!Trash, Files!Placeable
<1>7. CASE Files!Swap(r) \/ Files!Attempt(r)
  BY <1>7 DEF Files!Swap, Files!Attempt, Files!Movable, Files!Placeable, Files!Moved
<1>8. CASE Files!Into(r)
  <2> DEFINE n == disk[Files!Target(r)]
             m == disk[Files!Source(r)]
             new == [n EXCEPT !.of = @ \cup m.of, !.torn = @ \cup m.torn]
  <2>1. CASE ~(Files!IsFolder(Files!Target(r)) /\ Files!Exists(Files!Source(r)))
    BY <1>8, <2>1 DEF Files!Into
  <2>2. CASE Files!IsFolder(Files!Target(r)) /\ Files!Exists(Files!Source(r))
    <3>1. Files!Source(r) # Files!Target(r)
      BY <1>8 DEF Files!Into, Reached, Files!Op
    <3>2. n \in Files!Nodes /\ m \in Files!Nodes
      BY <1>8, <2>2 DEF Files!Into
    <3>3. new \in Files!Nodes
      BY <3>2 DEF Files!Nodes
    <3>4. \/ disk' = disk
          \/ disk' = [disk EXCEPT ![Files!Source(r)] = Absent, ![Files!Target(r)] = new]
      BY <1>8, <3>1, Zenon DEF Files!Into
    <3>5. disk \in [Paths -> Files!Absentee] /\ Absent \in Files!Absentee
             /\ new \in Files!Absentee
      BY <3>3
    <3>6. hand' = hand
      BY <1>8 DEF Files!Into
    <3>7. disk' \in [Paths -> Files!Absentee]
      <4> HIDE DEF new
      <4> QED BY <3>4, <3>5
    <3> QED BY <3>6, <3>7
  <2> QED BY <2>1, <2>2
<1>9. CASE Files!Open(r) \/ Files!Fallback(r)
  <2>1. CASE ~(Files!Opens(r) /\ Files!Exists(Files!Source(r)))
    BY <1>9, <2>1 DEF Files!Open, Files!Fallback
  <2>2. CASE Files!Opens(r) /\ Files!Exists(Files!Source(r))
    <3> DEFINE n == IF Files!IsFolder(Files!Target(r)) THEN disk[Files!Target(r)]
                    ELSE Files!Node(disk[Files!Source(r)].kind, {})
    <3>1. disk[Files!Source(r)] \in Files!Nodes
      BY <1>9, <2>2 DEF Files!Open, Files!Fallback
    <3>2. n \in Files!Nodes
      BY <1>9, <3>1 DEF Files!Open, Files!Fallback
    <3>3. [n EXCEPT !.torn = @ \cup {r}] \in Files!Nodes
      BY <3>2 DEF Files!Nodes
    <3> QED BY <3>1, <3>3, <2>2 DEF Files!Opens
  <2> QED BY <2>1, <2>2
<1>10. CASE Files!Fill(r)
  BY <1>10 DEF Files!Fill, Filling, Files!Nodes
<1>11. CASE Files!Unlink(r)
  BY <1>11 DEF Files!Unlink, Files!Nodes
<1>12. CASE Files!Report(r) \/ Files!Fault(r)
  BY <1>12 DEF Files!Report, Files!Fault
<1> QED BY <1>1, <1>2, <1>3, <1>4, <1>5, <1>6, <1>7, <1>8, <1>9, <1>10, <1>11, <1>12 DEF Files!Step

LEMMA StepFields ==
    ASSUME FileShape, NEW r \in Requests, Files!Step(r)
    PROVE  /\ pin' \in [Requests -> Files!Absentee] /\ expected' \in [Requests -> Files!Absentee]
           /\ flag' \in [Requests -> BOOLEAN] /\ temporary' \in [Requests -> BOOLEAN]
           /\ outcome' \in [Requests -> {"none", "ok", "failed", "raised", "dead"}]
           /\ changes' \in 0 .. MaxChanges /\ faults' \in 0 .. MaxFaults
<1> USE FileFacts, OrderFields
    DEF FileShape, Files!TypeOK, Ordered, Files!Alone, Files!own, Files!bound, Files!Proceeds, Files!Fails,
        Files!Becomes, Files!Ends, Files!Cleaned, Files!Source, Files!Target
<1> DEFINE Goal == /\ pin' \in [Requests -> Files!Absentee] /\ expected' \in [Requests -> Files!Absentee]
                   /\ flag' \in [Requests -> BOOLEAN] /\ temporary' \in [Requests -> BOOLEAN]
                   /\ outcome' \in [Requests -> {"none", "ok", "failed", "raised", "dead"}]
                   /\ changes' \in 0 .. MaxChanges /\ faults' \in 0 .. MaxFaults
<1>1. ASSUME NEW o \in Files!Orders, Files!Ask(r, o) PROVE Goal
  BY <1>1 DEF Files!Ask, Files!Absentee
<1>2. CASE Files!Bind(r) \/ Files!Drop(r) \/ Files!Begin(r)
  BY <1>2 DEF Files!Bind, Files!Drop, Files!Begin, Files!Absentee
<1>3. CASE Files!Check(r)
  BY <1>3 DEF Files!Check
<1>4. CASE Files!Kind(r) \/ Files!Verify(r) \/ Files!Recheck(r)
  BY <1>4 DEF Files!Kind, Files!Verify, Files!Recheck, Files!Route
<1>5. CASE Files!Read(r) \/ Files!Flag(r) \/ Files!Temporary(r) \/ Files!Load(r)
  <2>1. flag' \in [Requests -> BOOLEAN]
    BY <1>5, Zenon DEF Files!Read, Files!Flag, Files!Temporary, Files!Load, Files!Exists
  <2> QED BY <1>5, <2>1 DEF Files!Read, Files!Flag, Files!Temporary, Files!Load
<1>6. CASE Files!Put(r) \/ Files!MakeDirectory(r) \/ Files!Trash(r)
  BY <1>6 DEF Files!Put, Files!MakeDirectory, Files!Trash, Files!Placeable
<1>7. CASE Files!Swap(r) \/ Files!Attempt(r)
  BY <1>7 DEF Files!Swap, Files!Attempt, Files!Movable, Files!Placeable, Files!Moved
<1>8. CASE Files!Into(r)
  BY <1>8 DEF Files!Into
<1>9. CASE Files!Open(r) \/ Files!Fallback(r)
  BY <1>9 DEF Files!Open, Files!Fallback, Files!Opens
<1>10. CASE Files!Fill(r)
  BY <1>10 DEF Files!Fill
<1>11. CASE Files!Unlink(r)
  <2>1. faults' \in 0 .. MaxFaults /\ changes' \in 0 .. MaxChanges
    BY <1>11 DEF Files!Unlink
  <2>2. /\ pin' \in [Requests -> Files!Absentee] /\ expected' \in [Requests -> Files!Absentee]
        /\ flag' \in [Requests -> BOOLEAN]
    BY <1>11 DEF Files!Unlink
  <2>3. /\ temporary' \in [Requests -> BOOLEAN]
        /\ outcome' \in [Requests -> {"none", "ok", "failed", "raised", "dead"}]
    BY <1>11 DEF Files!Unlink
  <2> QED BY <2>1, <2>2, <2>3
<1>12. CASE Files!Report(r) \/ Files!Fault(r)
  <2>1. faults' \in 0 .. MaxFaults /\ changes' \in 0 .. MaxChanges
    BY <1>12 DEF Files!Report, Files!Fault
  <2>2. /\ pin' \in [Requests -> Files!Absentee] /\ expected' \in [Requests -> Files!Absentee]
        /\ flag' \in [Requests -> BOOLEAN]
    BY <1>12 DEF Files!Report, Files!Fault
  <2>3. /\ temporary' \in [Requests -> BOOLEAN]
        /\ outcome' \in [Requests -> {"none", "ok", "failed", "raised", "dead"}]
    BY <1>12 DEF Files!Report, Files!Fault
  <2> QED BY <2>1, <2>2, <2>3
<1> QED BY <1>1, <1>2, <1>3, <1>4, <1>5, <1>6, <1>7, <1>8, <1>9, <1>10, <1>11, <1>12 DEF Files!Step


(* What another request keeps open stays there.                            *)
LEMMA FillingKept ==
    ASSUME FileShape, NEW r \in Requests, NEW stage, stage # "fill",
           at' = [at EXCEPT ![r] = stage], order' = order, hand' = hand,
           \A p \in Paths : disk[p] # Absent /\ Files!Held(p, r) => disk'[p] # Absent
    PROVE  Filling'
BY OrderFields
   DEF FileShape, Files!TypeOK, Ordered, Filling, Files!Target, Files!Held, Files!InUse

LEMMA StepFilling ==
    ASSUME FileShape, NEW r \in Requests, Files!Step(r)
    PROVE  Filling'
<1> USE FileFacts, OrderFields, NodesAreNodes
    DEF FileShape, Files!TypeOK, Ordered, Filling, Files!Alone, Files!own, Files!bound, Files!Proceeds,
        Files!Fails, Files!Becomes, Files!Ends, Files!Source, Files!Target, Files!Held, Files!InUse,
        Files!Holds
<1>1. ASSUME NEW o \in Files!Orders, Files!Ask(r, o) PROVE Filling'
  BY <1>1 DEF Files!Ask
<1>2. CASE Files!Bind(r) \/ Files!Drop(r) \/ Files!Begin(r)
  BY <1>2 DEF Files!Bind, Files!Drop, Files!Begin
<1>3. CASE Files!Check(r)
  BY <1>3 DEF Files!Check
<1>4. CASE Files!Kind(r) \/ Files!Verify(r) \/ Files!Recheck(r)
  BY <1>4 DEF Files!Kind, Files!Verify, Files!Recheck, Files!Route
<1>5. CASE Files!Read(r) \/ Files!Flag(r) \/ Files!Temporary(r) \/ Files!Load(r)
  BY <1>5 DEF Files!Read, Files!Flag, Files!Temporary, Files!Load
<1>6. CASE Files!Put(r) \/ Files!MakeDirectory(r) \/ Files!Trash(r)
  BY <1>6 DEF Files!Put, Files!MakeDirectory, Files!Trash, Files!Placeable
<1>7. CASE Files!Swap(r) \/ Files!Attempt(r)
  BY <1>7 DEF Files!Swap, Files!Attempt, Files!Movable, Files!Placeable, Files!Moved
<1>8. CASE Files!Into(r)
  <2> DEFINE n == disk[Files!Target(r)]
             m == disk[Files!Source(r)]
             new == [n EXCEPT !.of = @ \cup m.of, !.torn = @ \cup m.torn]
  <2>1. CASE ~(Files!IsFolder(Files!Target(r)) /\ Files!Exists(Files!Source(r)))
    BY <1>8, <2>1 DEF Files!Into
  <2>2. CASE Files!IsFolder(Files!Target(r)) /\ Files!Exists(Files!Source(r))
    <3>1. Files!Source(r) # Files!Target(r)
      BY <1>8 DEF Files!Into, Reached, Files!Op
    <3>2. n \in Files!Nodes /\ m \in Files!Nodes
      BY <1>8, <2>2 DEF Files!Into, Files!Exists, Files!IsFolder, Files!Absentee
    <3>3. new # Absent
      <4>1. new \in Files!Nodes
        BY <3>2 DEF Files!Nodes
      <4> QED BY <4>1
    <3>4. \/ disk' = disk
          \/ /\ disk' = [disk EXCEPT ![Files!Source(r)] = Absent, ![Files!Target(r)] = new]
             /\ ~Files!Held(Files!Source(r), r)
      BY <1>8, <3>1, Zenon DEF Files!Into
    <3>5. /\ order' = order /\ hand' = hand
          /\ \E stage \in {"report", "over", "attempt"} : at' = [at EXCEPT ![r] = stage]
      BY <1>8 DEF Files!Into
    <3>6. \A p \in Paths : disk[p] # Absent /\ Files!Held(p, r) => disk'[p] # Absent
      BY <3>3, <3>4
    <3> QED BY <3>5, <3>6, FillingKept
  <2> QED BY <2>1, <2>2
<1>9. CASE Files!Open(r) \/ Files!Fallback(r)
  <2>1. CASE ~(Files!Opens(r) /\ Files!Exists(Files!Source(r)))
    BY <1>9, <2>1 DEF Files!Open, Files!Fallback
  <2>2. CASE Files!Opens(r) /\ Files!Exists(Files!Source(r))
    <3> DEFINE n == IF Files!IsFolder(Files!Target(r)) THEN disk[Files!Target(r)]
                    ELSE Files!Node(disk[Files!Source(r)].kind, {})
               new == [n EXCEPT !.torn = @ \cup {r}]
    <3>1. disk[Files!Source(r)] \in Files!Nodes
      BY <1>9, <2>2 DEF Files!Open, Files!Fallback, Files!Exists, Files!Absentee
    <3>2. n \in Files!Nodes
      BY <1>9, <3>1 DEF Files!Open, Files!Fallback, Files!IsFolder, Files!Exists, Files!Absentee
    <3>3. new # Absent
      <4>1. new \in Files!Nodes
        BY <3>2 DEF Files!Nodes
      <4> QED BY <4>1
    <3>4. disk' = [disk EXCEPT ![Files!Target(r)] = new]
      BY <2>2 DEF Files!Opens
    <3>5. /\ order' = order /\ at' = [at EXCEPT ![r] = "fill"]
          /\ hand' = [hand EXCEPT ![r] = disk[Files!Source(r)]]
      BY <1>9, <2>2 DEF Files!Opens, Files!Open, Files!Fallback
    <3>6. \A p \in Paths : disk[p] # Absent => disk'[p] # Absent
      BY <3>3, <3>4
    <3>7. disk'[Files!Target(r)] # Absent /\ hand'[r] # Absent
      BY <1>9, <2>2, <3>3, <3>4, <3>5 DEF Files!Open, Files!Fallback, Files!Exists
    <3>8. ASSUME NEW q \in Requests \ {r}, at'[q] = "fill"
          PROVE  disk'[Files!Target(q)]  # Absent /\ hand'[q] # Absent
      BY <3>5, <3>6, <3>8
    <3> QED BY <3>5, <3>7, <3>8
  <2> QED BY <2>1, <2>2
<1>10. CASE Files!Fill(r)
  <2> DEFINE n == disk[Files!Target(r)]
             new == [n EXCEPT !.of = @ \cup hand[r].of, !.torn = (@ \ {r}) \cup hand[r].torn]
  <2>1. new # Absent
    <3>1. n \in Files!Nodes /\ hand[r] \in Files!Nodes
      BY <1>10 DEF Files!Fill, Files!Absentee
    <3>2. new \in Files!Nodes
      BY <3>1 DEF Files!Nodes
    <3> QED BY <3>2
  <2>2. disk' = [disk EXCEPT ![Files!Target(r)] = new]
    BY <1>10 DEF Files!Fill
  <2> QED BY <1>10, <2>1, <2>2 DEF Files!Fill
<1>11. CASE Files!Unlink(r)
  <2> DEFINE new == [disk[Files!Source(r)] EXCEPT !.torn = @ \cup {r}]
  <2>1. \/ disk' = disk
        \/ disk' = [disk EXCEPT ![Files!Source(r)] = Absent] /\ ~Files!Held(Files!Source(r), r)
        \/ disk' = [disk EXCEPT ![Files!Source(r)] = new] /\ Files!IsFolder(Files!Source(r))
    BY <1>11 DEF Files!Unlink
  <2>2. Files!IsFolder(Files!Source(r)) => new # Absent
    <3>1. Files!IsFolder(Files!Source(r)) => disk[Files!Source(r)] \in Files!Nodes
      BY <1>11 DEF Files!Unlink, Files!IsFolder, Files!Exists, Files!Absentee
    <3>2. Files!IsFolder(Files!Source(r)) => new \in Files!Nodes
      BY <3>1 DEF Files!Nodes
    <3> QED BY <3>2
  <2>3. /\ order' = order /\ hand' = hand
        /\ at' = [at EXCEPT ![r] = "report"] \/ at' = [at EXCEPT ![r] = "over"]
    BY <1>11 DEF Files!Unlink
  <2>4. \A p \in Paths : disk[p] # Absent /\ Files!Held(p, r) => disk'[p] # Absent
    BY <2>1, <2>2
  <2> QED BY <2>3, <2>4, FillingKept
<1>12. CASE Files!Report(r) \/ Files!Fault(r)
  BY <1>12 DEF Files!Report, Files!Fault
<1> QED BY <1>1, <1>2, <1>3, <1>4, <1>5, <1>6, <1>7, <1>8, <1>9, <1>10, <1>11, <1>12 DEF Files!Step

LEMMA CrashShape ==
    ASSUME FileShape, Files!Crash
    PROVE  /\ disk' \in [Paths -> Files!Absentee] /\ at' \in [Requests -> Files!Stages]
           /\ outcome' \in [Requests -> {"none", "ok", "failed", "raised", "dead"}]
           /\ faults' \in 0 .. MaxFaults
           /\ UNCHANGED <<disk, order, pin, expected, hand, flag, temporary, changes>>
           /\ Ordered' /\ Filling'
BY FileFacts
   DEF FileShape, Files!TypeOK, Files!Crash, Ordered, Reached, InPlace, Filling, Files!Stages,
       Files!Running, Files!Waiting, Files!bound, Files!own, Files!Op, Files!Target

LEMMA StrangerShape ==
    ASSUME FileShape, NEW p \in Paths,
           NEW node \in {Absent, Files!Node("file", {Other}), Files!Node("folder", {Other})},
           Files!Stranger(p, node)
    PROVE  /\ disk' \in [Paths -> Files!Absentee]
           /\ changes' \in 0 .. MaxChanges
           /\ UNCHANGED <<order, at, pin, expected, hand, flag, temporary, outcome, faults>>
           /\ Ordered' /\ Filling'
<1>1. node \in Files!Absentee
  <2>1. {Other} \in SUBSET Files!Pieces
    BY DEF Files!Pieces
  <2> QED BY <2>1, NodesAreNodes DEF Files!Absentee
<1> QED
  BY <1>1, FileFacts
     DEF FileShape, Files!TypeOK, Files!Stranger, Ordered, Reached, InPlace, Filling,
         Files!bound, Files!own, Files!Op, Files!Target, Files!InUse

(* A request begins to run only after it was asked, and keeps what it was  *)
(* asked from then on.                                                     *)
LEMMA StepKeepsOrder ==
    ASSUME FileShape, NEW r \in Requests, Files!Step(r)
    PROVE  \A q \in Requests :
              /\ q # r => at'[q] = at[q] /\ outcome'[q] = outcome[q]
              /\ at[q] # "idle" => order'[q] = order[q] /\ at'[q] # "idle"
              /\ at[q] = "idle" => at'[q] \in {"idle", "validated"}
<1> USE DEF FileShape, Files!TypeOK, Files!Alone, Files!bound, Files!Proceeds, Files!Fails,
            Files!Becomes, Files!Ends
<1> DEFINE Goal ==
           \A q \in Requests :
              /\ q # r => at'[q] = at[q] /\ outcome'[q] = outcome[q]
              /\ at[q] # "idle" => order'[q] = order[q] /\ at'[q] # "idle"
              /\ at[q] = "idle" => at'[q] \in {"idle", "validated"}
<1>1. ASSUME NEW o \in Files!Orders, Files!Ask(r, o) PROVE Goal
  BY <1>1 DEF Files!Ask
<1>2. CASE Files!Bind(r) \/ Files!Drop(r) \/ Files!Begin(r)
  BY <1>2 DEF Files!Bind, Files!Drop, Files!Begin
<1>3. CASE Files!Check(r)
  BY <1>3 DEF Files!Check
<1>4. CASE Files!Kind(r) \/ Files!Verify(r) \/ Files!Recheck(r)
  BY <1>4 DEF Files!Kind, Files!Verify, Files!Recheck, Files!Route, Files!Writes
<1>5. CASE Files!Read(r) \/ Files!Flag(r) \/ Files!Temporary(r) \/ Files!Load(r)
  BY <1>5 DEF Files!Read, Files!Flag, Files!Temporary, Files!Load
<1>6. CASE Files!Put(r) \/ Files!MakeDirectory(r) \/ Files!Trash(r)
  BY <1>6 DEF Files!Put, Files!MakeDirectory, Files!Trash, Files!Placeable
<1>7. CASE Files!Swap(r) \/ Files!Attempt(r)
  BY <1>7 DEF Files!Swap, Files!Attempt, Files!Movable, Files!Placeable, Files!Moved
<1>8. CASE Files!Into(r)
  BY <1>8 DEF Files!Into
<1>9. CASE Files!Open(r) \/ Files!Fallback(r)
  BY <1>9 DEF Files!Open, Files!Fallback, Files!Opens
<1>10. CASE Files!Fill(r)
  BY <1>10 DEF Files!Fill
<1>11. CASE Files!Unlink(r)
  BY <1>11 DEF Files!Unlink
<1>12. CASE Files!Report(r) \/ Files!Fault(r)
  BY <1>12 DEF Files!Report, Files!Fault, Files!Running, Files!Waiting
<1> QED BY <1>1, <1>2, <1>3, <1>4, <1>5, <1>6, <1>7, <1>8, <1>9, <1>10, <1>11, <1>12 DEF Files!Step

LEMMA NextKeepsOrder ==
    ASSUME FileShape, Files!Next, NEW q \in Requests
    PROVE  /\ at[q] # "idle" => order'[q] = order[q] /\ at'[q] # "idle"
           /\ at[q] = "idle" => at'[q] \in {"idle", "validated"}
<1>1. CASE \E r \in Requests : Files!Step(r)
  BY <1>1, StepKeepsOrder
<1>2. CASE Files!Crash
  BY <1>2 DEF Files!Crash, FileShape, Files!TypeOK, Files!Running, Files!Waiting, Files!bound
<1>3. CASE \E p \in Paths, node \in {Absent, Files!Node("file", {Other}),
                                     Files!Node("folder", {Other})} : Files!Stranger(p, node)
  BY <1>3 DEF Files!Stranger, Files!bound
<1> QED BY <1>1, <1>2, <1>3 DEF Files!Next

LEMMA NextFileShape ==
    ASSUME FileShape, Files!Next
    PROVE  FileShape'
<1>1. /\ disk' \in [Paths -> Files!Absentee]
      /\ order' \in [Requests -> Files!Orders \cup {NoOrder}]
      /\ at' \in [Requests -> Files!Stages]
      /\ pin' \in [Requests -> Files!Absentee] /\ expected' \in [Requests -> Files!Absentee]
      /\ hand' \in [Requests -> Files!Absentee]
      /\ flag' \in [Requests -> BOOLEAN] /\ temporary' \in [Requests -> BOOLEAN]
      /\ outcome' \in [Requests -> {"none", "ok", "failed", "raised", "dead"}]
      /\ changes' \in 0 .. MaxChanges /\ faults' \in 0 .. MaxFaults
      /\ Ordered' /\ Filling'
  <2>1. CASE \E r \in Requests : Files!Step(r)
    BY <2>1, StepOrders, StepDisk, StepFields, StepFilling
  <2>2. CASE Files!Crash
    BY <2>2, CrashShape DEF FileShape, Files!TypeOK
  <2>3. CASE \E p \in Paths, node \in {Absent, Files!Node("file", {Other}),
                                       Files!Node("folder", {Other})} : Files!Stranger(p, node)
    BY <2>3, StrangerShape DEF FileShape, Files!TypeOK
  <2> QED BY <2>1, <2>2, <2>3 DEF Files!Next
<1>2. \A r \in Requests : at'[r] \in Files!Running => order[r].path \in Paths
  <2> SUFFICES ASSUME NEW r \in Requests, at'[r] \in Files!Running
               PROVE  order[r] \in Files!Orders
    BY OrderFields
  <2>1. at[r] # "idle"
    BY NextKeepsOrder DEF Files!Running, Files!Waiting
  <2> QED BY <2>1 DEF FileShape, Ordered
<1>3. during' \in [Requests -> SUBSET Files!Absentee]
  BY <1>1, <1>2, TrackTypes DEF FileShape, Files!TypeOK, Files!Next
<1> QED BY <1>1, <1>3 DEF FileShape, Files!TypeOK

(***************************************************************************)
(* Only what a copy or a move makes in place is torn, wherever it got to.  *)
(***************************************************************************)
Tears(r) == at[r] # "idle" /\ InPlace(r)
Pure(n) == n # Absent => \A r \in n.torn : Tears(r)
Purity == (\A p \in Paths : Pure(disk[p])) /\ (\A q \in Requests : Pure(hand[q]))

LEMMA StepPurity ==
    ASSUME FileShape, Purity, NEW r \in Requests, Files!Step(r)
    PROVE  (\A p \in Paths : Pure(disk'[p])) /\ (\A q \in Requests : Pure(hand'[q]))
<1> USE OrderFields
    DEF FileShape, Files!TypeOK, Ordered, Purity, Pure, Tears, Files!Alone, Files!own, Files!Proceeds, Files!Fails, Files!Holds,
        Files!Target, Files!Source
<1> DEFINE Goal == (\A p \in Paths : Pure(disk'[p])) /\ (\A q \in Requests : Pure(hand'[q]))
<1>1. ASSUME NEW o \in Files!Orders, Files!Ask(r, o) PROVE Goal
  BY <1>1 DEF Files!Ask
<1>2. CASE Files!Bind(r) \/ Files!Drop(r) \/ Files!Begin(r)
  BY <1>2 DEF Files!Bind, Files!Drop, Files!Begin
<1>3. CASE Files!Check(r)
  <2>1. at[r] = "check" /\ Files!Source(r) \in Paths
    BY <1>3 DEF Files!Check
  <2> QED BY <1>3, <2>1, CheckIs DEF Files!With, Files!Node, Files!Nodes, Files!Absentee
<1>4. CASE Files!Kind(r) \/ Files!Verify(r) \/ Files!Recheck(r)
  BY <1>4 DEF Files!Kind, Files!Verify, Files!Recheck, Files!Route
<1>5. CASE Files!Read(r) \/ Files!Flag(r) \/ Files!Temporary(r) \/ Files!Load(r)
  BY <1>5 DEF Files!Read, Files!Flag, Files!Temporary, Files!Load, Files!With, Files!Node, Files!Nodes, Files!Absentee
<1>6. CASE Files!Put(r) \/ Files!MakeDirectory(r) \/ Files!Trash(r)
  BY <1>6 DEF Files!Put, Files!MakeDirectory, Files!Trash, Files!Placeable, Files!Node
<1>7. CASE Files!Swap(r) \/ Files!Attempt(r)
  BY <1>7 DEF Files!Swap, Files!Attempt, Files!Movable, Files!Placeable, Files!Moved
<1>8. CASE Files!Into(r)
  <2> DEFINE n == disk[Files!Target(r)]
             m == disk[Files!Source(r)]
             new == [n EXCEPT !.of = @ \cup m.of, !.torn = @ \cup m.torn]
  <2>1. CASE ~(Files!IsFolder(Files!Target(r)) /\ Files!Exists(Files!Source(r)))
    BY <1>8, <2>1 DEF Files!Into
  <2>2. CASE Files!IsFolder(Files!Target(r)) /\ Files!Exists(Files!Source(r))
    <3>1. n \in Files!Nodes /\ m \in Files!Nodes /\ Files!Source(r) # Files!Target(r)
      BY <1>8, <2>2 DEF Files!Into, Files!Exists, Files!IsFolder, Files!Absentee, Reached, Files!Op
    <3>2. new.torn = n.torn \cup m.torn /\ new.of = n.of \cup m.of
      BY <3>1 DEF Files!Nodes
    <3>3. Pure(new)
      <4>1. \A q \in n.torn \cup m.torn : Tears(q)
        BY <1>8, <2>2 DEF Files!Exists, Files!IsFolder, Files!Into
      <4> HIDE DEF n, m
      <4> QED BY <3>2, <4>1
    <3>4. \/ disk' = disk
          \/ disk' = [disk EXCEPT ![Files!Source(r)] = Absent, ![Files!Target(r)] = new]
      BY <1>8, <3>1, Zenon DEF Files!Into
    <3>5. hand' = hand
      BY <1>8 DEF Files!Into
    <3> QED BY <3>3, <3>4, <3>5, ZenonT(30)
  <2> QED BY <2>1, <2>2
<1>9. CASE Files!Open(r) \/ Files!Fallback(r)
  <2>1. CASE ~(Files!Opens(r) /\ Files!Exists(Files!Source(r)))
    BY <1>9, <2>1 DEF Files!Open, Files!Fallback
  <2>2. CASE Files!Opens(r) /\ Files!Exists(Files!Source(r))
    <3> DEFINE n == IF Files!IsFolder(Files!Target(r)) THEN disk[Files!Target(r)]
                    ELSE Files!Node(disk[Files!Source(r)].kind, {})
               new == [n EXCEPT !.torn = @ \cup {r}]
    <3>1. disk[Files!Source(r)] \in Files!Nodes
      BY <1>9, <2>2 DEF Files!Open, Files!Fallback, Files!Exists, Files!Absentee
    <3>2. n \in Files!Nodes
      BY <1>9, <3>1, NodesAreNodes DEF Files!Open, Files!Fallback, Files!IsFolder, Files!Exists, Files!Absentee
    <3>3. new.torn = n.torn \cup {r} /\ new.of = n.of
      BY <3>2 DEF Files!Nodes
    <3>4. Pure(n) /\ Tears(r)
      BY <1>9 DEF Files!Open, Files!Fallback, Files!IsFolder, Files!Exists, Files!Node, Reached
    <3>5. Pure(new)
      <4>1. n # Absent
        BY <3>2, FileFacts
      <4>2. \A q \in n.torn : Tears(q)
        BY <3>4, <4>1 DEF Pure
      <4> HIDE DEF n
      <4> QED BY <3>3, <3>4, <4>2 DEF Pure
    <3>6. /\ disk' = [disk EXCEPT ![Files!Target(r)] = new]
          /\ hand' = [hand EXCEPT ![r] = disk[Files!Source(r)]]
      BY <2>2 DEF Files!Opens
    <3> QED BY <1>9, <3>5, <3>6 DEF Files!Open, Files!Fallback
  <2> QED BY <2>1, <2>2
<1>10. CASE Files!Fill(r)
  <2> DEFINE n == disk[Files!Target(r)]
             new == [n EXCEPT !.of = @ \cup hand[r].of, !.torn = (@ \ {r}) \cup hand[r].torn]
  <2>1. n \in Files!Nodes /\ n # Absent /\ hand[r] # Absent
    BY <1>10 DEF Files!Fill, Files!Absentee, Filling
  <2>2. new.torn = (n.torn \ {r}) \cup hand[r].torn
    BY <2>1 DEF Files!Nodes
  <2>3. Pure(new)
    BY <1>10, <2>1, <2>2 DEF Files!Fill
  <2>4. disk' = [disk EXCEPT ![Files!Target(r)] = new] /\ hand' = hand
    BY <1>10 DEF Files!Fill
  <2> QED BY <2>3, <2>4
<1>11. CASE Files!Unlink(r)
  <2> DEFINE n == disk[Files!Source(r)]
             new == [n EXCEPT !.torn = @ \cup {r}]
  <2>1. /\ hand' = hand
        /\ \/ disk' = disk
           \/ disk' = [disk EXCEPT ![Files!Source(r)] = Absent]
           \/ disk' = [disk EXCEPT ![Files!Source(r)] = new] /\ n # Absent
    BY <1>11 DEF Files!Unlink, Files!IsFolder, Files!Exists
  <2>2. n # Absent => Pure(new)
    <3> SUFFICES ASSUME n # Absent PROVE Pure(new)
      OBVIOUS
    <3>1. Tears(r)
      BY <1>11 DEF Files!Unlink, Reached
    <3>3. n \in Files!Nodes
      <4>1. n \in Files!Absentee
        BY <1>11 DEF Files!Unlink
      <4> QED BY <4>1 DEF Files!Absentee
    <3>2. new.torn = n.torn \cup {r}
      BY <3>3 DEF Files!Nodes
    <3> QED BY <1>11, <3>1, <3>2 DEF Files!Unlink
  <2> QED BY <2>1, <2>2
<1>12. CASE Files!Report(r) \/ Files!Fault(r)
  BY <1>12 DEF Files!Report, Files!Fault
<1> QED BY <1>1, <1>2, <1>3, <1>4, <1>5, <1>6, <1>7, <1>8, <1>9, <1>10, <1>11, <1>12 DEF Files!Step

LEMMA NextPurity ==
    ASSUME FileShape, Purity, Files!Next
    PROVE  Purity'
<1>1. \A r \in Requests : Tears(r) => Tears(r)'
  BY NextKeepsOrder DEF Tears, InPlace, Files!Op
<1>2. (\A p \in Paths : Pure(disk'[p])) /\ (\A q \in Requests : Pure(hand'[q]))
  <2>1. CASE \E r \in Requests : Files!Step(r)
    BY <2>1, StepPurity
  <2>2. CASE Files!Crash
    BY <2>2 DEF Files!Crash, Purity, Files!own
  <2>3. CASE \E p \in Paths, node \in {Absent, Files!Node("file", {Other}),
                                       Files!Node("folder", {Other})} : Files!Stranger(p, node)
    BY <2>3 DEF Files!Stranger, Purity, Pure, Files!own, Files!Node, FileShape, Files!TypeOK
  <2> QED BY <2>1, <2>2, <2>3 DEF Files!Next
<1>3. /\ disk' \in [Paths -> Files!Absentee] /\ hand' \in [Requests -> Files!Absentee]
  BY NextFileShape DEF FileShape, Files!TypeOK
<1>4. ASSUME NEW n \in Files!Absentee, Pure(n)
      PROVE  n # Absent => \A r \in n.torn : Tears(r)'
  BY <1>1, <1>4, NodesAreNodes DEF Pure, Files!Absentee
<1> QED BY <1>2, <1>3, <1>4 DEF Purity, Pure

(* What is proved of the files holds of every state of a behaviour.        *)
LEMMA FilesInvariant == Spec => [](part = "files" => FileShape /\ Purity)
<1>1. Init => (part = "files" => FileShape /\ Purity)
  <2>1. Files!Init => Purity
    BY DEF Files!Init, Purity, Pure, Files!Node
  <2> QED BY <2>1, InitFileShape DEF Init
<1>2. (part = "files" => FileShape /\ Purity) /\ [Next]_vars
      => (part = "files" => FileShape /\ Purity)'
  <2> SUFFICES ASSUME part = "files", FileShape, Purity, [Next]_vars PROVE FileShape' /\ Purity'
    BY DEF Next, vars
  <2>1. CASE Next
    BY <2>1, NextFileShape, NextPurity DEF Next
  <2>2. CASE UNCHANGED vars
    BY <2>2 DEF vars, files, counters, FileShape, Files!TypeOK, Ordered, Reached, Filling, InPlace,
                Files!Op, Files!Target, Purity, Pure, Tears
  <2> QED BY <2>1, <2>2
<1> QED BY <1>1, <1>2, PTL DEF Spec

(* WholeFiles, for any number of requests and of paths, and wherever system*)
(* calls fail or the process ends.                                         *)
THEOREM PartsWholeFiles == Spec => []WholeFiles
<1>1. (part = "files" => FileShape /\ Purity) => WholeFiles
  BY DEF Purity, Pure, Tears, InPlace, WholeFiles, Files!WholeFiles, Files!Exists, FileShape,
         Files!TypeOK
<1> QED BY <1>1, FilesInvariant, PTL

-----------------------------------------------------------------------------
(* No step of a request takes the place of what it was not told to.        *)
LEMMA StepKeepsOthers ==
    ASSUME FileShape, NEW r \in Requests, Files!Step(r), Files!Steps(r), ~order[r].overwrite,
           Files!Op(r) \in {"write_text", "copy", "rename", "create_directory"},
           at[r] # "fill", Files!Exists(Files!Target(r))
    PROVE  disk'[Files!Target(r)] = disk[Files!Target(r)]
<1> USE OrderFields
    DEF FileShape, Files!TypeOK, Ordered, Reached, InPlace, Files!Steps, Files!Running, Files!Waiting, Files!Alone, Files!own,
        Files!Proceeds, Files!Fails, Files!Target, Files!Source, Files!Op, Files!Exists
<1> DEFINE Goal == disk'[Files!Target(r)] = disk[Files!Target(r)]
<1>1. ASSUME NEW o \in Files!Orders, Files!Ask(r, o) PROVE Goal
  BY <1>1 DEF Files!Ask
<1>2. CASE Files!Bind(r) \/ Files!Drop(r) \/ Files!Begin(r)
  BY <1>2 DEF Files!Bind, Files!Drop, Files!Begin
<1>3. CASE Files!Check(r)
  BY <1>3 DEF Files!Check
<1>4. CASE Files!Kind(r) \/ Files!Verify(r) \/ Files!Recheck(r)
  BY <1>4 DEF Files!Kind, Files!Verify, Files!Recheck, Files!Route
<1>5. CASE Files!Read(r) \/ Files!Flag(r) \/ Files!Temporary(r) \/ Files!Load(r)
  BY <1>5 DEF Files!Read, Files!Flag, Files!Temporary, Files!Load
<1>6. CASE Files!Put(r) \/ Files!MakeDirectory(r) \/ Files!Trash(r)
  BY <1>6 DEF Files!Put, Files!MakeDirectory, Files!Trash, Files!Placeable, Files!Replaces, Files!Writes
<1>7. CASE Files!Swap(r) \/ Files!Attempt(r)
  BY <1>7 DEF Files!Swap, Files!Attempt, Files!Movable, Files!Placeable, Files!Moved, Files!Replaces
<1>8. CASE Files!Into(r)
  BY <1>8 DEF Files!Into
<1>9. CASE Files!Open(r) \/ Files!Fallback(r)
  BY <1>9 DEF Files!Open, Files!Fallback, Files!Opens
<1>10. CASE Files!Fill(r)
  BY <1>10 DEF Files!Fill
<1>11. CASE Files!Unlink(r)
  BY <1>11 DEF Files!Unlink
<1>12. CASE Files!Report(r) \/ Files!Fault(r)
  BY <1>12 DEF Files!Report, Files!Fault
<1> QED BY <1>1, <1>2, <1>3, <1>4, <1>5, <1>6, <1>7, <1>8, <1>9, <1>10, <1>11, <1>12 DEF Files!Step

(* NoSilentOverwrite, for any number of requests and paths.                *)
THEOREM PartsOverwriteNothingUnasked == Spec => NoSilentOverwrite
<1>1. ASSUME FileShape, Files!Next PROVE Files!KeepsOthers
  <2> SUFFICES ASSUME NEW r \in Requests, Files!Steps(r), ~order[r].overwrite,
                      Files!Op(r) \in {"write_text", "copy", "rename", "create_directory"},
                      at[r] # "fill", Files!Exists(Files!Target(r))
               PROVE  disk'[Files!Target(r)] = disk[Files!Target(r)]
    BY DEF Files!KeepsOthers
  <2>1. CASE Files!Step(r)
    BY <1>1, <2>1, StepKeepsOthers
  <2>2. ASSUME NEW q \in Requests \ {r}, Files!Step(q) PROVE FALSE
    BY <1>1, <2>2, StepKeepsOrder DEF Files!Steps
  <2>3. CASE Files!Crash
    BY <2>3 DEF Files!Crash
  <2>4. CASE \E p \in Paths, node \in {Absent, Files!Node("file", {Other}),
                                       Files!Node("folder", {Other})} : Files!Stranger(p, node)
    BY <2>4 DEF Files!Stranger, Files!Steps
  <2> QED BY <1>1, <2>1, <2>2, <2>3, <2>4 DEF Files!Next
<1>2. ASSUME UNCHANGED vars PROVE Files!KeepsOthers
  BY <1>2 DEF vars, files, Files!KeepsOthers, Files!Steps
<1>3. (part = "files" => FileShape /\ Purity) /\ [Next]_vars
      => [part = "files" => Files!KeepsOthers]_vars
  BY <1>1, <1>2 DEF Next
<1> QED BY <1>3, FilesInvariant, PTL DEF Spec, NoSilentOverwrite

-----------------------------------------------------------------------------
(***************************************************************************)
(* A request has something on the disk, or in the hand of another one, only*)
(* when all that is left to it is to report, or it has done so, or the     *)
(* process ended.                                                          *)
(***************************************************************************)
Settled(r) ==
    \/ at[r] = "report"
    \/ at[r] = "over" /\ outcome[r] \in {"ok", "raised", "dead"}

Published ==
    /\ \A p \in Paths : disk[p] # Absent => \A q \in disk[p].of \cap Requests : Settled(q)
    /\ \A q \in Requests : hand[q] # Absent =>
          \A x \in (hand[q].of \cap Requests) \ {q} : Settled(x)
    /\ \A q \in Requests : at[q] = "fill" => \A x \in hand[q].of \cap Requests : Settled(x)

Tidy ==
    \A r \in Requests :
        /\ at[r] # "over" => outcome[r] = "none"
        /\ temporary[r] => at[r] \in {"load", "put"} \/ outcome[r] \in {"failed", "dead"}
        /\ temporary[r] /\ at[r] = "put" => Files!Op(r) \in Files!Writes \cup {"copy"}

LEMMA StepSettles ==
    ASSUME FileShape, NEW r \in Requests, Files!Step(r)
    PROVE  at[r] # "over" /\ (at[r] = "report" => at'[r] = "over" /\ outcome'[r] \in {"ok", "raised"})
<1> USE DEF FileShape, Files!TypeOK, Files!Running, Files!Waiting, Files!Ends
<1> DEFINE Goal == at[r] # "over" /\ (at[r] = "report" => at'[r] = "over" /\ outcome'[r] \in {"ok", "raised"})
<1>1. ASSUME NEW o \in Files!Orders, Files!Ask(r, o) PROVE Goal
  BY <1>1 DEF Files!Ask
<1>2. CASE Files!Bind(r) \/ Files!Drop(r) \/ Files!Begin(r)
  BY <1>2 DEF Files!Bind, Files!Drop, Files!Begin
<1>3. CASE Files!Check(r)
  BY <1>3 DEF Files!Check
<1>4. CASE Files!Kind(r) \/ Files!Verify(r) \/ Files!Recheck(r)
  BY <1>4 DEF Files!Kind, Files!Verify, Files!Recheck, Files!Route
<1>5. CASE Files!Read(r) \/ Files!Flag(r) \/ Files!Temporary(r) \/ Files!Load(r)
  BY <1>5 DEF Files!Read, Files!Flag, Files!Temporary, Files!Load
<1>6. CASE Files!Put(r) \/ Files!MakeDirectory(r) \/ Files!Trash(r)
  BY <1>6 DEF Files!Put, Files!MakeDirectory, Files!Trash, Files!Placeable
<1>7. CASE Files!Swap(r) \/ Files!Attempt(r)
  BY <1>7 DEF Files!Swap, Files!Attempt, Files!Movable, Files!Placeable, Files!Moved
<1>8. CASE Files!Into(r)
  BY <1>8 DEF Files!Into
<1>9. CASE Files!Open(r) \/ Files!Fallback(r)
  BY <1>9 DEF Files!Open, Files!Fallback, Files!Opens
<1>10. CASE Files!Fill(r)
  BY <1>10 DEF Files!Fill
<1>11. CASE Files!Unlink(r)
  BY <1>11 DEF Files!Unlink
<1>12. CASE Files!Report(r) \/ Files!Fault(r)
  BY <1>12 DEF Files!Report, Files!Fault
<1> QED BY <1>1, <1>2, <1>3, <1>4, <1>5, <1>6, <1>7, <1>8, <1>9, <1>10, <1>11, <1>12 DEF Files!Step

LEMMA NextSettles ==
    ASSUME FileShape, Files!Next, NEW q \in Requests, Settled(q)
    PROVE  Settled(q)'
<1>1. ASSUME NEW r \in Requests, Files!Step(r) PROVE Settled(q)'
  BY <1>1, StepSettles, StepKeepsOrder DEF Settled
<1>2. CASE Files!Crash
  BY <1>2 DEF Files!Crash, Settled, FileShape, Files!TypeOK, Files!Running, Files!Waiting
<1>3. CASE \E p \in Paths, node \in {Absent, Files!Node("file", {Other}),
                                     Files!Node("folder", {Other})} : Files!Stranger(p, node)
  BY <1>3 DEF Files!Stranger, Settled
<1> QED BY <1>1, <1>2, <1>3 DEF Files!Next

LEMMA StepTidy ==
    ASSUME FileShape, Tidy, NEW r \in Requests, Files!Step(r)
    PROVE  Tidy'
<1> USE DEF FileShape, Files!TypeOK, Ordered, Reached, InPlace, Tidy, Files!Alone, Files!own, Files!bound, Files!Proceeds,
        Files!Fails, Files!Cleaned, Files!Becomes, Files!Ends, Files!Op
<1>1. ASSUME NEW o \in Files!Orders, Files!Ask(r, o) PROVE Tidy'
  BY <1>1 DEF Files!Ask
<1>2. CASE Files!Bind(r) \/ Files!Drop(r) \/ Files!Begin(r)
  BY <1>2 DEF Files!Bind, Files!Drop, Files!Begin
<1>3. CASE Files!Check(r)
  BY <1>3 DEF Files!Check
<1>4. CASE Files!Kind(r) \/ Files!Verify(r) \/ Files!Recheck(r)
  BY <1>4 DEF Files!Kind, Files!Verify, Files!Recheck, Files!Route
<1>5. CASE Files!Read(r) \/ Files!Flag(r) \/ Files!Temporary(r) \/ Files!Load(r)
  BY <1>5 DEF Files!Read, Files!Flag, Files!Temporary, Files!Load, Files!Writes
<1>6. CASE Files!Put(r) \/ Files!MakeDirectory(r) \/ Files!Trash(r)
  BY <1>6 DEF Files!Put, Files!MakeDirectory, Files!Trash, Files!Placeable, Files!Writes
<1>7. CASE Files!Swap(r) \/ Files!Attempt(r)
  BY <1>7 DEF Files!Swap, Files!Attempt, Files!Movable, Files!Placeable, Files!Moved
<1>8. CASE Files!Into(r)
  BY <1>8 DEF Files!Into
<1>9. CASE Files!Open(r) \/ Files!Fallback(r)
  BY <1>9 DEF Files!Open, Files!Fallback, Files!Opens
<1>10. CASE Files!Fill(r)
  BY <1>10 DEF Files!Fill
<1>11. CASE Files!Unlink(r)
  BY <1>11 DEF Files!Unlink
<1>12. CASE Files!Report(r) \/ Files!Fault(r)
  BY <1>12 DEF Files!Report, Files!Fault, Files!Running, Files!Waiting
<1> QED BY <1>1, <1>2, <1>3, <1>4, <1>5, <1>6, <1>7, <1>8, <1>9, <1>10, <1>11, <1>12 DEF Files!Step

(* What a text adds to is what it met, and itself.                         *)
LEMMA WithOf ==
    ASSUME NEW r \in Requests, NEW n \in Files!Absentee
    PROVE  Files!With(r, n).of = IF n = Absent THEN {r} ELSE n.of \cup {r}
BY DEF Files!With, Files!Node, Files!Nodes, Files!Absentee

LEMMA StepPublished ==
    ASSUME FileShape, Published, NEW r \in Requests, Files!Step(r)
    PROVE  /\ \A p \in Paths : disk'[p] # Absent =>
                     \A q \in disk'[p].of \cap Requests : Settled(q) \/ (q = r /\ at'[r] = "report")
           /\ \A q \in Requests : hand'[q] # Absent =>
                 \A x \in (hand'[q].of \cap Requests) \ {q} : Settled(x)
           /\ \A q \in Requests : at'[q] = "fill" =>
                 \A x \in hand'[q].of \cap Requests : Settled(x)
<1> USE OrderFields
    DEF FileShape, Files!TypeOK, Ordered, Published, Files!Alone, Files!own, Files!Proceeds,
        Files!Fails, Files!Becomes, Files!Ends, Files!Holds, Files!Target, Files!Source
<1> DEFINE Goal ==
           /\ \A p \in Paths : disk'[p] # Absent =>
                     \A q \in disk'[p].of \cap Requests : Settled(q) \/ (q = r /\ at'[r] = "report")
           /\ \A q \in Requests : hand'[q] # Absent =>
                 \A x \in (hand'[q].of \cap Requests) \ {q} : Settled(x)
           /\ \A q \in Requests : at'[q] = "fill" =>
                 \A x \in hand'[q].of \cap Requests : Settled(x)
<1>1. ASSUME NEW o \in Files!Orders, Files!Ask(r, o) PROVE Goal
  BY <1>1 DEF Files!Ask
<1>2. CASE Files!Bind(r) \/ Files!Drop(r) \/ Files!Begin(r)
  BY <1>2 DEF Files!Bind, Files!Drop, Files!Begin
<1>3. CASE Files!Check(r)
  <2>1. disk' = disk /\ at'[r] # "fill" /\ \A q \in Requests \ {r} : at'[q] = at[q]
    BY <1>3 DEF Files!Check
  <2>2. \/ hand' = hand
        \/ /\ hand' = [hand EXCEPT ![r] = Files!With(r, disk[Files!Source(r)])]
           /\ disk[Files!Source(r)] # Absent
    BY <1>3 DEF Files!Check, Files!IsFile, Files!Exists
  <2>3. disk[Files!Source(r)] # Absent =>
           Files!With(r, disk[Files!Source(r)]).of = disk[Files!Source(r)].of \cup {r}
    BY <1>3, WithOf DEF Files!Check
  <2>4. Files!Source(r) \in Paths
    BY <1>3 DEF Files!Check
  <2> QED BY <2>1, <2>2, <2>3, <2>4
<1>4. CASE Files!Kind(r) \/ Files!Verify(r) \/ Files!Recheck(r)
  BY <1>4 DEF Files!Kind, Files!Verify, Files!Recheck, Files!Route
<1>5. CASE Files!Read(r) \/ Files!Flag(r) \/ Files!Temporary(r) \/ Files!Load(r)
  BY <1>5 DEF Files!Read, Files!Flag, Files!Temporary, Files!Load, Files!With, Files!Node, Files!Nodes, Files!Absentee
<1>6. CASE Files!Put(r) \/ Files!MakeDirectory(r) \/ Files!Trash(r)
  BY <1>6 DEF Files!Put, Files!MakeDirectory, Files!Trash, Files!Placeable, Files!Node
<1>7. CASE Files!Swap(r) \/ Files!Attempt(r)
  BY <1>7 DEF Files!Swap, Files!Attempt, Files!Movable, Files!Placeable, Files!Moved
<1>8. CASE Files!Into(r)
  <2> DEFINE n == disk[Files!Target(r)]
             m == disk[Files!Source(r)]
             new == [n EXCEPT !.of = @ \cup m.of, !.torn = @ \cup m.torn]
  <2>1. CASE ~(Files!IsFolder(Files!Target(r)) /\ Files!Exists(Files!Source(r)))
    BY <1>8, <2>1 DEF Files!Into
  <2>2. CASE Files!IsFolder(Files!Target(r)) /\ Files!Exists(Files!Source(r))
    <3>1. n \in Files!Nodes /\ m \in Files!Nodes /\ Files!Source(r) # Files!Target(r)
      BY <1>8, <2>2 DEF Files!Into, Files!Exists, Files!IsFolder, Files!Absentee, Reached, Files!Op
    <3>2. new.of = n.of \cup m.of
      BY <3>1 DEF Files!Nodes
    <3>3. \A x \in new.of \cap Requests : Settled(x)
      <4>1. \A x \in (n.of \cup m.of) \cap Requests : Settled(x)
        BY <1>8, <2>2 DEF Files!Exists, Files!IsFolder, Files!Into
      <4> HIDE DEF n, m
      <4> QED BY <3>2, <4>1
    <3>4. \/ disk' = disk
          \/ disk' = [disk EXCEPT ![Files!Source(r)] = Absent, ![Files!Target(r)] = new]
      BY <1>8, <3>1, Zenon DEF Files!Into
    <3>5. hand' = hand /\ at'[r] # "fill" /\ \A q \in Requests \ {r} : at'[q] = at[q]
      BY <1>8 DEF Files!Into
    <3> QED BY <3>3, <3>4, <3>5, ZenonT(30)
  <2> QED BY <2>1, <2>2
<1>9. CASE Files!Open(r) \/ Files!Fallback(r)
  <2>1. CASE ~(Files!Opens(r) /\ Files!Exists(Files!Source(r)))
    BY <1>9, <2>1 DEF Files!Open, Files!Fallback
  <2>2. CASE Files!Opens(r) /\ Files!Exists(Files!Source(r))
    <3> DEFINE n == IF Files!IsFolder(Files!Target(r)) THEN disk[Files!Target(r)]
                    ELSE Files!Node(disk[Files!Source(r)].kind, {})
               new == [n EXCEPT !.torn = @ \cup {r}]
    <3>1. disk[Files!Source(r)] \in Files!Nodes
      BY <1>9, <2>2 DEF Files!Open, Files!Fallback, Files!Exists, Files!Absentee
    <3>2. n \in Files!Nodes
      BY <1>9, <3>1, NodesAreNodes
         DEF Files!Open, Files!Fallback, Files!IsFolder, Files!Exists, Files!Absentee
    <3>3. new.of = n.of
      BY <3>2 DEF Files!Nodes
    <3>4. \A x \in new.of \cap Requests : Settled(x)
      <4>1. \A x \in n.of \cap Requests : Settled(x)
        BY <1>9 DEF Files!Open, Files!Fallback, Files!IsFolder, Files!Exists, Files!Node
      <4> HIDE DEF n
      <4> QED BY <3>3, <4>1
    <3>5. /\ disk' = [disk EXCEPT ![Files!Target(r)] = new]
          /\ hand' = [hand EXCEPT ![r] = disk[Files!Source(r)]]
          /\ at' = [at EXCEPT ![r] = "fill"]
      BY <2>2 DEF Files!Opens
    <3>6. \A x \in disk[Files!Source(r)].of \cap Requests : Settled(x)
      BY <1>9, <2>2 DEF Files!Exists, Files!Open, Files!Fallback
    <3> QED BY <1>9, <3>4, <3>5, <3>6 DEF Files!Open, Files!Fallback
  <2> QED BY <2>1, <2>2
<1>10. CASE Files!Fill(r)
  <2> DEFINE n == disk[Files!Target(r)]
             new == [n EXCEPT !.of = @ \cup hand[r].of, !.torn = (@ \ {r}) \cup hand[r].torn]
  <2>1. n \in Files!Nodes /\ n # Absent /\ hand[r] # Absent /\ Files!Target(r) \in Paths
    BY <1>10 DEF Files!Fill, Files!Absentee, Filling
  <2>2. new.of = n.of \cup hand[r].of
    BY <2>1 DEF Files!Nodes
  <2>3. \A x \in new.of \cap Requests : Settled(x)
    <3>1. \A x \in (n.of \cup hand[r].of) \cap Requests : Settled(x)
      BY <1>10, <2>1 DEF Files!Fill
    <3> HIDE DEF n
    <3> QED BY <2>2, <3>1
  <2>4. /\ disk' = [disk EXCEPT ![Files!Target(r)] = new] /\ hand' = hand
        /\ at'[r] # "fill" /\ \A q \in Requests \ {r} : at'[q] = at[q]
    BY <1>10 DEF Files!Fill
  <2> QED BY <2>3, <2>4
<1>11. CASE Files!Unlink(r)
  <2> DEFINE n == disk[Files!Source(r)]
             new == [n EXCEPT !.torn = @ \cup {r}]
  <2>1. /\ hand' = hand
        /\ at'[r] # "fill" /\ \A q \in Requests \ {r} : at'[q] = at[q]
        /\ \/ disk' = disk
           \/ disk' = [disk EXCEPT ![Files!Source(r)] = Absent]
           \/ disk' = [disk EXCEPT ![Files!Source(r)] = new] /\ n # Absent
    BY <1>11 DEF Files!Unlink, Files!IsFolder, Files!Exists
  <2>2. n # Absent => \A x \in new.of \cap Requests : Settled(x)
    <3> SUFFICES ASSUME n # Absent PROVE \A x \in new.of \cap Requests : Settled(x)
      OBVIOUS
    <3>1. n \in Files!Absentee /\ Files!Source(r) \in Paths
      BY <1>11 DEF Files!Unlink
    <3>2. new.of = n.of
      BY <3>1 DEF Files!Nodes, Files!Absentee
    <3> QED BY <3>1, <3>2
  <2> QED BY <2>1, <2>2
<1>12. CASE Files!Report(r) \/ Files!Fault(r)
  BY <1>12 DEF Files!Report, Files!Fault
<1> QED BY <1>1, <1>2, <1>3, <1>4, <1>5, <1>6, <1>7, <1>8, <1>9, <1>10, <1>11, <1>12 DEF Files!Step

LEMMA NextPublished ==
    ASSUME FileShape, Published, Tidy, Files!Next
    PROVE  Published' /\ Tidy'
<1>1. CASE \E r \in Requests : Files!Step(r)
  <2>1. PICK r \in Requests : Files!Step(r)
    BY <1>1
  <2>2. Tidy'
    BY <2>1, StepTidy
  <2>3. at'[r] = "report" => Settled(r)'
    BY DEF Settled
  <2>4. Published'
    BY <2>1, <2>3, StepPublished, NextSettles DEF Published
  <2> QED BY <2>2, <2>4
<1>2. CASE Files!Crash
  <2>1. \A q \in Requests : Settled(q) => Settled(q)'
    BY NextSettles
  <2>2. /\ disk' = disk /\ hand' = hand /\ temporary' = temporary /\ order' = order
        /\ \A q \in Requests :
                              /\ at'[q] \in {at[q], "over"} /\ at'[q] # "fill"
                              /\ at'[q] # "over" => at'[q] = "idle"
                              /\ at'[q] # "over" => outcome'[q] = outcome[q]
                              /\ at[q] \in {"load", "put"} => outcome'[q] = "dead"
                              /\ outcome[q] \in {"failed", "dead"} => outcome'[q] \in {"failed", "dead"}
    BY <1>2 DEF Files!Crash, Files!own, Files!bound, FileShape, Files!TypeOK, Files!Running, Files!Waiting,
                Files!Stages
  <2>3. Published'
    BY <2>1, <2>2 DEF Published
  <2>4. Tidy'
    BY <2>2 DEF Tidy, FileShape, Files!TypeOK
  <2> QED BY <2>3, <2>4
<1>3. ASSUME NEW p \in Paths,
             NEW node \in {Absent, Files!Node("file", {Other}), Files!Node("folder", {Other})},
             Files!Stranger(p, node)
      PROVE  Published' /\ Tidy'
  <2>1. /\ UNCHANGED <<order, at, hand, temporary, outcome>>
        /\ disk' = [disk EXCEPT ![p] = node]
    BY <1>3 DEF Files!Stranger, Files!own, Files!bound
  <2>2. node # Absent => node.of = {Other} /\ Other \notin Requests
    BY FileFacts DEF Files!Node
  <2>3. Tidy'
    BY <2>1 DEF Tidy, Files!Op
  <2>4. Published'
    BY <2>1, <2>2 DEF Published, Settled, FileShape, Files!TypeOK
  <2> QED BY <2>3, <2>4
<1> QED BY <1>1, <1>2, <1>3 DEF Files!Next

(* FailureIsClean, for any number of requests, paths, failed system calls  *)
(* and ends of the process.                                                *)
THEOREM PartsFailureIsClean == Spec => []FailureIsClean
<1>1. Init => (part = "files" => Published /\ Tidy)
  <2>1. Files!Init => Published /\ Tidy
    BY FileFacts DEF Files!Init, Published, Tidy, Files!Node
  <2> QED BY <2>1 DEF Init
<1>2. /\ part = "files" => FileShape /\ Purity
      /\ part = "files" => Published /\ Tidy
      /\ [Next]_vars
      => (part = "files" => Published /\ Tidy)'
  <2> SUFFICES ASSUME part = "files", FileShape, Published, Tidy, [Next]_vars
               PROVE  Published' /\ Tidy'
    BY DEF Next, vars
  <2>1. CASE Next
    BY <2>1, NextPublished DEF Next
  <2>2. CASE UNCHANGED vars
    BY <2>2 DEF vars, files, counters, Published, Tidy, Settled, Files!Op
  <2> QED BY <2>1, <2>2
<1>3. /\ part = "files" => FileShape /\ Purity
      /\ part = "files" => Published /\ Tidy
      => FailureIsClean
  <2> SUFFICES ASSUME FileShape, Published, Tidy PROVE Files!FailureIsClean
    BY DEF FailureIsClean
  <2>1. ASSUME NEW r \in Requests, temporary[r]
        PROVE  at[r] \in Files!Running \/ outcome[r] \in {"failed", "dead"}
    BY <2>1 DEF Tidy, Files!Running, Files!Waiting, Files!Stages
  <2>2. ASSUME NEW r \in Requests, outcome[r] = "failed", NEW p \in Paths, Files!Exists(p)
        PROVE  r \notin disk[p].of
    BY <2>2 DEF Tidy, Published, Settled, Files!Exists
  <2> QED BY <2>1, <2>2 DEF Files!FailureIsClean
<1> QED BY <1>1, <1>2, <1>3, FilesInvariant, PTL DEF Spec

-----------------------------------------------------------------------------
(***************************************************************************)
(* What a request that runs has met of its path: the version it checked    *)
(* against the one that was bound, and the one its text was made of.       *)
(***************************************************************************)
Checked == {"recheck", "read", "flag", "temporary", "put"}
Composed(r) ==
    \/ at[r] \in {"flag", "temporary", "put"} /\ Files!Op(r) = "append_text"
    \/ at[r] \in {"verify", "recheck", "temporary", "put"} /\ Files!Op(r) = "replace_text"

MetBy(r) ==
    /\ at[r] \in Files!Running => disk[order[r].path] \in during[r]
    /\ at[r] \in Checked /\ Files!Op(r) \in Files!Writes => pin[r] \in during[r] \cup {Absent}
    /\ at[r] \in {"idle", "validated"} => pin[r] = Absent
    /\ at[r] # "idle" /\ Files!Op(r) \notin Files!Writes => pin[r] = Absent
    /\ Composed(r) => \E v \in during[r] : hand[r] = Files!With(r, v)

Met == \A r \in Requests : MetBy(r)

(* What it has met by the next step is what it had met, and what is there. *)
LEMMA TrackMeets ==
    ASSUME FileShape, Files!Next, NEW r \in Requests, at'[r] \in Files!Running
    PROVE  /\ disk'[order[r].path] \in during'[r]
           /\ at[r] \in Files!Running => during[r] \subseteq during'[r]
           /\ order'[r] = order[r] /\ at[r] # "idle"
<1>1. order'[r] = order[r] /\ at[r] # "idle"
  BY NextKeepsOrder DEF Files!Running, Files!Waiting
<1>2. during'[r] = (IF at[r] \in Files!Running THEN during[r] ELSE {}) \cup {disk'[order[r].path]}
  BY DEF Files!Next, Files!Track
<1> QED BY <1>1, <1>2

LEMMA StepMeets ==
    ASSUME FileShape, Met, NEW r \in Requests, Files!Step(r)
    PROVE  /\ at'[r] \in Checked /\ Files!Op(r)' \in Files!Writes => pin'[r] \in during[r] \cup {Absent}
           /\ at'[r] \in {"idle", "validated"} => pin'[r] = Absent
           /\ at'[r] # "idle" /\ Files!Op(r)' \notin Files!Writes => pin'[r] = Absent
           /\ Composed(r)' => \E v \in during[r] : hand'[r] = Files!With(r, v)
           /\ at'[r] \in Checked \cup {"verify"} => at[r] \in Files!Running
           /\ \A q \in Requests \ {r} : hand'[q] = hand[q] /\ pin'[q] = pin[q] /\ order'[q] = order[q]
<1> USE OrderFields
    DEF FileShape, Files!TypeOK, Ordered, Reached, InPlace, Met, MetBy, Composed, Checked, Files!Alone, Files!own, Files!bound,
        Files!Proceeds, Files!Fails, Files!Becomes, Files!Ends, Files!Holds, Files!Op, Files!Writes,
        Files!Source, Files!Running, Files!Stages, Files!Waiting
<1> DEFINE Goal ==
           /\ at'[r] \in Checked /\ Files!Op(r)' \in Files!Writes => pin'[r] \in during[r] \cup {Absent}
           /\ at'[r] \in {"idle", "validated"} => pin'[r] = Absent
           /\ at'[r] # "idle" /\ Files!Op(r)' \notin Files!Writes => pin'[r] = Absent
           /\ Composed(r)' => \E v \in during[r] : hand'[r] = Files!With(r, v)
           /\ at'[r] \in Checked \cup {"verify"} => at[r] \in Files!Running
           /\ \A q \in Requests \ {r} : hand'[q] = hand[q] /\ pin'[q] = pin[q] /\ order'[q] = order[q]
<1>1. ASSUME NEW o \in Files!Orders, Files!Ask(r, o) PROVE Goal
  BY <1>1 DEF Files!Ask
<1>2. CASE Files!Bind(r) \/ Files!Drop(r) \/ Files!Begin(r)
  BY <1>2 DEF Files!Bind, Files!Drop, Files!Begin
<1>3. CASE Files!Check(r)
  BY <1>3 DEF Files!Check
<1>4. CASE Files!Kind(r) \/ Files!Verify(r) \/ Files!Recheck(r)
  BY <1>4 DEF Files!Kind, Files!Verify, Files!Recheck, Files!Route, Files!Unchanged, Files!Route
<1>5. CASE Files!Read(r) \/ Files!Flag(r) \/ Files!Temporary(r) \/ Files!Load(r)
  BY <1>5 DEF Files!Read, Files!Flag, Files!Temporary, Files!Load
<1>6. CASE Files!Put(r) \/ Files!MakeDirectory(r) \/ Files!Trash(r)
  BY <1>6 DEF Files!Put, Files!MakeDirectory, Files!Trash, Files!Placeable
<1>7. CASE Files!Swap(r) \/ Files!Attempt(r)
  BY <1>7 DEF Files!Swap, Files!Attempt, Files!Movable, Files!Placeable, Files!Moved
<1>8. CASE Files!Into(r)
  BY <1>8 DEF Files!Into
<1>9. CASE Files!Open(r) \/ Files!Fallback(r)
  BY <1>9 DEF Files!Open, Files!Fallback, Files!Opens
<1>10. CASE Files!Fill(r)
  BY <1>10 DEF Files!Fill
<1>11. CASE Files!Unlink(r)
  BY <1>11 DEF Files!Unlink
<1>12. CASE Files!Report(r) \/ Files!Fault(r)
  BY <1>12 DEF Files!Report, Files!Fault
<1> QED BY <1>1, <1>2, <1>3, <1>4, <1>5, <1>6, <1>7, <1>8, <1>9, <1>10, <1>11, <1>12 DEF Files!Step

LEMMA NextMet ==
    ASSUME FileShape, Met, Files!Next
    PROVE  Met'
<1> SUFFICES ASSUME NEW q \in Requests PROVE MetBy(q)'
  BY DEF Met
<1>1. (at[q] \in Files!Running => disk[order[q].path] \in during[q])'
  BY TrackMeets
<1>2. ASSUME at'[q] = at[q], hand'[q] = hand[q], pin'[q] = pin[q], order'[q] = order[q]
      PROVE  MetBy(q)'
  <2>1. at'[q] \in Files!Running => during[q] \subseteq during'[q]
    BY <1>2, TrackMeets
  <2>2. Checked \subseteq Files!Running /\ "verify" \in Files!Running
    BY DEF Checked, Files!Running, Files!Stages, Files!Waiting
  <2>3. (at[q] \in Checked /\ Files!Op(q) \in Files!Writes => pin[q] \in during[q] \cup {Absent})'
    BY <1>2, <2>1, <2>2 DEF Met, MetBy, Files!Op
  <2>4. Composed(q)' => \E v \in during'[q] : hand'[q] = Files!With(q, v)
    BY <1>2, <2>1, <2>2 DEF Met, MetBy, Composed, Checked, Files!Op
  <2> QED BY <1>1, <1>2, <2>3, <2>4 DEF Met, MetBy, Files!Op
<1>3. CASE Files!Step(q)
  <2>1. at'[q] \in Files!Running /\ at[q] \in Files!Running => during[q] \subseteq during'[q]
    BY TrackMeets
  <2>2. Checked \subseteq Files!Running /\ "verify" \in Files!Running
    BY DEF Checked, Files!Running, Files!Stages, Files!Waiting
  <2>3. (at[q] \in Checked /\ Files!Op(q) \in Files!Writes => pin[q] \in during[q] \cup {Absent})'
    BY <1>3, <2>1, <2>2, StepMeets
  <2>4. Composed(q)' => \E v \in during'[q] : hand'[q] = Files!With(q, v)
    <3>1. Composed(q)' => at'[q] \in Checked \cup {"verify"}
      BY DEF Composed, Checked
    <3> QED BY <1>3, <2>1, <2>2, <3>1, StepMeets
  <2> QED BY <1>1, <1>3, <2>3, <2>4, StepMeets DEF MetBy
<1>4. ASSUME NEW r \in Requests \ {q}, Files!Step(r) PROVE MetBy(q)'
  BY <1>2, <1>4, StepMeets, StepKeepsOrder
<1>5. CASE Files!Crash
  <2>1. /\ hand' = hand /\ pin' = pin /\ order' = order
        /\ at'[q] = at[q] \/ (at'[q] = "over" /\ at[q] # "idle")
    BY <1>5 DEF Files!Crash, Files!own, Files!bound, FileShape, Files!TypeOK, Files!Running, Files!Waiting
  <2>2. CASE at'[q] = "over" /\ at[q] # "idle"
    BY <1>1, <2>1, <2>2 DEF Met, MetBy, Composed, Checked, Files!Op
  <2> QED BY <1>2, <2>1, <2>2
<1>6. CASE \E p \in Paths, node \in {Absent, Files!Node("file", {Other}),
                                     Files!Node("folder", {Other})} : Files!Stranger(p, node)
  BY <1>2, <1>6 DEF Files!Stranger, Files!own, Files!bound
<1> QED BY <1>3, <1>4, <1>5, <1>6 DEF Files!Next

(* What a text puts in the place of its file is what it composed.          *)
LEMMA StepPuts ==
    ASSUME FileShape, NEW r \in Requests, Files!Step(r), Files!Puts(r),
           Files!Op(r) \in {"append_text", "replace_text"}
    PROVE  disk'[Files!Target(r)] = hand[r]
<1> USE OrderFields
    DEF FileShape, Files!TypeOK, Ordered, Files!Puts, Files!Fails, Files!Ends, Files!Becomes, Files!Target
<1> DEFINE Goal == disk'[Files!Target(r)] = hand[r]
<1>1. ASSUME NEW o \in Files!Orders, Files!Ask(r, o) PROVE Goal
  BY <1>1 DEF Files!Ask
<1>2. CASE Files!Bind(r) \/ Files!Drop(r) \/ Files!Begin(r)
  BY <1>2 DEF Files!Bind, Files!Drop, Files!Begin
<1>3. CASE Files!Check(r)
  BY <1>3 DEF Files!Check
<1>4. CASE Files!Kind(r) \/ Files!Verify(r) \/ Files!Recheck(r)
  BY <1>4 DEF Files!Kind, Files!Verify, Files!Recheck, Files!Route
<1>5. CASE Files!Read(r) \/ Files!Flag(r) \/ Files!Temporary(r) \/ Files!Load(r)
  BY <1>5 DEF Files!Read, Files!Flag, Files!Temporary, Files!Load
<1>6. CASE Files!Put(r) \/ Files!MakeDirectory(r) \/ Files!Trash(r)
  BY <1>6 DEF Files!Put, Files!MakeDirectory, Files!Trash, Files!Placeable
<1>7. CASE Files!Swap(r) \/ Files!Attempt(r)
  BY <1>7 DEF Files!Swap, Files!Attempt, Files!Movable, Files!Placeable, Files!Moved
<1>8. CASE Files!Into(r)
  BY <1>8 DEF Files!Into
<1>9. CASE Files!Open(r) \/ Files!Fallback(r)
  BY <1>9 DEF Files!Open, Files!Fallback, Files!Opens
<1>10. CASE Files!Fill(r)
  BY <1>10 DEF Files!Fill
<1>11. CASE Files!Unlink(r)
  BY <1>11 DEF Files!Unlink
<1>12. CASE Files!Report(r) \/ Files!Fault(r)
  BY <1>12 DEF Files!Report, Files!Fault, Files!Running, Files!Waiting
<1> QED BY <1>1, <1>2, <1>3, <1>4, <1>5, <1>6, <1>7, <1>8, <1>9, <1>10, <1>11, <1>12 DEF Files!Step

LEMMA PutsWhatItMet ==
    ASSUME FileShape, Met, Files!Next
    PROVE  Files!Seen
<1> SUFFICES ASSUME NEW r \in Requests, Files!Puts(r)
             PROVE  /\ pin[r] # Absent => pin[r] \in during[r]
                    /\ Files!Op(r) \in {"append_text", "replace_text"} =>
                          \A x \in Files!Pieces :
                              (\A v \in during[r] : v # Absent /\ x \in v.of)
                              => x \in disk'[Files!Target(r)].of
  BY DEF Files!Seen
<1>1. Files!Step(r)
  <2>1. ASSUME NEW q \in Requests \ {r}, Files!Step(q) PROVE FALSE
    BY <2>1, StepKeepsOrder DEF Files!Puts
  <2>2. CASE Files!Crash
    BY <2>2 DEF Files!Crash, Files!Puts, FileShape, Files!TypeOK, Files!Running, Files!Waiting, Files!Stages
  <2>3. CASE \E p \in Paths, node \in {Absent, Files!Node("file", {Other}),
                                     Files!Node("folder", {Other})} : Files!Stranger(p, node)
    BY <2>3 DEF Files!Stranger, Files!Puts
  <2> QED BY <2>1, <2>2, <2>3 DEF Files!Next
<1>2. pin[r] # Absent => pin[r] \in during[r]
  BY DEF Met, MetBy, Checked, Files!Puts
<1>3. ASSUME Files!Op(r) \in {"append_text", "replace_text"}, NEW x \in Files!Pieces,
             \A v \in during[r] : v # Absent /\ x \in v.of
      PROVE  x \in disk'[Files!Target(r)].of
  <2>1. PICK v \in during[r] : hand[r] = Files!With(r, v)
    BY <1>3 DEF Met, MetBy, Composed, Files!Puts
  <2>2. v \in Files!Absentee
    BY DEF FileShape, Files!TypeOK
  <2>3. x \in Files!With(r, v).of
    BY <1>3, <2>2, WithOf
  <2> QED BY <1>1, <1>3, <2>1, <2>3, StepPuts
<1> QED BY <1>2, <1>3

(* ChangesAreSeen, for any number of requests that add to a file or replace*)
(* it at the same time, and of changes by other programs.                  *)
THEOREM PartsSeeChanges == Spec => ChangesAreSeen
<1>1. Init => (part = "files" => Met)
  <2>1. Files!Init => Met
    BY DEF Files!Init, Met, MetBy, Composed, Checked, Files!Running, Files!Waiting
  <2> QED BY <2>1 DEF Init
<1>2. /\ part = "files" => FileShape /\ Purity
      /\ part = "files" => Met
      /\ [Next]_vars
      => (part = "files" => Met)'
  <2> SUFFICES ASSUME part = "files", FileShape, Met, [Next]_vars PROVE Met'
    BY DEF Next, vars
  <2>1. CASE Next
    BY <2>1, NextMet DEF Next
  <2>2. CASE UNCHANGED vars
    BY <2>2 DEF vars, files, Met, MetBy, Composed, Files!Op
  <2> QED BY <2>1, <2>2
<1>3. /\ part = "files" => FileShape /\ Purity
      /\ part = "files" => Met
      /\ [Next]_vars
      => [part = "files" => Files!Seen]_vars
  BY PutsWhatItMet DEF Next
<1> QED BY <1>1, <1>2, <1>3, FilesInvariant, PTL DEF Spec, ChangesAreSeen

(***************************************************************************)
(* Pausing a task of Codex: what is listed, and what a page leaves out.    *)
(***************************************************************************)

(* Sets are counted alike in the instance and here.                        *)
LEMMA SameCounting ==
    /\ \A S : Codex!IsFiniteSet(S) <=> IsFiniteSet(S)
    /\ \A S : Codex!Cardinality(S) = Cardinality(S)
BY Zenon DEF Codex!IsFiniteSet, IsFiniteSet, Codex!Cardinality, Cardinality

(* Every nonempty set of naturals has a least element.                     *)
LEMMA LeastOf ==
    ASSUME NEW S \in SUBSET Nat, S # {}
    PROVE  \E n \in S : \A m \in S : n <= m
<1> DEFINE R == {ss \in Nat \X Nat : ss[1] < ss[2]}
<1>1. IsWellFoundedOn(R, Nat)
  BY NatLessThanWellFounded DEF OpToRel
<1>2. PICK n \in S : \A m \in S : ~(<<m, n>> \in R)
  BY <1>1, WFMin, Zenon
<1>3. ASSUME NEW m \in S PROVE n <= m
  <2>1. m \in Nat /\ n \in Nat /\ <<m, n>> \in Nat \X Nat
    OBVIOUS
  <2>2. ~(m < n)
    <3> SUFFICES ASSUME m < n PROVE <<m, n>> \in R
      BY <1>2
    <3> QED BY <2>1
  <2> QED BY <2>1, <2>2
<1> QED BY <1>3

(* The last moments of the tasks: no two have the same.                    *)
Touched ==
    /\ changes \in Nat /\ stamp \in [Threads -> Nat]
    /\ \A t \in Threads : stamp[t] <= Cardinality(Threads) + changes
    /\ \A t, u \in Threads : stamp[t] = stamp[u] => t = u

LEMMA ThreadsAre == IsFiniteSet(Threads) /\ Cardinality(Threads) \in Nat
BY PartsAssumption, SameCounting, FS_CardinalityType DEF Codex!BridgeAssumption

(* At first, by numbering them.                                            *)
LEMMA InitTouched == Codex!Init => Touched
<1> DEFINE n == Cardinality(Threads)
           Apart(s) == \A t, u \in Threads : s[t] = s[u] => t = u
<1>1. n \in Nat /\ ExistsBijection(Threads, 1 .. n)
  BY ThreadsAre, FS_CardinalityType, Fun_ExistsBijSymmetric
<1>2. \E s \in [Threads -> 1 .. n] : Apart(s)
  <2>1. PICK s \in Bijection(Threads, 1 .. n) : TRUE
    BY <1>1 DEF ExistsBijection
  <2> QED BY <2>1 DEF Bijection, Injection, IsInjective
<1>3. ASSUME Codex!Init PROVE stamp \in [Threads -> 1 .. n] /\ Apart(stamp)
  <2>1. stamp = CHOOSE s \in [Threads -> 1 .. n] : Apart(s)
    BY <1>3, SameCounting DEF Codex!Init
  <2> QED BY <1>2, <2>1, Zenon
<1>4. ASSUME Codex!Init PROVE changes = 0
  BY <1>4 DEF Codex!Init
<1> QED BY <1>1, <1>3, <1>4 DEF Touched

(* A set of tasks that is not empty has one that was touched first, and    *)
(* one that was touched last.                                              *)
LEMMA First ==
    ASSUME Touched, NEW ts \in SUBSET Threads, ts # {}
    PROVE  \E t \in ts : \A u \in ts : stamp[t] <= stamp[u]
<1> DEFINE S == {stamp[t] : t \in ts}
<1>1. S \in SUBSET Nat /\ S # {}
  BY DEF Touched
<1>2. PICK k \in S : \A m \in S : k <= m
  <2> HIDE DEF S
  <2> QED BY <1>1, LeastOf
<1> QED BY <1>2

LEMMA Latest ==
    ASSUME Touched, NEW ts \in SUBSET Threads, ts # {}
    PROVE  \E t \in ts : \A u \in ts : stamp[u] <= stamp[t]
<1> DEFINE b == Cardinality(Threads) + changes
           S == {b - stamp[t] : t \in ts}
<1>1. b \in Nat
  BY ThreadsAre DEF Touched
<1>2. \A t \in ts : stamp[t] \in Nat /\ stamp[t] <= b
  BY DEF Touched
<1> HIDE DEF b
<1>3. S \in SUBSET Nat /\ S # {}
  BY <1>1, <1>2
<1>4. PICK k \in S : \A m \in S : k <= m
  <2> HIDE DEF S
  <2> QED BY <1>3, LeastOf
<1>5. PICK t \in ts : k = b - stamp[t]
  BY <1>4
<1>6. ASSUME NEW u \in ts PROVE stamp[u] <= stamp[t]
  <2>1. b - stamp[t] <= b - stamp[u]
    BY <1>4, <1>5
  <2> QED BY <1>1, <1>2, <2>1
<1> QED BY <1>6

-----------------------------------------------------------------------------
(* What app-server answers: no more tasks than a page has, and those that  *)
(* are left out are older than the last one of it.                         *)
LEMMA PageFinite ==
    /\ Codex!Older \subseteq Threads
    /\ \A t : Codex!Newer(t) \subseteq Codex!Older
    /\ \A n : Codex!Newest(n) \subseteq Codex!Older
    /\ \A S \in SUBSET Threads : IsFiniteSet(S) /\ Cardinality(S) \in Nat
<1>1. ASSUME NEW S \in SUBSET Threads PROVE IsFiniteSet(S) /\ Cardinality(S) \in Nat
  BY ThreadsAre, FS_Subset, FS_CardinalityType
<1> QED BY <1>1 DEF Codex!Older, Codex!Newer, Codex!Newest

LEMMA PageSize ==
    ASSUME Touched, NEW n \in Nat
    PROVE  Cardinality(Codex!Newest(n)) <= n
<1> DEFINE ts == Codex!Newest(n)
<1>1. CASE ts = {}
  BY <1>1, FS_EmptySet
<1>2. CASE ts # {}
  <2>1. PICK u \in ts : \A t \in ts : stamp[u] <= stamp[t]
    BY <1>2, First, PageFinite
  <2>2. ts \ {u} \subseteq Codex!Newer(u)
    <3> SUFFICES ASSUME NEW t \in ts, t # u PROVE t \in Codex!Newer(u)
      OBVIOUS
    <3>1. t \in Codex!Older /\ t \in Threads /\ u \in Threads
      BY PageFinite
    <3>2. stamp[t] # stamp[u] /\ stamp[u] <= stamp[t] /\ stamp[t] \in Nat /\ stamp[u] \in Nat
      BY <2>1, <3>1 DEF Touched
    <3> QED BY <3>1, <3>2 DEF Codex!Newer
  <2>3. Cardinality(Codex!Newer(u)) < n
    BY SameCounting DEF Codex!Newest
  <2>4. Cardinality(ts \ {u}) <= Cardinality(Codex!Newer(u)) /\ Cardinality(Codex!Newer(u)) \in Nat
    BY <2>2, PageFinite, FS_Subset
  <2>5. Cardinality(ts \ {u}) = Cardinality(ts) - 1 /\ Cardinality(ts) \in Nat
    <3>1. IsFiniteSet(ts) /\ Cardinality(ts) \in Nat
      BY PageFinite
    <3> HIDE DEF ts
    <3> QED BY <3>1, FS_RemoveElement
  <2> QED BY <2>3, <2>4, <2>5
<1> QED BY <1>1, <1>2

LEMMA PageFilled ==
    ASSUME Touched, NEW n \in Nat \ {0}, Codex!Older # {}
    PROVE  Codex!Newest(n) # {}
<1>1. PICK t \in Codex!Older : \A u \in Codex!Older : stamp[u] <= stamp[t]
  BY Latest, PageFinite
<1>2. Codex!Newer(t) = {}
  <2> SUFFICES ASSUME NEW u \in Codex!Older, stamp[u] > stamp[t] PROVE FALSE
    BY DEF Codex!Newer
  <2> QED BY <1>1, PageFinite DEF Touched
<1>3. Cardinality(Codex!Newer(t)) < n
  BY <1>2, FS_EmptySet
<1> QED BY <1>3, SameCounting DEF Codex!Newest

LEMMA PageRest ==
    ASSUME Touched, NEW n \in Nat \ {0}, NEW t \in Codex!Older, t \notin Codex!Newest(n)
    PROVE  /\ Codex!Last(Codex!Newest(n)) \in Nat
           /\ stamp[t] < Codex!Last(Codex!Newest(n))
<1> DEFINE ts == Codex!Newest(n)
           S == {stamp[u] : u \in ts}
<1>1. ts \in SUBSET Threads /\ ts # {}
  BY PageFinite, PageFilled
<1>2. \E k \in S : \A u \in ts : k <= stamp[u]
  <2>1. PICK u \in ts : \A v \in ts : stamp[u] <= stamp[v]
    BY <1>1, First
  <2> QED BY <2>1
<1>3. Codex!Last(ts) \in S
  <2>1. Codex!Last(ts) = CHOOSE k \in S : \A u \in ts : k <= stamp[u]
    BY DEF Codex!Last
  <2> HIDE DEF ts, S
  <2> QED BY <1>2, <2>1, Zenon
<1>4. PICK u \in ts : Codex!Last(ts) = stamp[u]
  BY <1>3
<1>5. t \in Threads /\ u \in Threads /\ stamp[t] \in Nat /\ stamp[u] \in Nat
  BY <1>1, PageFinite DEF Touched
<1>6. stamp[t] < stamp[u]
  <2> SUFFICES ASSUME stamp[u] <= stamp[t] PROVE FALSE
    BY <1>5
  <2>1. Codex!Newer(t) \subseteq Codex!Newer(u)
    <3> SUFFICES ASSUME NEW v \in Codex!Older, stamp[v] > stamp[t] PROVE stamp[v] > stamp[u]
      BY DEF Codex!Newer
    <3>1. stamp[v] \in Nat
      BY PageFinite DEF Touched
    <3> QED BY <1>5, <3>1
  <2>2. Cardinality(Codex!Newer(t)) <= Cardinality(Codex!Newer(u))
    BY <2>1, PageFinite, FS_Subset
  <2>3. Cardinality(Codex!Newer(u)) < n
    BY SameCounting DEF Codex!Newest
  <2>4. Cardinality(Codex!Newer(t)) \in Nat /\ Cardinality(Codex!Newer(u)) \in Nat
    BY PageFinite
  <2>5. t \in Codex!Newest(n)
    BY <2>2, <2>3, <2>4, SameCounting DEF Codex!Newest
  <2> QED BY <2>5
<1> QED BY <1>4, <1>5, <1>6
-----------------------------------------------------------------------------
(* The inductive invariant of an operation: while tasks are listed, each   *)
(* task that nobody touched since is listed under its title or will be in  *)
(* the next page, and so is what an answer of this request tells; once one *)
(* is resolved, the title was of no other.                                 *)
Fields == {"does", "asks", "id", "served", "listed", "cursor", "thread", "turn"}
Listable == Threads \X Codex!Titles
Answers ==
    [tasks : SUBSET Listable, next : Nat \cup {None}] \cup {None} \cup SUBSET Nat
Messages ==
    [kind : {"result", "error", "request", "notification"}, id : Nat, value : Answers]

OperationTypes ==
    /\ title \in [Threads -> Codex!Titles] /\ turns \in [Threads -> SUBSET Nat]
    /\ quiet \subseteq Threads
    /\ DOMAIN op = Fields
    /\ op.asks \in {"nothing", "initialize", "list", "read", "interrupt", "uri"}
    /\ op.id \in Nat /\ op.listed \subseteq Listable
    /\ op.cursor \in Nat \cup {None} /\ op.thread \in Threads \cup {None}
    /\ inbox \in Seq(Messages)

Known(ts) == \A x \in ts : x[1] \in quiet => x[2] = title[x[1]]

Covered ==
    \A t \in quiet : title[t] # Nameless => <<t, title[t]>> \in op.listed \/ t \in Codex!Older

Sure ==
    \A t \in quiet \ {op.thread} :
        title[t] = Query => Cardinality(op.listed) = Tasks /\ \A x \in op.listed : x[1] # t

Progress ==
    /\ op.asks \in {"nothing", "initialize"} =>
          op.listed = {} /\ op.cursor = None /\ op.thread = None
    /\ op.asks = "list" =>
          /\ op.thread = None /\ Cardinality(op.listed) < Tasks
          /\ Known(op.listed) /\ Covered
    /\ op.asks \in {"read", "interrupt", "uri"} =>
          op.thread \in Threads /\ Known(op.listed) /\ Sure

Fits(v) ==
    /\ v.tasks \subseteq Listable /\ v.next \in Nat \cup {None}
    /\ Cardinality(v.tasks) <= Codex!Room
    /\ Known(v.tasks)
    /\ \A t \in quiet \cap Codex!Older :
          <<t, title[t]>> \in v.tasks \/ (v.next # None /\ stamp[t] < v.next)

Told(m) ==
    /\ m.id <= op.id
    /\ m.kind = "result" /\ m.id = op.id /\ op.asks = "list" => Fits(m.value)

Heard == \A i \in 1 .. Len(inbox) : Told(inbox[i])

Operation == Touched /\ OperationTypes /\ Progress /\ Heard

LEMMA OperationSure == Operation => Codex!NoGuess
<1> SUFFICES ASSUME Operation, op.thread # None PROVE Sure
  BY SameCounting DEF Codex!NoGuess, Sure
<1> QED BY DEF Operation, OperationTypes, Progress

LEMMA BridgeConstants ==
    /\ Page \in Nat \ {0} /\ Tasks \in Nat \ {0}
    /\ None \notin Threads /\ None \notin Nat
    /\ Query \in Codex!Titles /\ Query # Nameless /\ Query # Wider
BY PartsAssumption DEF Codex!BridgeAssumption, Codex!Titles

LEMMA ListableFinite ==
    \A S \in SUBSET Listable : IsFiniteSet(S) /\ Cardinality(S) \in Nat
<1>1. IsFiniteSet(Codex!Titles)
  <2>1. IsFiniteSet({Query} \cup {Wider} \cup {Another} \cup {Nameless})
    BY FS_Singleton, FS_Union
  <2>2. Codex!Titles = {Query} \cup {Wider} \cup {Another} \cup {Nameless}
    BY DEF Codex!Titles
  <2> QED BY <2>1, <2>2
<1>2. IsFiniteSet(Listable)
  BY <1>1, ThreadsAre, FS_Product DEF Listable
<1> QED BY <1>2, FS_Subset, FS_CardinalityType

LEMMA IdleFields ==
    /\ DOMAIN Codex!Idle = Fields
    /\ Codex!Idle.asks = "nothing" /\ Codex!Idle.id = 0 /\ Codex!Idle.listed = {}
    /\ Codex!Idle.cursor = None /\ Codex!Idle.thread = None
BY DEF Codex!Idle, Fields

LEMMA AsksFields ==
    ASSUME NEW o, DOMAIN o = Fields, NEW method
    PROVE  /\ DOMAIN Codex!Asks(o, method) = Fields
           /\ Codex!Asks(o, method).asks = method /\ Codex!Asks(o, method).id = o.id + 1
           /\ Codex!Asks(o, method).listed = o.listed
           /\ Codex!Asks(o, method).cursor = o.cursor
           /\ Codex!Asks(o, method).thread = o.thread
BY DEF Codex!Asks, Fields

LEMMA InitOperation == Codex!Init => Operation
<1> SUFFICES ASSUME Codex!Init PROVE Operation
  OBVIOUS
<1>1. /\ title \in [Threads -> Codex!Titles] /\ turns \in [Threads -> {{}, {0}}]
      /\ op = Codex!Idle /\ inbox = <<>> /\ quiet = {}
  BY DEF Codex!Init
<1>2. OperationTypes
  BY <1>1, IdleFields, BridgeConstants DEF OperationTypes
<1>3. Progress
  BY <1>1, IdleFields DEF Progress
<1>4. Heard
  BY <1>1 DEF Heard
<1> QED BY <1>2, <1>3, <1>4, InitTouched DEF Operation

(* What is left of the messages is of earlier requests, once the next one  *)
(* is made.                                                                *)
LEMMA NextRequest ==
    ASSUME Operation, op'.id \in Nat,
           inbox' \in {<<>>, inbox} \/ (inbox # <<>> /\ inbox' = Tail(inbox)),
           inbox' # <<>> => op'.id > op.id
    PROVE  inbox' \in Seq(Messages) /\ Heard'
<1>1. inbox \in Seq(Messages) /\ op.id \in Nat
  BY DEF Operation, OperationTypes
<1>2. /\ inbox' \in Seq(Messages)
      /\ \A i \in 1 .. Len(inbox') : \E j \in 1 .. Len(inbox) : inbox'[i] = inbox[j]
  <2>1. CASE inbox' = <<>>
    BY <2>1
  <2>2. CASE inbox' = inbox
    BY <1>1, <2>2
  <2>3. CASE inbox' = Tail(inbox) /\ inbox # <<>>
    <3>1. PICK ms \in Seq(Messages) : ms = inbox /\ ms # <<>>
      BY <1>1, <2>3
    <3>2. PICK rest \in Seq(Messages) :
              rest = Tail(ms) /\ Len(rest) = Len(ms) - 1
              /\ \A i \in 1 .. Len(rest) : rest[i] = ms[i + 1]
      BY <3>1, HeadTailProperties
    <3>3. ASSUME NEW i \in 1 .. Len(rest)
          PROVE  \E j \in 1 .. Len(ms) : rest[i] = ms[j]
      <4>1. i + 1 \in 1 .. Len(ms)
        BY <3>2
      <4> QED BY <3>2, <4>1
    <3>4. inbox' = rest
      <4>1. inbox' = Tail(inbox) /\ inbox = ms
        BY <2>3, <3>1
      <4>2. rest = Tail(ms)
        BY <3>2
      <4> QED BY <4>1, <4>2, Zenon
    <3> QED BY <3>1, <3>3, <3>4
  <2> QED BY <2>1, <2>2, <2>3
<1>3. ASSUME NEW i \in 1 .. Len(inbox') PROVE Told(inbox[i])'
  <2>1. PICK j \in 1 .. Len(inbox) : inbox'[i] = inbox[j]
    BY <1>2
  <2>2. inbox[j].id <= op.id /\ inbox[j].id \in Nat
    <3>1. inbox[j] \in Messages
      BY <1>1
    <3>2. Told(inbox[j])
      BY DEF Operation, Heard
    <3> QED BY <3>1, <3>2 DEF Told, Messages
  <2>3. inbox' # <<>>
    BY <1>3
  <2>4. inbox'[i].id < op'.id
    BY <1>1, <2>1, <2>2, <2>3
  <2> QED BY <1>1, <2>1, <2>2, <2>4 DEF Told
<1> QED BY <1>2, <1>3 DEF Heard

LEMMA OneAlone ==
    ASSUME NEW S \in SUBSET Listable, Cardinality(S) = 1
    PROVE  /\ (CHOOSE x \in S : TRUE) \in S
           /\ \A x \in S : x = CHOOSE y \in S : TRUE
<1>1. PICK e : S = {e}
  BY ListableFinite, FS_Singleton
<1>2. (CHOOSE x \in S : TRUE) \in S
  BY <1>1, Zenon
<1> QED BY <1>1, <1>2

(* What a title resolves to is the only one that is listed under it.       *)
LEMMA ResolvedAlone ==
    ASSUME NEW ts \in SUBSET Listable, Codex!Resolved(ts) # None
    PROVE  /\ Codex!Resolved(ts) \in Threads
           /\ \A x \in ts : x[2] = Query => x[1] = Codex!Resolved(ts)
<1> DEFINE exact == Codex!Matches(ts, {Query})
           partial == Codex!Matches(ts, {Query, Wider})
           chosen(S) == IF Codex!Cardinality(S) = 1 THEN (CHOOSE x \in S : TRUE)[1] ELSE None
<1>1. Codex!Resolved(ts) = IF exact # {} THEN chosen(exact) ELSE chosen(partial)
  BY DEF Codex!Resolved
<1>2. exact \in SUBSET Listable /\ partial \in SUBSET Listable
  BY DEF Codex!Matches
<1>3. \A x : x \in ts /\ x[2] = Query => x \in exact
  BY DEF Codex!Matches
<1> HIDE DEF exact, partial
<1>4. \A x \in Listable : x[1] \in Threads
  BY DEF Listable
<1>5. CASE exact # {}
  <2>1. Cardinality(exact) = 1 /\ Codex!Resolved(ts) = (CHOOSE x \in exact : TRUE)[1]
    BY <1>1, <1>5, SameCounting
  <2>2. /\ (CHOOSE x \in exact : TRUE) \in exact
        /\ \A x \in exact : x = CHOOSE y \in exact : TRUE
    BY <1>2, <2>1, OneAlone
  <2> HIDE DEF chosen
  <2>3. Codex!Resolved(ts) \in Threads
    BY <1>2, <1>4, <2>1, <2>2
  <2>4. ASSUME NEW x \in ts, x[2] = Query PROVE x[1] = Codex!Resolved(ts)
    BY <1>3, <2>1, <2>2, <2>4
  <2> QED BY <2>3, <2>4
<1>6. CASE exact = {}
  <2>1. Cardinality(partial) = 1 /\ Codex!Resolved(ts) = (CHOOSE x \in partial : TRUE)[1]
    BY <1>1, <1>6, SameCounting
  <2>2. (CHOOSE x \in partial : TRUE) \in partial
    BY <1>2, <2>1, OneAlone
  <2> HIDE DEF chosen
  <2> QED BY <1>2, <1>3, <1>4, <1>6, <2>1, <2>2
<1> QED BY <1>5, <1>6

(* A page that fits is added to what is listed.                            *)
LEMMA PageAdded ==
    ASSUME Operation, op.asks = "list", NEW r, Fits(r), NEW more,
           more = op.listed \cup {x \in r.tasks : x[2] # Nameless}
    PROVE  /\ more \in SUBSET Listable /\ Known(more) /\ Cardinality(more) <= Tasks
           /\ \A t \in quiet : title[t] # Nameless =>
                 <<t, title[t]>> \in more \/ (r.next # None /\ stamp[t] < r.next)
<1> DEFINE named == {x \in r.tasks : x[2] # Nameless}
<1>1. /\ op.listed \in SUBSET Listable /\ Known(op.listed) /\ Covered
      /\ Cardinality(op.listed) < Tasks
  BY DEF Operation, OperationTypes, Progress
<1>2. r.tasks \in SUBSET Listable /\ Known(r.tasks) /\ Cardinality(r.tasks) <= Codex!Room
  BY DEF Fits
<1>3. more \in SUBSET Listable /\ Known(more)
  BY <1>1, <1>2 DEF Known
<1>4. Cardinality(more) <= Tasks
  <2>1. named \in SUBSET r.tasks /\ named \in SUBSET Listable
    BY <1>2
  <2> HIDE DEF named
  <2>2. IsFiniteSet(op.listed) /\ IsFiniteSet(named) /\ IsFiniteSet(r.tasks)
    BY <1>1, <1>2, <2>1, ListableFinite
  <2>3. Cardinality(named) <= Cardinality(r.tasks)
    BY <2>1, <2>2, FS_Subset
  <2>4. Cardinality(op.listed \cup named) =
           Cardinality(op.listed) + Cardinality(named) - Cardinality(op.listed \cap named)
    BY <2>2, FS_Union
  <2>5. op.listed \cap named \in SUBSET Listable
    BY <1>1
  <2>6. /\ Cardinality(op.listed) \in Nat /\ Cardinality(named) \in Nat
        /\ Cardinality(r.tasks) \in Nat /\ Cardinality(op.listed \cap named) \in Nat
    BY <1>1, <1>2, <2>1, <2>5, ListableFinite
  <2>7. Codex!Room <= Tasks - Cardinality(op.listed)
    BY <2>6, BridgeConstants, SameCounting DEF Codex!Room
  <2>8. Codex!Room \in Int /\ Tasks \in Nat
    BY <2>6, BridgeConstants, SameCounting DEF Codex!Room
  <2>9. Cardinality(more) = Cardinality(op.listed \cup named)
    BY DEF named
  <2>10. Cardinality(r.tasks) <= Codex!Room
    BY <1>2
  <2> QED BY <2>3, <2>4, <2>6, <2>7, <2>8, <2>9, <2>10
<1>5. ASSUME NEW t \in quiet, title[t] # Nameless
      PROVE  <<t, title[t]>> \in more \/ (r.next # None /\ stamp[t] < r.next)
  <2>1. <<t, title[t]>> \in op.listed \/ t \in Codex!Older
    BY <1>1, <1>5 DEF Covered
  <2>2. t \in Codex!Older => <<t, title[t]>> \in r.tasks \/ (r.next # None /\ stamp[t] < r.next)
    BY DEF Fits
  <2>3. <<t, title[t]>>[2] # Nameless
    BY <1>5
  <2> QED BY <2>1, <2>2, <2>3
<1> QED BY <1>3, <1>4, <1>5

-----------------------------------------------------------------------------
(* The steps of the bridge.                                                *)
LEMMA TouchedKept == Touched /\ UNCHANGED <<stamp, changes>> => Touched'
BY DEF Touched

LEMMA StepBegin ==
    ASSUME Operation, NEW does, Codex!Begin(does)
    PROVE  Operation'
<1> DEFINE o == [Codex!Idle EXCEPT !.does = does]
<1>1. /\ DOMAIN o = Fields /\ o.id = 0 /\ o.listed = {} /\ o.cursor = None /\ o.thread = None
  BY DEF Codex!Idle, Fields
<1>2. /\ op = Codex!Idle /\ op' = Codex!Asks(o, "initialize")
      /\ UNCHANGED <<title, stamp, turns, inbox, quiet, changes>>
  BY DEF Codex!Begin, Codex!server
<1> HIDE DEF o
<1>3. /\ DOMAIN op' = Fields /\ op'.asks = "initialize" /\ op'.id = 1
      /\ op'.listed = {} /\ op'.cursor = None /\ op'.thread = None /\ op.id = 0
  BY <1>1, <1>2, AsksFields, IdleFields
<1>4. inbox' \in Seq(Messages) /\ Heard'
  BY <1>2, <1>3, NextRequest
<1>5. OperationTypes'
  BY <1>2, <1>3, <1>4 DEF Operation, OperationTypes
<1>6. Progress'
  BY <1>3 DEF Progress
<1> QED BY <1>2, <1>4, <1>5, <1>6, TouchedKept DEF Operation

LEMMA StepEnds ==
    ASSUME Operation, op' = Codex!Idle, inbox' = <<>>,
           UNCHANGED <<title, stamp, turns, changes>>, quiet' \subseteq Threads
    PROVE  Operation'
<1>1. inbox' \in Seq(Messages) /\ Heard'
  BY IdleFields, NextRequest
<1>2. OperationTypes'
  BY <1>1, IdleFields DEF Operation, OperationTypes
<1>3. Progress'
  BY IdleFields DEF Progress
<1> QED BY <1>1, <1>2, <1>3, TouchedKept DEF Operation

(* An answer to thread/list fits at the moment it is given.                *)
LEMMA ResponseFits ==
    ASSUME Operation, op.asks = "list"
    PROVE  Fits(Codex!Response) /\ Codex!Response \in Answers
<1> DEFINE ts == Codex!Newest(Codex!Room)
           r == Codex!Response
<1>1. r = [tasks |-> {<<t, title[t]>> : t \in ts},
           next |-> IF ts = Codex!Older THEN None ELSE Codex!Last(ts)]
  BY DEF Codex!Response
<1>2. r.tasks = {<<t, title[t]>> : t \in ts}
  BY <1>1
<1>3. r.next = IF ts = Codex!Older THEN None ELSE Codex!Last(ts)
  BY <1>1
<1>4. Codex!Room \in Nat \ {0}
  <2>1. Cardinality(op.listed) \in Nat /\ Cardinality(op.listed) < Tasks
    BY ListableFinite DEF Operation, OperationTypes, Progress
  <2> QED BY <2>1, BridgeConstants, SameCounting DEF Codex!Room
<1>5. ts \in SUBSET Codex!Older /\ ts \in SUBSET Threads /\ Touched
  BY PageFinite DEF Operation
<1>6. title \in [Threads -> Codex!Titles] /\ quiet \subseteq Threads
  BY DEF Operation, OperationTypes
<1>7. Cardinality(ts) <= Codex!Room /\ IsFiniteSet(ts)
  BY <1>4, <1>5, PageSize, PageFinite
<1>8. \A t \in Codex!Older \ ts : r.next \in Nat /\ stamp[t] < r.next
  BY <1>3, <1>4, <1>5, PageRest
<1> HIDE DEF ts, r
<1>9. r.next \in Nat \cup {None}
  <2>1. CASE ts = Codex!Older
    BY <1>3, <2>1
  <2>2. CASE ts # Codex!Older
    <3>1. PICK t \in Codex!Older : t \notin ts
      BY <1>5, <2>2
    <3> QED BY <1>8, <3>1
  <2> QED BY <2>1, <2>2
<1>10. r.tasks \in SUBSET Listable
  BY <1>2, <1>5, <1>6 DEF Listable
<1>11. Cardinality(r.tasks) <= Codex!Room
  <2> DEFINE f == [t \in ts |-> <<t, title[t]>>]
  <2>1. f \in Surjection(ts, r.tasks)
    BY <1>2 DEF Surjection
  <2>2. Cardinality(r.tasks) <= Cardinality(ts)
    <3> HIDE DEF f
    <3> QED BY <1>7, <2>1, FS_Surjection
  <2>3. Cardinality(r.tasks) \in Nat /\ Cardinality(ts) \in Nat
    BY <1>5, <1>10, ListableFinite, PageFinite
  <2> QED BY <1>4, <1>7, <2>2, <2>3
<1>12. Known(r.tasks)
  BY <1>2 DEF Known
<1>13. \A t \in ts : <<t, title[t]>> \in r.tasks
  BY <1>2
<1>14. ASSUME NEW t \in quiet \cap Codex!Older
       PROVE  <<t, title[t]>> \in r.tasks \/ (r.next # None /\ stamp[t] < r.next)
  BY <1>8, <1>13, BridgeConstants
<1>15. Fits(r)
  BY <1>9, <1>10, <1>11, <1>12, <1>14 DEF Fits
<1>16. r \in Answers
  <2>1. r = [tasks |-> r.tasks, next |-> r.next]
    BY <1>1 DEF r
  <2> QED BY <1>9, <1>10, <2>1 DEF Answers
<1> QED BY <1>15, <1>16 DEF r

(* What was known of the tasks nobody touched since stays true.            *)
Calm ==
    /\ quiet' \subseteq quiet
    /\ \A t \in quiet' : title'[t] = title[t] /\ stamp'[t] = stamp[t]
    /\ op'.id = op.id /\ op'.asks = op.asks
    /\ op'.listed = op.listed /\ op'.cursor = op.cursor /\ op'.thread = op.thread

LEMMA CalmOlder ==
    ASSUME Calm, quiet \subseteq Threads, NEW t \in quiet'
    PROVE  t \in Codex!Older' <=> t \in Codex!Older
BY DEF Calm, Codex!Older

LEMMA CalmFits ==
    ASSUME Calm, quiet \subseteq Threads, NEW v, Fits(v)
    PROVE  Fits(v)'
<1>1. Codex!Room' = Codex!Room
  BY DEF Calm, Codex!Room
<1>2. Known(v.tasks)'
  BY DEF Known, Calm, Fits
<1>3. ASSUME NEW t \in quiet' \cap Codex!Older'
      PROVE  <<t, title'[t]>> \in v.tasks \/ (v.next # None /\ stamp'[t] < v.next)
  <2>1. t \in quiet \cap Codex!Older
    BY CalmOlder DEF Calm
  <2> QED BY <2>1 DEF Fits, Calm
<1> QED BY <1>1, <1>2, <1>3 DEF Fits

LEMMA CalmTold ==
    ASSUME Calm, quiet \subseteq Threads, NEW m, Told(m)
    PROVE  Told(m)'
BY CalmFits DEF Told, Calm

LEMMA CalmProgress ==
    ASSUME Operation, Calm
    PROVE  Progress'
<1>1. quiet \subseteq Threads
  BY DEF Operation, OperationTypes
<1>2. Known(op.listed) => Known(op.listed)'
  BY DEF Known, Calm
<1>3. Covered => Covered'
  <2> SUFFICES ASSUME Covered, NEW t \in quiet', title'[t] # Nameless
               PROVE  <<t, title'[t]>> \in op'.listed \/ t \in Codex!Older'
    BY DEF Covered
  <2>1. t \in quiet /\ title'[t] = title[t] /\ op'.listed = op.listed
    BY DEF Calm
  <2>2. <<t, title[t]>> \in op.listed \/ t \in Codex!Older
    BY <2>1 DEF Covered
  <2> QED BY <1>1, <2>1, <2>2, CalmOlder
<1>4. Sure => Sure'
  BY DEF Sure, Calm
<1> QED BY <1>2, <1>3, <1>4 DEF Operation, Progress, Calm

LEMMA CalmHeard ==
    ASSUME Operation, Calm, inbox' = inbox
    PROVE  Heard'
<1>1. quiet \subseteq Threads
  BY DEF Operation, OperationTypes
<1>2. ASSUME NEW i \in 1 .. Len(inbox) PROVE Told(inbox[i])'
  <2>1. Told(inbox[i])
    BY DEF Operation, Heard
  <2>2. \A m : Told(m) => Told(m)'
    BY <1>1, CalmTold
  <2>3. inbox'[i] = inbox[i]
    OBVIOUS
  <2> QED BY <2>1, <2>2, <2>3 DEF Told
<1> QED BY <1>2 DEF Heard

LEMMA CalmAppended ==
    ASSUME Operation, Calm, NEW m \in Messages, Told(m)', inbox' = Append(inbox, m)
    PROVE  inbox' \in Seq(Messages) /\ Heard'
<1>1. quiet \subseteq Threads /\ inbox \in Seq(Messages)
  BY DEF Operation, OperationTypes
<1>2. \A x : Told(x) => Told(x)'
  BY <1>1, CalmTold
<1>3. /\ inbox' \in Seq(Messages) /\ Len(inbox') = Len(inbox) + 1 /\ Len(inbox) \in Nat
      /\ \A i \in 1 .. Len(inbox) : inbox'[i] = inbox[i]
      /\ inbox'[Len(inbox) + 1] = m
  BY <1>1
<1>4. ASSUME NEW i \in 1 .. Len(inbox') PROVE Told(inbox[i])'
  <2>1. CASE i \in 1 .. Len(inbox)
    <3>1. Told(inbox[i]) /\ inbox'[i] = inbox[i]
      BY <1>3, <2>1 DEF Operation, Heard
    <3> QED BY <1>2, <3>1 DEF Told
  <2>2. CASE i = Len(inbox) + 1
    BY <1>3, <2>2 DEF Told
  <2> QED BY <1>3, <2>1, <2>2
<1> QED BY <1>3, <1>4 DEF Heard

LEMMA StepServe == Operation /\ Codex!Serve => Operation'
<1> SUFFICES ASSUME Operation, Codex!Serve PROVE Operation'
  OBVIOUS
<1>1. /\ op.asks \notin {"nothing", "uri"} /\ op' = [op EXCEPT !.served = TRUE]
      /\ UNCHANGED <<title, stamp, quiet, changes>>
  BY DEF Codex!Serve
<1>2. OperationTypes /\ Progress /\ Touched
  BY DEF Operation
<1>3. Calm /\ DOMAIN op' = Fields
  BY <1>1, <1>2 DEF Calm, OperationTypes, Fields
<1>4. op.id \in Nat /\ op'.id = op.id /\ op'.asks = op.asks
  BY <1>2, <1>3 DEF OperationTypes, Calm
<1>5. /\ inbox' \in Seq(Messages) /\ Heard'
      /\ turns' \in [Threads -> SUBSET Nat]
  <2>1. CASE op.asks = "interrupt"
    <3>1. PICK m \in {Codex!Message("result", op.id, None), Codex!Message("error", op.id, None)} :
             inbox' = Append(inbox, m)
      BY <2>1 DEF Codex!Serve
    <3>2. m \in Messages
      BY <1>4 DEF Messages, Answers, Codex!Message
    <3>3. m.id = op.id
      BY DEF Codex!Message
    <3>4. Told(m)'
      BY <1>4, <2>1, <3>3 DEF Told
    <3>5. turns' \in [Threads -> SUBSET Nat]
      <4>1. op.thread \in Threads /\ turns \in [Threads -> SUBSET Nat]
        BY <1>2, <2>1 DEF Progress, OperationTypes
      <4>2. turns' = turns \/ turns' = [turns EXCEPT ![op.thread] = @ \ {op.turn}]
        BY <2>1 DEF Codex!Serve
      <4> QED BY <4>1, <4>2
    <3> QED BY <1>3, <3>1, <3>2, <3>4, <3>5, CalmAppended
  <2>2. CASE op.asks # "interrupt"
    <3>1. PICK m : m = Codex!Message("result", op.id, Codex!Response)
      OBVIOUS
    <3>2. inbox' = Append(inbox, m) /\ turns' = turns
      BY <2>2, <3>1 DEF Codex!Serve
    <3>3. Codex!Response \in Answers
      <4>1. CASE op.asks = "list"
        BY <4>1, ResponseFits
      <4>2. CASE op.asks = "read"
        <5>1. op.thread \in Threads /\ turns \in [Threads -> SUBSET Nat]
          BY <1>2, <4>2 DEF Progress, OperationTypes
        <5>2. Codex!Response = turns[op.thread]
          BY <4>2 DEF Codex!Response
        <5> QED BY <5>1, <5>2 DEF Answers
      <4>3. CASE op.asks = "initialize"
        <5>1. Codex!Response = None
          BY <4>3 DEF Codex!Response
        <5> QED BY <5>1 DEF Answers
      <4> QED BY <1>1, <1>2, <2>2, <4>1, <4>2, <4>3 DEF OperationTypes
    <3>4. m \in Messages
      BY <1>4, <3>1, <3>3 DEF Messages, Codex!Message
    <3>5. m.id = op.id /\ m.value = Codex!Response
      BY <3>1 DEF Codex!Message
    <3>6. Told(m)'
      <4>1. Told(m)
        BY <1>4, <3>5, ResponseFits DEF Told
      <4> QED BY <1>2, <1>3, <4>1, CalmTold DEF OperationTypes
    <3> QED BY <1>2, <1>3, <3>2, <3>4, <3>6, CalmAppended DEF OperationTypes
  <2> QED BY <2>1, <2>2
<1>6. OperationTypes'
  BY <1>1, <1>2, <1>3, <1>5 DEF OperationTypes, Calm
<1> QED BY <1>1, <1>3, <1>5, <1>6, CalmProgress, TouchedKept DEF Operation

LEMMA StepNoise == Operation /\ Codex!Noise => Operation'
<1> SUFFICES ASSUME Operation, Codex!Noise PROVE Operation'
  OBVIOUS
<1>1. /\ UNCHANGED <<title, stamp, turns, op, quiet, changes>>
      /\ \/ inbox' = Append(inbox, Codex!Message("notification", 0, None))
         \/ inbox' = Append(inbox, Codex!Message("request", op.id, None))
  BY DEF Codex!Noise, Codex!server
<1>2. OperationTypes /\ Calm
  BY <1>1 DEF Operation, Calm
<1>3. inbox' \in Seq(Messages) /\ Heard'
  <2>1. PICK m \in {Codex!Message("notification", 0, None), Codex!Message("request", op.id, None)} :
           inbox' = Append(inbox, m)
    BY <1>1
  <2>2. op.id \in Nat
    BY <1>2 DEF OperationTypes
  <2>3. m \in Messages /\ m.kind # "result" /\ m.id <= op.id
    BY <2>2 DEF Codex!Message, Messages, Answers
  <2>4. Told(m)'
    BY <1>1, <2>3 DEF Told
  <2> QED BY <1>2, <2>1, <2>3, <2>4, CalmAppended
<1>4. OperationTypes'
  BY <1>1, <1>2, <1>3 DEF OperationTypes
<1> QED BY <1>1, <1>2, <1>3, <1>4, CalmProgress, TouchedKept DEF Operation

LEMMA StepChanges ==
    ASSUME Operation, NEW t \in Threads, Codex!Changes(t)
    PROVE  Operation'
<1> DEFINE moment == Cardinality(Threads) + changes + 1
<1>1. /\ changes' = changes + 1 /\ stamp' = [stamp EXCEPT ![t] = moment]
      /\ quiet' = quiet \ {t} /\ UNCHANGED <<op, inbox>>
      /\ \/ \E new \in Codex!Titles : title' = [title EXCEPT ![t] = new] /\ UNCHANGED turns
         \/ turns' = [turns EXCEPT ![t] = {moment}] /\ UNCHANGED title
         \/ turns' = [turns EXCEPT ![t] = {}] /\ UNCHANGED title
  BY SameCounting DEF Codex!Changes
<1>2. Touched /\ OperationTypes
  BY DEF Operation
<1>3. moment \in Nat /\ \A u \in Threads : stamp[u] \in Nat /\ stamp[u] < moment
  BY <1>2, ThreadsAre DEF Touched
<1>4. changes' \in Nat /\ moment <= Cardinality(Threads) + changes' /\ changes < changes'
  BY <1>1, <1>2, ThreadsAre DEF Touched
<1>5. Touched'
  <2>1. stamp' \in [Threads -> Nat]
    BY <1>1, <1>2, <1>3 DEF Touched
  <2>2. \A u \in Threads : stamp'[u] = IF u = t THEN moment ELSE stamp[u]
    BY <1>1, <1>2 DEF Touched
  <2>3. \A u \in Threads : stamp'[u] <= Cardinality(Threads) + changes'
    BY <1>2, <1>3, <1>4, <2>2, ThreadsAre DEF Touched
  <2>4. \A u, v \in Threads : stamp'[u] = stamp'[v] => u = v
    BY <1>2, <1>3, <2>2 DEF Touched
  <2> QED BY <1>4, <2>1, <2>3, <2>4 DEF Touched
<1>6. Calm
  <2>1. \A u \in quiet' : title'[u] = title[u] /\ stamp'[u] = stamp[u]
    BY <1>1, <1>2 DEF OperationTypes, Touched
  <2> QED BY <1>1, <2>1 DEF Calm
<1>7. OperationTypes'
  <2>1. title' \in [Threads -> Codex!Titles] /\ turns' \in [Threads -> SUBSET Nat]
    BY <1>1, <1>2, <1>3 DEF OperationTypes
  <2> QED BY <1>1, <1>2, <2>1 DEF OperationTypes
<1> QED BY <1>1, <1>5, <1>6, <1>7, CalmProgress, CalmHeard DEF Operation

(* The answer to thread/list: the next page is asked for, or the title is  *)
(* resolved.                                                               *)
LEMMA StepListed ==
    ASSUME Operation, op.asks = "list", NEW r, Fits(r),
           op' = Codex!Received([kind |-> "result", id |-> op.id, value |-> r]),
           UNCHANGED <<title, stamp, turns, quiet, changes>>,
           inbox' \in {<<>>, inbox} \/ (inbox # <<>> /\ inbox' = Tail(inbox)),
           op'.asks \in {"nothing", "initialize", "uri"} => inbox' = <<>>
    PROVE  Operation'
<1> DEFINE more == op.listed \cup {x \in r.tasks : x[2] # Nameless}
           o2 == [op EXCEPT !.listed = more, !.cursor = r.next]
           o3 == [o2 EXCEPT !.thread = Codex!Resolved(more)]
<1>1. OperationTypes /\ Progress /\ Touched
  BY DEF Operation
<1>2. /\ more \in SUBSET Listable /\ Known(more) /\ Cardinality(more) <= Tasks
      /\ \A t \in quiet : title[t] # Nameless =>
            <<t, title[t]>> \in more \/ (r.next # None /\ stamp[t] < r.next)
  BY PageAdded
<1>3. Cardinality(more) \in Nat /\ Tasks \in Nat
  BY <1>2, ListableFinite, BridgeConstants
<1>4. r.next \in Nat \cup {None}
  BY DEF Fits
<1>5. /\ DOMAIN o2 = Fields /\ o2.id = op.id /\ o2.asks = "list" /\ o2.listed = more
      /\ o2.cursor = r.next /\ o2.thread = None
  BY <1>1 DEF OperationTypes, Progress, Fields
<1>6. /\ DOMAIN o3 = Fields /\ o3.id = op.id /\ o3.asks = "list" /\ o3.listed = more
      /\ o3.cursor = r.next /\ o3.thread = Codex!Resolved(more)
  BY <1>1 DEF OperationTypes, Progress, Fields
<1>7. Codex!Listing(op, r) = IF r.next # None /\ Cardinality(more) < Tasks
                             THEN Codex!Asks(o2, "list") ELSE o3
  BY SameCounting DEF Codex!Listing
<1>8. op' = LET o == Codex!Listing(op, r)
            IN  IF o.asks = "list" /\ o.id > op.id THEN o
                ELSE IF o.thread = None THEN Codex!Idle
                ELSE IF o.does = "open" THEN [o EXCEPT !.asks = "uri"]
                ELSE Codex!Asks(o, "read")
  BY DEF Codex!Received
<1> HIDE DEF more, o2, o3
<1>9. op.id \in Nat
  BY <1>1 DEF OperationTypes
<1>10. CASE r.next # None /\ Cardinality(more) < Tasks
  <2>1. op' = Codex!Asks(o2, "list")
    <3>1. Codex!Listing(op, r) = Codex!Asks(o2, "list")
      BY <1>7, <1>10
    <3>2. Codex!Asks(o2, "list").asks = "list" /\ Codex!Asks(o2, "list").id = op.id + 1
      BY <1>5, AsksFields
    <3> QED BY <1>8, <1>9, <3>1, <3>2
  <2>2. /\ DOMAIN op' = Fields /\ op'.id = op.id + 1 /\ op'.asks = "list"
        /\ op'.listed = more /\ op'.cursor = r.next /\ op'.thread = None
    BY <1>5, <2>1, AsksFields
  <2>3. inbox' \in Seq(Messages) /\ Heard'
    BY <1>9, <2>2, NextRequest
  <2>4. OperationTypes'
    BY <1>1, <1>2, <1>4, <1>9, <2>2, <2>3 DEF OperationTypes
  <2>5. Known(op.listed)'
    BY <1>2, <2>2 DEF Known
  <2>6. Covered'
    <3> SUFFICES ASSUME NEW t \in quiet, title[t] # Nameless
                 PROVE  <<t, title[t]>> \in more \/ t \in Codex!Older'
      BY <2>2 DEF Covered
    <3>1. stamp[t] < r.next => t \in Codex!Older'
      BY <1>1, <2>2 DEF Codex!Older, OperationTypes
    <3> QED BY <1>2, <3>1
  <2>7. Progress'
    BY <1>10, <2>2, <2>5, <2>6 DEF Progress
  <2> QED BY <2>3, <2>4, <2>7, TouchedKept DEF Operation
<1>11. CASE ~(r.next # None /\ Cardinality(more) < Tasks)
  <2>1. op' = IF o3.thread = None THEN Codex!Idle
              ELSE IF o3.does = "open" THEN [o3 EXCEPT !.asks = "uri"]
              ELSE Codex!Asks(o3, "read")
    <3>1. Codex!Listing(op, r) = o3
      BY <1>7, <1>11
    <3> QED BY <1>6, <1>8, <1>9, <3>1
  <2>2. CASE o3.thread = None
    <3>1. op' = Codex!Idle
      BY <2>1, <2>2
    <3>2. inbox' = <<>>
      BY <3>1, IdleFields
    <3> QED BY <1>1, <3>1, <3>2, StepEnds DEF OperationTypes
  <2>3. CASE o3.thread # None
    <3>1. /\ Codex!Resolved(more) \in Threads
          /\ \A x \in more : x[2] = Query => x[1] = Codex!Resolved(more)
      BY <1>2, <1>6, <2>3, ResolvedAlone
    <3>2. op' = [o3 EXCEPT !.asks = "uri"] \/ op' = Codex!Asks(o3, "read")
      BY <2>1, <2>3
    <3>3. /\ DOMAIN op' = Fields /\ op'.listed = more /\ op'.cursor = r.next
          /\ op'.thread = Codex!Resolved(more)
          /\ (op'.asks = "uri" /\ op'.id = op.id) \/ (op'.asks = "read" /\ op'.id = op.id + 1)
      BY <1>6, <3>2, AsksFields DEF Fields
    <3>4. inbox' \in Seq(Messages) /\ Heard'
      BY <1>9, <3>3, NextRequest
    <3>5. OperationTypes'
      BY <1>1, <1>2, <1>4, <1>9, <3>1, <3>3, <3>4 DEF OperationTypes
    <3>6. Known(op.listed)'
      BY <1>2, <3>3 DEF Known
    <3>7. Sure'
      <4> SUFFICES ASSUME NEW t \in quiet, t # Codex!Resolved(more), title[t] = Query
                   PROVE  Cardinality(more) = Tasks /\ \A x \in more : x[1] # t
        BY <3>3 DEF Sure
      <4>1. ASSUME NEW x \in more, x[1] = t PROVE FALSE
        <5>1. x[2] = Query
          BY <1>2, <4>1 DEF Known
        <5> QED BY <3>1, <4>1, <5>1
      <4>2. <<t, title[t]>> \notin more
        <5>1. <<t, title[t]>>[1] = t
          OBVIOUS
        <5> QED BY <4>1, <5>1
      <4>3. r.next # None
        BY <1>2, <4>2, BridgeConstants
      <4> QED BY <1>2, <1>3, <1>11, <4>1, <4>3
    <3>8. Progress'
      BY <3>1, <3>3, <3>6, <3>7 DEF Progress
    <3> QED BY <3>4, <3>5, <3>8, TouchedKept DEF Operation
  <2> QED BY <2>2, <2>3
<1> QED BY <1>10, <1>11

LEMMA StepReceive == Operation /\ Codex!Receive => Operation'
<1> SUFFICES ASSUME Operation, Codex!Receive PROVE Operation'
  OBVIOUS
<1>1. PICK m : m = Head(inbox)
  OBVIOUS
<1>2. OperationTypes /\ Progress /\ Touched /\ inbox # <<>>
  BY DEF Operation, Codex!Receive
<1>3. m \in Messages /\ Told(m)
  <2>1. inbox \in Seq(Messages) /\ m = inbox[1] /\ 1 \in 1 .. Len(inbox)
    BY <1>1, <1>2 DEF OperationTypes
  <2> QED BY <2>1 DEF Operation, Heard
<1>4. UNCHANGED <<title, stamp, turns, changes>>
  BY DEF Codex!Receive, Codex!server
<1>5. CASE m.kind \in {"request", "notification"} \/ m.id # op.id
  <2>1. inbox' = Tail(inbox) /\ UNCHANGED <<op, quiet>>
    BY <1>1, <1>5 DEF Codex!Receive
  <2>2. Calm
    BY <1>4, <2>1 DEF Calm
  <2>3. /\ inbox' \in Seq(Messages) /\ Len(inbox') = Len(inbox) - 1 /\ Len(inbox) \in Nat
        /\ \A i \in 1 .. Len(inbox') : inbox'[i] = inbox[i + 1]
    BY <1>2, <2>1 DEF OperationTypes
  <2>4. ASSUME NEW i \in 1 .. Len(inbox') PROVE Told(inbox[i])'
    <3>1. i + 1 \in 1 .. Len(inbox)
      BY <2>3
    <3>2. Told(inbox[i + 1])
      BY <3>1 DEF Operation, Heard
    <3>3. \A x : Told(x) => Told(x)'
      BY <1>2, <2>2, CalmTold DEF OperationTypes
    <3> QED BY <2>3, <3>2, <3>3 DEF Told
  <2>5. OperationTypes' /\ Heard'
    BY <1>2, <1>4, <2>1, <2>3, <2>4 DEF OperationTypes, Heard
  <2> QED BY <1>2, <1>4, <2>2, <2>5, CalmProgress, TouchedKept DEF Operation
<1>6. CASE ~(m.kind \in {"request", "notification"} \/ m.id # op.id)
  <2>1. /\ op' = IF m.kind = "error" THEN Codex!Idle ELSE Codex!Received(m)
        /\ inbox' = IF op'.asks \in {"nothing", "initialize", "uri"} THEN <<>> ELSE Tail(inbox)
        /\ quiet' = IF op.asks = "initialize" THEN Threads ELSE quiet
    BY <1>1, <1>6 DEF Codex!Receive
  <2>2. quiet' \subseteq Threads /\ op.id \in Nat /\ DOMAIN op = Fields
    BY <1>2, <2>1 DEF OperationTypes
  <2>3. CASE op' = Codex!Idle
    <3>1. inbox' = <<>>
      BY <2>1, <2>3, IdleFields
    <3> QED BY <1>4, <2>2, <2>3, <3>1, StepEnds
  <2>4. CASE m.kind = "result" /\ op.asks = "initialize"
    <3>1. op' = Codex!Asks(op, "list") /\ quiet' = Threads
      BY <2>1, <2>4 DEF Codex!Received
    <3>2. /\ DOMAIN op' = Fields /\ op'.asks = "list" /\ op'.id = op.id + 1
          /\ op'.listed = {} /\ op'.cursor = None /\ op'.thread = None
      BY <1>2, <2>2, <2>4, <3>1, AsksFields DEF Progress
    <3>3. inbox' = Tail(inbox)
      BY <2>1, <3>2
    <3>4. inbox' \in Seq(Messages) /\ Heard'
      BY <1>2, <2>2, <3>2, <3>3, NextRequest
    <3>5. OperationTypes'
      BY <1>2, <1>4, <2>2, <3>2, <3>4 DEF OperationTypes
    <3>6. Cardinality(op'.listed) < Tasks
      BY <3>2, FS_EmptySet, BridgeConstants
    <3>7. Known(op.listed)' /\ Covered'
      BY <3>1, <3>2 DEF Known, Covered, Codex!Older
    <3>8. Progress'
      BY <3>2, <3>6, <3>7 DEF Progress
    <3> QED BY <1>2, <1>4, <3>4, <3>5, <3>8, TouchedKept DEF Operation
  <2>5. CASE m.kind = "result" /\ op.asks = "list"
    <3>1. PICK r : r = m.value
      OBVIOUS
    <3>2. Fits(r)
      BY <1>3, <1>6, <2>5, <3>1 DEF Told
    <3>3. m = [kind |-> "result", id |-> op.id, value |-> r]
      BY <1>3, <1>6, <2>5, <3>1 DEF Messages
    <3>4. op' = Codex!Received([kind |-> "result", id |-> op.id, value |-> r])
      BY <2>1, <2>5, <3>3
    <3>5. inbox' = <<>> \/ inbox' = Tail(inbox)
      BY <2>1
    <3>6. op'.asks \in {"nothing", "initialize", "uri"} => inbox' = <<>>
      BY <2>1
    <3>7. quiet' = quiet
      BY <2>1, <2>5
    <3> QED BY <1>2, <1>4, <2>5, <3>2, <3>4, <3>5, <3>6, <3>7, StepListed
  <2>6. CASE m.kind = "result" /\ op.asks = "read"
    <3>1. op' \in {Codex!Opening, Codex!Idle}
          \/ \E n : op' = Codex!Asks([op EXCEPT !.turn = n], "interrupt")
      BY <2>1, <2>6 DEF Codex!Received
    <3>2. CASE op' = Codex!Opening
      <4> DEFINE o == [Codex!Idle EXCEPT !.does = "open"]
      <4>1. /\ DOMAIN o = Fields /\ o.id = 0 /\ o.listed = {} /\ o.cursor = None
            /\ o.thread = None
        BY DEF Codex!Idle, Fields
      <4>2. op' = Codex!Asks(o, "initialize")
        BY <3>2 DEF Codex!Opening
      <4> HIDE DEF o
      <4>3. /\ DOMAIN op' = Fields /\ op'.asks = "initialize" /\ op'.id = 1
            /\ op'.listed = {} /\ op'.cursor = None /\ op'.thread = None
        BY <4>1, <4>2, AsksFields
      <4>4. inbox' = <<>>
        BY <2>1, <4>3
      <4>5. inbox' \in Seq(Messages) /\ Heard'
        BY <4>3, <4>4, NextRequest
      <4>6. OperationTypes'
        BY <1>2, <1>4, <2>2, <4>3, <4>5 DEF OperationTypes
      <4>7. Progress'
        BY <4>3 DEF Progress
      <4> QED BY <1>2, <1>4, <4>5, <4>6, <4>7, TouchedKept DEF Operation
    <3>3. CASE \E n : op' = Codex!Asks([op EXCEPT !.turn = n], "interrupt")
      <4>1. PICK n : op' = Codex!Asks([op EXCEPT !.turn = n], "interrupt")
        BY <3>3
      <4> DEFINE o == [op EXCEPT !.turn = n]
      <4>2. /\ DOMAIN o = Fields /\ o.id = op.id /\ o.listed = op.listed
            /\ o.cursor = op.cursor /\ o.thread = op.thread
        BY <2>2 DEF Fields
      <4>3. op' = Codex!Asks(o, "interrupt")
        BY <4>1
      <4> HIDE DEF o
      <4>4. /\ DOMAIN op' = Fields /\ op'.asks = "interrupt" /\ op'.id = op.id + 1
            /\ op'.listed = op.listed /\ op'.cursor = op.cursor /\ op'.thread = op.thread
        BY <4>2, <4>3, AsksFields
      <4>5. inbox' = Tail(inbox) /\ quiet' = quiet
        BY <2>1, <2>6, <4>4
      <4>6. inbox' \in Seq(Messages) /\ Heard'
        BY <1>2, <2>2, <4>4, <4>5, NextRequest
      <4>7. OperationTypes'
        BY <1>2, <1>4, <2>2, <4>4, <4>5, <4>6 DEF OperationTypes
      <4>8. Known(op.listed)' /\ Sure'
        BY <1>2, <1>4, <2>6, <4>4, <4>5 DEF Progress, Known, Sure
      <4>9. Progress'
        BY <1>2, <2>6, <4>4, <4>8 DEF Progress
      <4> QED BY <1>2, <1>4, <4>6, <4>7, <4>9, TouchedKept DEF Operation
    <3> QED BY <2>3, <3>1, <3>2, <3>3
  <2>7. CASE m.kind = "result" /\ op.asks \notin {"initialize", "list", "read"}
    BY <2>1, <2>3, <2>7 DEF Codex!Received
  <2>8. m.kind \in {"result", "error"}
    BY <1>3, <1>6 DEF Messages
  <2> QED BY <2>1, <2>3, <2>4, <2>5, <2>6, <2>7, <2>8
<1> QED BY <1>5, <1>6

LEMMA NextOperation == Operation /\ Codex!Next => Operation'
<1> SUFFICES ASSUME Operation, Codex!Next PROVE Operation'
  OBVIOUS
<1>1. CASE Codex!EndsAnyway
  <2>1. /\ op' = Codex!Idle /\ inbox' = <<>>
        /\ UNCHANGED <<title, stamp, turns, changes>> /\ quiet' = quiet
    BY <1>1 DEF Codex!EndsAnyway, Codex!Ends, Codex!server
  <2> QED BY <2>1, StepEnds DEF Operation, OperationTypes
<1> QED BY <1>1, StepBegin, StepServe, StepNoise, StepReceive, StepChanges DEF Codex!Next

(* NoGuess, for any number of tasks, pages of any size and any limit of    *)
(* the list, whatever others do to the tasks while they are listed.        *)
THEOREM PartsNeverGuess == Spec => []NoGuess
<1>1. Init => (part = "codex" => Operation)
  BY InitOperation DEF Init
<1>2. (part = "codex" => Operation) /\ [Next]_vars => (part = "codex" => Operation)'
  <2> SUFFICES ASSUME part = "codex", Operation, [Next]_vars PROVE Operation'
    BY DEF Next, vars
  <2>1. CASE Next
    BY <2>1, NextOperation DEF Next
  <2>2. CASE UNCHANGED vars
    BY <2>2 DEF vars, codex, counters, Operation, Touched, OperationTypes, Progress, Heard,
                Told, Fits, Known, Covered, Sure, Codex!Older, Codex!Room
  <2> QED BY <2>1, <2>2
<1>3. (part = "codex" => Operation) => NoGuess
  BY OperationSure DEF NoGuess
<1> QED BY <1>1, <1>2, <1>3, PTL DEF Spec

(***************************************************************************)
(* Links. For how long an address has not been there, at most; a page that *)
(* leads to a video is taken for it.                                       *)
(***************************************************************************)
Fresh(u, n) == u \in Web!Served /\ (unseen[u] <= n \/ (u = Watch /\ led))

(* What is there is known to be, and so is that a page leads to a video.   *)
Seen ==
    /\ \A u \in Web!Served : web[u] = "there" => unseen[u] = 0
    /\ \A u \in Pages : web[u] \in Spellings => led

(* A live link in the cache is as old as it says, or past its time.        *)
FreshEntry(e) == e.finds = "available" => e.age = Web!Oldest \/ Fresh(e.url, e.age)

CacheFresh == \A i \in 1 .. Len(cache) : FreshEntry(cache[i])

(* Where a probe is: at a public address, for a video at its own page, and *)
(* at the page of a video otherwise only because some page led there.      *)
Underway(p) ==
    /\ p.url # Local
    /\ p.of \in Spellings => p.url = Watch
    /\ p.of \notin Spellings /\ p.url \in Spellings => led

ProbesFresh(q) ==
    \A i \in 1 .. Len(probes[q]) :
        /\ probes[q][i].finds = "nothing" => Underway(probes[q][i])
        /\ probes[q][i].finds = "available" /\ search[q].at = "checking" =>
               Fresh(probes[q][i].url, PositiveTtl + search[q].age)

(* What was found is as old as its search, or as the call of several.      *)
FoundFresh(q) ==
    /\ search[q].at \in {"queued", "engines", "done"} => search[q].found = {}
    /\ q \in asked.queries =>
          /\ ~Web!Lone => search[q].age <= asked.age
          /\ \A u \in search[q].found :
                Fresh(u, PositiveTtl + IF Web!Lone THEN search[q].age ELSE asked.age)

ThreadFresh(q) ==
    /\ IsFiniteSet(search[q].found)
    /\ \A i \in 1 .. Len(search[q].rows) : search[q].rows[i] # Local
    /\ ProbesFresh(q) /\ FoundFresh(q)

(* The inductive invariant.                                                *)
Links == Web!TypeOK /\ Seen /\ CacheFresh /\ \A q \in Searches : ThreadFresh(q)

Entries == [of : Web!Urls, age : 0 .. Web!Oldest, finds : Web!Finds, url : Web!Urls]
Stages == {"queued", "engines", "batch", "checking", "ok", "failed", "done"}
Queried == [at : Stages, engine : 0 .. Engines, empty : BOOLEAN, rows : Seq(Web!Urls),
            found : SUBSET Web!Urls, age : 0 .. LinkDeadline]
Probings == [of : Web!Urls, url : Web!Urls, hops : 0 .. Redirects,
             finds : Web!Finds \cup {"nothing"}]

LEMMA WebFacts ==
    /\ Engines \in Nat \ {0} /\ Rows \in Nat \ {0} /\ Wanted \in Nat \ {0}
    /\ Batch \in Nat \ {0} /\ CacheSize \in Nat \ {0}
    /\ Redirects \in Nat /\ PositiveTtl \in Nat /\ NegativeTtl \in Nat
    /\ LinkDeadline \in Nat /\ Deadline \in Nat /\ MaxMoves \in Nat
    /\ Watch \in Spellings /\ Redirecting \subseteq Pages /\ Pages \cap Spellings = {}
    /\ Local \notin Pages \cup Spellings /\ Offered \subseteq Web!Urls
    /\ "there" \notin Web!Urls /\ "gone" \notin Web!Urls
    /\ Web!Oldest \in Nat /\ Web!Longest \in Nat /\ PositiveTtl < Web!Oldest
    /\ PositiveTtl + LinkDeadline <= Web!Longest /\ PositiveTtl + Deadline <= Web!Longest
BY PartsAssumption DEF Web!WebAssumption, Web!Urls, Web!Oldest, Web!Longest

LEMMA TypesOfWeb ==
    ASSUME Web!TypeOK
    PROVE  /\ web \in [Web!Served -> Web!States \cup Web!Urls]
           /\ \A u \in Web!Served : web[u] \in Web!Tells(u)
           /\ led \in BOOLEAN /\ unseen \in [Web!Served -> 0 .. Web!Longest + 1]
           /\ cache \in Seq(Entries) /\ Len(cache) <= CacheSize
           /\ search \in [Searches -> Queried] /\ probes \in [Searches -> Seq(Probings)]
           /\ asked \in [queries : SUBSET Searches, age : 0 .. Deadline]
           /\ moves \in 0 .. MaxMoves
BY DEF Web!TypeOK, Entries, Queried, Stages, Probings

LEMMA TypesFromParts ==
    ASSUME /\ (web \in [Web!Served -> Web!States \cup Web!Urls])'
           /\ (\A u \in Web!Served : web[u] \in Web!Tells(u))'
           /\ (led \in BOOLEAN)' /\ (unseen \in [Web!Served -> 0 .. Web!Longest + 1])'
           /\ (cache \in Seq(Entries))' /\ (Len(cache) <= CacheSize)'
           /\ (search \in [Searches -> Queried])' /\ (probes \in [Searches -> Seq(Probings)])'
           /\ (asked \in [queries : SUBSET Searches, age : 0 .. Deadline])'
           /\ (moves \in 0 .. MaxMoves)'
    PROVE  Web!TypeOK'
BY DEF Web!TypeOK, Entries, Queried, Stages, Probings

(* One thread goes on; the others have what they had.                      *)
Turn(q) ==
    /\ search' \in [Searches -> Queried] /\ probes' \in [Searches -> Seq(Probings)]
    /\ cache' \in Seq(Entries) /\ Len(cache') <= CacheSize
    /\ \A r \in Searches \ {q} : search'[r] = search[r] /\ probes'[r] = probes[r]
    /\ UNCHANGED <<web, unseen, led, asked, moves>>

LEMMA OneThread ==
    ASSUME Links, NEW q \in Searches, Turn(q), ThreadFresh(q)', CacheFresh'
    PROVE  Links'
<1>1. Web!TypeOK'
  <2>1. /\ web' = web /\ led' = led /\ unseen' = unseen /\ asked' = asked /\ moves' = moves
        /\ search' \in [Searches -> Queried] /\ probes' \in [Searches -> Seq(Probings)]
        /\ cache' \in Seq(Entries) /\ Len(cache') <= CacheSize
    BY DEF Turn
  <2>2. Web!TypeOK
    BY DEF Links
  <2>3. /\ (web \in [Web!Served -> Web!States \cup Web!Urls])'
        /\ (\A u \in Web!Served : web[u] \in Web!Tells(u))'
        /\ (led \in BOOLEAN)' /\ (unseen \in [Web!Served -> 0 .. Web!Longest + 1])'
        /\ (asked \in [queries : SUBSET Searches, age : 0 .. Deadline])'
        /\ (moves \in 0 .. MaxMoves)'
    BY <2>1, <2>2, TypesOfWeb
  <2> QED BY <2>1, <2>3, TypesFromParts
<1>2. Seen'
  BY DEF Links, Seen, Turn
<1>3. ASSUME NEW r \in Searches, r # q PROVE ThreadFresh(r)'
  <2>1. ThreadFresh(r)
    BY DEF Links
  <2>2. /\ search'[r] = search[r] /\ probes'[r] = probes[r]
        /\ asked' = asked /\ unseen' = unseen /\ led' = led
    BY <1>3 DEF Turn
  <2>3. \A u, n : Fresh(u, n)' <=> Fresh(u, n)
    BY <2>2 DEF Fresh
  <2>4. \A p : Underway(p)' <=> Underway(p)
    BY <2>2 DEF Underway
  <2>5. Web!Lone' <=> Web!Lone
    BY <2>2 DEF Web!Lone
  <2>6. ProbesFresh(r)'
    BY <2>1, <2>2, <2>3, <2>4 DEF ThreadFresh, ProbesFresh
  <2>7. FoundFresh(r)'
    BY <2>1, <2>2, <2>3, <2>5 DEF ThreadFresh, FoundFresh
  <2> QED BY <2>1, <2>2, <2>6, <2>7 DEF ThreadFresh
<1> QED BY <1>1, <1>2, <1>3 DEF Links

LEMMA AgesOfWeb ==
    ASSUME Web!TypeOK
    PROVE  /\ asked.age \in Nat /\ asked.age <= Deadline
           /\ \A q \in Searches : search[q].age \in Nat /\ search[q].age <= LinkDeadline
<1>1. asked.age \in 0 .. Deadline
  BY TypesOfWeb
<1>2. ASSUME NEW q \in Searches PROVE search[q].age \in 0 .. LinkDeadline
  <2>1. PICK s \in Queried : s = search[q]
    BY TypesOfWeb
  <2> QED BY <2>1 DEF Queried
<1> QED BY <1>1, <1>2, WebFacts

LEMMA FreshLater ==
    ASSUME NEW u, NEW m \in Nat, NEW n \in Nat, Web!TypeOK, Fresh(u, m), m <= n
    PROVE  Fresh(u, n)
BY TypesOfWeb, WebFacts DEF Fresh

LEMMA InitLinks == Web!Init => Links
<1> SUFFICES ASSUME Web!Init PROVE Links
  OBVIOUS
<1>1. Web!Quiet \in Queried /\ Web!Quiet.found = {} /\ Web!Quiet.rows = <<>>
  BY WebFacts DEF Web!Quiet, Queried, Stages
<1>2. Web!TypeOK
  BY <1>1, WebFacts
     DEF Web!Init, Web!TypeOK, Web!Nothing, Entries, Queried, Stages, Probings
<1>3. Seen
  BY DEF Web!Init, Seen
<1>4. CacheFresh
  BY DEF Web!Init, CacheFresh
<1>5. ASSUME NEW q \in Searches PROVE ThreadFresh(q)
  <2>1. search[q] = Web!Quiet /\ probes[q] = <<>> /\ asked.queries = {}
    BY DEF Web!Init, Web!Nothing
  <2>2. search[q].found = {} /\ search[q].rows = <<>>
    BY <1>1, <2>1
  <2>3. ProbesFresh(q)
    BY <2>1 DEF ProbesFresh
  <2>4. FoundFresh(q)
    BY <2>1, <2>2 DEF FoundFresh
  <2> QED BY <2>2, <2>3, <2>4, FS_EmptySet DEF ThreadFresh
<1> QED BY <1>2, <1>3, <1>4, <1>5 DEF Links

LEMMA SameView ==
    ASSUME UNCHANGED <<web, unseen, led, asked>>
    PROVE  /\ \A u, n : Fresh(u, n)' <=> Fresh(u, n)
           /\ \A p : Underway(p)' <=> Underway(p)
           /\ Web!Lone' <=> Web!Lone
           /\ \A e : FreshEntry(e)' <=> FreshEntry(e)
           /\ cache' = cache /\ CacheFresh => CacheFresh'
<1>1. \A u, n : Fresh(u, n)' <=> Fresh(u, n)
  BY DEF Fresh
<1>2. \A e : FreshEntry(e)' <=> FreshEntry(e)
  BY <1>1 DEF FreshEntry
<1> QED BY <1>1, <1>2 DEF Underway, Web!Lone, CacheFresh

(* A search that starts anew has found nothing.                            *)
LEMMA QuietFacts ==
    /\ Web!Quiet \in Queried /\ Web!Quiet.at = "done" /\ Web!Quiet.found = {}
    /\ Web!Quiet.rows = <<>> /\ Web!Quiet.age = 0 /\ Web!Quiet.engine = 0
BY WebFacts DEF Web!Quiet, Queried, Stages

LEMMA FreshStart ==
    ASSUME Links, NEW q \in Searches, Turn(q), cache' = cache, probes' = probes,
           search'[q].at \in {"queued", "engines", "batch", "failed"},
           search'[q].found = {}, search'[q].age \in {0, search[q].age},
           \A i \in 1 .. Len(search'[q].rows) : search'[q].rows[i] # Local
    PROVE  Links'
<1>1. /\ UNCHANGED <<web, unseen, led, asked>>
      /\ CacheFresh /\ ThreadFresh(q) /\ Web!TypeOK
  BY DEF Turn, Links
<1>2. ProbesFresh(q)'
  BY <1>1, SameView DEF ThreadFresh, ProbesFresh
<1>3. FoundFresh(q)'
  <2>1. asked.age \in Nat
    BY <1>1, TypesOfWeb, WebFacts
  <2> QED BY <1>1, <2>1, SameView DEF ThreadFresh, FoundFresh
<1>4. ThreadFresh(q)'
  BY <1>2, <1>3, FS_EmptySet DEF ThreadFresh
<1> QED BY <1>1, <1>4, SameView, OneThread

LEMMA StepStart ==
    ASSUME Links, NEW q \in Searches, Web!Start(q)
    PROVE  Links'
<1> DEFINE s == [search[q] EXCEPT !.at = "engines"]
<1>1. search[q].at = "queued" /\ search' = [search EXCEPT ![q] = s] /\ probes' = probes
      /\ cache' = cache /\ UNCHANGED <<web, unseen, led, asked, moves>>
  BY DEF Web!Start, Web!Now
<1>2. Web!TypeOK /\ ThreadFresh(q)
  BY DEF Links
<1>3. search[q] \in Queried
  BY <1>2, TypesOfWeb
<1>4. /\ s \in Queried /\ s.at = "engines" /\ s.found = search[q].found
      /\ s.age = search[q].age /\ s.rows = search[q].rows
  BY <1>3 DEF Queried, Stages
<1> HIDE DEF s
<1>5. Turn(q) /\ search'[q] = s
  BY <1>1, <1>2, <1>4, TypesOfWeb DEF Turn
<1> QED BY <1>1, <1>2, <1>4, <1>5, FreshStart DEF ThreadFresh, FoundFresh

LEMMA StepEngine ==
    ASSUME Links, NEW q \in Searches, Web!Engine(q)
    PROVE  Links'
<1>1. /\ search[q].at = "engines" /\ probes' = probes
      /\ cache' = cache /\ UNCHANGED <<web, unseen, led, asked, moves>>
      /\ Web!TypeOK /\ ThreadFresh(q)
  BY DEF Web!Engine, Links
<1>2. search[q] \in Queried /\ search[q].found = {}
  BY <1>1, TypesOfWeb DEF ThreadFresh, FoundFresh
<1>3. ASSUME NEW s \in Queried, search' = [search EXCEPT ![q] = s], s.found = {},
             s.at \in {"engines", "batch", "failed"}, s.age \in {0, search[q].age},
             \A i \in 1 .. Len(s.rows) : s.rows[i] # Local
      PROVE  Links'
  <2>1. Turn(q) /\ search'[q] = s
    BY <1>1, <1>3, TypesOfWeb DEF Turn
  <2> QED BY <1>1, <1>3, <2>1, FreshStart
<1>4. ASSUME NEW rows \in Web!Sanitized, Web!Now(q, Web!Answered(rows))
      PROVE  Links'
  <2>1. PICK n \in 0 .. Rows : rows \in [1 .. n -> {u \in Offered : Web!Safe(u)}]
    BY DEF Web!Sanitized
  <2>2. rows \in Seq(Web!Urls) /\ \A i \in 1 .. Len(rows) : rows[i] # Local
    BY <2>1, WebFacts DEF Web!Safe
  <2> DEFINE s == Web!Answered(rows)
  <2>3. s \in Queried /\ s.found = {} /\ s.at = "batch" /\ s.age = 0 /\ s.rows = rows
    BY <2>2, QuietFacts DEF Web!Answered, Queried, Stages
  <2>4. search' = [search EXCEPT ![q] = s]
    BY <1>4 DEF Web!Now
  <2> HIDE DEF s
  <2> QED BY <1>3, <2>2, <2>3, <2>4
<1>5. ASSUME NEW e \in BOOLEAN, Web!Now(q, Web!Tried(search[q], e))
      PROVE  Links'
  <2> DEFINE t == search[q]
             s == Web!Tried(t, e)
  <2>1. search' = [search EXCEPT ![q] = s]
    BY <1>5 DEF Web!Now
  <2>2. t \in Queried /\ t.found = {} /\ t.at = "engines" /\ t.age = search[q].age
        /\ \A i \in 1 .. Len(t.rows) : t.rows[i] # Local
    BY <1>1, <1>2 DEF ThreadFresh
  <2>3. CASE t.engine + 1 < Engines
    <3>1. s = [t EXCEPT !.engine = t.engine + 1, !.empty = e]
      BY <2>3 DEF Web!Tried
    <3>2. t.engine + 1 \in 0 .. Engines
      BY <2>2, <2>3, WebFacts DEF Queried
    <3> HIDE DEF s, t
    <3>3. s \in Queried
      BY <2>2, <3>1, <3>2 DEF Queried
    <3>4. s.found = {} /\ s.at = "engines" /\ s.age = t.age /\ s.rows = t.rows
      BY <2>2, <3>1 DEF Queried
    <3> QED BY <1>3, <2>1, <2>2, <3>3, <3>4
  <2>4. CASE ~(t.engine + 1 < Engines)
    <3>1. PICK a \in {"batch", "failed"} : s = [Web!Quiet EXCEPT !.at = a]
      BY <2>4 DEF Web!Tried
    <3> HIDE DEF s, t
    <3>2. s \in Queried /\ s.found = {} /\ s.at \in {"batch", "failed"} /\ s.age = 0
          /\ s.rows = <<>>
      BY <3>1, QuietFacts DEF Queried, Stages
    <3>3. \A i \in 1 .. Len(s.rows) : s.rows[i] # Local
      BY <3>2
    <3> QED BY <1>3, <2>1, <3>2, <3>3
  <2> QED BY <2>3, <2>4
<1>6. search[q].empty \in BOOLEAN
  BY <1>2 DEF Queried
<1> QED BY <1>4, <1>5, <1>6 DEF Web!Engine

LEMMA ProbeFits ==
    ASSUME NEW u \in Web!Urls, u # Local
    PROVE  /\ Web!Probe(u) \in Probings /\ Web!Probe(u).finds = "nothing"
           /\ Underway(Web!Probe(u))
<1>1. Web!Identity(u) \in Web!Urls /\ Web!Identity(u) # Local
      /\ (u \in Spellings => Web!Identity(u) = Watch)
      /\ (u \notin Spellings => Web!Identity(u) \notin Spellings)
  BY WebFacts DEF Web!Identity, Web!Urls
<1> QED BY <1>1, WebFacts DEF Web!Probe, Probings, Underway

(* The modules of the parts mean the same by the size of a set.            *)
LEMMA SameCards == \A S : Web!Cardinality(S) = Cardinality(S)
BY Zenon DEF Web!Cardinality, Cardinality

LEMMA SizeFits ==
    ASSUME NEW s \in Queried, IsFiniteSet(s.found)
    PROVE  Web!Size(s) \in Int /\ Web!Size(s) <= Len(s.rows)
<1>1. PICK c \in Nat : c = Cardinality(s.found)
  BY FS_CardinalityType
<1>2. PICK l \in Nat : l = Len(s.rows)
  BY DEF Queried
<1>3. Web!Size(s) = Web!Least(Web!Least(Batch, Wanted - c), l)
  BY <1>1, <1>2, SameCards DEF Web!Size
<1>4. Web!Least(Batch, Wanted - c) \in Int
  BY WebFacts DEF Web!Least
<1> QED BY <1>2, <1>3, <1>4 DEF Web!Least

(* The probes of a batch.                                                  *)
LEMMA BegunFits ==
    ASSUME NEW s \in Queried, IsFiniteSet(s.found),
           \A i \in 1 .. Len(s.rows) : s.rows[i] # Local
    PROVE  /\ Web!Begun(s) \in Seq(Probings)
           /\ \A i \in 1 .. Len(Web!Begun(s)) :
                 Web!Begun(s)[i].finds = "nothing" /\ Underway(Web!Begun(s)[i])
<1>1. PICK n \in Int : n = Web!Size(s) /\ n <= Len(s.rows)
  BY SizeFits
<1>2. PICK ps : ps = Web!Begun(s) /\ ps = [i \in 1 .. n |-> Web!Probe(s.rows[i])]
  BY <1>1 DEF Web!Begun
<1>3. s.rows \in Seq(Web!Urls)
  BY DEF Queried
<1>4. ASSUME NEW i \in 1 .. n
      PROVE  ps[i] \in Probings /\ ps[i].finds = "nothing" /\ Underway(ps[i])
  <2>1. i \in 1 .. Len(s.rows)
    BY <1>1, <1>3
  <2>2. s.rows[i] \in Web!Urls /\ s.rows[i] # Local
    BY <1>3, <2>1
  <2>3. ps[i] = Web!Probe(s.rows[i])
    BY <1>2
  <2> QED BY <2>2, <2>3, ProbeFits
<1>5. PICK m \in Nat : 1 .. n = 1 .. m
  <2>1. CASE n < 0
    <3>1. 1 .. n = 1 .. 0
      BY <2>1
    <3> QED BY <3>1
  <2>2. CASE n >= 0
    BY <2>2
  <2> QED BY <2>1, <2>2
<1>6. ps \in [1 .. m -> Probings]
  BY <1>2, <1>4, <1>5
<1>7. ps \in Seq(Probings) /\ Len(ps) = m
  BY <1>6
<1> QED BY <1>2, <1>4, <1>5, <1>7

LEMMA StepCheck ==
    ASSUME Links, NEW q \in Searches, Web!Check(q)
    PROVE  Links'
<1>1. /\ cache' = cache /\ UNCHANGED <<web, unseen, led, asked, moves>>
      /\ search[q].at = "batch" /\ Web!TypeOK /\ ThreadFresh(q) /\ CacheFresh
  BY DEF Web!Check, Links
<1>2. PICK s \in Queried : s = search[q]
  BY <1>1, TypesOfWeb
<1>3. PICK ps \in Seq(Probings) : ps = Web!Begun(s) /\ Len(ps) = Len(Web!Begun(s))
  BY <1>1, <1>2, BegunFits DEF ThreadFresh
<1>4. PICK n \in Int : n = Web!Size(s) /\ n <= Len(s.rows)
  BY <1>1, <1>2, SizeFits DEF ThreadFresh
<1> DEFINE over == [s EXCEPT !.at = "ok", !.rows = <<>>]
           goes == [s EXCEPT !.at = "checking", !.rows = SubSeq(s.rows, n + 1, Len(s.rows))]
<1>5. \/ search' = [search EXCEPT ![q] = over] /\ probes' \in {probes, [probes EXCEPT ![q] = ps]}
      \/ n > 0 /\ search' = [search EXCEPT ![q] = goes] /\ probes' = [probes EXCEPT ![q] = ps]
  BY <1>2, <1>3, <1>4 DEF Web!Check, Web!Now
<1>6. over \in Queried /\ over.at = "ok" /\ over.rows = <<>> /\ over.found = s.found /\ over.age = s.age
  <2> DEFINE none == <<>>
  <2>1. none = <<>> /\ none \in Seq(Web!Urls)
    OBVIOUS
  <2> HIDE DEF none
  <2>2. over = [s EXCEPT !.at = "ok", !.rows = none]
    BY <2>1
  <2>3. over \in Queried /\ over.at = "ok" /\ over.rows = none /\ over.found = s.found /\ over.age = s.age
    <3> HIDE DEF over
    <3>1. s \in Queried
      OBVIOUS
    <3>2. over \in Queried
      BY <2>1, <2>2, <3>1 DEF Queried, Stages
    <3>3. over.at = "ok" /\ over.rows = none /\ over.found = s.found /\ over.age = s.age
      BY <2>2, <3>1 DEF Queried, Stages
    <3> QED BY <3>2, <3>3
  <2> HIDE DEF over
  <2> QED BY <2>1, <2>3
<1>7. ASSUME n > 0
      PROVE  /\ goes \in Queried /\ goes.at = "checking" /\ goes.found = s.found /\ goes.age = s.age
             /\ \A i \in 1 .. Len(goes.rows) : goes.rows[i] # Local
  <2>1. s.rows \in Seq(Web!Urls) /\ \A i \in 1 .. Len(s.rows) : s.rows[i] # Local
    BY <1>1, <1>2 DEF Queried, ThreadFresh
  <2>2. PICK rest \in Seq(Web!Urls) : rest = SubSeq(s.rows, n + 1, Len(s.rows))
                                      /\ \A i \in 1 .. Len(rest) : rest[i] # Local
    <3> DEFINE rest == SubSeq(s.rows, n + 1, Len(s.rows))
    <3>1. n + 1 \in 1 .. Len(s.rows) + 1 /\ Len(s.rows) \in Nat
      BY <1>4, <1>7, <2>1
    <3>2. \A i \in n + 1 .. Len(s.rows) : s.rows[i] \in Web!Urls \ {Local}
      BY <1>7, <2>1, <3>1
    <3>3. rest \in Seq(Web!Urls \ {Local})
      BY <3>1, <3>2, SubSeqProperties
    <3> HIDE DEF rest
    <3>4. rest \in Seq(Web!Urls) /\ \A i \in 1 .. Len(rest) : rest[i] # Local
      BY <3>3
    <3> QED BY <3>4 DEF rest
  <2>3. goes = [s EXCEPT !.at = "checking", !.rows = rest]
    BY <2>2
  <2> HIDE DEF goes
  <2> QED BY <1>2, <2>2, <2>3 DEF Queried, Stages
<1> HIDE DEF over, goes
<1>8. PICK t \in Queried, p \in {probes[q], ps} :
          /\ search' = [search EXCEPT ![q] = t] /\ probes' = [probes EXCEPT ![q] = p]
          /\ t.at = "ok" \/ (t.at = "checking" /\ p = ps)
          /\ t.found = s.found /\ t.age = s.age /\ \A i \in 1 .. Len(t.rows) : t.rows[i] # Local
  <2>1. probes \in [Searches -> Seq(Probings)]
    BY <1>1, TypesOfWeb
  <2>2. probes = [probes EXCEPT ![q] = probes[q]]
    BY <2>1
  <2>3. \A i \in 1 .. Len(over.rows) : over.rows[i] # Local
    BY <1>6
  <2>4. CASE search' = [search EXCEPT ![q] = over] /\ probes' \in {probes, [probes EXCEPT ![q] = ps]}
    BY <1>6, <2>2, <2>3, <2>4
  <2>5. CASE n > 0 /\ search' = [search EXCEPT ![q] = goes] /\ probes' = [probes EXCEPT ![q] = ps]
    BY <1>7, <2>5
  <2> QED BY <1>5, <2>4, <2>5
<1>9. Turn(q) /\ search'[q] = t /\ probes'[q] = p
  BY <1>1, <1>8, TypesOfWeb DEF Turn
<1>10. \A i \in 1 .. Len(ps) : ps[i].finds = "nothing" /\ Underway(ps[i])
  BY <1>1, <1>2, <1>3, BegunFits DEF ThreadFresh
<1>11. ProbesFresh(q)'
  <2>1. \A i \in 1 .. Len(p) : p[i].finds = "nothing" => Underway(p[i])
    BY <1>1, <1>8, <1>10 DEF ThreadFresh, ProbesFresh
  <2>2. t.at = "checking" => \A i \in 1 .. Len(p) : p[i].finds = "nothing"
    BY <1>8, <1>10
  <2>3. \A i \in 1 .. Len(p) : p[i].finds = "nothing" => (Underway(p[i]))'
    BY <1>1, <1>9, <2>1 DEF Underway
  <2> QED BY <1>9, <2>2, <2>3 DEF ProbesFresh, Underway
<1>12. FoundFresh(q)'
  BY <1>1, <1>2, <1>8, <1>9, SameView DEF ThreadFresh, FoundFresh
<1>13. ThreadFresh(q)'
  BY <1>1, <1>2, <1>8, <1>9, <1>11, <1>12 DEF ThreadFresh
<1> QED BY <1>1, <1>9, <1>13, SameView, OneThread

(* What a batch found, with what was found before.                         *)
LEMMA VerifiedFits ==
    ASSUME Links, NEW q \in Searches, search[q].at = "checking"
    PROVE  /\ Web!Verified(q) \in SUBSET Web!Urls /\ IsFiniteSet(Web!Verified(q))
           /\ \A u \in Web!Verified(q) :
                 u \in search[q].found \/ Fresh(u, PositiveTtl + search[q].age)
<1>1. Web!TypeOK /\ ThreadFresh(q)
  BY DEF Links
<1>2. PICK ps \in Seq(Probings) : ps = probes[q]
  BY <1>1, TypesOfWeb
<1>3. PICK s \in Queried : s = search[q]
  BY <1>1, TypesOfWeb
<1> DEFINE live == {x \in 1 .. Len(ps) : ps[x].finds = "available"}
           urls == {ps[i].url : i \in live}
           f == [i \in live |-> ps[i].url]
<1>4. Web!Verified(q) = s.found \cup urls
  BY <1>2, <1>3 DEF Web!Verified
<1>5. IsFiniteSet(live)
  <2>1. Len(ps) \in Nat
    OBVIOUS
  <2>2. IsFiniteSet(1 .. Len(ps))
    BY <2>1, FS_Interval
  <2> QED BY <2>2, FS_Subset
<1>6. IsFiniteSet(urls)
  <2>1. f \in Surjection(live, urls)
    BY DEF Surjection
  <2> HIDE DEF f, live, urls
  <2> QED BY <1>5, <2>1, FS_Surjection
<1>7. IsFiniteSet(s.found) /\ s.found \in SUBSET Web!Urls
  BY <1>1, <1>3 DEF ThreadFresh, Queried
<1>8. urls \in SUBSET Web!Urls
  <2>1. ASSUME NEW i \in live PROVE ps[i].url \in Web!Urls
    <3>1. ps[i] \in Probings
      OBVIOUS
    <3> QED BY <3>1 DEF Probings
  <2> HIDE DEF live
  <2> QED BY <2>1
<1>9. \A u \in urls : Fresh(u, PositiveTtl + search[q].age)
  BY <1>1, <1>2 DEF ThreadFresh, ProbesFresh
<1> HIDE DEF urls
<1> QED BY <1>3, <1>4, <1>6, <1>7, <1>8, <1>9, FS_Union

LEMMA StepCollect ==
    ASSUME Links, NEW q \in Searches, Web!Collect(q)
    PROVE  Links'
<1>1. /\ cache' = cache /\ UNCHANGED <<web, unseen, led, asked, moves>>
      /\ search[q].at = "checking" /\ Web!TypeOK /\ ThreadFresh(q) /\ CacheFresh
  BY DEF Web!Collect, Links
<1>2. PICK s \in Queried : s = search[q]
  BY <1>1, TypesOfWeb
<1>3. PICK found \in SUBSET Web!Urls : found = Web!Verified(q)
  BY <1>1, VerifiedFits
<1>4. PICK a \in {"ok", "batch"} : a = IF Web!Pending(q) THEN "ok" ELSE "batch"
  OBVIOUS
<1> DEFINE t == [s EXCEPT !.found = found, !.at = a]
<1>5. search' = [search EXCEPT ![q] = t]
  <2>1. search' = [search EXCEPT ![q] = [search[q] EXCEPT !.found = Web!Verified(q),
                       !.at = IF Web!Pending(q) THEN "ok" ELSE "batch"]]
    BY Zenon DEF Web!Collect, Web!Now
  <2> QED BY <1>2, <1>3, <1>4, <2>1
<1>6. t \in Queried /\ t.found = found /\ t.at = a /\ t.age = s.age /\ t.rows = s.rows
  BY <1>2, <1>3, <1>4 DEF Queried, Stages
<1> HIDE DEF t
<1> DEFINE none == <<>>
<1>7. none \in Seq(Probings) /\ Len(none) = 0
  OBVIOUS
<1>8. probes' = probes \/ probes' = [probes EXCEPT ![q] = none]
  BY DEF Web!Collect
<1> HIDE DEF none
<1>9. /\ probes \in [Searches -> Seq(Probings)] /\ search \in [Searches -> Queried]
      /\ cache \in Seq(Entries) /\ Len(cache) <= CacheSize
      /\ asked.age \in 0 .. Deadline /\ s.age \in Nat
  BY <1>1, <1>2, TypesOfWeb, WebFacts DEF Queried
<1>10. /\ probes' \in [Searches -> Seq(Probings)] /\ probes'[q] \in {probes[q], none}
       /\ \A r \in Searches \ {q} : probes'[r] = probes[r]
  BY <1>7, <1>8, <1>9
<1>11. Turn(q) /\ search'[q] = t
  BY <1>1, <1>5, <1>6, <1>9, <1>10 DEF Turn
<1>12. ProbesFresh(q)'
  <2>1. \A i \in 1 .. Len(probes'[q]) : probes'[q][i].finds = "nothing" => Underway(probes'[q][i])
    BY <1>1, <1>7, <1>10 DEF ThreadFresh, ProbesFresh
  <2>2. search'[q].at # "checking"
    BY <1>6, <1>11
  <2> QED BY <1>1, <2>1, <2>2, SameView DEF ProbesFresh
<1>13. FoundFresh(q)'
  <2>1. ASSUME q \in asked.queries, ~Web!Lone PROVE s.age <= asked.age
    BY <1>1, <1>2, <2>1 DEF ThreadFresh, FoundFresh
  <2>2. ASSUME q \in asked.queries, NEW u \in found
        PROVE  Fresh(u, PositiveTtl + IF Web!Lone THEN s.age ELSE asked.age)
    <3>1. u \in search[q].found \/ Fresh(u, PositiveTtl + s.age)
      BY <1>1, <1>2, <1>3, <2>2, VerifiedFits
    <3>2. CASE u \in search[q].found
      BY <1>1, <1>2, <2>2, <3>2 DEF ThreadFresh, FoundFresh
    <3>3. CASE Fresh(u, PositiveTtl + s.age)
      BY <1>1, <1>9, <2>1, <2>2, <3>3, WebFacts, FreshLater
    <3> QED BY <3>1, <3>2, <3>3
  <2>3. asked' = asked /\ (Web!Lone' <=> Web!Lone) /\ \A u, n : Fresh(u, n)' <=> Fresh(u, n)
    BY <1>1, SameView
  <2> QED BY <1>6, <1>11, <2>1, <2>2, <2>3 DEF FoundFresh
<1>14. ThreadFresh(q)'
  <2>1. IsFiniteSet(found) /\ \A i \in 1 .. Len(s.rows) : s.rows[i] # Local
    BY <1>1, <1>2, <1>3, VerifiedFits DEF ThreadFresh
  <2> QED BY <1>6, <1>11, <1>12, <1>13, <2>1 DEF ThreadFresh
<1> QED BY <1>1, <1>11, <1>14, SameView, OneThread

LEMMA StepDone ==
    ASSUME Links, NEW q \in Searches, Web!Done(q)
    PROVE  Links'
<1>1. /\ cache' = cache /\ UNCHANGED <<web, unseen, led, asked, moves>>
      /\ q \notin asked.queries /\ Web!TypeOK /\ ThreadFresh(q) /\ CacheFresh
  BY DEF Web!Done, Links
<1> DEFINE none == <<>>
<1>2. none \in Seq(Probings) /\ Len(none) = 0
  OBVIOUS
<1>3. probes' = [probes EXCEPT ![q] = none] /\ search' = [search EXCEPT ![q] = Web!Quiet]
  BY DEF Web!Done, Web!Now
<1> HIDE DEF none
<1>4. Turn(q) /\ search'[q] = Web!Quiet /\ probes'[q] = none
  BY <1>1, <1>2, <1>3, QuietFacts, TypesOfWeb DEF Turn
<1>5. search'[q].found = {} /\ \A i \in 1 .. Len(search'[q].rows) : search'[q].rows[i] # Local
  BY <1>4, QuietFacts
<1>6. ThreadFresh(q)'
  BY <1>1, <1>2, <1>4, <1>5, FS_EmptySet DEF ThreadFresh, ProbesFresh, FoundFresh
<1> QED BY <1>1, <1>4, <1>6, SameView, OneThread

(* The cache without an address, and with what is known of it now.         *)
LEMMA OthersFits ==
    ASSUME Web!TypeOK, CacheFresh, NEW u
    PROVE  /\ Web!Others(u) \in Seq(Entries) /\ Len(Web!Others(u)) <= CacheSize
           /\ Web!Holds(u) # {} => Len(Web!Others(u)) < CacheSize
           /\ \A j \in 1 .. Len(Web!Others(u)) : FreshEntry(Web!Others(u)[j])
<1>1. cache \in Seq(Entries) /\ Len(cache) \in Nat /\ Len(cache) <= CacheSize
  BY TypesOfWeb
<1>2. CASE Web!Holds(u) = {}
  <2>1. Web!Others(u) = cache
    BY <1>2 DEF Web!Others
  <2> QED BY <1>1, <1>2, <2>1 DEF CacheFresh
<1>3. CASE Web!Holds(u) # {}
  <2>1. PICK i \in 1 .. Len(cache) :
            Web!Others(u) = [j \in 1 .. Len(cache) - 1 |-> IF j < i THEN cache[j] ELSE cache[j + 1]]
    <3>1. PICK i \in Web!Holds(u) : i = CHOOSE x \in Web!Holds(u) : TRUE
      BY <1>3
    <3>2. i \in 1 .. Len(cache)
      BY <3>1 DEF Web!Holds
    <3> QED BY <1>3, <3>1, <3>2 DEF Web!Others
  <2>2. PICK n \in Nat : n = Len(cache) - 1
    BY <1>1
  <2>3. PICK o : o = Web!Others(u)
                 /\ o = [j \in 1 .. n |-> IF j < i THEN cache[j] ELSE cache[j + 1]]
    BY <2>1, <2>2
  <2>4. ASSUME NEW j \in 1 .. n PROVE o[j] \in Entries /\ FreshEntry(o[j])
    <3>1. PICK k \in 1 .. Len(cache) : o[j] = cache[k]
      BY <1>1, <2>2, <2>3
    <3> QED BY <1>1, <3>1 DEF CacheFresh
  <2>5. o \in [1 .. n -> Entries]
    BY <2>3, <2>4
  <2>6. o \in Seq(Entries) /\ Len(o) = n
    BY <2>5
  <2>7. \A j \in 1 .. Len(o) : FreshEntry(o[j])
    BY <2>4, <2>6
  <2>8. Len(o) <= CacheSize /\ Len(o) < CacheSize
    BY <1>1, <2>2, <2>6, WebFacts
  <2> QED BY <2>3, <2>6, <2>7, <2>8
<1> QED BY <1>2, <1>3

LEMMA Appending ==
    ASSUME NEW o \in Seq(Entries), NEW e \in Entries, FreshEntry(e),
           \A j \in 1 .. Len(o) : FreshEntry(o[j])
    PROVE  /\ Append(o, e) \in Seq(Entries) /\ Len(Append(o, e)) = Len(o) + 1
           /\ \A j \in 1 .. Len(Append(o, e)) : FreshEntry(Append(o, e)[j])
OBVIOUS

LEMMA RememberedFits ==
    ASSUME Web!TypeOK, CacheFresh, NEW p \in Probings, NEW finds \in Web!Finds,
           finds = "available" => Fresh(p.url, 0)
    PROVE  /\ Web!Remembered(p, finds) \in Seq(Entries)
           /\ Len(Web!Remembered(p, finds)) <= CacheSize
           /\ \A j \in 1 .. Len(Web!Remembered(p, finds)) : FreshEntry(Web!Remembered(p, finds)[j])
<1> DEFINE url == IF finds = "available" THEN p.url ELSE p.of
           e == [of |-> p.of, age |-> 0, finds |-> finds, url |-> url]
<1>1. e \in Entries /\ FreshEntry(e)
  BY WebFacts DEF Entries, Probings, FreshEntry
<1>2. PICK o \in Seq(Entries) :
          /\ o = Web!Others(p.of) /\ Len(o) <= CacheSize
          /\ \A j \in 1 .. Len(o) : FreshEntry(o[j])
  BY OthersFits
<1> HIDE DEF e
<1>3. PICK all \in Seq(Entries) :
          /\ all = Append(o, e) /\ Len(all) = Len(o) + 1
          /\ \A j \in 1 .. Len(all) : FreshEntry(all[j])
  BY <1>1, <1>2, Appending
<1>4. Web!Remembered(p, finds) = IF Len(all) > CacheSize THEN Tail(all) ELSE all
  BY <1>2, <1>3 DEF Web!Remembered, e
<1>5. /\ Tail(all) \in Seq(Entries) /\ Len(Tail(all)) = Len(o)
      /\ \A j \in 1 .. Len(o) : Tail(all)[j] = all[j + 1]
  BY <1>3
<1>6. \A j \in 1 .. Len(o) : FreshEntry(Tail(all)[j])
  <2>1. ASSUME NEW j \in 1 .. Len(o) PROVE FreshEntry(Tail(all)[j])
    <3>1. j + 1 \in 1 .. Len(all) /\ Tail(all)[j] = all[j + 1]
      BY <1>2, <1>3, <1>5
    <3> QED BY <1>3, <3>1
  <2> QED BY <2>1
<1>7. CASE Len(all) > CacheSize
  BY <1>2, <1>4, <1>5, <1>6, <1>7
<1>8. CASE ~(Len(all) > CacheSize)
  <2>1. Web!Remembered(p, finds) = all
    BY <1>4, <1>8
  <2>2. Len(all) <= CacheSize
    BY <1>2, <1>3, <1>8, WebFacts
  <2> QED BY <1>3, <2>1, <2>2
<1> QED BY <1>7, <1>8

(* One probe goes on.                                                      *)
Puts(q, i, v) == probes' = [probes EXCEPT ![q] = [probes[q] EXCEPT ![i] = v]]

LEMMA OneProbe ==
    ASSUME Links, NEW q \in Searches, NEW i \in 1 .. Len(probes[q]), NEW v \in Probings,
           Puts(q, i, v), UNCHANGED <<web, unseen, led, search, asked, moves>>,
           cache' \in Seq(Entries), Len(cache') <= CacheSize,
           \A j \in 1 .. Len(cache') : FreshEntry(cache'[j]),
           v.finds = "nothing" => Underway(v),
           v.finds = "available" /\ search[q].at = "checking" =>
               Fresh(v.url, PositiveTtl + search[q].age)
    PROVE  Links'
<1>1. Web!TypeOK /\ ThreadFresh(q)
  BY DEF Links
<1>2. PICK ps \in Seq(Probings) : ps = probes[q]
  BY <1>1, TypesOfWeb
<1>3. /\ probes' \in [Searches -> Seq(Probings)] /\ probes'[q] = [ps EXCEPT ![i] = v]
      /\ \A r \in Searches \ {q} : probes'[r] = probes[r]
  <2>1. [ps EXCEPT ![i] = v] \in Seq(Probings)
    BY <1>2
  <2> QED BY <1>1, <1>2, <2>1, TypesOfWeb DEF Puts
<1>4. Turn(q)
  BY <1>1, <1>3, TypesOfWeb DEF Turn
<1>5. CacheFresh'
  BY SameView DEF CacheFresh
<1>6. \A j \in 1 .. Len(probes'[q]) :
         /\ j \in 1 .. Len(ps)
         /\ probes'[q][j] = IF j = i THEN v ELSE ps[j]
  BY <1>2, <1>3
<1>7. ProbesFresh(q)'
  BY <1>1, <1>2, <1>6, SameView DEF ThreadFresh, ProbesFresh
<1>8. FoundFresh(q)'
  BY <1>1, SameView DEF ThreadFresh, FoundFresh
<1>9. ThreadFresh(q)'
  BY <1>1, <1>7, <1>8 DEF ThreadFresh
<1> QED BY <1>4, <1>5, <1>9, OneThread

LEMMA StepLookUp ==
    ASSUME Links, NEW q \in Searches, NEW i \in DOMAIN probes[q], Web!LookUp(q, i)
    PROVE  Links'
<1>1. Web!TypeOK /\ CacheFresh /\ ThreadFresh(q)
  BY DEF Links
<1>2. PICK ps \in Seq(Probings) : ps = probes[q]
  BY <1>1, TypesOfWeb
<1>3. i \in 1 .. Len(probes[q]) /\ ps[i] \in Probings
  BY <1>2
<1>4. PICK p \in Probings : p = ps[i]
  BY <1>3
<1>5. PICK x \in Web!Hits(p.of) :
          /\ cache' = Append(Web!Others(p.of), cache[x])
          /\ probes' = [probes EXCEPT ![q][i].finds = cache[x].finds, ![q][i].url = cache[x].url]
          /\ UNCHANGED <<web, unseen, led, search, asked, moves>>
  BY <1>2, <1>4 DEF Web!LookUp
<1>6. PICK e \in Entries : e = cache[x] /\ Web!Current(e) /\ FreshEntry(e)
  BY <1>1, <1>5, TypesOfWeb DEF Web!Hits, Web!Holds, CacheFresh
<1> DEFINE v == [p EXCEPT !.finds = e.finds, !.url = e.url]
<1>7. v \in Probings /\ v.finds = e.finds /\ v.url = e.url
  BY <1>4, <1>6 DEF Probings, Entries
<1>8. Puts(q, i, v)
  BY <1>1, <1>2, <1>3, <1>4, <1>5, <1>6, TypesOfWeb DEF Puts
<1> HIDE DEF v
<1>9. /\ cache' \in Seq(Entries) /\ Len(cache') <= CacheSize
      /\ \A j \in 1 .. Len(cache') : FreshEntry(cache'[j])
  <2>1. Web!Holds(p.of) # {}
    BY <1>5 DEF Web!Hits
  <2>2. PICK o \in Seq(Entries) :
            /\ o = Web!Others(p.of) /\ Len(o) < CacheSize
            /\ \A j \in 1 .. Len(o) : FreshEntry(o[j])
    BY <1>1, <2>1, OthersFits
  <2>3. cache' = Append(o, e)
    BY <1>5, <1>6, <2>2
  <2>4. /\ Append(o, e) \in Seq(Entries) /\ Len(Append(o, e)) = Len(o) + 1
        /\ \A j \in 1 .. Len(Append(o, e)) : FreshEntry(Append(o, e)[j])
    BY <1>6, <2>2, Appending
  <2>5. Len(o) + 1 <= CacheSize
    BY <2>2, WebFacts
  <2> QED BY <2>3, <2>4, <2>5
<1>10. v.finds # "nothing"
  BY <1>7, <1>6 DEF Entries, Web!Finds
<1>11. ASSUME v.finds = "available"
       PROVE  Fresh(v.url, PositiveTtl + search[q].age)
  <2>1. e.age \in Nat /\ e.age <= PositiveTtl /\ search[q].age \in Nat
    <3>1. e.age \in Nat /\ search[q].age \in Nat
      <4>1. PICK s \in Queried : s = search[q]
        BY <1>1, TypesOfWeb
      <4>2. s.age \in 0 .. LinkDeadline /\ e.age \in 0 .. Web!Oldest
        BY <1>6 DEF Entries, Queried
      <4> QED BY <4>1, <4>2, WebFacts
    <3>2. e.finds = "available"
      BY <1>7, <1>11
    <3>3. e.age <= PositiveTtl
      BY <1>6, <3>2 DEF Web!Current
    <3> QED BY <3>1, <3>3
  <2>2. Fresh(v.url, e.age)
    BY <1>6, <1>7, <1>11, <2>1, WebFacts DEF FreshEntry
  <2> QED BY <1>1, <2>1, <2>2, WebFacts, FreshLater
<1> QED BY <1>3, <1>5, <1>7, <1>8, <1>9, <1>10, <1>11, OneProbe

(* What an address answers to a probe that is at it.                       *)
LEMMA AnswersFit ==
    ASSUME Web!TypeOK, Seen, NEW p \in Probings, Underway(p)
    PROVE  /\ Web!Answers(p) = "there" => Fresh(p.url, 0)
           /\ Web!Answers(p) \in Web!Urls /\ p.of \in Spellings => Web!Answers(p) = Watch
           /\ p.of \notin Spellings /\ Web!Answers(p) \in Spellings => led
<1>1. p.url \in Web!Urls /\ p.url # Local
  BY DEF Probings, Underway
<1>2. CASE p.url \notin Spellings
  <2>1. p.url \in Pages /\ p.url \in Web!Served /\ p.of \notin Spellings
    BY <1>1, <1>2, WebFacts DEF Web!Urls, Web!Served, Underway
  <2>2. Web!Answers(p) = web[p.url]
    BY <1>2 DEF Web!Answers
  <2>3. web[p.url] = "there" => unseen[p.url] <= 0
    BY <2>1 DEF Seen
  <2>4. web[p.url] \in Spellings => led
    BY <2>1 DEF Seen
  <2> QED BY <2>1, <2>2, <2>3, <2>4 DEF Fresh
<1>3. CASE p.of \in Spellings
  <2>1. p.url = Watch /\ Watch \in Web!Served /\ Watch \in Spellings /\ Watch \notin Redirecting
    BY <1>3, WebFacts DEF Underway, Web!Served
  <2>2. Web!Answers(p) = web[Watch]
    BY <1>3, <2>1 DEF Web!Answers
  <2>3. web[Watch] \in Web!States
    BY <2>1, TypesOfWeb DEF Web!Tells
  <2>4. web[Watch] \notin Web!Urls
    BY <2>3, WebFacts DEF Web!States
  <2>5. web[Watch] = "there" => unseen[Watch] <= 0
    BY <2>1 DEF Seen
  <2> QED BY <1>3, <2>1, <2>2, <2>4, <2>5 DEF Fresh
<1>4. CASE p.of \notin Spellings /\ p.url \in Spellings
  <2>1. led
    BY <1>4 DEF Underway
  <2>2. Web!Answers(p) = IF p.url = Watch THEN "there" ELSE Watch
    BY <1>4 DEF Web!Answers
  <2>3. Watch # "there" /\ Watch \in Web!Served
    BY WebFacts DEF Web!Urls, Web!Served
  <2> QED BY <1>4, <2>1, <2>2, <2>3 DEF Fresh
<1> QED BY <1>2, <1>3, <1>4

LEMMA StepRequest ==
    ASSUME Links, NEW q \in Searches, NEW i \in DOMAIN probes[q], Web!Request(q, i)
    PROVE  Links'
<1>1. Web!TypeOK /\ CacheFresh /\ ThreadFresh(q) /\ Seen
  BY DEF Links
<1>2. PICK ps \in Seq(Probings) : ps = probes[q]
  BY <1>1, TypesOfWeb
<1>3. i \in 1 .. Len(probes[q]) /\ ps[i] \in Probings
  BY <1>2
<1>4. PICK p \in Probings : p = ps[i]
  BY <1>3
<1>5. UNCHANGED <<web, unseen, led, search, asked, moves>> /\ p.finds = "nothing"
  BY <1>2, <1>4 DEF Web!Request
<1>6. Underway(p)
  BY <1>1, <1>2, <1>3, <1>4, <1>5 DEF ThreadFresh, ProbesFresh
<1>7. PICK age \in Nat : age = search[q].age
  <2>1. PICK s \in Queried : s = search[q]
    BY <1>1, TypesOfWeb
  <2>2. s.age \in 0 .. LinkDeadline
    BY DEF Queried
  <2> QED BY <2>1, <2>2, WebFacts
<1>8. probes \in [Searches -> Seq(Probings)]
  BY <1>1, TypesOfWeb
<1>9. ASSUME NEW f \in Web!Finds, f = "available" => Fresh(p.url, 0),
             probes' = [probes EXCEPT ![q][i].finds = f], cache' = Web!Remembered(p, f)
      PROVE  Links'
  <2> DEFINE v == [p EXCEPT !.finds = f]
  <2>1. v \in Probings /\ v.finds = f /\ v.url = p.url /\ f # "nothing"
    BY DEF Probings, Web!Finds
  <2>2. Puts(q, i, v)
    BY <1>2, <1>3, <1>4, <1>8, <1>9 DEF Puts
  <2> HIDE DEF v
  <2>3. /\ cache' \in Seq(Entries) /\ Len(cache') <= CacheSize
        /\ \A j \in 1 .. Len(cache') : FreshEntry(cache'[j])
    BY <1>1, <1>9, RememberedFits
  <2>4. ASSUME f = "available" PROVE Fresh(v.url, PositiveTtl + age)
    <3>1. Fresh(v.url, 0)
      BY <1>9, <2>1, <2>4
    <3>2. PICK m \in Nat : m = PositiveTtl + age
      BY WebFacts
    <3>3. 0 \in Nat /\ 0 <= m
      OBVIOUS
    <3> QED BY <1>1, <3>1, <3>2, <3>3, FreshLater
  <2> QED BY <1>3, <1>5, <1>7, <2>1, <2>2, <2>3, <2>4, OneProbe
<1>10. ASSUME NEW a \in Web!Urls, a = Web!Answers(p), a # Local, p.hops < Redirects,
              probes' = [probes EXCEPT ![q][i].url = a, ![q][i].hops = @ + 1],
              cache' \in {cache, Web!Others(p.of)}
       PROVE  Links'
  <2> DEFINE v == [p EXCEPT !.url = a, !.hops = p.hops + 1]
  <2>1. p.hops + 1 \in 0 .. Redirects
    <3>1. PICK h \in 0 .. Redirects : h = p.hops
      BY DEF Probings
    <3>2. h < Redirects
      BY <1>10, <3>1
    <3> QED BY <3>1, <3>2, WebFacts
  <2>2. v \in Probings /\ v.finds = "nothing" /\ v.url = a /\ v.of = p.of
    BY <1>5, <2>1 DEF Probings
  <2>3. Puts(q, i, v)
    BY <1>2, <1>3, <1>4, <1>8, <1>10 DEF Puts
  <2> HIDE DEF v
  <2>4. Underway(v)
    BY <1>1, <1>6, <1>10, <2>2, AnswersFit DEF Underway
  <2>5. /\ cache' \in Seq(Entries) /\ Len(cache') <= CacheSize
        /\ \A j \in 1 .. Len(cache') : FreshEntry(cache'[j])
    BY <1>1, <1>10, OthersFits, TypesOfWeb DEF CacheFresh
  <2> QED BY <1>3, <1>5, <2>2, <2>3, <2>4, <2>5, OneProbe
<1>11. \/ /\ Web!Answers(p) = "there" /\ probes' = [probes EXCEPT ![q][i].finds = "available"]
          /\ cache' = Web!Remembered(p, "available")
       \/ \E f \in {"unavailable", "unknown"} :
              probes' = [probes EXCEPT ![q][i].finds = f] /\ cache' = Web!Remembered(p, f)
       \/ /\ Web!Answers(p) \in Web!Urls /\ Web!Answers(p) # Local /\ p.hops < Redirects
          /\ probes' = [probes EXCEPT ![q][i].url = Web!Answers(p), ![q][i].hops = @ + 1]
          /\ cache' \in {cache, Web!Others(p.of)}
  BY <1>2, <1>4 DEF Web!Request, Web!Public
<1>12. CASE /\ Web!Answers(p) = "there" /\ probes' = [probes EXCEPT ![q][i].finds = "available"]
            /\ cache' = Web!Remembered(p, "available")
  <2>1. Fresh(p.url, 0)
    BY <1>1, <1>6, <1>12, AnswersFit
  <2>2. "available" \in Web!Finds
    BY DEF Web!Finds
  <2> QED BY <1>9, <1>12, <2>1, <2>2
<1>13. CASE \E f \in {"unavailable", "unknown"} :
              probes' = [probes EXCEPT ![q][i].finds = f] /\ cache' = Web!Remembered(p, f)
  <2>1. PICK f \in {"unavailable", "unknown"} :
              probes' = [probes EXCEPT ![q][i].finds = f] /\ cache' = Web!Remembered(p, f)
    BY <1>13
  <2>2. f \in Web!Finds /\ f # "available"
    BY DEF Web!Finds
  <2> QED BY <1>9, <2>1, <2>2
<1>14. CASE /\ Web!Answers(p) \in Web!Urls /\ Web!Answers(p) # Local /\ p.hops < Redirects
            /\ probes' = [probes EXCEPT ![q][i].url = Web!Answers(p), ![q][i].hops = @ + 1]
            /\ cache' \in {cache, Web!Others(p.of)}
  <2>1. PICK a \in Web!Urls : a = Web!Answers(p)
    BY <1>14
  <2> QED BY <1>10, <1>14, <2>1
<1> QED BY <1>11, <1>12, <1>13, <1>14

LEMMA StepAsk ==
    ASSUME Links, NEW Q \in SUBSET Searches, Web!Ask(Q)
    PROVE  Links'
<1> DEFINE t == [Web!Quiet EXCEPT !.at = "queued"]
<1>1. /\ cache' = cache /\ UNCHANGED <<web, unseen, led, probes, moves>>
      /\ asked' = [queries |-> Q, age |-> 0] /\ Web!TypeOK /\ CacheFresh /\ Seen
      /\ search' = [q \in Searches |-> IF q \in Q THEN t ELSE search[q]]
  BY DEF Web!Ask, Links
<1>2. t \in Queried /\ t.at = "queued" /\ t.found = {} /\ t.age = 0 /\ t.rows = <<>>
  BY QuietFacts DEF Queried, Stages
<1> HIDE DEF t
<1>3. Web!TypeOK'
  <2>1. (search \in [Searches -> Queried])'
    BY <1>1, <1>2, TypesOfWeb
  <2>2. (asked \in [queries : SUBSET Searches, age : 0 .. Deadline])'
    BY <1>1, WebFacts
  <2>3. /\ (web \in [Web!Served -> Web!States \cup Web!Urls])'
        /\ (\A u \in Web!Served : web[u] \in Web!Tells(u))'
        /\ (led \in BOOLEAN)' /\ (unseen \in [Web!Served -> 0 .. Web!Longest + 1])'
        /\ (cache \in Seq(Entries))' /\ (Len(cache) <= CacheSize)'
        /\ (probes \in [Searches -> Seq(Probings)])' /\ (moves \in 0 .. MaxMoves)'
    BY <1>1, TypesOfWeb
  <2> QED BY <2>1, <2>2, <2>3, TypesFromParts
<1>4. Seen' /\ CacheFresh'
  BY <1>1 DEF Seen, CacheFresh, FreshEntry, Fresh
<1>5. ASSUME NEW q \in Searches PROVE ThreadFresh(q)'
  <2>1. ThreadFresh(q) /\ probes' = probes /\ asked'.queries = Q /\ asked'.age = 0
    BY <1>1 DEF Links
  <2>2. \A p : Underway(p)' <=> Underway(p)
    BY <1>1 DEF Underway
  <2>3. \A u, n : Fresh(u, n)' <=> Fresh(u, n)
    BY <1>1 DEF Fresh
  <2>4. CASE q \in Q
    <3>1. search'[q] = t
      BY <1>1, <2>4
    <3>2. \A i \in 1 .. Len(search'[q].rows) : search'[q].rows[i] # Local
      BY <1>2, <3>1
    <3>3. ProbesFresh(q)'
      BY <1>2, <2>1, <2>2, <3>1 DEF ThreadFresh, ProbesFresh
    <3>4. FoundFresh(q)'
      BY <1>2, <2>1, <3>1 DEF FoundFresh
    <3> QED BY <1>2, <3>1, <3>2, <3>3, <3>4, FS_EmptySet DEF ThreadFresh
  <2>5. CASE q \notin Q
    <3>1. search'[q] = search[q]
      BY <1>1, <2>5
    <3>2. ProbesFresh(q)'
      BY <2>1, <2>2, <2>3, <3>1 DEF ThreadFresh, ProbesFresh
    <3>3. FoundFresh(q)'
      BY <2>1, <2>5, <3>1 DEF ThreadFresh, FoundFresh
    <3> QED BY <2>1, <3>1, <3>2, <3>3 DEF ThreadFresh
  <2> QED BY <2>4, <2>5
<1> QED BY <1>3, <1>4, <1>5 DEF Links

LEMMA StepGive ==
    ASSUME Links, Web!Give
    PROVE  Links'
<1>1. /\ cache' = cache /\ UNCHANGED <<web, unseen, led, probes, moves>>
      /\ asked' = Web!Nothing /\ Web!TypeOK /\ CacheFresh /\ Seen
      /\ search' = [q \in Searches |->
            IF q \in asked.queries /\ (search[q].at = "queued" \/ Web!Ends(q)) THEN Web!Quiet
            ELSE search[q]]
  BY DEF Web!Give, Links
<1>2. \A q \in Searches : search'[q] \in {search[q], Web!Quiet}
  BY <1>1
<1>3. asked'.queries = {} /\ asked' \in [queries : SUBSET Searches, age : 0 .. Deadline]
  BY <1>1, WebFacts DEF Web!Nothing
<1>4. Web!TypeOK'
  <2>1. (search \in [Searches -> Queried])'
    BY <1>1, QuietFacts, TypesOfWeb
  <2>2. /\ (web \in [Web!Served -> Web!States \cup Web!Urls])'
        /\ (\A u \in Web!Served : web[u] \in Web!Tells(u))'
        /\ (led \in BOOLEAN)' /\ (unseen \in [Web!Served -> 0 .. Web!Longest + 1])'
        /\ (cache \in Seq(Entries))' /\ (Len(cache) <= CacheSize)'
        /\ (probes \in [Searches -> Seq(Probings)])' /\ (moves \in 0 .. MaxMoves)'
    BY <1>1, TypesOfWeb
  <2> QED BY <1>3, <2>1, <2>2, TypesFromParts
<1>5. Seen' /\ CacheFresh'
  BY <1>1 DEF Seen, CacheFresh, FreshEntry, Fresh
<1>6. ASSUME NEW q \in Searches PROVE ThreadFresh(q)'
  <2>1. ThreadFresh(q) /\ probes' = probes
    BY <1>1 DEF Links
  <2>2. \A p : Underway(p)' <=> Underway(p)
    BY <1>1 DEF Underway
  <2>3. \A u, n : Fresh(u, n)' <=> Fresh(u, n)
    BY <1>1 DEF Fresh
  <2>4. CASE search'[q] = Web!Quiet
    <3>1. \A i \in 1 .. Len(search'[q].rows) : search'[q].rows[i] # Local
      BY <2>4, QuietFacts
    <3>2. ProbesFresh(q)'
      BY <2>1, <2>2, <2>4, QuietFacts DEF ThreadFresh, ProbesFresh
    <3>3. FoundFresh(q)'
      BY <1>3, <2>4, QuietFacts DEF FoundFresh
    <3> QED BY <2>4, <3>1, <3>2, <3>3, FS_EmptySet, QuietFacts DEF ThreadFresh
  <2>5. CASE search'[q] = search[q]
    <3>1. ProbesFresh(q)'
      BY <2>1, <2>2, <2>3, <2>5 DEF ThreadFresh, ProbesFresh
    <3>2. FoundFresh(q)'
      BY <1>3, <2>1, <2>5 DEF ThreadFresh, FoundFresh
    <3> QED BY <2>1, <2>5, <3>1, <3>2 DEF ThreadFresh
  <2> QED BY <1>2, <2>4, <2>5
<1> QED BY <1>4, <1>5, <1>6 DEF Links

(* Pages change: what was there a moment ago has not been away, and what a *)
(* page leads to is known.                                                 *)
LEMMA StepMoves ==
    ASSUME Links, NEW x \in Web!Served, Web!Moves(x)
    PROVE  Links'
<1>1. /\ moves < MaxMoves /\ moves' = moves + 1
      /\ unseen' = [v \in Web!Served |-> IF "there" \in {web[v], web'[v]} THEN 0 ELSE unseen[v]]
      /\ led' = (led \/ \E v \in Pages : web'[v] \in Spellings)
      /\ UNCHANGED <<cache, search, probes, asked>>
      /\ Web!TypeOK /\ CacheFresh /\ Seen
  BY DEF Web!Moves, Links
<1>2. PICK a \in Web!Tells(x) : web' = [web EXCEPT ![x] = a]
  BY DEF Web!Moves
<1>3. Web!TypeOK'
  <2>1. /\ (web \in [Web!Served -> Web!States \cup Web!Urls])'
        /\ (\A u \in Web!Served : web[u] \in Web!Tells(u))'
    BY <1>1, <1>2, TypesOfWeb DEF Web!Tells
  <2>2. (unseen \in [Web!Served -> 0 .. Web!Longest + 1])'
    BY <1>1, TypesOfWeb, WebFacts
  <2>3. (led \in BOOLEAN)' /\ (moves \in 0 .. MaxMoves)'
    BY <1>1, TypesOfWeb, WebFacts
  <2>4. /\ (cache \in Seq(Entries))' /\ (Len(cache) <= CacheSize)'
        /\ (search \in [Searches -> Queried])' /\ (probes \in [Searches -> Seq(Probings)])'
        /\ (asked \in [queries : SUBSET Searches, age : 0 .. Deadline])'
    BY <1>1, TypesOfWeb
  <2> QED BY <2>1, <2>2, <2>3, <2>4, TypesFromParts
<1>4. Seen'
  BY <1>1 DEF Seen
<1>5. ASSUME NEW u, NEW n \in Nat, Fresh(u, n) PROVE Fresh(u, n)'
  BY <1>1, <1>5, TypesOfWeb DEF Fresh
<1>6. CacheFresh'
  <2>1. ASSUME NEW i \in 1 .. Len(cache) PROVE FreshEntry(cache[i])'
    <3>1. PICK e \in Entries : e = cache[i] /\ FreshEntry(e)
      BY <1>1, TypesOfWeb DEF CacheFresh
    <3>2. e.age \in Nat
      BY WebFacts DEF Entries
    <3>3. FreshEntry(e)'
      BY <1>5, <3>1, <3>2 DEF FreshEntry
    <3> QED BY <1>1, <3>1, <3>3
  <2> QED BY <1>1, <2>1 DEF CacheFresh
<1>7. ASSUME NEW q \in Searches PROVE ThreadFresh(q)'
  <2>1. ThreadFresh(q) /\ probes' = probes /\ search' = search /\ asked' = asked
    BY <1>1 DEF Links
  <2>2. PICK age \in Nat, called \in Nat : age = search[q].age /\ called = asked.age
    BY <1>1, AgesOfWeb
  <2>3. ProbesFresh(q)'
    <3>1. \A p : Underway(p) => Underway(p)'
      BY <1>1 DEF Underway
    <3>2. PositiveTtl + age \in Nat
      BY WebFacts
    <3> QED BY <1>5, <2>1, <2>2, <3>1, <3>2 DEF ThreadFresh, ProbesFresh
  <2>4. FoundFresh(q)'
    <3>1. Web!Lone' <=> Web!Lone
      BY <2>1 DEF Web!Lone
    <3>2. (PositiveTtl + IF Web!Lone THEN age ELSE called) \in Nat
      BY WebFacts
    <3> QED BY <1>5, <2>1, <2>2, <3>1, <3>2 DEF ThreadFresh, FoundFresh
  <2> QED BY <2>1, <2>3, <2>4 DEF ThreadFresh
<1> QED BY <1>3, <1>4, <1>6, <1>7 DEF Links

(* Time goes on: what was away stays away one tick longer, and so do the   *)
(* ages of whatever has been found. It does not go on while a call can be  *)
(* answered: that keeps what a single search found as old as the search.   *)
LEMMA StepTick ==
    ASSUME Links, Web!Tick
    PROVE  Links'
<1>1. /\ ~Web!Waits /\ UNCHANGED <<web, led, probes, moves>>
      /\ unseen' = [u \in Web!Served |->
            IF web[u] = "there" THEN 0 ELSE Web!Older(unseen[u], Web!Longest + 1)]
      /\ cache' = [i \in DOMAIN cache |->
            [cache[i] EXCEPT !.age = Web!Older(cache[i].age, Web!Oldest)]]
      /\ Web!TypeOK /\ CacheFresh /\ Seen
  BY DEF Web!Tick, Links
<1>2. ASSUME NEW u, NEW n \in Nat, Fresh(u, n) PROVE Fresh(u, n + 1)'
  <2>1. u \in Web!Served /\ led' = led
    BY <1>1, <1>2 DEF Fresh
  <2>2. CASE unseen[u] <= n
    <3>1. PICK m \in Nat : m = unseen[u] /\ m <= n
      BY <1>1, <2>1, <2>2, TypesOfWeb, WebFacts
    <3>2. unseen'[u] \in {0, m + 1, Web!Longest + 1} /\ unseen'[u] <= m + 1
      BY <1>1, <2>1, <3>1, WebFacts DEF Web!Older, Web!Least
    <3>3. unseen'[u] <= n + 1
      BY <3>1, <3>2, WebFacts
    <3> QED BY <2>1, <3>3 DEF Fresh
  <2>3. CASE u = Watch /\ led
    BY <2>1, <2>3 DEF Fresh
  <2> QED BY <1>2, <2>2, <2>3 DEF Fresh
<1>3. ASSUME NEW i \in 1 .. Len(cache)
      PROVE  cache'[i] \in Entries /\ FreshEntry(cache[i])'
  <2>1. PICK e \in Entries : e = cache[i] /\ FreshEntry(e)
    BY <1>1, TypesOfWeb DEF CacheFresh
  <2>2. PICK age \in 0 .. Web!Oldest : age = e.age
    BY <2>1 DEF Entries
  <2>3. PICK later \in 0 .. Web!Oldest :
            /\ later = Web!Older(age, Web!Oldest)
            /\ later = Web!Oldest \/ later = age + 1
            /\ age = Web!Oldest => later = Web!Oldest
    BY <2>2, WebFacts DEF Web!Older, Web!Least
  <2>4. PICK f : f = cache'[i] /\ f = [e EXCEPT !.age = later]
    <3>1. i \in DOMAIN cache
      BY <1>1, TypesOfWeb
    <3> QED BY <1>1, <2>1, <2>2, <2>3, <3>1
  <2>5. f \in Entries /\ f.age = later /\ f.finds = e.finds /\ f.url = e.url
    BY <2>1, <2>3, <2>4 DEF Entries
  <2>6. FreshEntry(f)'
    <3>1. SUFFICES ASSUME e.finds = "available", later = age + 1, later # Web!Oldest
                   PROVE  Fresh(e.url, later)'
      BY <2>3, <2>5 DEF FreshEntry
    <3>2. Fresh(e.url, age) /\ age \in Nat
      BY <2>1, <2>2, <2>3, <3>1, WebFacts DEF FreshEntry
    <3> QED BY <1>2, <3>1, <3>2
  <2> QED BY <2>4, <2>5, <2>6 DEF FreshEntry, Fresh
<1>4. cache' \in Seq(Entries) /\ Len(cache') = Len(cache)
  <2>1. PICK n \in Nat : n = Len(cache) /\ DOMAIN cache = 1 .. n
    <3>1. PICK c \in Seq(Entries) : c = cache
      BY <1>1, TypesOfWeb
    <3> QED BY <3>1
  <2>2. DOMAIN cache' = 1 .. n
    BY <1>1, <2>1
  <2>3. cache' \in [1 .. n -> Entries]
    BY <1>1, <1>3, <2>1
  <2> QED BY <2>1, <2>3
<1>5. CacheFresh'
  BY <1>3, <1>4 DEF CacheFresh
<1>6. Seen'
  BY <1>1 DEF Seen
(* Threads.                                                                *)
<1>7. ASSUME NEW q \in Searches
      PROVE  \E t \in Queried :
                /\ t = search'[q] /\ t.at = search[q].at
                /\ t.rows = search[q].rows /\ t.found = search[q].found
                /\ t.age = IF t.at \in {"batch", "checking"} THEN search[q].age + 1 ELSE search[q].age
  <2>1. PICK s \in Queried : s = search[q]
    BY <1>1, TypesOfWeb
  <2>2. search'[q] = IF s.at \in {"batch", "checking"} THEN [s EXCEPT !.age = s.age + 1] ELSE s
    BY <2>1 DEF Web!Tick
  <2>3. CASE s.at \in {"batch", "checking"}
    <3>1. PICK age \in 0 .. LinkDeadline : age = s.age
      BY DEF Queried
    <3>2. age # LinkDeadline
      BY <1>1, <2>1, <2>3, <3>1 DEF Web!Waits
    <3>3. PICK later \in 0 .. LinkDeadline : later = age + 1
      BY <3>1, <3>2, WebFacts
    <3>4. PICK t : t = search'[q] /\ t = [s EXCEPT !.age = later]
      BY <2>2, <2>3, <3>1, <3>3
    <3>5. t \in Queried /\ t.at = s.at /\ t.rows = s.rows /\ t.found = s.found /\ t.age = later
      BY <3>4 DEF Queried
    <3> QED BY <2>1, <2>3, <3>1, <3>3, <3>4, <3>5
  <2>4. CASE s.at \notin {"batch", "checking"}
    BY <2>1, <2>2, <2>4
  <2> QED BY <2>3, <2>4
<1>8. search' \in [Searches -> Queried]
  <2>1. \A q \in Searches : search'[q] \in Queried
    BY <1>7
  <2>2. search' = [q \in Searches |-> search'[q]]
    BY DEF Web!Tick
  <2> QED BY <2>1, <2>2
<1>9. /\ asked'.queries = asked.queries /\ asked'.age \in 0 .. Deadline
      /\ asked' \in [queries : SUBSET Searches, age : 0 .. Deadline]
      /\ asked.queries # {} /\ ~Web!Lone => asked'.age = asked.age + 1
  <2>1. PICK c \in [queries : SUBSET Searches, age : 0 .. Deadline] : c = asked
    BY <1>1, TypesOfWeb
  <2>2. CASE c = Web!Nothing \/ Web!Lone
    <3>1. asked' = asked
      BY <2>1, <2>2 DEF Web!Tick
    <3>2. c = Web!Nothing => c.queries = {}
      BY DEF Web!Nothing
    <3> QED BY <2>1, <2>2, <3>1, <3>2
  <2>3. CASE c # Web!Nothing /\ ~Web!Lone
    <3>1. asked' = [c EXCEPT !.age = c.age + 1]
      BY <2>1, <2>3 DEF Web!Tick
    <3>2. c.age # Deadline
      BY <1>1, <2>1, <2>3 DEF Web!Waits, Web!Ready
    <3>3. PICK later \in 0 .. Deadline : later = c.age + 1
      BY <2>1, <3>2, WebFacts
    <3>4. asked' = [c EXCEPT !.age = later]
      BY <3>1, <3>3
    <3> QED BY <2>1, <2>3, <3>3, <3>4
  <2> QED BY <2>1, <2>2, <2>3
<1>10. Web!TypeOK'
  <2>1. (unseen \in [Web!Served -> 0 .. Web!Longest + 1])'
    <3>1. ASSUME NEW u \in Web!Served PROVE unseen'[u] \in 0 .. Web!Longest + 1
      <4>1. PICK m \in 0 .. Web!Longest + 1 : m = unseen[u]
        BY <1>1, TypesOfWeb
      <4>2. unseen'[u] = IF web[u] = "there" THEN 0 ELSE Web!Older(m, Web!Longest + 1)
        BY <1>1, <4>1
      <4> QED BY <4>1, <4>2, WebFacts DEF Web!Older, Web!Least
    <3> QED BY <1>1, <3>1
  <2>2. /\ (web \in [Web!Served -> Web!States \cup Web!Urls])'
        /\ (\A u \in Web!Served : web[u] \in Web!Tells(u))'
        /\ (led \in BOOLEAN)' /\ (moves \in 0 .. MaxMoves)'
        /\ (probes \in [Searches -> Seq(Probings)])'
    BY <1>1, TypesOfWeb
  <2>3. (cache \in Seq(Entries))' /\ (Len(cache) <= CacheSize)'
    BY <1>1, <1>4, TypesOfWeb
  <2> QED BY <1>8, <1>9, <2>1, <2>2, <2>3, TypesFromParts
<1>11. ASSUME NEW q \in Searches PROVE ThreadFresh(q)'
  <2>1. ThreadFresh(q) /\ probes' = probes
    BY <1>1 DEF Links
  <2>2. PICK age \in Nat, called \in Nat : age = search[q].age /\ called = asked.age
    BY <1>1, AgesOfWeb
  <2>3. PICK t \in Queried :
            /\ t = search'[q] /\ t.at = search[q].at
            /\ t.rows = search[q].rows /\ t.found = search[q].found
            /\ t.age = IF t.at \in {"batch", "checking"} THEN age + 1 ELSE age
    BY <1>7, <2>2
  <2>4. ProbesFresh(q)'
    <3>1. \A p : Underway(p)' <=> Underway(p)
      BY <1>1 DEF Underway
    <3>2. PositiveTtl + age \in Nat /\ PositiveTtl + (age + 1) = (PositiveTtl + age) + 1
      BY WebFacts
    <3>3. ASSUME NEW i \in 1 .. Len(probes[q]), probes[q][i].finds = "available", t.at = "checking"
          PROVE  Fresh(probes[q][i].url, PositiveTtl + t.age)'
      <4>1. Fresh(probes[q][i].url, PositiveTtl + age)
        BY <2>1, <2>2, <2>3, <3>3 DEF ThreadFresh, ProbesFresh
      <4>2. Fresh(probes[q][i].url, (PositiveTtl + age) + 1)'
        BY <1>2, <2>1, <3>2, <4>1
      <4> QED BY <2>3, <3>2, <3>3, <4>2
    <3> QED BY <2>1, <2>3, <3>1, <3>3 DEF ThreadFresh, ProbesFresh
  <2>5. FoundFresh(q)'
    <3>0. PICK later : later = asked'.age
      OBVIOUS
    <3>1. Web!Lone' <=> Web!Lone
      BY <1>9 DEF Web!Lone
    <3>2. t.at \in {"queued", "engines", "done"} => t.found = {}
      BY <2>1, <2>3 DEF ThreadFresh, FoundFresh
    <3>3. ASSUME q \in asked.queries, ~Web!Lone
          PROVE  t.age <= later /\ \A u \in t.found : Fresh(u, PositiveTtl + later)'
      <4>1. later = called + 1 /\ age <= called
        BY <1>9, <2>1, <2>2, <3>0, <3>3 DEF ThreadFresh, FoundFresh
      <4>2. PositiveTtl + called \in Nat /\ PositiveTtl + (called + 1) = (PositiveTtl + called) + 1
        BY WebFacts
      <4>3. ASSUME NEW u \in t.found PROVE Fresh(u, PositiveTtl + later)'
        <5>1. Fresh(u, PositiveTtl + called)
          BY <2>1, <2>2, <2>3, <3>3 DEF ThreadFresh, FoundFresh
        <5> QED BY <1>2, <4>1, <4>2, <5>1
      <4>4. t.age <= later
        BY <2>2, <2>3, <4>1
      <4> QED BY <4>3, <4>4
    <3>4. ASSUME q \in asked.queries, Web!Lone, NEW u \in t.found
          PROVE  Fresh(u, PositiveTtl + t.age)'
      <4>1. asked # Web!Nothing /\ asked.queries = {q}
        BY <3>4 DEF Web!Lone, Web!Nothing
      <4>2. ~Web!Over(q)
        BY <1>1, <4>1 DEF Web!Waits, Web!Ready
      <4>3. t.at \in {"batch", "checking"}
        BY <2>3, <3>2, <3>4, <4>2 DEF Web!Over, Queried, Stages
      <4>4. Fresh(u, PositiveTtl + age)
        BY <2>1, <2>2, <2>3, <3>4 DEF ThreadFresh, FoundFresh
      <4>5. PositiveTtl + age \in Nat /\ PositiveTtl + (age + 1) = (PositiveTtl + age) + 1
        BY WebFacts
      <4> QED BY <1>2, <2>3, <4>3, <4>4, <4>5
    <3> QED BY <1>9, <2>3, <3>0, <3>1, <3>2, <3>3, <3>4 DEF FoundFresh, Fresh
  <2> QED BY <2>1, <2>3, <2>4, <2>5 DEF ThreadFresh
<1> QED BY <1>5, <1>6, <1>10, <1>11 DEF Links

LEMMA NextLinks == Links /\ Web!Next => Links'
<1> SUFFICES ASSUME Links, Web!Next PROVE Links'
  OBVIOUS
<1>1. ASSUME NEW q \in Searches,
             \/ Web!Start(q) \/ Web!Engine(q) \/ Web!Check(q) \/ Web!Collect(q) \/ Web!Done(q)
             \/ \E i \in DOMAIN probes[q] : Web!LookUp(q, i) \/ Web!Request(q, i)
      PROVE  Links'
  BY <1>1, StepStart, StepEngine, StepCheck, StepCollect, StepDone, StepLookUp, StepRequest
<1> QED BY <1>1, StepAsk, StepGive, StepTick, StepMoves DEF Web!Next

LEMMA LinksView ==
    ASSUME Links, UNCHANGED <<web, unseen, led, cache, search, probes, asked, moves>>
    PROVE  Links'
<1>1. Web!TypeOK'
  <2>1. Web!TypeOK
    BY DEF Links
  <2> QED BY <2>1 DEF Web!TypeOK
<1>2. Seen' /\ CacheFresh'
  BY SameView DEF Links, Seen
<1>3. ASSUME NEW q \in Searches PROVE ThreadFresh(q)'
  BY SameView DEF Links, ThreadFresh, ProbesFresh, FoundFresh
<1> QED BY <1>1, <1>2, <1>3 DEF Links

LEMMA LinksSure == Links => Web!OnlyLiveLinks
<1> SUFFICES ASSUME Links, Web!Ready, NEW u \in Web!Given
             PROVE  u \in Web!Served /\ (unseen[u] <= Web!Longest \/ (u = Watch /\ led))
  BY DEF Web!OnlyLiveLinks
<1>1. Web!TypeOK
  BY DEF Links
<1>2. PICK q \in asked.queries : u \in search[q].found
  BY DEF Web!Given
<1>3. q \in Searches /\ ThreadFresh(q)
  BY <1>1, TypesOfWeb DEF Links
<1>4. PICK m \in Nat : m = (PositiveTtl + IF Web!Lone THEN search[q].age ELSE asked.age)
                       /\ m <= Web!Longest
  BY <1>1, <1>3, AgesOfWeb, WebFacts
<1>5. Fresh(u, m)
  BY <1>2, <1>3, <1>4 DEF ThreadFresh, FoundFresh
<1> QED BY <1>1, <1>4, <1>5, FreshLater, WebFacts DEF Fresh

(* Links that are given were there (online_search.py), for any number of   *)
(* searches, engines, pages and links, any sizes of batches and of the     *)
(* cache, and any lifetimes and deadlines. Of the module alone: the two    *)
(* behaviours of MCParts are bounded beside that.                          *)
THEOREM WebGivesLiveLinks == Web!Spec => []Web!OnlyLiveLinks
<1>1. Web!Init => Links
  BY InitLinks
<1>2. Links /\ [Web!Next]_(Web!webVars) => Links'
  BY NextLinks, LinksView DEF Web!webVars
<1> QED BY <1>1, <1>2, LinksSure, PTL DEF Web!Spec

(* OnlyLiveLinks of the parts side by side.                                *)
THEOREM PartsGiveLiveLinks == Spec => []OnlyLiveLinks
<1> DEFINE Inv == part \in {"web", "batches"} => Links
<1>1. Init => Inv
  BY InitLinks DEF Init
<1>2. Inv /\ [Next]_vars => Inv'
  <2> SUFFICES ASSUME part \in {"web", "batches"}, Links, [Next]_vars PROVE Links'
    BY DEF Next, vars
  <2>1. CASE Next
    BY <2>1, NextLinks DEF Next
  <2>2. CASE UNCHANGED vars
    BY <2>2, LinksView DEF vars, webs
  <2> QED BY <2>1, <2>2
<1>3. Inv => OnlyLiveLinks
  BY LinksSure DEF OnlyLiveLinks
<1> QED BY <1>1, <1>2, <1>3, PTL DEF Spec

=============================================================================
