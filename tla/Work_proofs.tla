----------------------------- MODULE Work_proofs ------------------------------
(***************************************************************************)
(* Theorems about background work: the registry of jobs (WorkTasks), for   *)
(* every number of conversations, requests, jobs and faults, with Indexed  *)
(* as the inductive invariant; and the loop of one job (WorkLoop), for any *)
(* set of calls and any bound on them, with Sound.                         *)
(***************************************************************************)
EXTENDS WorkTasks, WorkLoop, FiniteSetTheorems, TLAPS

-----------------------------------------------------------------------------
(* The registry.                                                           *)

(* A worker that still runs the turn of an active job.                     *)
Working ==
    {"wait", "first", "begun", "loop", "checked", "tool", "plan"} \cup (Outcomes \ {"failed"})

(* Ids are given in order, and nothing is known of a job not yet created.  *)
Fresh ==
    \A j \in JobIds :
        /\ j <= created => request[j] \in Requests
        /\ j > created =>
             /\ mem[j] = "absent" /\ disk[j] = "absent"
             /\ worker[j] = "none"
             /\ j \notin sessions /\ j \notin launched /\ j \notin pruned

(* What a thread, its session and its record say of each other.            *)
WorkersAgree ==
    \A j \in JobIds :
        /\ worker[j] # "none" => j \in sessions /\ j \in launched
        /\ worker[j] \in Working => mem[j] \in ACTIVE
        /\ worker[j] = "final" => mem[j] \notin ACTIVE

(* A process that is down, or that refused its file, holds nothing.        *)
NothingHeld ==
    ~up \/ storageError =>
        \A j \in JobIds : mem[j] = "absent" /\ worker[j] = "none" /\ j \notin sessions

DamageSeen == (damaged /\ up => storageError) /\ (storageError => damaged /\ up)

(* Every launched job is in the memory of a process that can start jobs.   *)
LaunchedKnown ==
    up /\ ~storageError => \A j \in launched : mem[j] # "absent" \/ j \in pruned

OnePerConversation ==
    \A j, k \in Active : request[j].conv = request[k].conv => j = k

Indexed ==
    /\ TypeOK
    /\ Fresh
    /\ WorkersAgree
    /\ NothingHeld
    /\ DamageSeen
    /\ LaunchedKnown
    /\ RecordedBeforeLaunch
    /\ LaunchedOnce
    /\ ActiveHasSession
    /\ OnePerConversation
    /\ Cardinality(Active) <= MaxActive

-----------------------------------------------------------------------------
(* The jobs are finitely many, so sets of them can be counted.             *)
LEMMA JobSetsAreFinite ==
    ASSUME NEW S \in SUBSET JobIds
    PROVE  IsFiniteSet(S) /\ Cardinality(S) \in Nat
<1>1. IsFiniteSet(JobIds)
    BY WorkTasksAssumption, FS_Interval DEF JobIds
<1>2. QED
    BY <1>1, FS_Subset, FS_CardinalityType

(* A step that makes no job active keeps the number of active jobs low.    *)
LEMMA NoMoreActive ==
    ASSUME Active' \subseteq Active, Cardinality(Active) <= MaxActive
    PROVE  Cardinality(Active') <= MaxActive
<1>1. Active \subseteq JobIds
    BY DEF Active
<1>2. /\ IsFiniteSet(Active)
      /\ Cardinality(Active) \in Nat /\ Cardinality(Active') \in Nat
    BY <1>1, JobSetsAreFinite
<1>3. Cardinality(Active') <= Cardinality(Active)
    BY <1>2, FS_Subset
<1>4. QED
    BY <1>2, <1>3, WorkTasksAssumption

LEMMA InitIndexed == Init => Indexed
<1> SUFFICES ASSUME Init PROVE Indexed
    OBVIOUS
<1>1. Active = {}
    BY DEF Init, Active, ACTIVE
<1>2. Cardinality(Active) <= MaxActive
    BY <1>1, FS_EmptySet, WorkTasksAssumption
<1>3. /\ mem \in [JobIds -> Statuses] /\ disk \in [JobIds -> Statuses]
      /\ worker \in [JobIds -> WorkerStates]
      /\ late \in [JobIds -> Nat] /\ plan \in [JobIds -> 0 .. PlanTools]
      /\ request \in [JobIds -> Requests \cup {NoRequest}]
    BY WorkTasksAssumption DEF Init, Statuses, WorkerStates
<1>4. created \in 0 .. MaxJobs /\ faults \in 0 .. MaxFaults
    BY WorkTasksAssumption DEF Init
<1>5. TypeOK
    BY <1>3, <1>4 DEF Init, TypeOK
<1>6. QED
    BY <1>1, <1>2, <1>5 DEF Init, Indexed, Fresh, WorkersAgree, NothingHeld,
        DamageSeen, LaunchedKnown, RecordedBeforeLaunch, LaunchedOnce,
        ActiveHasSession, OnePerConversation, Working, Outcomes, JobIds

LEMMA StartKeepsIndexed ==
    ASSUME Indexed, NEW r \in Requests, NEW saved \in BOOLEAN, Start(r, saved)
    PROVE  Indexed'
<1> DEFINE j == created + 1
<1> USE DEF Indexed
<1>1. /\ j \in JobIds /\ created \in Nat /\ created' = j
      /\ \A k \in JobIds : k <= created' => k <= created \/ k = j
    BY WorkTasksAssumption DEF Start, TypeOK, JobIds
<1>2. Removable \subseteq {k \in JobIds : mem[k] \in TERMINAL}
    BY DEF Removable
<1>3. /\ mem'[j] = "queued"
      /\ \A k \in JobIds : k # j => mem'[k] = mem[k] \/ (mem[k] \in TERMINAL /\ mem'[k] = "absent" /\ k \in pruned')
      /\ \A k \in JobIds : k # j /\ k \notin pruned' => mem'[k] = mem[k]
    BY <1>1, <1>2 DEF Start
<1>4. TypeOK'
    <2>1. mem' \in [JobIds -> Statuses] /\ pruned' \subseteq JobIds
        BY <1>2 DEF Start, TypeOK, Statuses, ACTIVE
    <2>2. /\ disk' \in [JobIds -> Statuses] /\ damaged' \in BOOLEAN
          /\ faults' \in 0 .. MaxFaults
        <3>1. CASE saved
            BY <3>1, <2>1 DEF Start, TypeOK, Save
        <3>2. CASE ~saved
            BY <3>2, WorkTasksAssumption DEF Start, TypeOK, Save, Fault
        <3>3. QED
            BY <3>1, <3>2
    <2>3. worker' \in [JobIds -> WorkerStates] /\ launched' \subseteq JobIds
        BY <1>1 DEF Start, TypeOK, StartThread, WorkerStates
    <2>4. request' \in [JobIds -> Requests \cup {NoRequest}] /\ created' \in 0 .. MaxJobs
        BY <1>1, WorkTasksAssumption DEF Start, TypeOK, JobIds
    <2>5. QED
        BY <1>1, <2>1, <2>2, <2>3, <2>4 DEF Start, TypeOK, process
<1>5. Active' \subseteq Active \cup {j} /\ j \notin Active
    BY <1>1, <1>3 DEF Active, Fresh, ACTIVE, TERMINAL
<1>6. Cardinality(Active') <= MaxActive
    <2>1. Active \in SUBSET JobIds /\ Active' \in SUBSET JobIds
        BY DEF Active
    <2>2. IsFiniteSet(Active) /\ Cardinality(Active) \in Nat /\ Cardinality(Active') \in Nat
        BY <2>1, JobSetsAreFinite
    <2>3. /\ IsFiniteSet(Active \cup {j})
          /\ Cardinality(Active \cup {j}) = Cardinality(Active) + 1
        BY <2>2, <1>5, FS_AddElement
    <2>4. Cardinality(Active') <= Cardinality(Active \cup {j})
        BY <2>3, <1>5, FS_Subset
    <2>5. Cardinality(Active) < MaxActive
        BY DEF Start, Admissible
    <2>6. QED
        BY <2>2, <2>3, <2>4, <2>5, WorkTasksAssumption
<1>7. Fresh'
    <2>1. ASSUME NEW k \in JobIds, k <= created' PROVE request'[k] \in Requests
        BY <1>1, <2>1 DEF Start, Fresh, TypeOK
    <2>2. ASSUME NEW k \in JobIds, k > created'
          PROVE  /\ mem'[k] = "absent" /\ disk'[k] = "absent" /\ worker'[k] = "none"
                 /\ k \notin sessions' /\ k \notin launched' /\ k \notin pruned'
        <3>1. k > created /\ k # j /\ k \notin Removable
            BY <1>1, <1>2, <2>2 DEF JobIds, Fresh, TERMINAL
        <3>2. /\ mem[k] = "absent" /\ disk[k] = "absent" /\ worker[k] = "none"
              /\ k \notin sessions /\ k \notin launched /\ k \notin pruned
            BY <3>1 DEF Fresh
        <3>3. mem'[k] = "absent"
            BY <3>1, <3>2 DEF Start
        <3>4. QED
            BY <3>1, <3>2, <3>3 DEF Start, StartThread, Save, TypeOK
    <2>3. QED
        BY <2>1, <2>2 DEF Fresh
<1>8. WorkersAgree'
    BY <1>1, <1>3 DEF Start, StartThread, Save, Fresh, WorkersAgree, TypeOK, TERMINAL, ACTIVE, Working, Outcomes
<1>9. NothingHeld' /\ DamageSeen'
    BY DEF Start, Admissible, Save, NothingHeld, DamageSeen, process
<1>10. LaunchedKnown' /\ RecordedBeforeLaunch'
    BY <1>1, <1>3 DEF Start, StartThread, Save, Admissible, LaunchedKnown, RecordedBeforeLaunch, TypeOK, process
<1>11. LaunchedOnce'
    <2> SUFFICES ASSUME NEW k \in launched', NEW m \in launched',
                        request'[k] = request'[m], k < m
                 PROVE  k \in pruned'
        BY DEF LaunchedOnce
    <2>1. \A n \in launched : n \in JobIds /\ n <= created /\ n # j /\ request'[n] = request[n]
        BY <1>1 DEF Start, Fresh, TypeOK, JobIds
    <2>2. k \in launched
        <3>1. launched' \subseteq launched \cup {j}
            BY DEF Start, StartThread
        <3>2. SUFFICES ASSUME k = j PROVE FALSE
            BY <3>1
        <3>3. m \in launched
            BY <1>1, <3>1, <3>2
        <3>4. QED
            BY <1>1, <2>1, <3>2, <3>3 DEF JobIds
    <2>3. CASE m \in launched
        BY <2>1, <2>2, <2>3 DEF Start, LaunchedOnce
    <2>4. CASE m = j
        <3>1. request[k] = r
            BY <1>1, <2>1, <2>2, <2>4 DEF Start, TypeOK
        <3>2. mem[k] = "absent"
            BY <2>1, <2>2, <3>1 DEF Start, Admissible, Known
        <3>3. QED
            BY <2>2, <3>2 DEF Start, Admissible, LaunchedKnown
    <2>5. QED
        BY <2>3, <2>4 DEF Start, StartThread
<1>12. ActiveHasSession' /\ OnePerConversation'
    BY <1>1, <1>3, <1>5 DEF Start, Admissible, ActiveHasSession, OnePerConversation, Active, TypeOK
<1>13. QED
    BY <1>4, <1>6, <1>7, <1>8, <1>9, <1>10, <1>11, <1>12

(* What a save does to the file, whether it succeeds or fails.             *)
LEMMA SaveEffect ==
    ASSUME TypeOK, NEW saved \in BOOLEAN, Save(saved), mem' \in [JobIds -> Statuses]
    PROVE  /\ disk' \in [JobIds -> Statuses] /\ damaged' \in BOOLEAN
           /\ faults' \in 0 .. MaxFaults
           /\ \/ disk' = mem' /\ damaged' = FALSE
              \/ disk' = disk /\ damaged' = damaged
<1>1. CASE saved
    BY <1>1 DEF TypeOK, Save
<1>2. CASE ~saved
    BY <1>2, WorkTasksAssumption DEF TypeOK, Save, Fault
<1>3. QED
    BY <1>1, <1>2

(* update() on a record that exists, never from a finished status to an    *)
(* active one, disturbs only what a worker says of its own record.         *)
LEMMA UpdateKeeps ==
    ASSUME Indexed, NEW j \in JobIds, NEW s \in ACTIVE \cup TERMINAL, NEW saved \in BOOLEAN,
           mem[j] # "absent", s \in ACTIVE => mem[j] \in ACTIVE,
           mem' = [mem EXCEPT ![j] = s], Save(saved),
           UNCHANGED <<request, created, sessions, process, launched, pruned>>,
           \A k \in JobIds : k # j => worker'[k] = worker[k]
    PROVE  /\ mem' \in [JobIds -> Statuses] /\ disk' \in [JobIds -> Statuses]
           /\ damaged' \in BOOLEAN /\ faults' \in 0 .. MaxFaults
           /\ Fresh' /\ NothingHeld' /\ DamageSeen' /\ LaunchedKnown'
           /\ RecordedBeforeLaunch' /\ LaunchedOnce' /\ ActiveHasSession'
           /\ OnePerConversation' /\ Cardinality(Active') <= MaxActive
<1> USE DEF Indexed
<1>1. up /\ ~storageError /\ ~damaged /\ j <= created
    BY DEF NothingHeld, DamageSeen, Fresh, TypeOK, JobIds
<1>2. mem' \in [JobIds -> Statuses] /\ mem'[j] = s
    BY DEF TypeOK, Statuses
<1>3. \A k \in JobIds : k # j => mem'[k] = mem[k]
    BY DEF TypeOK
<1>4. /\ disk' \in [JobIds -> Statuses] /\ damaged' \in BOOLEAN
      /\ faults' \in 0 .. MaxFaults
      /\ disk' = mem' \/ disk' = disk
      /\ damaged' = FALSE
    BY <1>1, <1>2, SaveEffect
<1>5. s # "absent"
    BY DEF ACTIVE, TERMINAL
<1>6. Active' \subseteq Active
    BY <1>2, <1>3 DEF Active
<1>7. Cardinality(Active') <= MaxActive
    BY <1>6, NoMoreActive
<1>8. Fresh'
    BY <1>1, <1>3, <1>4 DEF Fresh, JobIds, TypeOK
<1>9. NothingHeld' /\ DamageSeen'
    BY <1>1, <1>4 DEF NothingHeld, DamageSeen, process
<1>10. LaunchedKnown'
    BY <1>1, <1>2, <1>3, <1>5 DEF LaunchedKnown, TypeOK
<1>11. RecordedBeforeLaunch'
    BY <1>1, <1>4, <1>10 DEF RecordedBeforeLaunch, LaunchedKnown, process
<1>12. LaunchedOnce' /\ ActiveHasSession' /\ OnePerConversation'
    BY <1>6 DEF LaunchedOnce, ActiveHasSession, OnePerConversation
<1>13. QED
    BY <1>2, <1>4, <1>7, <1>8, <1>9, <1>10, <1>11, <1>12

LEMMA StopKeepsIndexed ==
    ASSUME Indexed, NEW j \in JobIds, NEW saved \in BOOLEAN, Stop(j, saved)
    PROVE  Indexed'
<1>1. mem[j] # "absent" /\ mem[j] \in ACTIVE /\ "cancelling" \in ACTIVE
    BY DEF Stop, ACTIVE
<1>2. /\ mem' \in [JobIds -> Statuses] /\ disk' \in [JobIds -> Statuses]
      /\ damaged' \in BOOLEAN /\ faults' \in 0 .. MaxFaults
      /\ Fresh' /\ NothingHeld' /\ DamageSeen' /\ LaunchedKnown'
      /\ RecordedBeforeLaunch' /\ LaunchedOnce' /\ ActiveHasSession'
      /\ OnePerConversation' /\ Cardinality(Active') <= MaxActive
    BY <1>1, UpdateKeeps DEF Stop, history
<1>3. TypeOK'
    BY <1>2 DEF Stop, TypeOK, Indexed, process, history
<1>4. WorkersAgree'
    BY <1>1 DEF Stop, WorkersAgree, Indexed, TypeOK, history
<1>5. QED
    BY <1>2, <1>3, <1>4 DEF Indexed

(* Steps that leave records, process and history alone.                    *)
LEMMA QuietSteps ==
    ASSUME Indexed, UNCHANGED <<records, process, launched, pruned>>,
           sessions' \subseteq sessions, Active \subseteq sessions',
           TypeOK', WorkersAgree',
           \A k \in JobIds : worker[k] = "none" => worker'[k] = "none"
    PROVE  Indexed'
<1> USE DEF Indexed, records, process
<1>1. Active' = Active
    BY DEF Active
<1>2. Fresh' /\ NothingHeld'
    BY DEF Fresh, NothingHeld, TypeOK
<1>3. QED
    BY <1>1, <1>2 DEF DamageSeen, LaunchedKnown, RecordedBeforeLaunch, LaunchedOnce,
        ActiveHasSession, OnePerConversation

LEMMA TurnKeepsIndexed ==
    ASSUME Indexed, NEW j \in JobIds,
           \/ Acquire(j) \/ Check(j) \/ PlanTool(j) \/ ToolEnds(j) \/ Leave(j)
           \/ \E outcome \in Outcomes : Return(j, outcome)
    PROVE  Indexed'
<1> USE DEF Indexed
<1>1. UNCHANGED <<records, process, faults, launched, pruned, direct>>
    BY DEF Acquire, Check, PlanTool, ToolEnds, Leave, Return, history
<1>2. UNCHANGED <<mem, disk, damaged, request, created, up, closed, storageError,
                  faults, launched, pruned, direct>>
    BY <1>1 DEF records, process
<1>3. /\ sessions' \subseteq sessions
      /\ \A k \in sessions : k \in sessions' \/ (k = j /\ worker[j] = "final" /\ worker'[j] = "none")
    BY DEF Acquire, Check, Past, PlanTool, ToolEnds, Leave, Return, TypeOK
<1>4. /\ worker' \in [JobIds -> WorkerStates] /\ worker[j] # "none"
      /\ \A k \in JobIds : k # j => worker'[k] = worker[k]
      /\ worker'[j] \in Working => worker[j] \in Working
      /\ worker'[j] # "final"
      /\ worker'[j] = "none" \/ j \in sessions'
    BY DEF Acquire, Check, Past, PlanTool, ToolEnds, Leave, Return, TypeOK, WorkerStates, Working, Outcomes,
        WorkersAgree
<1>5. turn' \in JobIds \cup {Free} /\ cancel' \subseteq JobIds
    BY DEF Acquire, Check, Past, PlanTool, ToolEnds, Leave, Return, Release, TypeOK
<1>10. plan' \in [JobIds -> 0 .. PlanTools]
    BY WorkTasksAssumption DEF Acquire, Check, PlanTool, ToolEnds, Leave, Return, TypeOK
<1>11. late' \in [JobIds -> Nat]
    BY DEF Acquire, Check, PlanTool, LateTool, ToolEnds, Leave, Return, history, TypeOK
<1>6. TypeOK'
    BY <1>2, <1>3, <1>4, <1>5, <1>10, <1>11 DEF TypeOK
<1>7. WorkersAgree'
    BY <1>2, <1>3, <1>4 DEF WorkersAgree
<1>8. Active \subseteq sessions'
    BY <1>3 DEF Active, ActiveHasSession, WorkersAgree
<1>9. QED
    BY <1>1, <1>2, <1>3, <1>4, <1>6, <1>7, <1>8, QuietSteps

(* progress(), wherever it is called, and what its turn goes on with.      *)
LEMMA NotifyKeepsIndexed ==
    ASSUME Indexed, NEW j \in JobIds, NEW next \in {"tool", "loop", "plan"}, NEW saved \in BOOLEAN,
           worker[j] \in {"begun", "checked"}, Notify(j, next, saved),
           late' \in [JobIds -> Nat], plan' \in [JobIds -> 0 .. PlanTools], direct' \subseteq JobIds
    PROVE  Indexed'
<1> USE DEF Indexed
<1> DEFINE s == RunningOrCancelling(j)
<1>1. mem[j] \in ACTIVE /\ worker[j] # "none"
    BY DEF WorkersAgree, Working
<1>2. mem[j] # "absent" /\ s \in ACTIVE
    BY <1>1 DEF ACTIVE, RunningOrCancelling
<1>3. /\ mem' = [mem EXCEPT ![j] = s] /\ Save(saved)
      /\ UNCHANGED <<request, created, sessions, process, launched, pruned>>
      /\ \A k \in JobIds : k # j => worker'[k] = worker[k]
    BY DEF Notify, TypeOK
<1>4. /\ mem' \in [JobIds -> Statuses] /\ disk' \in [JobIds -> Statuses]
      /\ damaged' \in BOOLEAN /\ faults' \in 0 .. MaxFaults
      /\ Fresh' /\ NothingHeld' /\ DamageSeen' /\ LaunchedKnown'
      /\ RecordedBeforeLaunch' /\ LaunchedOnce' /\ ActiveHasSession'
      /\ OnePerConversation' /\ Cardinality(Active') <= MaxActive
    BY <1>1, <1>2, <1>3, UpdateKeeps
<1>5. worker' \in [JobIds -> WorkerStates] /\ worker'[j] \in {"tool", "loop", "plan", "failed"}
    BY DEF Notify, TypeOK, WorkerStates, Outcomes
<1>6. turn' \in JobIds \cup {Free}
    BY DEF Notify, Release, TypeOK
<1>7. TypeOK'
    BY <1>3, <1>4, <1>5, <1>6 DEF Notify, TypeOK, process
<1>8. WorkersAgree'
    <2>1. mem'[j] \in ACTIVE /\ \A k \in JobIds : k # j => mem'[k] = mem[k]
        BY <1>2, <1>3 DEF TypeOK
    <2>2. j \in sessions /\ j \in launched
        BY <1>1 DEF WorkersAgree
    <2>3. QED
        BY <1>3, <1>5, <2>1, <2>2 DEF WorkersAgree
<1>9. QED
    BY <1>4, <1>7, <1>8

LEMMA ProgressKeepsIndexed ==
    ASSUME Indexed, NEW j \in JobIds, NEW next \in {"tool", "loop"}, NEW saved \in BOOLEAN,
           Progress(j, next, saved)
    PROVE  Indexed'
<1>1. late' \in [JobIds -> Nat]
    BY DEF Progress, LateTool, Indexed, TypeOK
<1>2. plan' \in [JobIds -> 0 .. PlanTools] /\ direct' \subseteq JobIds
    BY DEF Progress, Indexed, TypeOK
<1>3. QED
    BY <1>1, <1>2, NotifyKeepsIndexed DEF Progress

LEMMA BeginKeepsIndexed ==
    ASSUME Indexed, NEW j \in JobIds, NEW saved \in BOOLEAN, Begin(j, saved)
    PROVE  Indexed'
<1>1. late' \in [JobIds -> Nat] /\ direct' \subseteq JobIds
    BY DEF Begin, Indexed, TypeOK
<1>2. plan' \in [JobIds -> 0 .. PlanTools]
    BY WorkTasksAssumption DEF Begin, Indexed, TypeOK
<1>3. PICK next \in {"loop", "plan"} : Notify(j, next, saved)
    BY DEF Begin
<1>4. QED
    BY <1>1, <1>2, <1>3, NotifyKeepsIndexed DEF Begin

LEMMA ConcludeKeepsIndexed ==
    ASSUME Indexed, NEW j \in JobIds, NEW saved \in BOOLEAN, Conclude(j, saved)
    PROVE  Indexed'
<1> USE DEF Indexed
<1>1. worker[j] \in Outcomes /\ j \in sessions /\ j \in launched
    BY DEF Conclude, WorkersAgree, Outcomes
<1>2. CASE mem[j] = "absent"
    <2>1. worker[j] = "failed" /\ worker' = [worker EXCEPT ![j] = "final"]
        BY <1>1, <1>2 DEF Conclude, WorkersAgree, Working, Outcomes, ACTIVE
    <2>2. UNCHANGED <<records, sessions, cancel, turn, plan, process, faults, history>>
        BY <1>2 DEF Conclude, records
    <2>3. UNCHANGED <<mem, disk, damaged, request, created, up, closed, storageError,
                      launched, pruned, direct, late>>
        BY <2>2 DEF records, process, history
    <2>4. TypeOK' /\ WorkersAgree'
        BY <1>1, <1>2, <2>1, <2>2, <2>3 DEF TypeOK, WorkersAgree, WorkerStates, Working, Outcomes, ACTIVE
    <2>5. \A k \in JobIds : worker[k] = "none" => worker'[k] = "none"
        BY <2>1 DEF TypeOK
    <2>6. QED
        BY <2>2, <2>3, <2>4, <2>5, QuietSteps DEF ActiveHasSession
<1>3. CASE mem[j] # "absent"
    <2>1. /\ mem' = [mem EXCEPT ![j] = worker[j]] /\ Save(saved)
          /\ UNCHANGED <<request, created, sessions, cancel, turn, plan, process, history>>
          /\ worker' = [worker EXCEPT ![j] = "final"] \/ worker' = [worker EXCEPT ![j] = "failed"]
        BY <1>3 DEF Conclude
    <2>2. worker[j] \in ACTIVE \cup TERMINAL /\ worker[j] \notin ACTIVE
        BY <1>1 DEF Outcomes, TERMINAL, ACTIVE
    <2>3. /\ UNCHANGED <<launched, pruned, direct, late>>
          /\ \A k \in JobIds : k # j => worker'[k] = worker[k]
          /\ worker'[j] \in {"final", "failed"}
          /\ worker' \in [JobIds -> WorkerStates]
        BY <2>1 DEF history, TypeOK, WorkerStates, Outcomes
    <2>4. /\ mem' \in [JobIds -> Statuses] /\ disk' \in [JobIds -> Statuses]
          /\ damaged' \in BOOLEAN /\ faults' \in 0 .. MaxFaults
          /\ Fresh' /\ NothingHeld' /\ DamageSeen' /\ LaunchedKnown'
          /\ RecordedBeforeLaunch' /\ LaunchedOnce' /\ ActiveHasSession'
          /\ OnePerConversation' /\ Cardinality(Active') <= MaxActive
        BY <1>3, <2>1, <2>2, <2>3, UpdateKeeps
    <2>5. TypeOK'
        BY <2>1, <2>3, <2>4 DEF TypeOK, process
    <2>6. mem'[j] \notin ACTIVE /\ \A k \in JobIds : k # j => mem'[k] = mem[k]
        BY <2>1, <2>2 DEF TypeOK
    <2>7. WorkersAgree'
        BY <1>1, <2>1, <2>3, <2>6 DEF WorkersAgree, Working, Outcomes
    <2>8. QED
        BY <2>4, <2>5, <2>7
<1>4. QED
    BY <1>2, <1>3

LEMMA ProcessKeepsIndexed ==
    ASSUME Indexed, Close \/ End \/ Damage \/ Restart \/ UNCHANGED vars
    PROVE  Indexed'
<1> USE DEF Indexed
<1>1. CASE Close
    <2>1. UNCHANGED <<mem, disk, damaged, request, created, sessions, worker, turn, plan, up,
                      storageError, faults, launched, pruned, direct, late>>
        BY <1>1 DEF Close, records, history
    <2>2. TypeOK'
        BY <1>1, <2>1 DEF Close, TypeOK
    <2>3. Active' = Active
        BY <2>1 DEF Active
    <2>4. QED
        BY <2>1, <2>2, <2>3 DEF Fresh, WorkersAgree, NothingHeld, DamageSeen, LaunchedKnown,
            RecordedBeforeLaunch, LaunchedOnce, ActiveHasSession, OnePerConversation
<1>2. CASE End
    <2>1. /\ \A k \in JobIds : mem'[k] = "absent" /\ worker'[k] = "none"
          /\ ~up' /\ ~storageError' /\ ~closed' /\ sessions' = {} /\ cancel' = {} /\ turn' = Free
          /\ UNCHANGED <<disk, damaged, request, created, launched, pruned, direct, late>>
          /\ plan' = [k \in JobIds |-> 0]
        BY <1>2 DEF End, history
    <2>2. faults' \in 0 .. MaxFaults
        BY <1>2, WorkTasksAssumption DEF End, Fault, TypeOK
    <2>7. plan' \in [JobIds -> 0 .. PlanTools]
        BY <2>1, WorkTasksAssumption
    <2>3. TypeOK'
        BY <1>2, <2>1, <2>2, <2>7 DEF End, TypeOK, Statuses, WorkerStates
    <2>4. Active' = {}
        BY <2>1 DEF Active, ACTIVE
    <2>5. Cardinality(Active') <= MaxActive
        BY <2>4, FS_EmptySet, WorkTasksAssumption
    <2>6. QED
        BY <2>1, <2>3, <2>4, <2>5 DEF Fresh, WorkersAgree, NothingHeld, DamageSeen, LaunchedKnown,
            RecordedBeforeLaunch, LaunchedOnce, ActiveHasSession, OnePerConversation, Working, Outcomes
<1>3. CASE Damage
    <2>1. /\ ~up /\ damaged'
          /\ UNCHANGED <<mem, disk, request, created, sessions, cancel, worker, turn, plan, up, closed,
                         storageError, launched, pruned, direct, late>>
        BY <1>3 DEF Damage, volatile, process, history
    <2>2. faults' \in 0 .. MaxFaults
        BY <1>3, WorkTasksAssumption DEF Damage, Fault, TypeOK
    <2>3. TypeOK'
        BY <2>1, <2>2 DEF TypeOK
    <2>4. Active' = Active
        BY <2>1 DEF Active
    <2>5. QED
        BY <2>1, <2>3, <2>4 DEF Fresh, WorkersAgree, NothingHeld, DamageSeen, LaunchedKnown,
            RecordedBeforeLaunch, LaunchedOnce, ActiveHasSession, OnePerConversation
<1>4. CASE Restart
    <2>1. /\ ~up /\ up' /\ storageError' = damaged
          /\ UNCHANGED <<request, created, sessions, cancel, worker, turn, plan, closed, launched, pruned, direct, late>>
        BY <1>4 DEF Restart, LoadFails, volatile, history
    <2>2. /\ \A k \in JobIds : mem[k] = "absent" /\ worker[k] = "none" /\ k \notin sessions
          /\ mem \in [JobIds -> Statuses] /\ disk \in [JobIds -> Statuses]
        BY <2>1 DEF NothingHeld, TypeOK
    <2>3. /\ mem' \in [JobIds -> Statuses]
          /\ \A k \in JobIds : mem'[k] \notin ACTIVE
          /\ \A k \in JobIds : disk[k] = "absent" => mem'[k] = "absent"
          /\ ~damaged => \A k \in JobIds : disk[k] # "absent" => mem'[k] # "absent"
          /\ damaged => \A k \in JobIds : mem'[k] = "absent"
        BY <1>4, <2>2 DEF Restart, Reloaded, Statuses, ACTIVE, TERMINAL
    <2>4. /\ faults' = faults
          /\ disk' \in [JobIds -> Statuses] /\ damaged' = damaged
          /\ disk' = disk \/ (disk' = mem' /\ ~damaged)
        BY <1>4, <2>2, <2>3 DEF Restart, Save, TypeOK
    <2>5. TypeOK'
        BY <2>1, <2>3, <2>4 DEF TypeOK
    <2>6. Active' = {}
        BY <2>3 DEF Active
    <2>7. Cardinality(Active') <= MaxActive
        BY <2>6, FS_EmptySet, WorkTasksAssumption
    <2>8. Fresh' /\ WorkersAgree' /\ NothingHeld' /\ DamageSeen'
        BY <2>1, <2>2, <2>3, <2>4 DEF Fresh, WorkersAgree, NothingHeld, DamageSeen, Working, Outcomes
    <2>9. LaunchedKnown' /\ RecordedBeforeLaunch'
        BY <2>1, <2>3, <2>4 DEF LaunchedKnown, RecordedBeforeLaunch, TypeOK
    <2>10. QED
        BY <2>1, <2>5, <2>6, <2>7, <2>8, <2>9 DEF LaunchedOnce, ActiveHasSession, OnePerConversation
<1>5. CASE UNCHANGED vars
    <2>1. UNCHANGED <<mem, disk, damaged, request, created, sessions, cancel, worker, turn, plan, up,
                      closed, storageError, faults, launched, pruned, direct, late>>
        BY <1>5 DEF vars, records, volatile, process, history
    <2>2. Active' = Active
        BY <2>1 DEF Active
    <2>3. QED
        BY <2>1, <2>2 DEF TypeOK, Fresh, WorkersAgree, NothingHeld, DamageSeen, LaunchedKnown,
            RecordedBeforeLaunch, LaunchedOnce, ActiveHasSession, OnePerConversation
<1>6. QED
    BY <1>1, <1>2, <1>3, <1>4, <1>5

LEMMA NextIndexed == Indexed /\ [Next]_vars => Indexed'
<1> SUFFICES ASSUME Indexed, [Next]_vars PROVE Indexed'
    OBVIOUS
<1>1. ASSUME NEW r \in Requests, NEW saved \in BOOLEAN, Start(r, saved) PROVE Indexed'
    BY <1>1, StartKeepsIndexed
<1>2. ASSUME NEW j \in JobIds, NEW saved \in BOOLEAN, Stop(j, saved) PROVE Indexed'
    BY <1>2, StopKeepsIndexed
<1>3. ASSUME NEW j \in JobIds, Worker(j) PROVE Indexed'
    BY <1>3, TurnKeepsIndexed, BeginKeepsIndexed, ProgressKeepsIndexed, ConcludeKeepsIndexed DEF Worker
<1>4. ASSUME Close \/ End \/ Damage \/ Restart \/ UNCHANGED vars PROVE Indexed'
    BY <1>4, ProcessKeepsIndexed
<1>5. QED
    BY <1>1, <1>2, <1>3, <1>4 DEF Next

(* The inductive invariant holds in every reachable state.                 *)
THEOREM IndexedInvariant == Spec => []Indexed
<1>1. QED
    BY InitIndexed, NextIndexed, PTL DEF Spec

-----------------------------------------------------------------------------
(* The type invariant, for work_tasks.py as a whole.                       *)
THEOREM TypeCorrect == Spec => []TypeOK
<1>1. Indexed => TypeOK
    BY DEF Indexed
<1>2. QED
    BY <1>1, IndexedInvariant, PTL

(* start never launches a second thread for a request it still knows, over *)
(* any number of crashes, restarts, refused starts and failed writes.      *)
THEOREM LaunchedOnceHolds == Spec => []LaunchedOnce
<1>1. Indexed => LaunchedOnce
    BY DEF Indexed
<1>2. QED
    BY <1>1, IndexedInvariant, PTL

(* At most MaxActive active jobs, at most one of them per conversation.    *)
THEOREM AdmissionHolds == Spec => []Admission
<1>1. Indexed => Admission
    BY DEF Indexed, Admission, OnePerConversation
<1>2. QED
    BY <1>1, IndexedInvariant, PTL

(* stop and close find a session for every active record.                  *)
THEOREM ActiveHasSessionHolds == Spec => []ActiveHasSession
<1>1. Indexed => ActiveHasSession
    BY DEF Indexed
<1>2. QED
    BY <1>1, IndexedInvariant, PTL

(* A job is in work-tasks.json before its thread starts.                   *)
THEOREM RecordedBeforeLaunchHolds == Spec => []RecordedBeforeLaunch
<1>1. Indexed => RecordedBeforeLaunch
    BY DEF Indexed
<1>2. QED
    BY <1>1, IndexedInvariant, PTL

(* A cancelled job never shows as running again, and a finished one never  *)
(* becomes active: update() under every interleaving with stop and start.  *)
THEOREM StatusMovesForwardHolds == Spec => StatusMovesForward
<1> DEFINE Forward == \A j \in JobIds :
        /\ mem[j] = "cancelling" => mem'[j] \notin {"queued", "running"}
        /\ mem[j] \in TERMINAL => mem'[j] \notin ACTIVE
<1>1. ASSUME Indexed, Next PROVE Forward
    <2> USE <1>1 DEF Indexed
    <2>1. ASSUME NEW r \in Requests, NEW saved \in BOOLEAN, Start(r, saved) PROVE Forward
        <3>1. mem[created + 1] = "absent" /\ created + 1 \in JobIds
            BY <2>1, WorkTasksAssumption DEF Start, Fresh, TypeOK, JobIds
        <3>2. \A j \in JobIds : j # created + 1 => mem'[j] \in {mem[j], "absent"}
            BY <2>1 DEF Start
        <3>3. QED
            BY <3>1, <3>2 DEF TERMINAL, ACTIVE
    <2>2. ASSUME NEW i \in JobIds, NEW saved \in BOOLEAN, Stop(i, saved) PROVE Forward
        BY <2>2 DEF Stop, TypeOK, TERMINAL, ACTIVE
    <2>3. ASSUME NEW i \in JobIds, Worker(i) PROVE Forward
        <3>1. ASSUME NEW next \in {"tool", "loop"}, NEW saved \in BOOLEAN, Progress(i, next, saved)
              PROVE  Forward
            BY <3>1 DEF Progress, Notify, RunningOrCancelling, WorkersAgree, Working, TypeOK, TERMINAL, ACTIVE
        <3>5. ASSUME NEW saved \in BOOLEAN, Begin(i, saved) PROVE Forward
            <4>1. PICK next \in {"loop", "plan"} : Notify(i, next, saved)
                BY <3>5 DEF Begin
            <4>2. worker[i] = "begun"
                BY <3>5 DEF Begin
            <4>3. QED
                BY <4>1, <4>2 DEF Notify, RunningOrCancelling, WorkersAgree, Working, TypeOK, TERMINAL, ACTIVE
        <3>2. ASSUME NEW saved \in BOOLEAN, Conclude(i, saved) PROVE Forward
            <4>1. mem' = mem \/ (mem' = [mem EXCEPT ![i] = worker[i]] /\ worker[i] \in Outcomes)
                BY <3>2 DEF Conclude
            <4>2. QED
                BY <4>1 DEF TypeOK, TERMINAL, ACTIVE, Outcomes
        <3>3. ASSUME Acquire(i) \/ Check(i) \/ PlanTool(i) \/ ToolEnds(i) \/ Leave(i)
                     \/ \E outcome \in Outcomes : Return(i, outcome)
              PROVE  Forward
            <4>1. mem' = mem
                BY <3>3 DEF Acquire, Check, PlanTool, ToolEnds, Leave, Return, records
            <4>2. QED
                BY <4>1 DEF TERMINAL, ACTIVE
        <3>4. QED
            BY <2>3, <3>1, <3>2, <3>3, <3>5 DEF Worker
    <2>4. ASSUME Close \/ Damage PROVE Forward
        <3>1. mem' = mem
            BY <2>4 DEF Close, Damage, records
        <3>2. QED
            BY <3>1 DEF TERMINAL, ACTIVE
    <2>5. ASSUME End PROVE Forward
        BY <2>5 DEF End, ACTIVE
    <2>6. ASSUME Restart PROVE Forward
        <3>1. \A j \in JobIds : mem[j] = "absent"
            BY <2>6 DEF Restart, NothingHeld
        <3>2. QED
            BY <3>1 DEF TERMINAL
    <2>7. QED
        BY <1>1, <2>1, <2>2, <2>3, <2>4, <2>5, <2>6 DEF Next
<1>2. ASSUME Indexed, [Next]_vars PROVE [Forward]_vars
    BY <1>1, <1>2
<1>3. QED
    BY <1>2, IndexedInvariant, PTL DEF Spec, StatusMovesForward

-----------------------------------------------------------------------------
(* Out of a plan, a worker that began a tool after its event has looked at *)
(* nothing since; in one, what it began and what is left are the plan.     *)
LoopPassUsed(j) ==
    /\ late[j] \in {0, 1}
    /\ late[j] = 1 => worker[j] \notin {"wait", "first", "begun", "checked", "plan"}
    /\ late[j] = 1 /\ worker[j] \in {"loop", "tool"} => j \in cancel
    /\ worker[j] # "plan"

PlanPassUsed(j) ==
    /\ request[j] \notin WorkRequests
    /\ late[j] + plan[j] <= PlanTools
    /\ worker[j] \notin {"wait", "first", "begun", "loop", "checked", "tool"}

PassUsed(j) ==
    /\ late[j] > 0 \/ j \in direct => j <= created
    /\ IF j \in direct THEN PlanPassUsed(j) ELSE LoopPassUsed(j)

ToolPassUsed == \A j \in JobIds : PassUsed(j)

(* A step that leaves a job where it is, or that forgets its plan.         *)
LEMMA SameWorkerKeepsPass ==
    ASSUME Indexed, NEW k \in JobIds, PassUsed(k),
           late'[k] = late[k], worker'[k] = worker[k] \/ worker'[k] \in {"none", "final", "failed"},
           plan'[k] = plan[k] \/ plan'[k] = 0,
           request'[k] = request[k], k \in direct' <=> k \in direct,
           k \in cancel => k \in cancel' \/ worker'[k] \in {"none", "final", "failed"},
           created \in Nat, created' \in Nat, created' >= created
    PROVE  PassUsed(k)'
<1>1. late[k] \in Nat /\ plan[k] \in 0 .. PlanTools /\ k \in Nat
    BY DEF Indexed, TypeOK, JobIds
<1>2. CASE k \in direct
    <2>1. PlanPassUsed(k)'
        BY <1>1, <1>2, WorkTasksAssumption DEF PassUsed, PlanPassUsed
    <2>2. k <= created'
        BY <1>1, <1>2 DEF PassUsed
    <2>3. QED
        BY <1>2, <2>1, <2>2 DEF PassUsed
<1>3. CASE k \notin direct
    <2>1. LoopPassUsed(k)'
        BY <1>1, <1>3 DEF PassUsed, LoopPassUsed
    <2>2. late'[k] > 0 => k <= created'
        BY <1>1 DEF PassUsed
    <2>3. QED
        BY <1>3, <2>1, <2>2 DEF PassUsed
<1>4. QED
    BY <1>2, <1>3

LEMMA WorkerKeepsPass ==
    ASSUME Indexed, NEW i \in JobIds, PassUsed(i), Worker(i)
    PROVE  PassUsed(i)'
<1> USE DEF Indexed
<1>1. late[i] \in Nat /\ plan[i] \in 0 .. PlanTools /\ i \in Nat /\ created \in Nat
    BY DEF TypeOK, JobIds
<1>2. worker[i] # "none" => i <= created
    BY <1>1 DEF Fresh
<1>3. CASE Acquire(i) \/ ToolEnds(i)
    <2>1. UNCHANGED <<request, created, cancel, late, plan, direct>>
        BY <1>3 DEF Acquire, ToolEnds, records, history
    <2>2. \/ worker[i] = "wait" /\ worker'[i] = "first"
          \/ worker[i] = "tool" /\ worker'[i] = "loop"
        BY <1>3 DEF Acquire, ToolEnds, TypeOK
    <2>3. QED
        BY <2>1, <2>2 DEF PassUsed, LoopPassUsed, PlanPassUsed
<1>4. CASE Check(i)
    <2>1. UNCHANGED <<request, created, cancel, late, plan, direct>>
        BY <1>4 DEF Check, records, history
    <2>2. /\ worker[i] \in {"first", "loop"}
          /\ IF i \in cancel THEN worker'[i] = "cancelled"
             ELSE worker'[i] = IF worker[i] = "first" THEN "begun" ELSE "checked"
        BY <1>4 DEF Check, Past, TypeOK
    <2>3. QED
        BY <2>1, <2>2 DEF PassUsed, LoopPassUsed, PlanPassUsed
<1>5. ASSUME NEW saved \in BOOLEAN, Begin(i, saved) PROVE PassUsed(i)'
    <2>1. /\ worker[i] = "begun" /\ late' = late
          /\ UNCHANGED <<request, created, cancel>>
        BY <1>5 DEF Begin, Notify
    <2>2. i \notin direct /\ late[i] = 0 /\ i <= created
        BY <1>1, <1>2, <2>1 DEF PassUsed, LoopPassUsed, PlanPassUsed
    <2>3. CASE i \notin direct'
        <3>1. worker'[i] \in {"loop", "failed"}
            BY <1>5, <2>3 DEF Begin, Notify, TypeOK
        <3>2. QED
            BY <2>1, <2>2, <2>3, <3>1 DEF PassUsed, LoopPassUsed
    <2>4. CASE i \in direct'
        <3>1. worker'[i] = "plan" /\ plan'[i] \in 1 .. PlanTools /\ request[i] \notin WorkRequests
            BY <1>5, <2>2, <2>4 DEF Begin, Notify, TypeOK
        <3>2. QED
            BY <2>1, <2>2, <2>4, <3>1, WorkTasksAssumption DEF PassUsed, PlanPassUsed
    <2>5. QED
        BY <2>3, <2>4
<1>6. CASE PlanTool(i)
    <2>1. /\ worker[i] = "plan" /\ plan[i] > 0 /\ plan'[i] = plan[i] - 1
          /\ late'[i] \in {late[i], late[i] + 1}
          /\ UNCHANGED <<request, created, cancel, direct, worker>>
        BY <1>6 DEF PlanTool, LateTool, records, TypeOK
    <2>2. i \in direct
        BY <2>1 DEF PassUsed, LoopPassUsed
    <2>3. QED
        BY <1>1, <2>1, <2>2, WorkTasksAssumption DEF PassUsed, PlanPassUsed
<1>7. ASSUME NEW next \in {"tool", "loop"}, NEW saved \in BOOLEAN, Progress(i, next, saved)
      PROVE  PassUsed(i)'
    <2>1. /\ worker[i] = "checked"
          /\ worker'[i] = IF saved THEN next ELSE "failed"
          /\ late'[i] = IF saved /\ next = "tool" /\ i \in cancel THEN late[i] + 1 ELSE late[i]
          /\ UNCHANGED <<request, created, cancel, plan, direct>>
        BY <1>7 DEF Progress, Notify, LateTool, TypeOK
    <2>2. late[i] = 0 /\ i <= created /\ i \notin direct
        BY <1>1, <1>2, <2>1 DEF PassUsed, LoopPassUsed, PlanPassUsed
    <2>3. QED
        BY <2>1, <2>2 DEF PassUsed, LoopPassUsed
<1>8. ASSUME NEW outcome \in Outcomes, Return(i, outcome) PROVE PassUsed(i)'
    <2>1. /\ worker'[i] \in Outcomes
          /\ UNCHANGED <<request, created, cancel, late, plan, direct>>
        BY <1>8 DEF Return, records, history, TypeOK
    <2>2. QED
        BY <2>1 DEF PassUsed, LoopPassUsed, PlanPassUsed, Outcomes
<1>9. ASSUME NEW saved \in BOOLEAN, Conclude(i, saved) PROVE PassUsed(i)'
    <2>1. /\ worker'[i] \in {"final", "failed"}
          /\ UNCHANGED <<request, created, cancel, late, plan, direct>>
        BY <1>9 DEF Conclude, history, TypeOK
    <2>2. QED
        BY <2>1 DEF PassUsed, LoopPassUsed, PlanPassUsed
<1>10. CASE Leave(i)
    <2>1. worker'[i] = "none" /\ UNCHANGED <<request, created, late, plan, direct>>
        BY <1>10 DEF Leave, records, history, TypeOK
    <2>2. QED
        BY <2>1 DEF PassUsed, LoopPassUsed, PlanPassUsed
<1>11. QED
    BY <1>3, <1>4, <1>5, <1>6, <1>7, <1>8, <1>9, <1>10 DEF Worker

(* A worker's step leaves the other jobs as they are.                      *)
LEMMA WorkerLeavesOthers ==
    ASSUME Indexed, NEW i \in JobIds, Worker(i), NEW k \in JobIds, k # i
    PROVE  /\ late'[k] = late[k] /\ worker'[k] = worker[k] /\ plan'[k] = plan[k]
           /\ k \in direct' <=> k \in direct
           /\ k \in cancel => k \in cancel'
           /\ request' = request /\ created' = created
<1> USE DEF Indexed, TypeOK, records, history
<1>1. CASE Acquire(i) \/ Check(i) \/ PlanTool(i) \/ ToolEnds(i) \/ Leave(i)
    BY <1>1 DEF Acquire, Check, PlanTool, LateTool, ToolEnds, Leave
<1>2. ASSUME NEW saved \in BOOLEAN, Begin(i, saved)
      PROVE  /\ late'[k] = late[k] /\ worker'[k] = worker[k] /\ plan'[k] = plan[k]
             /\ k \in direct' <=> k \in direct
             /\ cancel' = cancel /\ request' = request /\ created' = created
    BY <1>2 DEF Begin, Notify
<1>3. ASSUME NEW next \in {"tool", "loop"}, NEW saved \in BOOLEAN, Progress(i, next, saved)
      PROVE  /\ late'[k] = late[k] /\ worker'[k] = worker[k] /\ plan' = plan /\ direct' = direct
             /\ cancel' = cancel /\ request' = request /\ created' = created
    BY <1>3 DEF Progress, Notify, LateTool
<1>4. ASSUME NEW outcome \in Outcomes, Return(i, outcome)
      PROVE  /\ late' = late /\ worker'[k] = worker[k] /\ plan' = plan /\ direct' = direct
             /\ cancel' = cancel /\ request' = request /\ created' = created
    BY <1>4 DEF Return
<1>5. ASSUME NEW saved \in BOOLEAN, Conclude(i, saved)
      PROVE  /\ late' = late /\ worker'[k] = worker[k] /\ plan' = plan /\ direct' = direct
             /\ cancel' = cancel /\ request' = request /\ created' = created
    BY <1>5 DEF Conclude
<1>6. QED
    BY <1>1, <1>2, <1>3, <1>4, <1>5 DEF Worker

LEMMA StepKeepsToolPass ==
    ASSUME Indexed, ToolPassUsed, [Next]_vars
    PROVE  ToolPassUsed'
<1> SUFFICES ASSUME NEW k \in JobIds PROVE PassUsed(k)'
    BY DEF ToolPassUsed
<1> USE DEF Indexed
<1>0. /\ PassUsed(k) /\ late[k] \in Nat /\ plan[k] \in 0 .. PlanTools /\ k \in Nat
      /\ created \in Nat
    BY DEF ToolPassUsed, TypeOK, JobIds
<1>1. ASSUME NEW r \in Requests, NEW saved \in BOOLEAN, Start(r, saved)
      PROVE  PassUsed(k)'
    <2>1. /\ created' = created + 1
          /\ k # created + 1 => worker'[k] = worker[k] /\ request'[k] = request[k]
          /\ cancel' = cancel /\ late' = late /\ plan' = plan /\ direct' = direct
        BY <1>1, WorkTasksAssumption DEF Start, StartThread, TypeOK, JobIds
    <2>2. CASE k = created + 1
        <3>1. late[k] = 0 /\ k \notin direct
            BY <1>0, <2>2 DEF PassUsed
        <3>2. worker'[k] # "plan"
            BY <1>1, <1>0, <2>2 DEF Start, StartThread, Fresh, TypeOK
        <3>3. QED
            BY <2>1, <3>1, <3>2 DEF PassUsed, LoopPassUsed
    <2>3. CASE k # created + 1
        BY <1>0, <2>1, <2>3, SameWorkerKeepsPass
    <2>4. QED
        BY <2>2, <2>3
<1>2. ASSUME NEW i \in JobIds, NEW saved \in BOOLEAN, Stop(i, saved)
      PROVE  PassUsed(k)'
    <2>1. /\ UNCHANGED <<request, created, worker, late, plan, direct>>
          /\ k \in cancel => k \in cancel'
        BY <1>2 DEF Stop, history
    <2>2. QED
        BY <1>0, <2>1, SameWorkerKeepsPass
<1>3. ASSUME NEW i \in JobIds, Worker(i)
      PROVE  PassUsed(k)'
    <2>1. CASE k = i
        BY <1>0, <1>3, <2>1, WorkerKeepsPass
    <2>2. CASE k # i
        <3>1. /\ late'[k] = late[k] /\ worker'[k] = worker[k] /\ plan'[k] = plan[k]
              /\ k \in direct' <=> k \in direct
              /\ k \in cancel => k \in cancel'
              /\ request' = request /\ created' = created
            BY <1>3, <2>2, WorkerLeavesOthers
        <3>2. QED
            BY <1>0, <3>1, SameWorkerKeepsPass
    <2>3. QED
        BY <2>1, <2>2
<1>4. CASE Close \/ Damage \/ Restart \/ UNCHANGED vars
    <2>1. /\ UNCHANGED <<request, created, worker, late, plan, direct>>
          /\ k \in cancel => k \in cancel'
        BY <1>4 DEF Close, Damage, Restart, vars, records, volatile, history
    <2>2. QED
        BY <1>0, <2>1, SameWorkerKeepsPass
<1>5. CASE End
    <2>1. /\ UNCHANGED <<request, created, late, direct>>
          /\ worker'[k] = "none" /\ plan'[k] = 0
        BY <1>5 DEF End, history
    <2>2. QED
        BY <1>0, <2>1, SameWorkerKeepsPass
<1>6. QED
    BY <1>1, <1>2, <1>3, <1>4, <1>5 DEF Next

(* After stop() the loop begins at most the tool whose check had passed,   *)
(* and a job that is not for work at most the rest of its plan.            *)
THEOREM StopLetsOneToolPassHolds == Spec => []StopLetsOneToolPass
<1>1. Init => ToolPassUsed
    BY DEF Init, ToolPassUsed, PassUsed, LoopPassUsed
<1>2. Indexed /\ ToolPassUsed => StopLetsOneToolPass
    <2> SUFFICES ASSUME Indexed, ToolPassUsed, NEW j \in JobIds
                 PROVE  \/ late[j] <= 1
                        \/ j \in direct /\ request[j] \notin WorkRequests /\ late[j] <= PlanTools
        BY DEF StopLetsOneToolPass
    <2>1. late[j] \in Nat /\ plan[j] \in 0 .. PlanTools
        BY DEF Indexed, TypeOK
    <2>2. QED
        BY <2>1, WorkTasksAssumption DEF ToolPassUsed, PassUsed, LoopPassUsed, PlanPassUsed
<1>3. Indexed /\ ToolPassUsed /\ [Next]_vars => ToolPassUsed'
    BY StepKeepsToolPass
<1>4. QED
    BY <1>1, <1>2, <1>3, IndexedInvariant, PTL DEF Spec

(* A damaged work-tasks.json is never written over: the process that finds *)
(* it holds no record, and admits no job that could write one.             *)
THEOREM DamageIsKeptHolds == Spec => DamageIsKept
<1> DEFINE Kept == damaged => damaged' /\ disk' = disk
<1>1. ASSUME Indexed, Next PROVE Kept
    <2> SUFFICES ASSUME damaged PROVE damaged' /\ disk' = disk
        OBVIOUS
    <2>1. ~up \/ storageError
        BY <1>1 DEF Indexed, DamageSeen
    <2>2. \A j \in JobIds : mem[j] = "absent" /\ worker[j] = "none"
        BY <1>1, <2>1 DEF Indexed, NothingHeld
    <2>3. ASSUME NEW r \in Requests, NEW saved \in BOOLEAN PROVE ~Start(r, saved)
        BY <2>1 DEF Start, Admissible
    <2>4. ASSUME NEW j \in JobIds, NEW saved \in BOOLEAN PROVE ~Stop(j, saved)
        BY <2>2 DEF Stop, ACTIVE
    <2>5. ASSUME NEW j \in JobIds PROVE ~Worker(j)
        BY <2>2 DEF Worker, Acquire, Check, Begin, PlanTool, ToolEnds, Leave, Progress, Return, Conclude, Outcomes
    <2>6. ASSUME Close \/ End \/ Damage PROVE damaged' /\ disk' = disk
        BY <2>6 DEF Close, End, Damage, records
    <2>7. ASSUME Restart PROVE damaged' /\ disk' = disk
        BY <2>2, <2>7 DEF Restart
    <2>8. QED
        BY <1>1, <2>3, <2>4, <2>5, <2>6, <2>7 DEF Next
<1>2. ASSUME Indexed, [Next]_vars PROVE [Kept]_vars
    BY <1>1, <1>2
<1>3. QED
    BY <1>2, IndexedInvariant, PTL DEF Spec, DamageIsKept

-----------------------------------------------------------------------------
(* The loop.  The indexes it keeps are related to the record of calls: an  *)
(* index n of the code is the entry n + 1 of completed.                    *)

Open == phase \notin {"reply", "done"}

(* What holds while the loop runs, and inside a tool.                      *)
Bounded ==
    /\ Open => status = "running" /\ idle <= 2 /\ repeated <= 2
    /\ phase = "tool" =>
          /\ call \in Calls /\ left > 0 /\ Len(completed) < calls
          /\ ~(Mutating(call) /\ call = lastMutation)

(* last_successful_verification_index names a check that no failed tool    *)
(* followed.                                                               *)
VerifiedRight ==
    verified # None =>
        /\ verified + 1 \in Handled
        /\ Ok(verified + 1) /\ Verifying(completed[verified + 1].call)
        /\ \A k \in Handled : k > verified + 1 => Ok(k) \/ Tool(k) \in Dialogue

(* last_successful_mutation_index and the call it stands for.              *)
WriteRight ==
    /\ \A k \in Handled : Ok(k) /\ Mutating(completed[k].call) => k <= lastWrite + 1
    /\ lastWrite # None =>
          /\ lastWrite + 1 \in Handled
          /\ Ok(lastWrite + 1) /\ Mutating(lastMutation)
          /\ completed[lastWrite + 1].call = lastMutation

(* The three fields of CodingEvidence.                                     *)
CodingRight ==
    job.coding =>
        /\ checkedAt # None =>
              /\ checkedAt + 1 \in Handled
              /\ Ok(checkedAt + 1) /\ Tool(checkedAt + 1) = "run"
        /\ \A k \in Handled : Ok(k) /\ Tool(k) \in {"write", "info"} => k <= changedAt + 1
        /\ ~failedCheck => \A k \in Handled : k > checkedAt + 1 => Tool(k) # "run"

(* The counter of results alike counts at least two when the last two are. *)
RepeatedRight ==
    /\ completed # <<>> => repeated >= 1
    /\ Len(completed) >= 2 /\ Alike(Len(completed) - 1, Len(completed)) => repeated >= 2

(* The inductive invariant.                                                *)
Facts == VerifiedRight /\ WriteRight /\ CodingRight /\ RepeatedRight /\ NoChangeTwice
Ends == ThreeAlikeBlock /\ PasswordEndsJob /\ CompletedIsVerified /\ CodeIsTested
Sound == LoopTypeOK /\ Bounded /\ Facts /\ Ends

LEMMA InitSound == LoopInit => Sound
<1> SUFFICES ASSUME LoopInit PROVE Sound
  OBVIOUS
<1>1. completed = <<>> /\ Handled = {}
  BY DEF LoopInit, Handled
<1>2. LoopTypeOK
  <2>1. completed \in Seq([call : Calls, result : Results])
    BY <1>1
  <2>2. Len(completed) = 0
    BY <1>1
  <2>3. response \in {"answer", "filler", "calls"} /\ left \in 0 .. MaxBatch
    BY WorkLoopAssumption DEF LoopInit
  <2>4. single \in BOOLEAN
    BY DEF LoopInit
  <2>5. calls \in 0 .. MaxCalls /\ idle \in 0 .. 3 /\ repeated \in 0 .. 3 /\ Len(completed) <= calls
    BY <2>2, WorkLoopAssumption DEF LoopInit
  <2>6. /\ lastWrite \in Index /\ verified \in Index
        /\ changedAt \in Index /\ checkedAt \in Index
    BY WorkLoopAssumption DEF LoopInit, Index, None
  <2>7. /\ job \in Jobs /\ phase \in Phases /\ call \in Calls \cup {NoCall}
        /\ lastMutation \in Calls \cup {NoCall} /\ failedCheck \in BOOLEAN
        /\ cancelled \in BOOLEAN /\ expired \in BOOLEAN /\ status \in LoopStatuses
    BY DEF LoopInit, Phases, LoopStatuses
  <2> QED BY <2>1, <2>3, <2>4, <2>5, <2>6, <2>7 DEF LoopTypeOK
<1>3. Bounded
  BY DEF LoopInit, Bounded, Open
<1>4. Facts
  BY <1>1 DEF LoopInit, Facts, VerifiedRight, WriteRight, CodingRight, RepeatedRight, NoChangeTwice, None
<1>5. Ends
  BY <1>1 DEF LoopInit, Ends, ThreeAlikeBlock, PasswordEndsJob, CompletedIsVerified, CodeIsTested
<1> QED BY <1>2, <1>3, <1>4, <1>5 DEF Sound

-----------------------------------------------------------------------------
(* Steps that record no call.                                              *)

(* The evidence reads only the record, the indexes and the job.            *)
LEMMA QuietFacts ==
    ASSUME Facts, UNCHANGED <<job, completed, repeated, evidence>>
    PROVE  Facts'
BY DEF evidence, Facts, VerifiedRight, WriteRight, CodingRight, RepeatedRight, NoChangeTwice,
       Alike, Ok, Tool, Handled

(* The ends stay justified when the status does, or when it is another     *)
(* than completed and no third result alike had been recorded.             *)
LEMMA QuietEnds ==
    ASSUME Sound, UNCHANGED <<job, completed>>,
           \/ Open /\ status' # "completed"
           \/ ~Open /\ phase' = "done" /\ status' \in {status, "failed"}
           \/ UNCHANGED <<phase, status>>
    PROVE  Ends'
<1>1. UNCHANGED <<Handled, Verified, Tested, ReadOnlySoFar>>
  BY DEF Handled, Verified, Tested, ReadOnlySoFar, Ok, Tool
<1>2. Open => status = "running"
  BY DEF Sound, Bounded
<1>3. ThreeAlikeBlock'
  BY <1>1, <1>2 DEF Sound, Ends, ThreeAlikeBlock, Alike
<1>4. PasswordEndsJob'
  BY <1>1 DEF Sound, Ends, PasswordEndsJob, Open
<1>5. CompletedIsVerified' /\ CodeIsTested'
  BY <1>1 DEF Sound, Ends, CompletedIsVerified, CodeIsTested
<1> QED BY <1>3, <1>4, <1>5 DEF Ends

(* A job may end as completed when its evidence says so.                   *)
LEMMA CompletedEnds ==
    ASSUME Sound, UNCHANGED <<job, completed>>, Open,
           job.requireWork => Verified \/ (job.answerOnly /\ ReadOnlySoFar),
           job.coding => Tested \/ (job.answerOnly /\ ReadOnlySoFar)
    PROVE  Ends'
<1>1. UNCHANGED <<Handled, Verified, Tested, ReadOnlySoFar>>
  BY DEF Handled, Verified, Tested, ReadOnlySoFar, Ok, Tool
<1>2. status = "running"
  BY DEF Sound, Bounded
<1>3. ThreeAlikeBlock'
  BY <1>1, <1>2 DEF Sound, Ends, ThreeAlikeBlock, Alike
<1>4. PasswordEndsJob'
  BY <1>1 DEF Sound, Ends, PasswordEndsJob, Open
<1>5. CompletedIsVerified' /\ CodeIsTested'
  BY <1>1 DEF CompletedIsVerified, CodeIsTested
<1> QED BY <1>3, <1>4, <1>5 DEF Ends

-----------------------------------------------------------------------------
(* Settle: the step that records a call.                                   *)

LEMMA EntryType ==
    ASSUME NEW c \in Calls, NEW r \in Results
    PROVE  Entry(c, r) \in [call : Calls, result : Results]
BY DEF Entry

LEMMA RefusedType == Refused \in Results
BY DEF Refused, Results

LEMMA ExecutedType == Executed \subseteq Results
BY DEF Executed

(* The record grows by one entry, and the entries before it stay.          *)
LEMMA Recorded ==
    ASSUME LoopTypeOK, NEW c \in Calls, NEW r \in Results, Settle(c, r), NEW n, n = Len(completed)
    PROVE  /\ n \in Nat
           /\ completed' \in Seq([call : Calls, result : Results]) /\ Len(completed') = n + 1
           /\ Handled = 1 .. n /\ Handled' = 1 .. (n + 1)
           /\ \A k \in 1 .. n : completed'[k] = completed[k]
           /\ completed'[n + 1].call = c /\ completed'[n + 1].result = r
<1>1. completed \in Seq([call : Calls, result : Results]) /\ completed' = Append(completed, Entry(c, r))
  BY DEF LoopTypeOK, Settle
<1>2. /\ n \in Nat
      /\ completed' \in Seq([call : Calls, result : Results]) /\ Len(completed') = n + 1
      /\ \A k \in 1 .. n : completed'[k] = completed[k]
      /\ completed'[n + 1] = Entry(c, r)
  BY <1>1, EntryType
<1>3. Handled = 1 .. n /\ Handled' = 1 .. (n + 1)
  BY <1>2 DEF Handled
<1>4. Entry(c, r).call = c /\ Entry(c, r).result = r
  BY DEF Entry
<1> QED BY <1>2, <1>3, <1>4

(* What a step that records a call may assume; left, calls and the call in *)
(* hand are those of NextCall and ToolReturns.                             *)
Records(c, r) ==
    /\ c \in Calls /\ r \in Results
    /\ phase \in {"calls", "tool"} /\ left > 0
    /\ calls' \in 0 .. MaxCalls /\ Len(completed) < calls'
    /\ r.ran => ~(Mutating(c) /\ c = lastMutation)
    /\ Settle(c, r)
    /\ call' \in {call, NoCall}
    /\ UNCHANGED <<job, response, single, idle, signals>>

LEMMA RecordsType ==
    ASSUME Sound, NEW c, NEW r, Records(c, r)
    PROVE  LoopTypeOK' /\ Bounded'
<1>n. PICK n : n = Len(completed)
  OBVIOUS
<1>0. /\ LoopTypeOK /\ Bounded /\ c \in Calls /\ r \in Results /\ Settle(c, r)
      /\ Open /\ status = "running" /\ idle <= 2 /\ repeated <= 2
  BY DEF Sound, Records, Bounded, Open
<1>1. /\ completed' \in Seq([call : Calls, result : Results])
      /\ n \in Nat /\ Len(completed') = n + 1
  BY <1>n, <1>0, Recorded
<1>2. n \in Index /\ n + 1 <= calls' /\ calls' \in 0 .. MaxCalls
  BY <1>n, <1>1, WorkLoopAssumption DEF Records, Index
<1>3. /\ lastMutation' \in Calls \cup {NoCall}
      /\ lastWrite' \in Index /\ verified' \in Index
      /\ changedAt' \in Index /\ checkedAt' \in Index
  <2>1. lastMutation' \in Calls \cup {NoCall}
    BY <1>0 DEF LoopTypeOK, Settle
  <2>2. lastWrite' \in Index
    BY <1>n, <1>0, <1>2 DEF LoopTypeOK, Settle
  <2>3. verified' \in Index
    <3>1. None \in Index
      BY WorkLoopAssumption DEF None, Index
    <3> QED BY <3>1, <1>n, <1>0, <1>2 DEF LoopTypeOK, Settle, VerifiedAfter
  <2>4. changedAt' \in Index /\ checkedAt' \in Index
    <3>1. Observe(c, r, n)
      BY <1>n, <1>0 DEF Settle
    <3> QED BY <3>1, <1>0, <1>2 DEF LoopTypeOK, Observe
  <2> QED BY <2>1, <2>2, <2>3, <2>4
<1>4. failedCheck' \in BOOLEAN
  <2>1. failedCheck' = (job.coding /\ FailedCheckAfter(c, r))
    BY <1>0 DEF Settle, Observe
  <2> QED BY <2>1
<1>5. repeated' \in 0 .. 3 /\ left' \in 0 .. MaxBatch
  BY <1>0, WorkLoopAssumption DEF LoopTypeOK, Settle, RepeatedAfter, Records
<1>6. \/ phase' = "reply" /\ status' \in {"blocked", "needs_input"}
      \/ phase' = "calls" /\ status' = "running" /\ repeated' <= 2
  BY <1>0, <1>5 DEF Settle, AfterCall, EndJob, Continue
<1>7. LoopTypeOK'
  BY <1>0, <1>1, <1>2, <1>3, <1>4, <1>5, <1>6
  DEF LoopTypeOK, Records, Phases, LoopStatuses, signals
<1>8. Bounded'
  BY <1>0, <1>6 DEF Bounded, Open, Records
<1> QED BY <1>7, <1>8

(* The evidence stays right: the three cases of the code, a success that   *)
(* checks or changes, a failure, and a call that does neither.             *)
LEMMA RecordsFacts ==
    ASSUME Sound, NEW c, NEW r, Records(c, r)
    PROVE  VerifiedRight' /\ WriteRight' /\ CodingRight' /\ RepeatedRight'
<1>n. PICK n : n = Len(completed)
  OBVIOUS
<1>0. /\ LoopTypeOK /\ c \in Calls /\ r \in Results /\ Settle(c, r) /\ job' = job
      /\ VerifiedRight /\ WriteRight /\ CodingRight /\ RepeatedRight
  BY DEF Sound, Facts, Records
<1>1. /\ n \in Nat /\ Len(completed') = n + 1
      /\ Handled = 1 .. n /\ Handled' = 1 .. (n + 1)
      /\ \A k \in 1 .. n : completed'[k] = completed[k]
      /\ completed'[n + 1].call = c /\ completed'[n + 1].result = r
  BY <1>n, <1>0, Recorded
<1>2. /\ \A k \in Handled : Ok(k) = completed[k].result.ok /\ Tool(k) = completed[k].call.tool
      /\ n + 1 \notin Handled
  BY <1>1 DEF Ok, Tool
<1>3. lastWrite \in Int /\ verified \in Int /\ changedAt \in Int /\ checkedAt \in Int
  BY <1>0, WorkLoopAssumption DEF LoopTypeOK, Index
<1>4. VerifiedRight'
  <2>1. verified' = VerifiedAfter(c, r, n)
    BY <1>n, <1>0 DEF Settle
  <2>2. CASE r.ok /\ Verifying(c)
    <3>1. verified' = n
      BY <2>1, <2>2 DEF VerifiedAfter
    <3> QED BY <3>1, <2>2, <1>1 DEF VerifiedRight, Ok, Tool
  <2>3. CASE ~(r.ok /\ Verifying(c)) /\ verified' # None
    <3>1. verified' = verified /\ (r.ok \/ c.tool \in Dialogue)
      BY <2>1, <2>3 DEF VerifiedAfter
    <3>2. /\ verified' + 1 \in Handled
          /\ Ok(verified' + 1) /\ Verifying(completed[verified' + 1].call)
          /\ \A k \in Handled : k > verified' + 1 => Ok(k) \/ Tool(k) \in Dialogue
      BY <1>0, <2>3, <3>1 DEF VerifiedRight
    <3>3. /\ verified' + 1 \in Handled'
          /\ completed'[verified' + 1].result.ok /\ Verifying(completed'[verified' + 1].call)
      BY <3>2, <1>1, <3>1 DEF Ok
    <3>4. \A k \in Handled' : k > verified' + 1 => completed'[k].result.ok \/ completed'[k].call.tool \in Dialogue
      BY <3>1, <3>2, <1>1, <1>2
    <3> QED BY <3>3, <3>4 DEF VerifiedRight, Ok, Tool
  <2> QED BY <2>2, <2>3 DEF VerifiedRight
<1>5. WriteRight'
  <2>1. CASE r.ok /\ Mutating(c)
    <3>1. lastWrite' = n /\ lastMutation' = c
      BY <1>n, <1>0, <2>1 DEF Settle
    <3>2. \A k \in Handled' : k <= n + 1
      BY <1>1
    <3> QED BY <2>1, <3>1, <3>2, <1>1 DEF WriteRight, Ok
  <2>2. CASE ~(r.ok /\ Mutating(c))
    <3>1. lastWrite' = lastWrite /\ lastMutation' = lastMutation
      BY <1>0, <2>2 DEF Settle
    <3>2. \A k \in Handled' : completed'[k].result.ok /\ Mutating(completed'[k].call) => k <= lastWrite' + 1
      BY <1>0, <1>1, <1>2, <2>2, <3>1 DEF WriteRight
    <3>3. lastWrite' # None =>
            /\ lastWrite' + 1 \in Handled'
            /\ completed'[lastWrite' + 1].result.ok /\ Mutating(lastMutation')
            /\ completed'[lastWrite' + 1].call = lastMutation'
      BY <1>0, <1>1, <3>1 DEF WriteRight, Ok
    <3> QED BY <3>2, <3>3 DEF WriteRight, Ok
  <2> QED BY <2>1, <2>2
<1>6. CodingRight'
  <2> SUFFICES ASSUME job.coding PROVE CodingRight'
    BY <1>0 DEF CodingRight
  <2>1. /\ changedAt' = IF r.ok /\ c.tool \in {"write", "info"} THEN n ELSE changedAt
        /\ checkedAt' = IF r.ok /\ c.tool = "run" THEN n ELSE checkedAt
        /\ failedCheck' = FailedCheckAfter(c, r)
    <3>1. Observe(c, r, n)
      BY <1>n, <1>0 DEF Settle
    <3>2. failedCheck' = (TRUE /\ FailedCheckAfter(c, r))
      BY <3>1 DEF Observe
    <3>3. FailedCheckAfter(c, r) \in BOOLEAN
      BY <1>0 DEF FailedCheckAfter, LoopTypeOK
    <3> QED BY <3>1, <3>2, <3>3 DEF Observe
  <2>2. /\ checkedAt # None => /\ checkedAt + 1 \in Handled
                               /\ Ok(checkedAt + 1) /\ Tool(checkedAt + 1) = "run"
        /\ \A k \in Handled : Ok(k) /\ Tool(k) \in {"write", "info"} => k <= changedAt + 1
        /\ ~failedCheck => \A k \in Handled : k > checkedAt + 1 => Tool(k) # "run"
    BY <1>0 DEF CodingRight
  <2>3. checkedAt' # None => /\ checkedAt' + 1 \in Handled'
                             /\ completed'[checkedAt' + 1].result.ok /\ completed'[checkedAt' + 1].call.tool = "run"
    <3>1. CASE r.ok /\ c.tool = "run"
      BY <3>1, <2>1, <1>1, <1>2 DEF Ok, Tool
    <3>2. CASE ~(r.ok /\ c.tool = "run")
      BY <3>2, <2>1, <2>2, <1>1 DEF Ok, Tool
    <3> QED BY <3>1, <3>2
  <2>4. \A k \in Handled' : completed'[k].result.ok /\ completed'[k].call.tool \in {"write", "info"} => k <= changedAt' + 1
    BY <2>1, <2>2, <1>1, <1>2, <1>3
  <2>5. ~failedCheck' => \A k \in Handled' : k > checkedAt' + 1 => completed'[k].call.tool # "run"
    <3>1. CASE c.tool = "run"
      <4>1. CASE r.ok
        <5>1. checkedAt' = n
          BY <4>1, <3>1, <2>1
        <5> QED BY <5>1, <1>1
      <4>2. CASE ~r.ok
        BY <4>2, <3>1, <2>1 DEF FailedCheckAfter
      <4> QED BY <4>1, <4>2
    <3>2. CASE c.tool # "run"
      <4>1. failedCheck' = failedCheck /\ checkedAt' = checkedAt
        BY <3>2, <2>1 DEF FailedCheckAfter
      <4>2. CASE ~failedCheck
        <5>1. \A k \in Handled : k > checkedAt + 1 => completed[k].call.tool # "run"
          BY <4>2, <2>2 DEF Tool
        <5> QED BY <5>1, <4>1, <3>2, <1>1
      <4> QED BY <4>1, <4>2
    <3> QED BY <3>1, <3>2
  <2> QED BY <2>3, <2>4, <2>5 DEF CodingRight, Ok, Tool
<1>7. RepeatedRight'
  <2>1. repeated' = RepeatedAfter(c, r) /\ repeated \in 0 .. 3
    BY <1>0 DEF Settle, LoopTypeOK
  <2>2. repeated' >= 1
    BY <2>1 DEF RepeatedAfter
  <2>3. n + 1 >= 2 /\ Alike(n, n + 1)' => repeated' >= 2
    <3> SUFFICES ASSUME n + 1 >= 2, Alike(n, n + 1)' PROVE repeated' >= 2
      OBVIOUS
    <3>1. n \in Handled /\ completed # <<>>
      BY <1>n, <1>1
    <3>2. SameIdentity(c, r)
      BY <1>n, <3>1, <1>1 DEF SameIdentity, Alike
    <3>3. repeated >= 1
      BY <3>1, <1>0 DEF RepeatedRight
    <3> QED BY <3>2, <3>3, <2>1 DEF RepeatedAfter
  <2> QED BY <2>2, <2>3, <1>1 DEF RepeatedRight
<1> QED BY <1>4, <1>5, <1>6, <1>7

(* A change that succeeded is refused until another one succeeds.          *)
LEMMA RecordsNoChangeTwice ==
    ASSUME Sound, NEW c, NEW r, Records(c, r)
    PROVE  NoChangeTwice'
<1>n. PICK n : n = Len(completed)
  OBVIOUS
<1>0. /\ LoopTypeOK /\ c \in Calls /\ r \in Results /\ Settle(c, r)
      /\ WriteRight /\ NoChangeTwice /\ (r.ran => ~(Mutating(c) /\ c = lastMutation))
  BY DEF Sound, Facts, Records
<1>1. /\ n \in Nat /\ Len(completed') = n + 1
      /\ Handled = 1 .. n /\ Handled' = 1 .. (n + 1)
      /\ \A k \in 1 .. n : completed'[k] = completed[k]
      /\ completed'[n + 1].call = c /\ completed'[n + 1].result = r
  BY <1>n, <1>0, Recorded
<1>2. lastWrite \in Int
  BY <1>0, WorkLoopAssumption DEF LoopTypeOK, Index
<1> SUFFICES ASSUME NEW i \in Handled', NEW k \in Handled', i < k,
                    completed'[i].call = completed'[k].call,
                    completed'[i].result.ok, Mutating(completed'[i].call), completed'[k].result.ran
             PROVE  \E m \in Handled' : /\ i < m /\ m < k /\ completed'[m].result.ok
                                        /\ Mutating(completed'[m].call)
                                        /\ completed'[m].call # completed'[i].call
  BY DEF NoChangeTwice, Ok
<1>3. i \in Handled /\ completed'[i] = completed[i] /\ Ok(i)
  BY <1>1 DEF Ok
<1>4. CASE k \in Handled
  <2>1. PICK m \in Handled : /\ i < m /\ m < k /\ Ok(m)
                             /\ Mutating(completed[m].call)
                             /\ completed[m].call # completed[i].call
    BY <1>0, <1>1, <1>3, <1>4 DEF NoChangeTwice
  <2> QED BY <2>1, <1>1, <1>3 DEF Ok
<1>5. CASE k = n + 1
  <2> DEFINE w == lastWrite + 1
  <2>1. completed[i].call = c /\ Mutating(c) /\ c # lastMutation
    BY <1>0, <1>1, <1>3, <1>5
  <2>2. i <= w
    BY <1>0, <1>3, <2>1 DEF WriteRight
  <2>3. lastWrite # None
    BY <2>2, <1>1, <1>2, <1>3 DEF None
  <2>4. w \in Handled /\ Ok(w) /\ completed[w].call = lastMutation /\ Mutating(lastMutation)
    BY <1>0, <2>3 DEF WriteRight
  <2>5. i # w
    BY <2>1, <2>4
  <2>6. /\ w \in Handled' /\ i < w /\ w < k /\ completed'[w].result.ok
        /\ Mutating(completed'[w].call) /\ completed'[w].call # completed'[i].call
    BY <2>1, <2>2, <2>4, <2>5, <1>1, <1>2, <1>3, <1>5 DEF Ok
  <2> QED BY <2>6
<1> QED BY <1>1, <1>4, <1>5

(* The third result alike and a request for the password leave the loop.   *)
LEMMA RecordsEnds ==
    ASSUME Sound, NEW c, NEW r, Records(c, r)
    PROVE  Ends'
<1>n. PICK n : n = Len(completed)
  OBVIOUS
<1>0. /\ LoopTypeOK /\ c \in Calls /\ r \in Results /\ Settle(c, r)
      /\ RepeatedRight /\ ThreeAlikeBlock /\ PasswordEndsJob
      /\ Open /\ status = "running" /\ repeated \in 0 .. 3
  BY DEF Sound, Facts, Ends, Records, Bounded, Open, LoopTypeOK
<1>1. /\ n \in Nat /\ Len(completed') = n + 1
      /\ Handled = 1 .. n /\ Handled' = 1 .. (n + 1)
      /\ \A k \in 1 .. n : completed'[k] = completed[k]
      /\ completed'[n + 1].call = c /\ completed'[n + 1].result = r
  BY <1>n, <1>0, Recorded
<1>2. /\ repeated' >= 3 => EndJob("blocked")
      /\ r.auth => \E outcome \in {"blocked", "needs_input"} : EndJob(outcome)
      /\ status' \in {"running", "blocked", "needs_input"}
  BY <1>0 DEF Settle, AfterCall, EndJob, Continue
<1>3. ThreeAlikeBlock'
  <2> SUFFICES ASSUME NEW i \in Handled', i + 2 \in Handled', Alike(i, i + 1)', Alike(i + 1, i + 2)'
               PROVE  i + 2 = n + 1 /\ status' \in {"blocked", "failed"}
    BY <1>1 DEF ThreeAlikeBlock
  <2>1. i \in Handled /\ i + 1 \in Handled /\ i \in Nat
    BY <1>1
  <2>2. i + 2 \notin Handled
    <3> SUFFICES ASSUME i + 2 \in Handled PROVE FALSE
      OBVIOUS
    <3>1. Alike(i, i + 1) /\ Alike(i + 1, i + 2)
      BY <2>1, <1>1 DEF Alike
    <3> QED BY <3>1, <2>1, <1>0 DEF ThreeAlikeBlock
  <2>3. i + 2 = n + 1
    BY <2>2, <1>1
  <2>4. n >= 2 /\ i = n - 1 /\ i + 1 = n
    BY <2>3, <2>1, <1>1
  <2>5. Alike(n - 1, n)
    BY <2>4, <2>1, <1>1 DEF Alike
  <2>6. repeated >= 2
    BY <1>n, <2>5, <2>4, <1>0 DEF RepeatedRight
  <2>7. SameIdentity(c, r)
    BY <1>n, <2>3, <2>4, <2>1, <1>1 DEF SameIdentity, Alike
  <2>8. repeated' >= 3
    BY <2>6, <2>7, <1>0 DEF Settle, RepeatedAfter
  <2> QED BY <2>3, <2>8, <1>2 DEF EndJob
<1>4. PasswordEndsJob'
  <2> SUFFICES ASSUME NEW i \in Handled', completed'[i].result.auth
               PROVE  i = n + 1 /\ phase' \in {"reply", "done"} /\ status' # "completed"
    BY <1>1 DEF PasswordEndsJob
  <2>1. i \notin Handled
    BY <1>0, <1>1 DEF PasswordEndsJob, Open
  <2> QED BY <2>1, <1>1, <1>2 DEF EndJob
<1>5. CompletedIsVerified' /\ CodeIsTested'
  BY <1>2 DEF CompletedIsVerified, CodeIsTested
<1> QED BY <1>3, <1>4, <1>5 DEF Ends

LEMMA RecordsKeeps ==
    ASSUME Sound, NEW c, NEW r, Records(c, r)
    PROVE  Sound'
BY RecordsType, RecordsFacts, RecordsNoChangeTwice, RecordsEnds DEF Sound, Facts

-----------------------------------------------------------------------------
(* The actions.                                                            *)

(* The closing rule reads the indexes; the record justifies it.            *)
LEMMA FinishJustified ==
    ASSUME Sound, NEW c \in Calls, FinishAccepted(c)
    PROVE  (job.requireWork => Verified) /\ (job.coding => Tested)
<1>0. /\ LoopTypeOK /\ VerifiedRight /\ WriteRight /\ CodingRight
      /\ lastWrite \in Int /\ verified \in Int /\ changedAt \in Int /\ checkedAt \in Int
  BY WorkLoopAssumption DEF Sound, Facts, LoopTypeOK, Index
<1>h. Handled \subseteq Int
  BY <1>0 DEF Handled, LoopTypeOK
<1>1. ASSUME job.requireWork PROVE Verified
  <2>1. verified >= lastWrite /\ verified >= 0
    BY <1>1 DEF FinishAccepted
  <2>2. /\ verified + 1 \in Handled
        /\ Ok(verified + 1) /\ Verifying(completed[verified + 1].call)
        /\ \A k \in Handled : k > verified + 1 => Ok(k) \/ Tool(k) \in Dialogue
    BY <2>1, <1>0 DEF VerifiedRight, None
  <2>3. \A k \in Handled : k > verified + 1 => (Ok(k) => ~Mutating(completed[k].call))
    BY <2>1, <1>0, <1>h DEF WriteRight
  <2> QED BY <2>2, <2>3 DEF Verified
<1>2. ASSUME job.coding PROVE Tested
  <2>1. checkedAt >= 0 /\ checkedAt >= changedAt /\ ~failedCheck
    BY <1>2 DEF FinishAccepted, CanFinish
  <2>2. /\ checkedAt + 1 \in Handled
        /\ Ok(checkedAt + 1) /\ Tool(checkedAt + 1) = "run"
        /\ \A k \in Handled : k > checkedAt + 1 => Tool(k) # "run"
        /\ \A k \in Handled : Ok(k) /\ Tool(k) \in {"write", "info"} => k <= changedAt + 1
    BY <2>1, <1>0, <1>2 DEF CodingRight, None
  <2>3. \A k \in Handled : k > checkedAt + 1 => (Ok(k) => Tool(k) \notin {"write", "info"})
    BY <2>1, <2>2, <1>0, <1>h
  <2> QED BY <2>2, <2>3 DEF Tested
<1> QED BY <1>1, <1>2

LEMMA StopHereKeeps == ASSUME Sound, StopHere PROVE Sound'
<1>1. LoopTypeOK' /\ Bounded'
  BY DEF Sound, StopHere, EndJob, StopOutcome, LoopTypeOK, Bounded, Open, Phases, LoopStatuses,
         reply, counters, evidence, signals
<1>2. Facts'
  BY QuietFacts DEF Sound, StopHere, counters
<1>3. Ends'
  BY QuietEnds DEF StopHere, EndJob, StopOutcome, Open
<1> QED BY <1>1, <1>2, <1>3 DEF Sound

LEMMA TextKeeps == ASSUME Sound, Text PROVE Sound'
<1>0. /\ UNCHANGED <<job, reply, call, completed, calls, repeated, evidence, signals>>
      /\ phase = "check" /\ Open /\ idle \in 0 .. 2
  BY DEF Text, Open, Sound, Bounded, LoopTypeOK
<1>1. idle' \in 0 .. 3 /\ \/ phase' = "reply" /\ status' \in {"completed", "blocked"}
                          \/ phase' = "round" /\ status' = status /\ idle' <= 2
  BY <1>0 DEF Text, EndJob, Continue, IdleAfter
<1>2. LoopTypeOK' /\ Bounded'
  BY <1>0, <1>1 DEF Sound, LoopTypeOK, Bounded, Open, Phases, LoopStatuses, reply, evidence, signals
<1>3. Facts'
  BY <1>0, QuietFacts DEF Sound
<1>4. CASE status' = "completed"
  <2>1. status = "running"
    BY <1>0 DEF Sound, Bounded
  <2>2. job.answerOnly /\ ReadOnlySoFar
    BY <2>1, <1>4 DEF Text, EndJob, Continue
  <2>3. Ends'
    BY <2>2, <1>0, CompletedEnds
  <2> QED BY <1>2, <1>3, <2>3 DEF Sound
<1>5. CASE status' # "completed"
  <2>1. Ends'
    BY <1>5, <1>0, QuietEnds
  <2> QED BY <1>2, <1>3, <2>1 DEF Sound
<1> QED BY <1>4, <1>5

(* A step inside the loop that hands on, stops or raises, and records      *)
(* nothing.                                                                *)
LEMMA PassKeeps ==
    ASSUME Sound, Open,
           UNCHANGED <<job, completed, repeated, evidence>>,
           idle' \in {0, idle}, calls' = calls, cancelled' \in BOOLEAN, expired' \in BOOLEAN,
           response' \in {"answer", "filler", "calls"}, single' \in BOOLEAN, left' \in 0 .. MaxBatch,
           \/ phase' \in {"check", "calls", "model"} /\ status' = status
           \/ phase' \in {"reply", "done"} /\ status' \in {"failed", "blocked"},
           call' \in {call, NoCall}
    PROVE  Sound'
<1>1. LoopTypeOK'
  BY DEF Sound, LoopTypeOK, Phases, LoopStatuses, evidence
<1>2. Bounded'
  BY DEF Sound, Bounded, Open, LoopTypeOK
<1>3. Facts'
  BY QuietFacts DEF Sound
<1>4. Ends'
  BY QuietEnds DEF Sound, Bounded
<1> QED BY <1>1, <1>2, <1>3, <1>4 DEF Sound

LEMMA NextCallKeeps ==
    ASSUME Sound, NEW c \in Calls, NEW saved \in BOOLEAN, NextCall(c, saved)
    PROVE  Sound'
<1>0. /\ phase = "calls" /\ Open /\ status = "running" /\ left > 0
      /\ calls' = calls + 1 /\ calls' \in 0 .. MaxCalls /\ Len(completed) < calls'
      /\ UNCHANGED <<job, response, single, idle, signals>>
      /\ idle <= 2 /\ repeated <= 2
  <2>1. calls \in 0 .. MaxCalls /\ ~(calls >= MaxCalls) /\ Len(completed) <= calls
    BY DEF NextCall, Stops, Sound, LoopTypeOK
  <2>2. Len(completed) \in Nat
    BY DEF Sound, LoopTypeOK
  <2> QED BY <2>1, <2>2, WorkLoopAssumption DEF NextCall, Open, Sound, Bounded
<1>1. CASE ~saved \/ (saved /\ Accepted(c))
  <2>0. UNCHANGED <<left, call, completed, repeated, evidence>>
    BY <1>1 DEF NextCall
  <2>1. \/ phase' = "done" /\ status' = "failed"
        \/ phase' = "reply" /\ status' = "needs_input"
        \/ phase' = "reply" /\ status' = "completed" /\ FinishAccepted(c)
    BY <1>1 DEF NextCall, Raise, EndJob, Accepted, AskAccepted, Finishing
  <2>2. LoopTypeOK' /\ Bounded'
    BY <1>0, <2>0, <2>1 DEF Sound, LoopTypeOK, Bounded, Open, Phases, LoopStatuses, evidence, signals
  <2>3. Facts'
    BY <1>0, <2>0, QuietFacts DEF Sound
  <2>4. Ends'
    <3>1. CASE status' = "completed"
      BY <3>1, <1>0, <2>0, <2>1, FinishJustified, CompletedEnds
    <3>2. CASE status' # "completed"
      BY <3>2, <1>0, <2>0, <2>1, QuietEnds
    <3> QED BY <3>1, <3>2
  <2> QED BY <2>2, <2>3, <2>4 DEF Sound
<1>2. CASE saved /\ ~Accepted(c) /\ RefusedCall(c)
  <2>1. Settle(c, Refused) /\ call' = call
    BY <1>2 DEF NextCall
  <2>2. Records(c, Refused)
    BY <1>0, <2>1, RefusedType DEF Records, Refused
  <2> QED BY <2>2, RecordsKeeps
<1>3. CASE saved /\ ~Accepted(c) /\ ~RefusedCall(c)
  <2>0. /\ UNCHANGED <<left, completed, repeated, evidence>>
        /\ call' = c /\ phase' = "tool" /\ status' = status
    BY <1>3 DEF NextCall, Continue
  <2>1. LoopTypeOK'
    BY <1>0, <2>0 DEF Sound, LoopTypeOK, Phases, evidence, signals
  <2>2. ~(Mutating(c) /\ c = lastMutation)
    BY <1>3 DEF RefusedCall
  <2>3. Bounded'
    BY <1>0, <2>0, <2>2 DEF Bounded, Open, evidence, Mutating
  <2>4. Facts'
    BY <1>0, <2>0, QuietFacts DEF Sound
  <2>5. Ends'
    BY <1>0, <2>0, QuietEnds
  <2> QED BY <2>1, <2>3, <2>4, <2>5 DEF Sound
<1> QED BY <1>1, <1>2, <1>3

LEMMA ToolReturnsKeeps ==
    ASSUME Sound, NEW r \in Executed, ToolReturns(r)
    PROVE  Sound'
<1>1. Records(call, r)
  BY ExecutedType DEF ToolReturns, Records, Sound, Bounded, LoopTypeOK
<1> QED BY <1>1, RecordsKeeps

LEMMA StoreReplyKeeps ==
    ASSUME Sound, NEW saved \in BOOLEAN, StoreReply(saved)
    PROVE  Sound'
<1>1. LoopTypeOK' /\ Bounded'
  BY DEF StoreReply, Sound, LoopTypeOK, Bounded, Open, Phases, LoopStatuses, reply, counters, evidence, signals
<1>2. Facts'
  BY QuietFacts DEF Sound, StoreReply, counters
<1>3. Ends'
  BY QuietEnds DEF StoreReply, Open
<1> QED BY <1>1, <1>2, <1>3 DEF Sound

LEMMA SignalKeeps == ASSUME Sound, Cancel \/ Expire PROVE Sound'
<1>1. LoopTypeOK' /\ Bounded'
  BY DEF Cancel, Expire, Sound, LoopTypeOK, Bounded, Open, reply, counters, evidence
<1>2. Facts'
  BY QuietFacts DEF Sound, Cancel, Expire, counters
<1>3. Ends'
  BY QuietEnds DEF Cancel, Expire
<1> QED BY <1>1, <1>2, <1>3 DEF Sound

LEMMA StepSound == ASSUME Sound, [LoopNext]_loopVars PROVE Sound'
<1>1. CASE StopHere
  BY <1>1, StopHereKeeps
<1>2. CASE Text
  BY <1>2, TextKeeps
<1>3. CASE TakeCalls
  BY <1>3, PassKeeps DEF TakeCalls, Continue, Open, reply, signals, Sound, LoopTypeOK
<1>4. CASE \E c \in Calls, saved \in BOOLEAN : NextCall(c, saved)
  BY <1>4, NextCallKeeps
<1>5. CASE \E r \in Executed : ToolReturns(r)
  BY <1>5, ToolReturnsKeeps
<1>6. CASE ToolRaises
  BY <1>6, PassKeeps DEF ToolRaises, Raise, Open, reply, counters, signals, Sound, LoopTypeOK
<1>7. CASE \E saved \in BOOLEAN : RoundEnds(saved)
  BY <1>7, PassKeeps DEF RoundEnds, Continue, Raise, Open, reply, counters, signals, Sound, LoopTypeOK
<1>8. CASE Generate
  <2>1. response' \in {"answer", "filler", "calls"} /\ left' \in 0 .. MaxBatch
    BY <1>8, WorkLoopAssumption DEF Generate, Generated
  <2>2. single' \in BOOLEAN
    BY <1>8 DEF Generate, Generated
  <2> QED BY <1>8, <2>1, <2>2, PassKeeps DEF Generate, Continue, Open, counters, signals, Sound, LoopTypeOK
<1>9. CASE GenerationFails
  BY <1>9, PassKeeps DEF GenerationFails, EndJob, Raise, Open, reply, counters, signals, Sound, LoopTypeOK
<1>10. CASE \E saved \in BOOLEAN : StoreReply(saved)
  BY <1>10, StoreReplyKeeps
<1>11. CASE Cancel \/ Expire
  BY <1>11, SignalKeeps
<1>12. CASE UNCHANGED loopVars
  <2>1. LoopTypeOK' /\ Bounded'
    BY <1>12 DEF loopVars, Sound, LoopTypeOK, Bounded, Open, reply, counters, evidence, signals
  <2>2. Facts' /\ Ends'
    BY <1>12, QuietFacts, QuietEnds DEF loopVars, Sound, counters
  <2> QED BY <2>1, <2>2 DEF Sound
<1> QED BY <1>1, <1>2, <1>3, <1>4, <1>5, <1>6, <1>7, <1>8, <1>9, <1>10, <1>11, <1>12 DEF LoopNext, Loop

(* The inductive invariant holds in every state.                           *)
THEOREM SoundInvariant == LoopSpec => []Sound
<1>1. Sound /\ [LoopNext]_loopVars => Sound'
  BY StepSound
<1> QED BY InitSound, <1>1, PTL DEF LoopSpec

(* Every variable of the loop keeps its type: the counters stay within     *)
(* their limits whatever the model answers.                                *)
THEOREM LoopTypeCorrect == LoopSpec => []LoopTypeOK
<1>1. Sound => LoopTypeOK
  BY DEF Sound
<1> QED BY <1>1, SoundInvariant, PTL

(* finish_task closes a job that requires work only after a check that no  *)
(* change and no failed tool followed.                                     *)
THEOREM CompletedIsVerifiedHolds == LoopSpec => []CompletedIsVerified
<1>1. Sound => CompletedIsVerified
  BY DEF Sound, Ends
<1> QED BY <1>1, SoundInvariant, PTL

(* finish_task closes a coding job only after a command that ran well,     *)
(* later than every file operation and every failed command.               *)
THEOREM CodeIsTestedHolds == LoopSpec => []CodeIsTested
<1>1. Sound => CodeIsTested
  BY DEF Sound, Ends
<1> QED BY <1>1, SoundInvariant, PTL

(* The loop does not execute a change twice unless another succeeded in    *)
(* between.                                                                *)
THEOREM NoChangeTwiceHolds == LoopSpec => []NoChangeTwice
<1>1. Sound => NoChangeTwice
  BY DEF Sound, Facts
<1> QED BY <1>1, SoundInvariant, PTL

(* The third result alike is the last thing a job records.                 *)
THEOREM ThreeAlikeBlockHolds == LoopSpec => []ThreeAlikeBlock
<1>1. Sound => ThreeAlikeBlock
  BY DEF Sound, Ends
<1> QED BY <1>1, SoundInvariant, PTL

(* No tool runs after the password was asked for.                          *)
THEOREM PasswordEndsJobHolds == LoopSpec => []PasswordEndsJob
<1>1. Sound => PasswordEndsJob
  BY DEF Sound, Ends
<1> QED BY <1>1, SoundInvariant, PTL
=============================================================================
