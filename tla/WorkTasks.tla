------------------------------ MODULE WorkTasks ------------------------------
(***************************************************************************)
(* The registry of background jobs, work_tasks.py: WorkTasks keeps one     *)
(* record per job in memory, rewrites work-tasks.json after every change   *)
(* and runs each job on a thread of its own.  The threads take the single  *)
(* turn lock of CompanionService before they work.  The process may end at *)
(* any point and come back; a write of the file may fail; the file may be  *)
(* damaged while the process is down.                                      *)
(*                                                                         *)
(* What a job does between two tools is module WorkLoop; here a worker is  *)
(* the points where it meets the registry: check, progress, tool, result.  *)
(***************************************************************************)
EXTENDS Naturals, FiniteSets

CONSTANTS
    Requests,       \* what the clients send: [conv, cid] records, the
                    \* conversation_id and the client_message_id
    NoRequest,      \* the request of a job that was never created
    WorkRequests,   \* those is_work_request recognises: require_work
    PlanTools,      \* 6 in the code: tools of a direct browser request
    MaxActive,      \* 4 in the code: jobs queued, running or cancelling
    MaxRecords,     \* 200 in the code: records kept before old ones are dropped
    MaxJobs,        \* bound: jobs created in one behaviour
    MaxFaults       \* bound: failed writes, process ends and damages together

JobIds == 1 .. MaxJobs

ASSUME WorkTasksAssumption ==
    /\ NoRequest \notin Requests
    /\ WorkRequests \subseteq Requests
    /\ PlanTools \in Nat
    /\ MaxActive \in Nat \ {0}
    /\ MaxRecords \in Nat \ {0}
    /\ MaxJobs \in Nat
    /\ MaxFaults \in Nat

ACTIVE == {"queued", "running", "cancelling"}
TERMINAL == {"completed", "needs_input", "blocked", "cancelled", "failed",
             "interrupted"}
Statuses == ACTIVE \cup TERMINAL \cup {"absent"}

(* What a worker still has to write when its coroutine is over.            *)
Outcomes == {"completed", "needs_input", "blocked", "cancelled", "failed"}
(* Where a worker is: waiting for the turn lock, at the first check of the *)
(* turn and past it, between two checks, past a check, inside a tool,      *)
(* carrying out a plan, holding an outcome, leaving, or not there.         *)
WorkerStates ==
    {"none", "wait", "first", "begun", "loop", "checked", "tool", "plan", "final"}
      \cup Outcomes

Free == 0           \* the turn lock is held by no job

VARIABLES
    mem,            \* records in memory: the status of each job
    disk,           \* the same in work-tasks.json
    damaged,        \* the file no longer parses
    request,        \* conversation_id and client_message_id of each record
    created,        \* jobs created so far; ids are given in insertion order
    sessions,       \* jobs with a WorkSession
    cancel,         \* sessions whose cancel event is set
    worker,         \* the worker thread of each job
    turn,           \* CompanionService._turn_lock
    plan,           \* tools a direct request has still to run
    up, closed, storageError,
    faults,         \* faults taken from the bound
    launched,       \* history: jobs whose thread was started
    pruned,         \* history: jobs whose record was dropped as old
    direct,         \* history: jobs answered by a plan, without the loop
    late            \* history: tools a job began after its cancel event

records == <<mem, disk, damaged, request, created>>
volatile == <<sessions, cancel, worker, turn, plan>>
process == <<up, closed, storageError>>
history == <<launched, pruned, direct, late>>
vars == <<records, volatile, process, faults, history>>

Known == {j \in JobIds : mem[j] # "absent"}
Active == {j \in JobIds : mem[j] \in ACTIVE}

TypeOK ==
    /\ mem \in [JobIds -> Statuses]
    /\ disk \in [JobIds -> Statuses]
    /\ damaged \in BOOLEAN
    /\ request \in [JobIds -> Requests \cup {NoRequest}]
    /\ created \in 0 .. MaxJobs
    /\ sessions \subseteq JobIds
    /\ cancel \subseteq JobIds
    /\ worker \in [JobIds -> WorkerStates]
    /\ turn \in JobIds \cup {Free}
    /\ plan \in [JobIds -> 0 .. PlanTools]
    /\ up \in BOOLEAN /\ closed \in BOOLEAN /\ storageError \in BOOLEAN
    /\ faults \in 0 .. MaxFaults
    /\ launched \subseteq JobIds
    /\ pruned \subseteq JobIds
    /\ direct \subseteq JobIds
    /\ late \in [JobIds -> Nat]

-----------------------------------------------------------------------------
Init ==
    /\ mem = [j \in JobIds |-> "absent"]
    /\ disk = [j \in JobIds |-> "absent"]
    /\ damaged = FALSE
    /\ request = [j \in JobIds |-> NoRequest]
    /\ created = 0
    /\ sessions = {} /\ cancel = {}
    /\ worker = [j \in JobIds |-> "none"]
    /\ turn = Free
    /\ plan = [j \in JobIds |-> 0]
    /\ up = TRUE /\ closed = FALSE /\ storageError = FALSE
    /\ faults = 0
    /\ launched = {} /\ pruned = {} /\ direct = {}
    /\ late = [j \in JobIds |-> 0]

Fault == faults < MaxFaults /\ faults' = faults + 1

(* _save: the whole registry to a temporary file that then replaces the    *)
(* real one.  A write that fails leaves the old file; the memory has been  *)
(* changed already.  A successful write makes the file readable again.     *)
Save(saved) ==
    IF saved
    THEN disk' = mem' /\ damaged' = FALSE /\ UNCHANGED faults
    ELSE Fault /\ UNCHANGED <<disk, damaged>>

(* Mutant: the exception path of a turn forgets the lock.                  *)
ReleaseForgotten(j) == UNCHANGED turn

Release(j) == turn' = IF turn = j THEN Free ELSE turn

(* The oldest finished records, as many as the store is too long by.       *)
Removable ==
    LET done == {j \in JobIds : mem[j] \in TERMINAL}
        excess == (Cardinality(Known) + 1) - MaxRecords
    IN  {j \in done : Cardinality({k \in done : k < j}) < excess}

(* start refuses while closing or damaged, answers the same request with   *)
(* its record, and refuses a busy conversation and a full registry.        *)
Admissible(r) ==
    /\ ~closed /\ ~storageError
    /\ \A k \in Known : request[k] # r
    /\ \A k \in Active : request[k].conv # r.conv
    /\ Cardinality(Active) < MaxActive

StartThread(j, saved) ==
    IF saved
    THEN worker' = [worker EXCEPT ![j] = "wait"] /\ launched' = launched \cup {j}
    ELSE UNCHANGED <<worker, launched>>

(* start: the record is in the file before the thread starts; when the     *)
(* write fails, the record and its session stay and no thread is started.  *)
Start(r, saved) ==
    LET j == created + 1 IN
    /\ up /\ Admissible(r)
    /\ created < MaxJobs
    /\ created' = j
    /\ request' = [request EXCEPT ![j] = r]
    /\ mem' = [k \in JobIds |-> IF k = j THEN "queued"
                                ELSE IF k \in Removable THEN "absent"
                                ELSE mem[k]]
    /\ pruned' = pruned \cup Removable
    /\ sessions' = sessions \cup {j}
    /\ Save(saved)
    /\ StartThread(j, saved)
    /\ UNCHANGED <<cancel, turn, plan, process, direct, late>>

(* stop: sets the event and marks the record; a worker inside a tool goes  *)
(* on until the tool returns.                                              *)
Stop(j, saved) ==
    /\ up
    /\ mem[j] \in ACTIVE
    /\ j \in sessions
    /\ cancel' = cancel \cup {j}
    /\ mem' = [mem EXCEPT ![j] = "cancelling"]
    /\ Save(saved)
    /\ UNCHANGED <<request, created, sessions, worker, turn, plan, process, history>>

(* close: no new jobs, every session cancelled.                            *)
Close ==
    /\ up /\ ~closed
    /\ closed' = TRUE
    /\ cancel' = cancel \cup sessions
    /\ UNCHANGED <<records, sessions, worker, turn, plan, up, storageError, faults, history>>

-----------------------------------------------------------------------------
(* CompanionService.chat: the worker polls the turn lock and does not look *)
(* at the cancel event while it waits.                                     *)
Acquire(j) ==
    /\ worker[j] = "wait" /\ turn = Free
    /\ turn' = j
    /\ worker' = [worker EXCEPT ![j] = "first"]
    /\ UNCHANGED <<records, sessions, cancel, plan, process, faults, history>>

(* Past the check of a turn's beginning, or past one of the loop.          *)
Past(j) == IF worker[j] = "first" THEN "begun" ELSE "checked"

(* Mutant: the event is looked at only by the progress notification.       *)
CheckBlind(j) ==
    /\ worker[j] \in {"first", "loop"}
    /\ worker' = [worker EXCEPT ![j] = Past(j)]
    /\ UNCHANGED <<records, sessions, cancel, turn, plan, process, faults, history>>

(* WorkSession.check: raises WorkStopped when the event is set.  Between   *)
(* a check that passes and the progress that follows it, stop may run.     *)
Check(j) ==
    /\ worker[j] \in {"first", "loop"}
    /\ IF j \in cancel
       THEN worker' = [worker EXCEPT ![j] = "cancelled"] /\ Release(j)
       ELSE worker' = [worker EXCEPT ![j] = Past(j)] /\ UNCHANGED turn
    /\ UNCHANGED <<records, sessions, cancel, plan, process, faults, history>>

(* The status update(status="running") leaves: cancellation wins.          *)
RunningOrCancelling(j) == IF mem[j] = "cancelling" THEN "cancelling" ELSE "running"

(* WorkSession.progress.  A failed write is an exception that ends the     *)
(* turn.                                                                   *)
Notify(j, next, saved) ==
    /\ mem' = [mem EXCEPT ![j] = RunningOrCancelling(j)]
    /\ Save(saved)
    /\ worker' = [worker EXCEPT ![j] = IF saved THEN next ELSE "failed"]
    /\ IF saved THEN UNCHANGED turn ELSE Release(j)
    /\ UNCHANGED <<request, created, sessions, cancel, process, launched, pruned>>

(* chat, after its only check: the first generation of the model, or, when *)
(* no work is required and the text is an order for the browser or for an  *)
(* application, a plan of up to PlanTools tools with no check among them.  *)
Begin(j, saved) ==
    /\ worker[j] = "begun"
    /\ UNCHANGED late
    /\ \/ Notify(j, "loop", saved) /\ UNCHANGED <<plan, direct>>
       \/ /\ request[j] \notin WorkRequests
          /\ Notify(j, "plan", saved)
          /\ IF saved
             THEN /\ \E n \in 1 .. PlanTools : plan' = [plan EXCEPT ![j] = n]
                  /\ direct' = direct \cup {j}
             ELSE UNCHANGED <<plan, direct>>

LateTool(j) == IF j \in cancel THEN [late EXCEPT ![j] = @ + 1] ELSE late

(* The next tool of a plan begins when the last one has ended.             *)
PlanTool(j) ==
    /\ worker[j] = "plan" /\ plan[j] > 0
    /\ plan' = [plan EXCEPT ![j] = @ - 1]
    /\ late' = LateTool(j)
    /\ UNCHANGED <<records, sessions, cancel, worker, turn, process, faults,
                   launched, pruned, direct>>

(* WorkSession.progress in the loop, then a tool or the next generation of *)
(* the model.                                                              *)
Progress(j, next, saved) ==
    /\ worker[j] = "checked"
    /\ next \in {"tool", "loop"}
    /\ Notify(j, next, saved)
    /\ late' = IF saved /\ next = "tool" THEN LateTool(j) ELSE late
    /\ UNCHANGED <<plan, direct>>

ToolEnds(j) ==
    /\ worker[j] = "tool"
    /\ worker' = [worker EXCEPT ![j] = "loop"]
    /\ UNCHANGED <<records, sessions, cancel, turn, plan, process, faults, history>>

(* The turn ends and releases the lock: with an answer and its status, by  *)
(* the limit of time or calls, or with an exception (a paused assistant, a *)
(* tool or the database failing).  A plan ends as completed, after a stop  *)
(* too.                                                                    *)
Return(j, outcome) ==
    /\ \/ worker[j] \in {"loop", "checked"} /\ outcome \in {"completed", "needs_input", "blocked"}
       \/ worker[j] = "plan" /\ plan[j] = 0 /\ outcome = "completed"
       \/ worker[j] \in {"first", "loop", "checked", "tool", "plan"} /\ outcome = "failed"
    /\ worker' = [worker EXCEPT ![j] = outcome]
    /\ Release(j)
    /\ UNCHANGED <<records, sessions, cancel, plan, process, faults, history>>

(* Mutant: the outcome reaches the memory only when the file was written.  *)
ConcludeAfterSave(j, saved) ==
    /\ worker[j] \in Outcomes
    /\ mem' = IF saved THEN [mem EXCEPT ![j] = worker[j]] ELSE mem
    /\ Save(saved)
    /\ worker' = [worker EXCEPT ![j] = IF saved \/ @ = "failed" THEN "final" ELSE "failed"]
    /\ UNCHANGED <<request, created, sessions, cancel, turn, plan, process, history>>

(* The worker writes its outcome.  When the write fails, an answer becomes *)
(* "failed" through "except Exception"; a WorkStopped that left the turn,  *)
(* and "failed" itself, have no handler left and go to the finally clause. *)
(* A record dropped in between raises KeyError.                            *)
Conclude(j, saved) ==
    /\ worker[j] \in Outcomes
    /\ IF mem[j] = "absent"
       THEN /\ worker' = [worker EXCEPT ![j] = IF @ = "failed" THEN "final" ELSE "failed"]
            /\ UNCHANGED <<mem, disk, damaged, faults>>
       ELSE /\ mem' = [mem EXCEPT ![j] = worker[j]]
            /\ Save(saved)
            /\ \E next \in {"final", "failed"} :
                 /\ worker' = [worker EXCEPT ![j] = next]
                 /\ next = "failed" => ~saved /\ worker[j] # "failed"
                 /\ next = "final" => \/ saved
                                      \/ worker[j] \in {"failed", "cancelled", "blocked"}
    /\ UNCHANGED <<request, created, sessions, cancel, turn, plan, process, history>>

Leave(j) ==
    /\ worker[j] = "final"
    /\ worker' = [worker EXCEPT ![j] = "none"]
    /\ sessions' = sessions \ {j}
    /\ cancel' = cancel \ {j}
    /\ UNCHANGED <<records, turn, plan, process, faults, history>>

Worker(j) ==
    \/ Acquire(j) \/ Check(j) \/ PlanTool(j) \/ ToolEnds(j) \/ Leave(j)
    \/ \E saved \in BOOLEAN : Begin(j, saved)
    \/ \E next \in {"tool", "loop"}, saved \in BOOLEAN : Progress(j, next, saved)
    \/ \E outcome \in Outcomes : Return(j, outcome)
    \/ \E saved \in BOOLEAN : Conclude(j, saved)

-----------------------------------------------------------------------------
(* The process ends, by a crash or after close: the memory and the daemon  *)
(* threads are gone.                                                       *)
End ==
    /\ up /\ Fault
    /\ up' = FALSE /\ closed' = FALSE /\ storageError' = FALSE
    /\ mem' = [j \in JobIds |-> "absent"]
    /\ sessions' = {} /\ cancel' = {}
    /\ worker' = [j \in JobIds |-> "none"]
    /\ turn' = Free
    /\ plan' = [j \in JobIds |-> 0]
    /\ UNCHANGED <<disk, damaged, request, created, history>>

Damage ==
    /\ ~up /\ Fault
    /\ damaged' = TRUE
    /\ UNCHANGED <<mem, disk, request, created, volatile, process, history>>

(* Mutant: unfinished jobs are forgotten.                                  *)
ReloadedForgets(status) == IF status \in ACTIVE THEN "absent" ELSE status
Reloaded(status) == IF status \in ACTIVE THEN "interrupted" ELSE status
LoadFails == damaged

(* __init__: a file that does not parse is left alone and blocks new jobs; *)
(* otherwise unfinished jobs become interrupted and the file is rewritten  *)
(* (a failure there leaves the process down).                              *)
Restart ==
    /\ ~up
    /\ up' = TRUE
    /\ storageError' = LoadFails
    /\ mem' = IF damaged THEN mem ELSE [j \in JobIds |-> Reloaded(disk[j])]
    /\ IF \A j \in JobIds : mem'[j] = "absent"
       THEN UNCHANGED <<disk, damaged, faults>>
       ELSE Save(TRUE)
    /\ UNCHANGED <<request, created, volatile, closed, history>>

Next ==
    \/ \E r \in Requests, saved \in BOOLEAN : Start(r, saved)
    \/ \E j \in JobIds, saved \in BOOLEAN : Stop(j, saved)
    \/ \E j \in JobIds : Worker(j)
    \/ Close \/ End \/ Damage \/ Restart

Spec == Init /\ [][Next]_vars

(* The threads of the process run, and no turn lasts for ever: every check *)
(* of a session raises once it is two hours old or has made 240 calls      *)
(* (WorkLoop).  Nobody owes a request, a stop, a fault or a restart.       *)
FairSpec ==
    /\ Spec
    /\ \A j \in JobIds :
         /\ WF_vars(Worker(j))
         /\ WF_vars(\E outcome \in Outcomes : Return(j, outcome))

-----------------------------------------------------------------------------
(* stop and close look the session of an active record up without a        *)
(* default: every active record has one, also after failed writes.         *)
ActiveHasSession == Active \subseteq sessions

(* One job at a time per conversation, and never more than MaxActive, over *)
(* refused starts, failed writes and restarts.                             *)
Admission ==
    /\ Cardinality(Active) <= MaxActive
    /\ \A j, k \in Active : request[j].conv = request[k].conv => j = k

(* No thread works on a job the file does not know: after a crash the      *)
(* record is there to be shown as interrupted and to answer a repetition.  *)
RecordedBeforeLaunch ==
    \A j \in launched : damaged \/ disk[j] # "absent" \/ j \in pruned

(* Sending the same client_message_id never starts a second thread, over   *)
(* crashes, restarts and failed writes, until the record is dropped as old *)
(* (the conversation's stored reply answers from then on: ChatTurn).       *)
LaunchedOnce ==
    \A j, k \in launched : request[j] = request[k] /\ j < k => j \in pruned

(* The stop's message says that no other tool is begun.  After a stop the  *)
(* loop begins at most the tool it had already checked; only a job that    *)
(* requires no work and is answered by a plan begins more, the rest of the *)
(* plan.                                                                   *)
StopLetsOneToolPass ==
    \A j \in JobIds :
        \/ late[j] <= 1
        \/ j \in direct /\ request[j] \notin WorkRequests /\ late[j] <= PlanTools

(* Status moves forward only: a cancelled job never shows as running       *)
(* again, and a finished one never becomes active.                         *)
StatusMovesForward ==
    [][\A j \in JobIds :
         /\ mem[j] = "cancelling" => mem'[j] \notin {"queued", "running"}
         /\ mem[j] \in TERMINAL => mem'[j] \notin ACTIVE]_vars

(* A damaged registry is kept as it is: no later step writes over it.      *)
DamageIsKept == [][damaged => damaged' /\ disk' = disk]_vars

(* A stop takes effect: the job of a started thread leaves the active      *)
(* statuses, whatever tool or write it was in.                             *)
StopTakesEffect ==
    \A j \in JobIds :
        (j \in launched /\ mem[j] = "cancelling") ~> (mem[j] \notin ACTIVE)

(* The document's promise without the restriction to started threads:      *)
(* "Detener trabajo" ends any active job.                                  *)
StopEndsEveryJob ==
    \A j \in JobIds : (mem[j] = "cancelling") ~> (mem[j] \notin ACTIVE)
=============================================================================
