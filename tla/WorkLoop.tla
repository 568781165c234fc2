------------------------------ MODULE WorkLoop -------------------------------
(***************************************************************************)
(* One background job from its first generation to its outcome:            *)
(* CompanionService._run_continuous_work with WorkSession (work_tasks.py)  *)
(* and CodingEvidence (coding_agent.py).  The model proposes calls, the    *)
(* loop executes or refuses each, records the result, and accepts          *)
(* finish_task only with a real check after the last change.               *)
(*                                                                         *)
(* The model may answer anything and a tool may end in any way.  A call is *)
(* its tool class and an argument, which together are its signature.       *)
(***************************************************************************)
EXTENDS Integers, Sequences

CONSTANTS
    Calls,          \* the calls the model can propose: [tool, arg] records
    AllowedSets,    \* the sets of tools a job may be given
    Contents,       \* results of a successful tool, as far as they differ
    NoContent, NoCall,
    MaxCalls,       \* MAX_CALLS, 240 in the code
    MaxBatch        \* calls parse_tool_calls keeps of one response, 6

(* finish_task with a summary and a verification, without verification,    *)
(* without summary; ask_user with a concrete or a generic question;        *)
(* run_python and run_powershell; file_operation with an operation that    *)
(* changes files, or with list, read_text, info; the tools whose success   *)
(* counts as a check (read_file, calculate, web...); read-only tools that  *)
(* do not (pc_status, take_screenshot); the others (open_target...).       *)
Finishing == {"finish_task", "finish_unchecked", "finish_empty"}
Asking == {"ask_user", "ask_generic"}
Dialogue == Finishing \cup Asking
Executable == {"run", "write", "info", "read", "look", "act"}
Tools == Dialogue \cup Executable

ASSUME WorkLoopAssumption ==
    /\ \A c \in Calls : c.tool \in Tools
    /\ NoCall \notin Calls
    /\ AllowedSets \subseteq SUBSET Executable
    /\ NoContent \notin Contents
    /\ MaxCalls \in Nat \ {0}
    /\ MaxBatch \in Nat \ {0}

(* What _chat_locked decides of a job; a coding job that requires work is  *)
(* never answer_only.                                                      *)
Jobs == {job \in [requireWork : BOOLEAN, answerOnly : BOOLEAN, coding : BOOLEAN,
                  allowed : AllowedSets] :
            job.coding /\ job.requireWork => ~job.answerOnly}

Mutating(c) == c.tool \in {"run", "write"}
Verifying(c) == c.tool \in {"run", "read"}
ReadOnly(c) == c.tool \in {"read", "look"}

Results == [ok : BOOLEAN, content : Contents \cup {NoContent},
            ran : BOOLEAN, auth : BOOLEAN]
Refused == [ok |-> FALSE, content |-> NoContent, ran |-> FALSE, auth |-> FALSE]
(* A tool succeeds with a content, fails, or wants the local password.     *)
Executed == {r \in Results : /\ r.ran
                             /\ r.ok <=> r.content # NoContent
                             /\ r.auth => ~r.ok}

LoopStatuses == {"running", "completed", "needs_input", "blocked", "cancelled", "failed"}
Phases == {"check", "calls", "tool", "round", "model", "reply", "done"}

VARIABLES
    job,            \* the job's kind and tools
    phase,          \* where the loop is
    response,       \* the last generation: "answer", "filler" or "calls"
    single,         \* it proposed exactly one call
    left,           \* calls of it still to handle
    call,           \* the call inside a tool
    completed,      \* the calls handled, with their results
    calls, idle, repeated,
    lastMutation, lastWrite, verified,          \* last_mutation, the two indexes
    changedAt, checkedAt, failedCheck,          \* CodingEvidence
    cancelled, expired,                         \* the event; the two hours
    status          \* session.status

reply == <<response, single, left>>
counters == <<calls, idle, repeated>>
evidence == <<lastMutation, lastWrite, verified, changedAt, checkedAt, failedCheck>>
signals == <<cancelled, expired>>
loopVars == <<job, phase, reply, call, completed, counters, evidence, signals, status>>

Index == -1 .. MaxCalls
None == -1          \* "no such call yet" in the indexes

LoopTypeOK ==
    /\ job \in Jobs
    /\ phase \in Phases
    /\ response \in {"answer", "filler", "calls"}
    /\ single \in BOOLEAN
    /\ left \in 0 .. MaxBatch
    /\ call \in Calls \cup {NoCall}
    /\ completed \in Seq([call : Calls, result : Results])
    /\ Len(completed) <= calls
    /\ calls \in 0 .. MaxCalls
    /\ idle \in 0 .. 3 /\ repeated \in 0 .. 3
    /\ lastMutation \in Calls \cup {NoCall}
    /\ lastWrite \in Index /\ verified \in Index
    /\ changedAt \in Index /\ checkedAt \in Index
    /\ failedCheck \in BOOLEAN
    /\ cancelled \in BOOLEAN /\ expired \in BOOLEAN
    /\ status \in LoopStatuses

-----------------------------------------------------------------------------
(* A generation: text that answers, text that does not (a promise, an      *)
(* empty or a cut one), or up to MaxBatch calls.                           *)
Generated ==
    \/ response' \in {"answer", "filler"} /\ left' = 0 /\ single' = FALSE
    \/ response' = "calls" /\ left' \in 1 .. MaxBatch /\ single' = (left' = 1)

LoopInit ==
    /\ job \in Jobs
    /\ phase = "check"
    /\ \/ response \in {"answer", "filler"} /\ left = 0 /\ single = FALSE
       \/ response = "calls" /\ left \in 1 .. MaxBatch /\ single = (left = 1)
    /\ call = NoCall
    /\ completed = <<>>
    /\ calls = 0 /\ idle = 0 /\ repeated = 0
    /\ lastMutation = NoCall
    /\ lastWrite = None /\ verified = None
    /\ changedAt = None /\ checkedAt = None /\ failedCheck = FALSE
    /\ cancelled = FALSE /\ expired = FALSE
    /\ status = "running"

(* The loop is left with a status; the reply is stored next.               *)
EndJob(outcome) == status' = outcome /\ phase' = "reply"
Continue(next) == phase' = next /\ UNCHANGED status
(* An exception that the loop does not handle: no reply, job "failed".     *)
Raise == status' = "failed" /\ phase' = "done"

(* WorkSession.check raises WorkStopped.                                   *)
Stops == cancelled \/ expired \/ calls >= MaxCalls
StopOutcome == IF cancelled THEN "cancelled" ELSE "blocked"

StopHere ==
    /\ phase \in {"check", "calls", "model"}
    /\ phase = "calls" => left > 0
    /\ Stops
    /\ EndJob(StopOutcome)
    /\ UNCHANGED <<job, reply, call, completed, counters, evidence, signals>>

(* Mutant: only empty and promising texts count as idle.                   *)
IdlePatient == IF response = "filler" THEN idle + 1 ELSE idle

IdleAfter == idle + 1

(* A response without calls: the answer of an informational job, or one    *)
(* more of the three idle rounds that block the job.                       *)
ReadOnlySoFar == \A i \in 1 .. Len(completed) : ReadOnly(completed[i].call)

Text ==
    /\ phase = "check" /\ ~Stops /\ response # "calls"
    /\ IF job.answerOnly /\ ReadOnlySoFar /\ response = "answer"
       THEN EndJob("completed") /\ UNCHANGED idle
       ELSE /\ idle' = IdleAfter
            /\ IF idle' >= 3 THEN EndJob("blocked") ELSE Continue("round")
    /\ UNCHANGED <<job, reply, call, completed, calls, repeated, evidence, signals>>

TakeCalls ==
    /\ phase = "check" /\ ~Stops /\ response = "calls"
    /\ idle' = 0
    /\ Continue("calls")
    /\ UNCHANGED <<job, reply, call, completed, calls, repeated, evidence, signals>>

-----------------------------------------------------------------------------
Entry(c, r) == [call |-> c, result |-> r]

(* The identity of a result: signature, success and content.               *)
SameIdentity(c, r) ==
    /\ completed # <<>>
    /\ LET last == completed[Len(completed)]
       IN  last.call = c /\ last.result.ok = r.ok /\ last.result.content = r.content

VerifiedAfter(c, r, i) ==
    IF r.ok THEN IF Verifying(c) THEN i ELSE verified
    ELSE IF c.tool \in Dialogue THEN verified ELSE None

(* CodingEvidence.observe, for coding jobs only.  Every file_operation     *)
(* that succeeds is a change, also a listing; a command that was refused   *)
(* counts as failed.                                                       *)
FailedCheckAfter(c, r) == IF c.tool = "run" THEN ~r.ok ELSE failedCheck

Observe(c, r, i) ==
    /\ changedAt' = IF job.coding /\ r.ok /\ c.tool \in {"write", "info"} THEN i ELSE changedAt
    /\ checkedAt' = IF job.coding /\ r.ok /\ c.tool = "run" THEN i ELSE checkedAt
    /\ failedCheck' = (job.coding /\ FailedCheckAfter(c, r))

RepeatedAfter(c, r) == IF SameIdentity(c, r) THEN repeated + 1 ELSE 1

(* Three results alike block the job; a request for the password ends it.  *)
AfterCall(r) ==
    IF repeated' >= 3 THEN EndJob("blocked")
    ELSE IF r.auth THEN EndJob("needs_input")
    ELSE Continue("calls")

(* The tail of the loop over the calls: evidence, the test for three       *)
(* results alike, the record, and the end when the password is needed.     *)
Settle(c, r) ==
    LET i == Len(completed) IN
    /\ lastMutation' = IF r.ok /\ Mutating(c) THEN c ELSE lastMutation
    /\ lastWrite' = IF r.ok /\ Mutating(c) THEN i ELSE lastWrite
    /\ verified' = VerifiedAfter(c, r, i)
    /\ Observe(c, r, i)
    /\ repeated' = RepeatedAfter(c, r)
    /\ completed' = Append(completed, Entry(c, r))
    /\ left' = left - 1
    /\ AfterCall(r)

CanFinish == checkedAt >= 0 /\ checkedAt >= changedAt /\ ~failedCheck

(* Mutant: any check counts, however old.                                  *)
FinishAnyCheck(c) ==
    /\ c.tool \in Finishing /\ single
    /\ job.coding => CanFinish
    /\ c.tool # "finish_empty"
    /\ job.requireWork => c.tool = "finish_task" /\ verified >= 0

(* finish_task is accepted alone, with a summary, and for a job that       *)
(* requires work with a verification and a check not older than the last   *)
(* change.                                                                 *)
FinishAccepted(c) ==
    /\ c.tool \in Finishing /\ single
    /\ job.coding => CanFinish
    /\ c.tool # "finish_empty"
    /\ job.requireWork => c.tool = "finish_task" /\ verified >= lastWrite /\ verified >= 0

AskAccepted(c) == c.tool = "ask_user" /\ single

Accepted(c) == FinishAccepted(c) \/ AskAccepted(c)

(* Mutant: the last successful mutation is not remembered.                 *)
RefusedRepeats(c) == c.tool \in Dialogue \/ c.tool \notin job.allowed

(* Not allowed for the job, or the mutation that succeeded last.           *)
RefusedCall(c) ==
    \/ c.tool \in Dialogue
    \/ c.tool \notin job.allowed
    \/ Mutating(c) /\ c = lastMutation

(* The head of the loop over the calls: check, count, progress (whose      *)
(* write may fail), then accept, refuse or execute.                        *)
NextCall(c, saved) ==
    /\ phase = "calls" /\ left > 0 /\ ~Stops
    /\ calls' = calls + 1
    /\ IF ~saved
       THEN Raise /\ UNCHANGED <<left, call, completed, repeated, evidence>>
       ELSE IF Accepted(c)
       THEN /\ EndJob(IF c.tool \in Finishing THEN "completed" ELSE "needs_input")
            /\ UNCHANGED <<left, call, completed, repeated, evidence>>
       ELSE IF RefusedCall(c)
       THEN Settle(c, Refused) /\ UNCHANGED call
       ELSE /\ call' = c
            /\ Continue("tool")
            /\ UNCHANGED <<left, completed, repeated, evidence>>
    /\ UNCHANGED <<job, response, single, idle, signals>>

ToolReturns(r) ==
    /\ phase = "tool"
    /\ Settle(call, r)
    /\ call' = NoCall
    /\ UNCHANGED <<job, response, single, calls, idle, signals>>

ToolRaises ==
    /\ phase = "tool"
    /\ Raise
    /\ call' = NoCall
    /\ UNCHANGED <<job, reply, completed, counters, evidence, signals>>

(* The calls of a response are handled, or it had none: progress, and the  *)
(* next generation.                                                        *)
RoundEnds(saved) ==
    /\ \/ phase = "round"
       \/ phase = "calls" /\ left = 0
    /\ IF saved THEN Continue("model") ELSE Raise
    /\ UNCHANGED <<job, reply, call, completed, counters, evidence, signals>>

(* WorkSession.generation: a response; a broken connection blocks the job; *)
(* a paused assistant raises.                                              *)
Generate ==
    /\ phase = "model" /\ ~Stops
    /\ Generated
    /\ Continue("check")
    /\ UNCHANGED <<job, call, completed, counters, evidence, signals>>

GenerationFails ==
    /\ phase = "model"
    /\ EndJob("blocked") \/ Raise
    /\ UNCHANGED <<job, reply, call, completed, counters, evidence, signals>>

(* The reply is stored under the reply id; when the database fails the job *)
(* is "failed" whatever the session decided.                               *)
StoreReply(saved) ==
    /\ phase = "reply"
    /\ phase' = "done"
    /\ status' = IF saved THEN status ELSE "failed"
    /\ UNCHANGED <<job, reply, call, completed, counters, evidence, signals>>

-----------------------------------------------------------------------------
(* Signals that come after the loop was left are read by nobody.           *)
Cancel ==
    /\ phase \notin {"reply", "done"} /\ ~cancelled
    /\ cancelled' = TRUE
    /\ UNCHANGED <<job, phase, reply, call, completed, counters, evidence, expired, status>>

Expire ==
    /\ phase \notin {"reply", "done"} /\ ~expired
    /\ expired' = TRUE
    /\ UNCHANGED <<job, phase, reply, call, completed, counters, evidence, cancelled, status>>

Loop ==
    \/ StopHere \/ Text \/ TakeCalls
    \/ \E c \in Calls, saved \in BOOLEAN : NextCall(c, saved)
    \/ \E r \in Executed : ToolReturns(r)
    \/ ToolRaises
    \/ \E saved \in BOOLEAN : RoundEnds(saved)
    \/ Generate \/ GenerationFails
    \/ \E saved \in BOOLEAN : StoreReply(saved)

LoopNext == Loop \/ Cancel \/ Expire

LoopSpec == LoopInit /\ [][LoopNext]_loopVars

(* Tools and generations return: both have time limits of their own.       *)
FairLoop == LoopSpec /\ WF_loopVars(Loop)

-----------------------------------------------------------------------------
(* The evidence read off the record of calls, independently of the indexes *)
(* the loop keeps.                                                         *)
Ok(i) == completed[i].result.ok
Tool(i) == completed[i].call.tool
Handled == 1 .. Len(completed)

(* A check that nothing spoilt: a successful verifying call, no later      *)
(* successful change and no later failed tool.                             *)
Verified ==
    \E i \in Handled :
        /\ Ok(i) /\ Verifying(completed[i].call)
        /\ \A k \in Handled : k > i =>
              IF Ok(k) THEN ~Mutating(completed[k].call) ELSE Tool(k) \in Dialogue

(* The last command ran well, after every file operation.                  *)
Tested ==
    \E i \in Handled :
        /\ Ok(i) /\ Tool(i) = "run"
        /\ \A k \in Handled : k > i =>
              Tool(k) # "run" /\ (Ok(k) => Tool(k) \notin {"write", "info"})

(* A job that requires work ends as completed only with a real check after *)
(* its last change and no failed tool after that check (or, for a lookup,  *)
(* with an answer and read-only calls).                                    *)
CompletedIsVerified ==
    status = "completed" /\ job.requireWork => Verified \/ (job.answerOnly /\ ReadOnlySoFar)

(* A coding job closed with finish_task has run its program: reading files *)
(* is no test, and a failed command stays pending.                         *)
CodeIsTested ==
    status = "completed" /\ job.coding => Tested \/ (job.answerOnly /\ ReadOnlySoFar)

(* A change that succeeded is not executed again unless another change     *)
(* succeeded in between.                                                   *)
NoChangeTwice ==
    \A i, k \in Handled :
        /\ i < k /\ completed[i].call = completed[k].call
        /\ Ok(i) /\ Mutating(completed[i].call) /\ completed[k].result.ran
        => \E m \in Handled : /\ i < m /\ m < k /\ Ok(m)
                              /\ Mutating(completed[m].call)
                              /\ completed[m].call # completed[i].call

(* Three results alike in a row end the job as blocked, never as completed *)
(* and without a further call.                                             *)
Alike(i, k) ==
    /\ completed[i].call = completed[k].call
    /\ completed[i].result.ok = completed[k].result.ok
    /\ completed[i].result.content = completed[k].result.content

ThreeAlikeBlock ==
    \A i \in Handled :
        i + 2 \in Handled /\ Alike(i, i + 1) /\ Alike(i + 1, i + 2) =>
            /\ i + 2 = Len(completed)
            /\ status \in {"blocked", "failed"}

(* A request for the password is the last thing a job does.                *)
PasswordEndsJob ==
    \A i \in Handled : completed[i].result.auth =>
        /\ i = Len(completed)
        /\ phase \in {"reply", "done"} /\ status # "completed"

(* Every job ends, whatever the model answers: idle rounds, repetitions    *)
(* and the number of calls are bounded.                                    *)
JobEnds == <>(phase = "done")
=============================================================================
