------------------------------ MODULE TaskQueue ------------------------------
(***************************************************************************)
(* The database-backed task queue and the lifecycle of a scan:             *)
(*   services/queue/queue.go          enqueue, resume, claim, outcome,     *)
(*                                    recovery at startup                  *)
(*   services/runner/*.go             cancel intents, the six stages of    *)
(*                                    RunTaskSync, MarkFailed, Finalize    *)
(*   handlers/task.go, schedule.go    the handlers that delete, clear and  *)
(*                                    resume while a scan is running       *)
(* A scan is a row of task_reports and a row of task_execution_logs. The   *)
(* two are written by worker goroutines and HTTP handlers that share no    *)
(* lock: one action is one SQL statement, one transaction, or one critical *)
(* section of the runner's maps. An operator MutX is X with a plausible    *)
(* bug; no action uses it (see "Mutants" in the README).                   *)
(***************************************************************************)
EXTENDS Integers, FiniteSets

CONSTANTS
    Reports,        \* identities of task_reports rows; a row id is never reused
    Pairs,          \* (repo_id, task_type_id) combinations
    PairOf,         \* the pair every report is a scan of
    BundlePairs,    \* pairs whose engine mode is debate_full (resumable)
    Workers,        \* goroutines of the worker pool
    Clients,        \* HTTP requests and cron jobs being served at a time
    MaxQueueSize,   \* Scanner.MaxQueueSize; zero or less means no limit
    StaleActions,   \* values of the -stale flag: "recover", "ignore", "delete"
    ForeignKey,     \* TRUE: the database keeps a report its log refers to
    MaxLogs,        \* bound: execution logs ever created
    Faults,         \* what may go wrong: "crash", "outage"
    MaxFaults,      \* bound: crashes of the server and database outages
    None            \* no report, no pair

ASSUME ReportsAssumption ==
    /\ IsFiniteSet(Reports) /\ None \notin Reports /\ None \notin Pairs
    /\ PairOf \in [Reports -> Pairs] /\ BundlePairs \subseteq Pairs
ASSUME SettingsAssumption ==
    /\ MaxQueueSize \in Int /\ StaleActions \subseteq {"recover", "ignore", "delete"}
    /\ ForeignKey \in BOOLEAN
    /\ MaxLogs \in Nat /\ Faults \subseteq {"crash", "outage"} /\ MaxFaults \in Nat
ASSUME ClientsAssumption == IsFiniteSet(Clients) /\ IsFiniteSet(Workers)

VARIABLES
    report,    \* [Reports -> ReportStatus]   task_reports.status
    log,       \* [Reports -> LogStatus]      status of the log linked to the report
    logId,     \* [Reports -> Nat]            id of that log, 0 if there is none
    isResume,  \* [Reports -> BOOLEAN]        task_execution_logs.is_resume
    nextLog,   \* the next id of task_execution_logs
    dbUp,      \* FALSE while statements fail (lock_timeout, lost connection)
    ckpt,      \* reports with a bundle checkpoint (resume-*.json) on disk
    wpc,       \* [Workers -> WorkerPc]       where a worker is in its loop
    wrep,      \* [Workers -> Reports]        Task.ReportID
    wlog,      \* [Workers -> Nat]            Task.LogID
    wresume,   \* [Workers -> BOOLEAN]        Task.IsResume
    wcancel,   \* [Workers -> BOOLEAN]        the context of its runner is canceled
    wtodo,     \* [Workers -> WorkerTodo]     the statement its runner issues next
    intent,    \* runner.cancelRequests: cancels that found no runner
    cpc,       \* [Clients -> ClientPc]       where a request is in its handler
    cpair,     \* [Clients -> Pairs]          the pair it enqueues
    creps,     \* [Clients -> SUBSET Reports] the reports the handler has read
    clogs,     \* [Clients -> SUBSET Nat]     the log ids the handler has read
    restarts,  \* crashes so far
    outages    \* database outages so far

dbVars     == <<report, log, logId, isResume, nextLog>>
workerVars == <<wpc, wrep, wlog, wresume, wcancel, wtodo>>
clientVars == <<cpc, cpair, creps, clogs>>
faultVars  == <<dbUp, restarts, outages>>
vars == <<dbVars, ckpt, workerVars, intent, clientVars, faultVars>>

-----------------------------------------------------------------------------
Stages   == {"cloning", "pre_processing", "analyzing", "synthesis",
             "post_processing", "merging"}
Terminal == {"success", "degraded", "failed", "skipped"}   \* TerminalTaskStatuses
Live     == {"queued"} \cup Stages
ReportStatus == {"unborn", "deleted"} \cup Live \cup Terminal
LogStatus    == {"none", "pending", "running"} \cup Stages \cup Terminal

\* A runner is in activeTasks from RunTaskSync's registration to its return.
Registered == {"prepare"} \cup Stages
\* The runner holds its task: it has not consumed a cancel, nor returned.
Running    == {"load", "register"} \cup Registered
Returned   == {"done", "erred", "skipped", "canceled"}
WorkerPc   == {"idle", "claimed", "resume", "consume", "cancel_report"}
                \cup Running \cup Returned
\* Between two statements of one function of the runner. "announce": the head
\* commit is stored; "heal", "progress": UpdateTaskProgress has read a status
\* that lags, or that does not; "log": the report is written, its log is not.
WorkerTodo == {"none", "announce", "heal", "progress", "log"}
ClientPc   == {"idle", "enq_count", "enq_insert", "resume_tx", "del_clean",
               "del_tx", "exec_report", "exec_log", "inv_tx", "inv_clean"}

Exists(r)    == report[r] \notin {"unborn", "deleted"}
MutLogActive(r) == log[r] = "pending"
LogActive(r) == log[r] \notin {"none"} \cup Terminal
Bundle(r)    == PairOf[r] \in BundlePairs
Pending      == {r \in Reports : log[r] = "pending"}
MutAtLimit   == MaxQueueSize > 0 /\ Cardinality(Pending) > MaxQueueSize
AtLimit      == MaxQueueSize > 0 /\ Cardinality(Pending) >= MaxQueueSize
MutLiveIn(p) == {}
LiveIn(p)    == {r \in Reports : PairOf[r] = p /\ report[r] \in Live}

\* UpdateActiveTaskReport: a terminal or absent row is left alone. A
\* statement that fails changes nothing, and few callers look at its error.
MutSetReport(r, s) ==  \* saved, which inserts a row that is gone
    report' = IF dbUp THEN [report EXCEPT ![r] = s] ELSE report
SetReport(r, s) ==
    report' = IF dbUp /\ report[r] \in Live THEN [report EXCEPT ![r] = s] ELSE report
\* UPDATE of the log with this id, or of any log of the report.
SetLog(r, id, s) ==
    log' = IF dbUp /\ log[r] # "none" /\ logId[r] = id
              THEN [log EXCEPT ![r] = s] ELSE log
MutSetLogOf(r, s) == UNCHANGED log
SetLogOf(r, s) == SetLog(r, logId[r], s)

\* Rows a DELETE of task_reports alone removes: with the foreign key the
\* statement fails for all of S if a log refers to one of them.
Removable(S) ==
    IF ForeignKey /\ \E r \in S : log[r] # "none" THEN {} ELSE S

-----------------------------------------------------------------------------
(* runner.CancelRunningTask for every report of S: the runner's context is *)
(* canceled if it is registered; otherwise the intent is kept.             *)
RunnersOf(S)   == {w \in Workers : wpc[w] \in Registered /\ wrep[w] \in S}
Cancel(S) ==
    /\ wcancel' = [w \in Workers |-> wcancel[w] \/ w \in RunnersOf(S)]
    /\ intent'  = (intent \cup S) \ {r \in S : \E w \in RunnersOf(S) : wrep[w] = r}
    /\ UNCHANGED <<wpc, wrep, wlog, wresume, wtodo>>

(* An intent older than cancelRequestTTL (5 minutes) counts for nothing. A *)
(* worker goes from its claim to consumeCancelRequest without waiting, so  *)
(* none expires meanwhile; nor while the handler that left it is at work.  *)
ExpireIntent(r) ==
    /\ r \in intent
    /\ \A w \in Workers : wrep[w] = r => wpc[w] \notin {"claimed", "resume", "consume"}
    /\ \A c \in Clients : r \notin creps[c]
    /\ intent' = intent \ {r}
    /\ UNCHANGED <<dbVars, ckpt, workerVars, clientVars, faultVars>>

-----------------------------------------------------------------------------
(* Clients: the handlers and cron jobs that enqueue, resume, delete, clear. *)
GoTo(c, pc, p, S, ids) ==
    /\ cpc'   = [cpc EXCEPT ![c] = pc]
    /\ cpair' = [cpair EXCEPT ![c] = p]
    /\ creps' = [creps EXCEPT ![c] = S]
    /\ clogs' = [clogs EXCEPT ![c] = ids]
Enqueuing(c, pc, p)     == GoTo(c, pc, p, {}, {})
Handling(c, pc, S)      == GoTo(c, pc, None, S, {})
Deleting(c, pc, S, ids) == GoTo(c, pc, None, S, ids)
Leave(c)                == GoTo(c, "idle", None, {}, {})

\* EnqueueTaskWithTriggerLog, before its transaction: the queue is not full.
\* A count that fails is not looked at and reads as zero.
EnqueueCheck(c, p) ==
    /\ cpc[c] = "idle" /\ (dbUp => ~AtLimit)
    /\ Enqueuing(c, "enq_count", p)
    /\ UNCHANGED <<dbVars, ckpt, workerVars, intent, faultVars>>

\* Its first statements: no active log and no active report for the pair.
EnqueueCount(c) ==
    /\ cpc[c] = "enq_count"
    /\ IF ~dbUp \/ \E r \in Reports : PairOf[r] = cpair[c] /\ (LogActive(r) \/ report[r] \in Live)
          THEN Leave(c) ELSE Enqueuing(c, "enq_insert", cpair[c])
    /\ UNCHANGED <<dbVars, ckpt, workerVars, intent, faultVars>>

\* The rest: the log and the report are created and linked. The transaction
\* is rolled back when uq_task_reports_active_repo_type refuses the report.
Exhausted(p) ==  \* the bounds of the model leave nothing to create
    nextLog > MaxLogs \/ \A r \in Reports : PairOf[r] = p => report[r] # "unborn"
Create(r) ==
    /\ report'   = [report EXCEPT ![r] = "queued"]
    /\ log'      = [log EXCEPT ![r] = "pending"]
    /\ logId'    = [logId EXCEPT ![r] = nextLog]
    /\ isResume' = [isResume EXCEPT ![r] = FALSE]
    /\ nextLog'  = nextLog + 1
EnqueueInsert(c) ==
    /\ cpc[c] = "enq_insert"
    /\ Leave(c)
    /\ \/ dbUp /\ LiveIn(cpair[c]) = {} /\ nextLog <= MaxLogs
          /\ \E r \in Reports : PairOf[r] = cpair[c] /\ report[r] = "unborn" /\ Create(r)
       \/ (~dbUp \/ LiveIn(cpair[c]) # {} \/ Exhausted(cpair[c])) /\ UNCHANGED dbVars
    /\ UNCHANGED <<ckpt, workerVars, intent, faultVars>>

\* ResumeTask and the limit of EnqueueResumeTask: the report is waiting.
ResumeCheck(c, r) ==
    /\ cpc[c] = "idle" /\ dbUp /\ ~AtLimit
    /\ report[r] = "queued" /\ Bundle(r)
    /\ Handling(c, "resume_tx", {r})
    /\ UNCHANGED <<dbVars, ckpt, workerVars, intent, faultVars>>

\* The transaction of EnqueueResumeTask, with the row lock of the report: a
\* closed log is set back to pending, a missing one is created.
ResumeLog(r) ==
    /\ log'      = [log EXCEPT ![r] = "pending"]
    /\ isResume' = [isResume EXCEPT ![r] = TRUE]
    /\ IF log[r] = "none"
          THEN /\ logId' = [logId EXCEPT ![r] = nextLog]
               /\ nextLog' = nextLog + 1
          ELSE UNCHANGED <<logId, nextLog>>
ResumeCommit(c) ==
    /\ cpc[c] = "resume_tx"
    /\ Leave(c)
    /\ \E r \in creps[c] :
         \/ /\ dbUp /\ report[r] = "queued" /\ ~LogActive(r)
            /\ log[r] = "none" => nextLog <= MaxLogs
            /\ ResumeLog(r) /\ UNCHANGED report
         \/ /\ ~dbUp \/ report[r] # "queued" \/ LogActive(r) \/ nextLog > MaxLogs
            /\ UNCHANGED dbVars
    /\ UNCHANGED <<ckpt, workerVars, intent, faultVars>>

DropReports(S) == report' = [r \in Reports |-> IF r \in S THEN "deleted" ELSE report[r]]
DropLogs(S) ==
    /\ log'      = [r \in Reports |-> IF r \in S THEN "none" ELSE log[r]]
    /\ logId'    = [r \in Reports |-> IF r \in S THEN 0 ELSE logId[r]]
    /\ isResume' = [r \in Reports |-> r \notin S /\ isResume[r]]
    /\ UNCHANGED nextLog

\* DeleteTaskReport: read and cancel; clean the files; delete both rows in
\* one transaction.
DeleteStart(c, r) ==
    /\ cpc[c] = "idle" /\ dbUp /\ Exists(r)
    /\ Cancel({r})
    /\ Handling(c, "del_clean", {r})
    /\ UNCHANGED <<dbVars, ckpt, faultVars>>
DeleteClean(c) ==
    /\ cpc[c] = "del_clean"
    /\ ckpt' = ckpt \ creps[c]
    /\ Handling(c, "del_tx", creps[c])
    /\ UNCHANGED <<dbVars, workerVars, intent, faultVars>>
DeleteCommit(c) ==
    /\ cpc[c] = "del_tx"
    /\ IF dbUp THEN DropLogs(creps[c]) /\ DropReports(creps[c]) ELSE UNCHANGED dbVars
    /\ Leave(c)
    /\ UNCHANGED <<ckpt, workerVars, intent, faultVars>>

\* (Batch)DeletePendingExecution(s): cancel the reports whose LOG is not
\* finished, then delete the reports, then the logs, in two statements.
ExecStart(c, S) ==
    /\ cpc[c] = "idle" /\ dbUp
    /\ S # {} /\ \A r \in S : log[r] \notin {"none", "success", "failed", "skipped"}
    /\ Cancel(S)
    /\ Deleting(c, "exec_report", S, {logId[r] : r \in S})
    /\ UNCHANGED <<dbVars, ckpt, faultVars>>
ExecDropReports(c) ==
    /\ cpc[c] = "exec_report"
    /\ DropReports(IF dbUp THEN Removable(creps[c]) ELSE {})
    /\ Deleting(c, "exec_log", creps[c], clogs[c])
    /\ UNCHANGED <<log, logId, isResume, nextLog, ckpt, workerVars, intent, faultVars>>
ExecDropLogs(c) ==
    /\ cpc[c] = "exec_log"
    /\ DropLogs({r \in Reports : dbUp /\ log[r] # "none" /\ logId[r] \in clogs[c]})
    /\ Leave(c)
    /\ UNCHANGED <<report, ckpt, workerVars, intent, faultVars>>

\* ClearInvalidReports: every queued or failed report is canceled, then its
\* rows are deleted, then its files.
ClearStart(c) ==
    /\ cpc[c] = "idle" /\ dbUp
    /\ LET S == {r \in Reports : report[r] \in {"queued", "failed"}}
       IN  S # {} /\ Cancel(S) /\ Handling(c, "inv_tx", S)
    /\ UNCHANGED <<dbVars, ckpt, faultVars>>
ClearCommit(c) ==
    /\ cpc[c] = "inv_tx"
    /\ IF dbUp
          THEN DropLogs(creps[c]) /\ DropReports(creps[c]) /\ Handling(c, "inv_clean", creps[c])
          ELSE UNCHANGED dbVars /\ Leave(c)
    /\ UNCHANGED <<ckpt, workerVars, intent, faultVars>>
ClearFiles(c) ==
    /\ cpc[c] = "inv_clean"
    /\ ckpt' = ckpt \ creps[c]
    /\ Leave(c)
    /\ UNCHANGED <<dbVars, workerVars, intent, faultVars>>

\* ClearCompletedExecutionLogs deletes every finished log in one statement.
ClearLogs ==
    /\ dbUp /\ DropLogs({r \in Reports : log[r] \in Terminal})
    /\ UNCHANGED <<report, ckpt, workerVars, intent, clientVars, faultVars>>

-----------------------------------------------------------------------------
(* Workers: the loop of queue.worker and the runner it calls.              *)
Step(w, pc) ==
    /\ wpc' = [wpc EXCEPT ![w] = pc]
    /\ UNCHANGED <<wrep, wlog, wresume, wcancel, wtodo>>
Midway(w, pc, todo) ==
    /\ wpc'   = [wpc EXCEPT ![w] = pc]
    /\ wtodo' = [wtodo EXCEPT ![w] = todo]
    /\ UNCHANGED <<wrep, wlog, wresume, wcancel>>
MutRelease(w) ==
    /\ wrep' = [wrep EXCEPT ![w] = None]
    /\ UNCHANGED <<wpc, wlog, wresume, wcancel, wtodo>>
Release(w) ==
    /\ wpc'     = [wpc EXCEPT ![w] = "idle"]
    /\ wrep'    = [wrep EXCEPT ![w] = None]
    /\ wlog'    = [wlog EXCEPT ![w] = 0]
    /\ wresume' = [wresume EXCEPT ![w] = FALSE]
    /\ wcancel' = [wcancel EXCEPT ![w] = FALSE]
    /\ wtodo'   = [wtodo EXCEPT ![w] = "none"]
\* What a step of the runner leaves alone.
Steady == UNCHANGED <<logId, isResume, nextLog, clientVars, faultVars>>

\* fetchNextPendingTask: the oldest pending log becomes running.
MutOldest(r) ==
    r \in Pending /\ ~isResume[r] /\ \A q \in Pending : logId[r] <= logId[q]
Oldest(r) ==
    r \in Pending /\ \A q \in Pending : logId[r] <= logId[q]
Claim(w) ==
    /\ wpc[w] = "idle" /\ dbUp
    /\ \E r \in Reports :
         /\ Oldest(r)
         /\ log'     = [log EXCEPT ![r] = "running"]
         /\ wrep'    = [wrep EXCEPT ![w] = r]
         /\ wlog'    = [wlog EXCEPT ![w] = logId[r]]
         /\ wresume' = [wresume EXCEPT ![w] = isResume[r]]
    /\ wpc' = [wpc EXCEPT ![w] = "claimed"]
    /\ UNCHANGED <<report, ckpt, intent, wcancel, wtodo>> /\ Steady

\* Its second half, after the transaction: the report must still be there.
\* failClaimedTask writes what Record does for a task that ended in an error.
Lookup(w) ==
    /\ wpc[w] = "claimed"
    /\ Step(w, IF ~dbUp \/ ~Exists(wrep[w]) THEN "erred"
               ELSE IF wresume[w] THEN "resume" ELSE "consume")
    /\ UNCHANGED <<report, log, ckpt, intent>> /\ Steady

\* ResumeChunkedTask, up to its call of RunTaskSync.
ResumePrelude(w) ==
    /\ wpc[w] = "resume"
    /\ LET r == wrep[w]
           usable == Bundle(r) /\ r \in ckpt
       IN  \/ /\ dbUp /\ usable /\ report[r] \in Live
              /\ Step(w, "consume") /\ UNCHANGED report
           \/ /\ ~dbUp \/ ~Exists(r) \/ (usable /\ report[r] \notin Live)
              /\ Step(w, "erred") /\ UNCHANGED report
           \/ /\ dbUp /\ Exists(r) /\ ~usable           \* markResumeRequiresRescan
              /\ SetReport(r, "failed")
              /\ Step(w, "erred")
    /\ UNCHANGED <<log, ckpt, intent>> /\ Steady

\* RunTaskSync begins: consumeCancelRequest.
Consume(w) ==
    /\ wpc[w] = "consume"
    /\ Step(w, IF wrep[w] \in intent THEN "canceled" ELSE "load")
    /\ intent' = intent \ {wrep[w]}
    /\ UNCHANGED <<report, log, ckpt>> /\ Steady

\* TaskContext.Load; an error returns before anything was written.
Load(w) ==
    /\ wpc[w] = "load"
    /\ Step(w, IF dbUp /\ Exists(wrep[w]) THEN "register" ELSE "erred")
    /\ UNCHANGED <<report, log, ckpt, intent>> /\ Steady

Register(w) ==
    /\ wpc[w] = "register"
    /\ Step(w, "prepare")
    /\ UNCHANGED <<report, log, ckpt, intent>> /\ Steady

\* The clone is there. A canceled context has killed git; the head commit is
\* stored in a live row only.
StoreHead(w) ==
    /\ wpc[w] = "cloning" /\ wtodo[w] = "none"
    /\ dbUp /\ ~wcancel[w] /\ report[wrep[w]] \in Live
    /\ Midway(w, "cloning", "announce")
    /\ UNCHANGED <<report, log, ckpt, intent>> /\ Steady

\* One stage has ended well and UpdateTaskStatus announces the next: first
\* in the report, then, in a statement of its own, in the log.
NextStage == [prepare |-> "cloning", cloning |-> "pre_processing",
              pre_processing |-> "analyzing", analyzing |-> "synthesis",
              synthesis |-> "post_processing", post_processing |-> "merging"]
Advance(w) ==
    /\ wpc[w] \in DOMAIN NextStage
    /\ wtodo[w] = IF wpc[w] = "cloning" THEN "announce" ELSE "none"
    /\ LET s == NextStage[wpc[w]]
       IN  /\ SetReport(wrep[w], s)
           /\ Midway(w, s, "log")
    /\ UNCHANGED <<log, ckpt, intent>> /\ Steady

\* A bundle of the debate engine ends: its checkpoint is written, unless it
\* failed, and UpdateTaskProgress reads the status of the report.
BundleDone(w) ==
    /\ wpc[w] = "analyzing" /\ wtodo[w] = "none"
    /\ LET r == wrep[w] IN
         /\ ckpt' \in {ckpt, ckpt \cup {q \in {r} : Bundle(q)}}
         /\ Midway(w, "analyzing",
                   IF dbUp /\ report[r] \in {"queued", "cloning", "pre_processing"}
                      THEN "heal" ELSE "progress")
    /\ UNCHANGED <<report, log, intent>> /\ Steady

\* It writes the counters, and the status if that lagged behind; a closed
\* report ends the call, any other error does not.
WriteProgress(w) ==
    /\ wpc[w] = "analyzing" /\ wtodo[w] \in {"heal", "progress"}
    /\ IF wtodo[w] = "heal" THEN SetReport(wrep[w], "analyzing") ELSE UNCHANGED report
    /\ Midway(w, wpc[w], IF dbUp /\ report[wrep[w]] \in Terminal THEN "none" ELSE "log")
    /\ UNCHANGED <<log, ckpt, intent>> /\ Steady

\* The second statement of UpdateTaskStatus and the last of UpdateTaskProgress.
WriteLog(w) ==
    /\ wpc[w] \in Stages /\ wtodo[w] = "log"
    /\ SetLogOf(wrep[w], wpc[w])
    /\ Midway(w, wpc[w], "none")
    /\ UNCHANGED <<report, ckpt, intent>> /\ Steady

\* A stage fails: MarkFailed, and RunTaskSync returns the error.
StageFails(w) ==
    /\ wpc[w] \in Registered \ {"merging"} /\ wtodo[w] = "none"
    /\ SetReport(wrep[w], "failed")
    /\ Step(w, "erred")
    /\ UNCHANGED <<log, ckpt, intent>> /\ Steady

\* The scope planner decides there is nothing to scan: ErrSkipped.
GateSkips(w) ==
    /\ wpc[w] = "pre_processing" /\ wtodo[w] = "none"
    /\ Step(w, "skipped")
    /\ UNCHANGED <<report, log, ckpt, intent>> /\ Steady

\* Finalize when every chunk failed: MarkFailed, and no error is returned.
AllChunksFailed(w) ==
    /\ wpc[w] = "post_processing" /\ wtodo[w] = "none"
    /\ SetReport(wrep[w], "failed")
    /\ Step(w, "done")
    /\ UNCHANGED <<log, ckpt, intent>> /\ Steady

\* The end of Finalize: the verdict of the coverage is written to a live
\* row. A row already closed or gone, or a failed write, is an error; after
\* the latter the write of "degraded" that follows may find the database back.
Finish(w) ==
    /\ wpc[w] = "merging" /\ wtodo[w] = "none"
    /\ LET r == wrep[w]
           written == dbUp /\ report[r] \in Live
       IN  \/ /\ \E v \in {"success", "degraded", "failed"} : SetReport(r, v)
              /\ Step(w, IF written THEN "done" ELSE "erred")
           \/ /\ ~dbUp /\ report[r] \in Live
              /\ report' = [report EXCEPT ![r] = "degraded"]
              /\ Step(w, "erred")
    /\ UNCHANGED <<log, ckpt, intent>> /\ Steady

\* The worker records how RunTaskSync returned. Only the transaction of a
\* skipped scan writes both rows.
Record(w) ==
    /\ \/ /\ wpc[w] = "done"
          /\ SetLog(wrep[w], wlog[w], "success")
          /\ UNCHANGED report
       \/ /\ wpc[w] = "erred"
          /\ SetLog(wrep[w], wlog[w], "failed")
          /\ UNCHANGED report
       \/ /\ wpc[w] = "skipped"
          /\ SetLog(wrep[w], wlog[w], "skipped")
          /\ SetReport(wrep[w], "skipped")
    /\ Release(w)
    /\ UNCHANGED <<ckpt, intent>> /\ Steady

\* A canceled task: the log first, the report in a statement of its own.
MutRecordCanceled(w) ==
    /\ wpc[w] = "canceled"
    /\ Step(w, "cancel_report")
    /\ UNCHANGED <<report, log, ckpt, intent>> /\ Steady
RecordCanceled(w) ==
    /\ wpc[w] = "canceled"
    /\ SetLog(wrep[w], wlog[w], "failed")
    /\ Step(w, "cancel_report")
    /\ UNCHANGED <<report, ckpt, intent>> /\ Steady
MutCloseCanceled(w) ==
    /\ wpc[w] = "cancel_report"
    /\ Release(w)
    /\ UNCHANGED <<report, log, ckpt, intent>> /\ Steady
CloseCanceled(w) ==
    /\ wpc[w] = "cancel_report"
    /\ SetReport(wrep[w], "failed")
    /\ Release(w)
    /\ UNCHANGED <<log, ckpt, intent>> /\ Steady

-----------------------------------------------------------------------------
(* The database stops answering, and answers again.                        *)
Outage ==
    /\ "outage" \in Faults /\ dbUp /\ restarts + outages < MaxFaults
    /\ dbUp' = FALSE /\ outages' = outages + 1
    /\ UNCHANGED <<dbVars, ckpt, workerVars, intent, clientVars, restarts>>
OutageEnds ==
    /\ ~dbUp /\ dbUp' = TRUE
    /\ UNCHANGED <<dbVars, ckpt, workerVars, intent, clientVars, restarts, outages>>

(* A crash loses every goroutine and both maps of the runner. The server   *)
(* starts again once the database answers, and main runs                   *)
(* RecoverPendingTasks before the pool and the handlers exist.             *)
LiveReports == {r \in Reports : report[r] \in Live}
Recover ==
    LET missing == {r \in LiveReports : log[r] = "none"}
    IN  /\ report' = [r \in Reports |-> IF r \in LiveReports THEN "queued" ELSE report[r]]
        /\ log'    = [r \in Reports |-> IF r \in LiveReports THEN "pending" ELSE log[r]]
        /\ isResume' = [r \in Reports |->
                          IF r \in LiveReports THEN Bundle(r) /\ r \in ckpt ELSE isResume[r]]
        /\ nextLog' = nextLog + Cardinality(missing)
        /\ nextLog' <= MaxLogs + 1
        /\ \E id \in [missing -> nextLog .. MaxLogs] :
             /\ \A q, r \in missing : q # r => id[q] # id[r]
             /\ \A r \in missing : id[r] < nextLog'
             /\ logId' = [r \in Reports |-> IF r \in missing THEN id[r] ELSE logId[r]]
        /\ UNCHANGED ckpt
Discard ==
    /\ DropReports({r \in LiveReports : Removable({r}) = {r}})
    /\ DropLogs(LiveReports)
    /\ ckpt' = ckpt \ LiveReports
Restart ==
    /\ "crash" \in Faults /\ restarts + outages < MaxFaults
    /\ restarts' = restarts + 1
    /\ wpc'     = [w \in Workers |-> "idle"]
    /\ wrep'    = [w \in Workers |-> None]
    /\ wlog'    = [w \in Workers |-> 0]
    /\ wresume' = [w \in Workers |-> FALSE]
    /\ wcancel' = [w \in Workers |-> FALSE]
    /\ wtodo'   = [w \in Workers |-> "none"]
    /\ intent'  = {}
    /\ cpc'     = [c \in Clients |-> "idle"]
    /\ cpair'   = [c \in Clients |-> None]
    /\ creps'   = [c \in Clients |-> {}]
    /\ clogs'   = [c \in Clients |-> {}]
    /\ dbUp' = TRUE /\ UNCHANGED outages
    /\ \/ "recover" \in StaleActions /\ Recover
       \/ "delete" \in StaleActions /\ Discard
       \/ "ignore" \in StaleActions /\ UNCHANGED <<dbVars, ckpt>>

-----------------------------------------------------------------------------
Init ==
    /\ report   = [r \in Reports |-> "unborn"]
    /\ log      = [r \in Reports |-> "none"]
    /\ logId    = [r \in Reports |-> 0]
    /\ isResume = [r \in Reports |-> FALSE]
    /\ nextLog  = 1
    /\ ckpt     = {}
    /\ wpc      = [w \in Workers |-> "idle"]
    /\ wrep     = [w \in Workers |-> None]
    /\ wlog     = [w \in Workers |-> 0]
    /\ wresume  = [w \in Workers |-> FALSE]
    /\ wcancel  = [w \in Workers |-> FALSE]
    /\ wtodo    = [w \in Workers |-> "none"]
    /\ intent   = {}
    /\ cpc      = [c \in Clients |-> "idle"]
    /\ cpair    = [c \in Clients |-> None]
    /\ creps    = [c \in Clients |-> {}]
    /\ clogs    = [c \in Clients |-> {}]
    /\ dbUp     = TRUE
    /\ restarts = 0
    /\ outages  = 0

WorkerStep(w) ==
    \/ Claim(w) \/ Lookup(w) \/ ResumePrelude(w) \/ Consume(w) \/ Load(w)
    \/ Register(w) \/ StoreHead(w) \/ Advance(w) \/ WriteLog(w)
    \/ BundleDone(w) \/ WriteProgress(w) \/ StageFails(w)
    \/ GateSkips(w) \/ AllChunksFailed(w) \/ Finish(w)
    \/ Record(w) \/ RecordCanceled(w) \/ CloseCanceled(w)

ClientBegins(c) ==
    \/ \E p \in Pairs : EnqueueCheck(c, p)
    \/ \E r \in Reports : ResumeCheck(c, r) \/ DeleteStart(c, r)
    \/ \E S \in SUBSET Reports : ExecStart(c, S)
    \/ ClearStart(c)
ClientContinues(c) ==
    \/ EnqueueCount(c) \/ EnqueueInsert(c) \/ ResumeCommit(c)
    \/ DeleteClean(c) \/ DeleteCommit(c)
    \/ ExecDropReports(c) \/ ExecDropLogs(c)
    \/ ClearCommit(c) \/ ClearFiles(c)

Next ==
    \/ \E w \in Workers : WorkerStep(w)
    \/ \E c \in Clients : ClientBegins(c) \/ ClientContinues(c)
    \/ ClearLogs
    \/ \E r \in Reports : ExpireIntent(r)
    \/ Outage \/ OutageEnds \/ Restart

Spec == Init /\ [][Next]_vars

\* Goroutines are scheduled, a stage ends (git and the model calls have
\* deadlines), and the pool is neither paused nor saturated for ever. A scan
\* has finitely many bundles: their reports do not keep it from ending.
AnalysisEnds(w) == wpc[w] = "analyzing" /\ (Advance(w) \/ StageFails(w))
Fairness ==
    /\ \A w \in Workers : WF_vars(WorkerStep(w)) /\ SF_vars(AnalysisEnds(w))
    /\ \A c \in Clients : WF_vars(ClientContinues(c))
FairSpec == Spec /\ Fairness

-----------------------------------------------------------------------------
(* Properties.                                                              *)

\* The type invariant.
RowsTypeOK ==
    /\ report \in [Reports -> ReportStatus]
    /\ log \in [Reports -> LogStatus]
    /\ logId \in [Reports -> Nat] /\ nextLog \in Nat \ {0}
    /\ isResume \in [Reports -> BOOLEAN]
WorkersTypeOK ==
    /\ wpc \in [Workers -> WorkerPc]
    /\ wrep \in [Workers -> Reports \cup {None}]
    /\ \A w \in Workers : wpc[w] # "idle" => wrep[w] \in Reports
    /\ wlog \in [Workers -> Nat]
    /\ wresume \in [Workers -> BOOLEAN] /\ wcancel \in [Workers -> BOOLEAN]
    /\ wtodo \in [Workers -> WorkerTodo]
ClientsTypeOK ==
    /\ cpc \in [Clients -> ClientPc]
    /\ cpair \in [Clients -> Pairs \cup {None}]
    /\ creps \in [Clients -> SUBSET Reports]
    /\ clogs \in [Clients -> SUBSET Nat]
TypeOK ==
    /\ RowsTypeOK /\ WorkersTypeOK /\ ClientsTypeOK
    /\ ckpt \subseteq Reports /\ intent \subseteq Reports
    /\ dbUp \in BOOLEAN /\ restarts \in Nat /\ outages \in Nat

\* The log shows the stage before s (it shows "running" during prepare).
ShowsStageBefore(shown, s) ==
    \E t \in DOMAIN NextStage :
        NextStage[t] = s /\ shown = IF t = "prepare" THEN "running" ELSE t

\* At most one scan of a repository with a task type is live, whatever the
\* order in which requests count, insert, resume and recover.
OneLiveReport ==
    \A q, r \in Reports :
        q # r /\ PairOf[q] = PairOf[r] => ~(report[q] \in Live /\ report[r] \in Live)

\* No report is executed by two workers at once: the claim, the reset of a
\* log by a resume and the recovery never hand out a task that is held.
SingleRunner ==
    \A v, w \in Workers :
        v # w /\ wpc[v] \in Running /\ wpc[w] \in Running => wrep[v] # wrep[w]

\* While a scan runs and its rows exist, the report shows the stage its
\* worker is in, and so does the log, or the stage before as long as the
\* worker has still to write it: no other writer gets between the statements.
ProgressAgrees ==
    outages = 0 =>
      \A w \in Workers : wpc[w] \in Stages =>
        LET r == wrep[w] IN
          /\ report[r] \in Live => report[r] = wpc[w]
          /\ logId[r] = wlog[w] =>
               \/ log[r] = wpc[w]
               \/ wtodo[w] = "log" /\ ShowsStageBefore(log[r], wpc[w])

\* A live report is never lost: its log waits in the queue, or a worker
\* holds it and has still to close it. RecoverPendingTasks restores this
\* after a crash. Without it the pair could not be scanned again.
Carries(w, r) == wrep[w] = r /\ wpc[w] \notin {"idle", "done", "erred"}
NoLostScan ==
    ~ForeignKey /\ outages = 0 /\ StaleActions \subseteq {"recover", "delete"} =>
      \A r \in LiveReports : log[r] = "pending" \/ \E w \in Workers : Carries(w, r)

\* A log that is neither waiting nor closed belongs to a worker that will
\* close it; EnqueueTask refuses the pair of any other for ever.
NoOrphanLog ==
    \A r \in Reports : LogActive(r) /\ log[r] # "pending" =>
      \E w \in Workers : wpc[w] # "idle" /\ wrep[w] = r /\ wlog[w] = logId[r]
\* ... as long as the server and the database do not fail.
NoOrphanLogInSteadyState == restarts + outages = 0 => NoOrphanLog

\* max_queue_size is tested before the transaction that adds to the queue,
\* so it can be exceeded: by the requests that have passed the test, and by
\* no more, whether they are still at work or their tasks wait by now.
Entering == {c \in Clients : cpc[c] \in {"enq_count", "enq_insert", "resume_tx"}}
PendingBound ==
    MaxQueueSize > 0 /\ restarts + outages = 0 =>
      Cardinality(Pending) + Cardinality(Entering) < MaxQueueSize + Cardinality(Clients)

\* The rows of task_reports behave as the ledger of scans promises.
Ledger == INSTANCE ScanLedger WITH
            scan <- [r \in Reports |-> IF report[r] \in Live THEN "live" ELSE report[r]]
LedgerSpec == Ledger!Spec

\* Every scan ends, across crashes: a queued or running report reaches a
\* verdict or is deleted. So does its log, which frees the pair, unless a
\* crash came between the two (see NoOrphanLog).
ScanEnds ==
    \A r \in Reports :
        (report[r] \in Live \/ LogActive(r))
          ~> (report[r] \notin Live /\ (LogActive(r) => restarts + outages > 0))

\* What DeletePendingExecution relies on: a cancel always reaches the runner
\* of the report, or keeps it from starting.
CancelReachesRunner ==
    \A w \in Workers : wpc[w] \in Registered => wrep[w] \notin intent
=============================================================================
