--------------------------- MODULE TaskQueueProofs ---------------------------
(***************************************************************************)
(* Proofs about TaskQueue, for every set of reports, workers and clients,  *)
(* every queue limit, with crashes, outages and either foreign key.        *)
(***************************************************************************)
EXTENDS TaskQueue, FiniteSetTheorems, TLAPS

-----------------------------------------------------------------------------
(* Type correctness: first the helpers the actions are made of.            *)

LEMMA SetReportType ==
    ASSUME RowsTypeOK, NEW r, NEW s \in ReportStatus, SetReport(r, s)
    PROVE  report' \in [Reports -> ReportStatus]
  BY DEF RowsTypeOK, SetReport

LEMMA SetLogType ==
    ASSUME RowsTypeOK, NEW r, NEW id, NEW s \in LogStatus, SetLog(r, id, s)
    PROVE  log' \in [Reports -> LogStatus]
  BY DEF RowsTypeOK, SetLog

LEMMA StepType ==
    ASSUME WorkersTypeOK, NEW w \in Workers, wpc[w] # "idle",
           NEW pc \in WorkerPc, Step(w, pc)
    PROVE  WorkersTypeOK'
  BY DEF WorkersTypeOK, Step

LEMMA MidwayType ==
    ASSUME WorkersTypeOK, NEW w \in Workers, wpc[w] # "idle",
           NEW pc \in WorkerPc, NEW todo \in WorkerTodo, Midway(w, pc, todo)
    PROVE  WorkersTypeOK'
  BY DEF WorkersTypeOK, Midway

LEMMA ReleaseType ==
    ASSUME WorkersTypeOK, NEW w \in Workers, Release(w)
    PROVE  WorkersTypeOK'
  BY DEF WorkersTypeOK, Release, WorkerPc, WorkerTodo

LEMMA GoToType ==
    ASSUME ClientsTypeOK, NEW c \in Clients, NEW pc \in ClientPc,
           NEW p \in Pairs \cup {None}, NEW S \in SUBSET Reports,
           NEW ids \in SUBSET Nat, GoTo(c, pc, p, S, ids)
    PROVE  ClientsTypeOK'
  BY DEF ClientsTypeOK, GoTo

LEMMA CancelType ==
    ASSUME WorkersTypeOK, intent \subseteq Reports, NEW S \in SUBSET Reports, Cancel(S)
    PROVE  WorkersTypeOK' /\ intent' \subseteq Reports
  BY DEF WorkersTypeOK, Cancel

LEMMA DropLogsType ==
    ASSUME RowsTypeOK, NEW S, DropLogs(S)
    PROVE  /\ log' \in [Reports -> LogStatus]
           /\ logId' \in [Reports -> Nat] /\ nextLog' \in Nat \ {0}
           /\ isResume' \in [Reports -> BOOLEAN]
  BY DEF RowsTypeOK, DropLogs, LogStatus

LEMMA DropReportsType ==
    ASSUME RowsTypeOK, NEW S, DropReports(S)
    PROVE  report' \in [Reports -> ReportStatus]
  BY DEF RowsTypeOK, DropReports, ReportStatus

\* The statuses and program counters that the actions write.
LEMMA Statuses ==
    /\ Stages \subseteq ReportStatus \cap LogStatus \cap WorkerPc
    /\ Terminal \subseteq ReportStatus \cap LogStatus
    /\ {"unborn", "deleted", "queued"} \subseteq ReportStatus
    /\ {"none", "pending", "running"} \subseteq LogStatus
    /\ {"idle", "claimed", "resume", "consume", "cancel_report"} \subseteq WorkerPc
    /\ Running \cup Returned \subseteq WorkerPc
    /\ Live \subseteq ReportStatus
    /\ Live \cap (Terminal \cup {"unborn", "deleted"}) = {}
  BY DEF Stages, Terminal, ReportStatus, LogStatus, WorkerPc, Running,
         Returned, Registered, Live

LEMMA InitType == Init => TypeOK
  BY ReportsAssumption
  DEF Init, TypeOK, RowsTypeOK, WorkersTypeOK, ClientsTypeOK,
      ReportStatus, LogStatus, WorkerPc, WorkerTodo, ClientPc

\* A step of a worker leaves the requests and the faults alone.
LEMMA SteadyType ==
    ASSUME TypeOK, Steady
    PROVE  /\ ClientsTypeOK'
           /\ logId' \in [Reports -> Nat] /\ nextLog' \in Nat \ {0}
           /\ isResume' \in [Reports -> BOOLEAN]
           /\ dbUp' \in BOOLEAN /\ restarts' \in Nat /\ outages' \in Nat
  BY DEF TypeOK, RowsTypeOK, ClientsTypeOK, Steady, clientVars, faultVars

LEMMA WorkerType ==
    ASSUME TypeOK, NEW w \in Workers, WorkerStep(w)
    PROVE  TypeOK'
  <1>1. /\ RowsTypeOK /\ WorkersTypeOK /\ ckpt \subseteq Reports /\ intent \subseteq Reports
        /\ wpc[w] # "idle" => wrep[w] \in Reports
    BY DEF TypeOK, WorkersTypeOK
  <1> DEFINE Disk == ckpt' \subseteq Reports /\ intent' \subseteq Reports
  <1> USE Statuses DEF RowsTypeOK
  <1>2. CASE Claim(w)
    <2>1. WorkersTypeOK'
      BY <1>1, <1>2 DEF Claim, WorkersTypeOK
    <2>2. RowsTypeOK' /\ Disk
      <3>1. log' \in [Reports -> LogStatus]
        BY <1>1, <1>2 DEF Claim
      <3>2. UNCHANGED <<report, ckpt, intent>> /\ Steady
        BY <1>2 DEF Claim
      <3> QED BY <1>1, <3>1, <3>2, SteadyType
    <2> QED BY <1>2, <2>1, <2>2, SteadyType DEF Claim, TypeOK
  <1>3. CASE Lookup(w)
    <2>1. RowsTypeOK' /\ Disk
      BY <1>1, <1>3, SteadyType DEF Lookup
    <2>2. WorkersTypeOK'
      BY <1>1, <1>3, StepType DEF Lookup, Returned
    <2> QED BY <1>3, <2>1, <2>2, SteadyType DEF Lookup, TypeOK
  <1>4. CASE ResumePrelude(w)
    <2>1. RowsTypeOK' /\ Disk
      BY <1>1, <1>4, SteadyType, SetReportType DEF ResumePrelude, Terminal
    <2>2. WorkersTypeOK'
      BY <1>1, <1>4, StepType DEF ResumePrelude, Returned
    <2> QED BY <1>4, <2>1, <2>2, SteadyType DEF ResumePrelude, TypeOK
  <1>5. CASE Consume(w)
    <2>1. RowsTypeOK' /\ Disk
      BY <1>1, <1>5, SteadyType DEF Consume
    <2>2. WorkersTypeOK'
      BY <1>1, <1>5, StepType DEF Consume, Running, Returned
    <2> QED BY <1>5, <2>1, <2>2, SteadyType DEF Consume, TypeOK
  <1>6. CASE Load(w)
    <2>1. RowsTypeOK' /\ Disk
      BY <1>1, <1>6, SteadyType DEF Load
    <2>2. WorkersTypeOK'
      BY <1>1, <1>6, StepType DEF Load, Running, Returned
    <2> QED BY <1>6, <2>1, <2>2, SteadyType DEF Load, TypeOK
  <1>7. CASE Register(w)
    <2>1. RowsTypeOK' /\ Disk
      BY <1>1, <1>7, SteadyType DEF Register
    <2>2. WorkersTypeOK'
      BY <1>1, <1>7, StepType DEF Register, Running, Registered
    <2> QED BY <1>7, <2>1, <2>2, SteadyType DEF Register, TypeOK
  <1>8. CASE Advance(w)
    <2>1. NextStage[wpc[w]] \in Stages /\ wpc[w] # "idle"
      BY <1>8 DEF Advance, NextStage, Stages
    <2>2. RowsTypeOK' /\ Disk
      BY <1>1, <1>8, <2>1, SteadyType, SetReportType DEF Advance
    <2>3. WorkersTypeOK'
      BY <1>1, <1>8, <2>1, MidwayType DEF Advance, WorkerTodo
    <2> QED BY <1>8, <2>2, <2>3, SteadyType DEF Advance, TypeOK
  <1>9. CASE BundleDone(w)
    <2>1. RowsTypeOK' /\ Disk
      BY <1>1, <1>9, SteadyType DEF BundleDone
    <2>2. WorkersTypeOK'
      BY <1>1, <1>9, MidwayType DEF BundleDone, WorkerTodo, Stages
    <2> QED BY <1>9, <2>1, <2>2, SteadyType DEF BundleDone, TypeOK
  <1>16. CASE StoreHead(w)
    <2>1. RowsTypeOK' /\ Disk
      BY <1>1, <1>16, SteadyType DEF StoreHead
    <2>2. WorkersTypeOK'
      BY <1>1, <1>16, MidwayType DEF StoreHead, WorkerTodo, Stages
    <2> QED BY <1>16, <2>1, <2>2, SteadyType DEF StoreHead, TypeOK
  <1>17. CASE WriteProgress(w)
    <2>1. wpc[w] \in Stages /\ wpc[w] # "idle" /\ "analyzing" \in ReportStatus
      BY <1>17 DEF WriteProgress, Stages
    <2>2. RowsTypeOK' /\ Disk
      BY <1>1, <1>17, <2>1, SteadyType, SetReportType DEF WriteProgress
    <2>3. WorkersTypeOK'
      BY <1>1, <1>17, <2>1, MidwayType DEF WriteProgress, WorkerTodo
    <2> QED BY <1>17, <2>2, <2>3, SteadyType DEF WriteProgress, TypeOK
  <1>18. CASE WriteLog(w)
    <2>1. wpc[w] \in Stages /\ wpc[w] # "idle"
      BY <1>18 DEF WriteLog, Stages
    <2>2. RowsTypeOK' /\ Disk
      BY <1>1, <1>18, <2>1, SteadyType, SetLogType DEF WriteLog, SetLogOf
    <2>3. WorkersTypeOK'
      BY <1>1, <1>18, <2>1, MidwayType DEF WriteLog, WorkerTodo
    <2> QED BY <1>18, <2>2, <2>3, SteadyType DEF WriteLog, TypeOK
  <1>10. CASE StageFails(w) \/ AllChunksFailed(w)
    <2>1. RowsTypeOK' /\ Disk
      BY <1>1, <1>10, SteadyType, SetReportType DEF StageFails, AllChunksFailed, Terminal
    <2>2. WorkersTypeOK'
      BY <1>1, <1>10, StepType
      DEF StageFails, AllChunksFailed, Registered, Stages, Returned
    <2> QED BY <1>10, <2>1, <2>2, SteadyType DEF StageFails, AllChunksFailed, TypeOK
  <1>11. CASE GateSkips(w)
    <2>1. RowsTypeOK' /\ Disk
      BY <1>1, <1>11, SteadyType DEF GateSkips
    <2>2. WorkersTypeOK'
      BY <1>1, <1>11, StepType DEF GateSkips, Returned
    <2> QED BY <1>11, <2>1, <2>2, SteadyType DEF GateSkips, TypeOK
  <1>12. CASE Finish(w)
    <2>1. RowsTypeOK' /\ Disk
      BY <1>1, <1>12, SteadyType, SetReportType DEF Finish, Terminal
    <2>2. WorkersTypeOK'
      BY <1>1, <1>12, StepType DEF Finish, Returned
    <2> QED BY <1>12, <2>1, <2>2, SteadyType DEF Finish, TypeOK
  <1>13. CASE Record(w)
    <2>1. RowsTypeOK' /\ Disk
      BY <1>1, <1>13, SteadyType, SetReportType, SetLogType DEF Record, Terminal
    <2>2. WorkersTypeOK'
      BY <1>1, <1>13, ReleaseType DEF Record
    <2> QED BY <1>13, <2>1, <2>2, SteadyType DEF Record, TypeOK
  <1>14. CASE RecordCanceled(w)
    <2>1. RowsTypeOK' /\ Disk
      BY <1>1, <1>14, SteadyType, SetLogType DEF RecordCanceled, Terminal
    <2>2. WorkersTypeOK'
      BY <1>1, <1>14, StepType DEF RecordCanceled
    <2> QED BY <1>14, <2>1, <2>2, SteadyType DEF RecordCanceled, TypeOK
  <1>15. CASE CloseCanceled(w)
    <2>1. RowsTypeOK' /\ Disk
      BY <1>1, <1>15, SteadyType, SetReportType DEF CloseCanceled, Terminal
    <2>2. WorkersTypeOK'
      BY <1>1, <1>15, ReleaseType DEF CloseCanceled
    <2> QED BY <1>15, <2>1, <2>2, SteadyType DEF CloseCanceled, TypeOK
  <1> QED
    BY <1>2, <1>3, <1>4, <1>5, <1>6, <1>7, <1>8, <1>9, <1>10, <1>11, <1>12,
       <1>13, <1>14, <1>15, <1>16, <1>17, <1>18 DEF WorkerStep

\* What a step of a request leaves alone.
LEMMA RestType ==
    ASSUME TypeOK
    PROVE  /\ UNCHANGED dbVars => RowsTypeOK'
           /\ UNCHANGED workerVars => WorkersTypeOK'
           /\ UNCHANGED clientVars => ClientsTypeOK'
           /\ UNCHANGED faultVars => dbUp' \in BOOLEAN /\ restarts' \in Nat /\ outages' \in Nat
           /\ UNCHANGED ckpt => ckpt' \subseteq Reports
           /\ UNCHANGED intent => intent' \subseteq Reports
  BY DEF TypeOK, RowsTypeOK, WorkersTypeOK, ClientsTypeOK,
         dbVars, workerVars, clientVars, faultVars

LEMMA ClientBeginsType ==
    ASSUME TypeOK, NEW c \in Clients, ClientBegins(c)
    PROVE  TypeOK'
  <1>1. RowsTypeOK /\ WorkersTypeOK /\ ClientsTypeOK /\ intent \subseteq Reports
    BY DEF TypeOK
  <1>2. ASSUME NEW p \in Pairs, EnqueueCheck(c, p) PROVE TypeOK'
    <2>1. ClientsTypeOK'
      BY <1>1, <1>2, GoToType DEF EnqueueCheck, Enqueuing, ClientPc
    <2> QED BY <1>2, <2>1, RestType DEF EnqueueCheck, TypeOK
  <1>3. ASSUME NEW r \in Reports, ResumeCheck(c, r) PROVE TypeOK'
    <2>1. ClientsTypeOK'
      BY <1>1, <1>3, GoToType DEF ResumeCheck, Handling, ClientPc
    <2> QED BY <1>3, <2>1, RestType DEF ResumeCheck, TypeOK
  <1>4. ASSUME NEW r \in Reports, DeleteStart(c, r) PROVE TypeOK'
    <2>1. ClientsTypeOK'
      BY <1>1, <1>4, GoToType DEF DeleteStart, Handling, ClientPc
    <2>2. WorkersTypeOK' /\ intent' \subseteq Reports
      BY <1>1, <1>4, CancelType DEF DeleteStart
    <2> QED BY <1>4, <2>1, <2>2, RestType DEF DeleteStart, TypeOK
  <1>5. ASSUME NEW S \in SUBSET Reports, ExecStart(c, S) PROVE TypeOK'
    <2>1. {logId[r] : r \in S} \in SUBSET Nat
      BY <1>1 DEF RowsTypeOK
    <2>2. ClientsTypeOK'
      BY <1>1, <1>5, <2>1, GoToType DEF ExecStart, Deleting, ClientPc
    <2>3. WorkersTypeOK' /\ intent' \subseteq Reports
      BY <1>1, <1>5, CancelType DEF ExecStart
    <2> QED BY <1>5, <2>2, <2>3, RestType DEF ExecStart, TypeOK
  <1>6. CASE ClearStart(c)
    <2> DEFINE S == {r \in Reports : report[r] \in {"queued", "failed"}}
    <2>1. S \in SUBSET Reports /\ Cancel(S) /\ Handling(c, "inv_tx", S)
      BY <1>6 DEF ClearStart
    <2> HIDE DEF S
    <2>2. ClientsTypeOK'
      BY <1>1, <2>1, GoToType DEF Handling, ClientPc
    <2>3. WorkersTypeOK' /\ intent' \subseteq Reports
      BY <1>1, <2>1, CancelType
    <2> QED BY <1>6, <2>2, <2>3, RestType DEF ClearStart, TypeOK
  <1> QED
    BY <1>2, <1>3, <1>4, <1>5, <1>6 DEF ClientBegins

LEMMA LeaveType ==
    ASSUME ClientsTypeOK, NEW c \in Clients, Leave(c)
    PROVE  ClientsTypeOK'
  BY GoToType DEF Leave, ClientPc

LEMMA ClientContinuesType ==
    ASSUME TypeOK, NEW c \in Clients, ClientContinues(c)
    PROVE  TypeOK'
  <1>1. /\ RowsTypeOK /\ WorkersTypeOK /\ ClientsTypeOK /\ ckpt \subseteq Reports
        /\ cpair[c] \in Pairs \cup {None} /\ creps[c] \in SUBSET Reports
        /\ clogs[c] \in SUBSET Nat
    BY DEF TypeOK, ClientsTypeOK
  <1>2. CASE EnqueueCount(c)
    <2>1. ClientsTypeOK'
      BY <1>1, <1>2, LeaveType, GoToType DEF EnqueueCount, Enqueuing, ClientPc
    <2> QED BY <1>2, <2>1, RestType DEF EnqueueCount, TypeOK
  <1>3. CASE EnqueueInsert(c)
    <2>1. ClientsTypeOK'
      BY <1>1, <1>3, LeaveType DEF EnqueueInsert
    <2>2. ASSUME NEW r \in Reports, Create(r) PROVE RowsTypeOK'
      BY <1>1, <2>2, Statuses DEF RowsTypeOK, Create
    <2>3. RowsTypeOK'
      BY <1>3, <2>2, RestType DEF EnqueueInsert
    <2> QED BY <1>3, <2>1, <2>3, RestType DEF EnqueueInsert, TypeOK
  <1>4. CASE ResumeCommit(c)
    <2>1. ClientsTypeOK'
      BY <1>1, <1>4, LeaveType DEF ResumeCommit
    <2>2. ASSUME NEW r \in Reports, ResumeLog(r), UNCHANGED report PROVE RowsTypeOK'
      BY <1>1, <2>2, Statuses DEF RowsTypeOK, ResumeLog
    <2>3. PICK r \in creps[c] :
            (ResumeLog(r) /\ UNCHANGED report) \/ UNCHANGED dbVars
      BY <1>4, Zenon DEF ResumeCommit
    <2>4. CASE UNCHANGED dbVars
      BY <1>4, <2>1, <2>4, RestType DEF ResumeCommit, TypeOK
    <2>5. CASE ResumeLog(r) /\ UNCHANGED report
      <3>1. RowsTypeOK'
        BY <1>1, <2>2, <2>5
      <3> QED BY <1>4, <2>1, <3>1, RestType DEF ResumeCommit, TypeOK
    <2> QED BY <2>3, <2>4, <2>5
  <1>5. CASE DeleteClean(c)
    <2>1. ClientsTypeOK'
      BY <1>1, <1>5, GoToType DEF DeleteClean, Handling, ClientPc
    <2>2. ckpt' \subseteq Reports
      BY <1>1, <1>5 DEF DeleteClean
    <2> QED BY <1>5, <2>1, <2>2, RestType DEF DeleteClean, TypeOK
  <1>6. CASE DeleteCommit(c)
    <2>1. ClientsTypeOK'
      BY <1>1, <1>6, LeaveType DEF DeleteCommit
    <2>2. RowsTypeOK'
      BY <1>1, <1>6, DropLogsType, DropReportsType, RestType DEF DeleteCommit, RowsTypeOK
    <2> QED BY <1>6, <2>1, <2>2, RestType DEF DeleteCommit, TypeOK
  <1>7. CASE ExecDropReports(c)
    <2>1. ClientsTypeOK'
      BY <1>1, <1>7, GoToType DEF ExecDropReports, Deleting, ClientPc
    <2>2. report' \in [Reports -> ReportStatus]
      BY <1>1, <1>7, DropReportsType DEF ExecDropReports
    <2>3. RowsTypeOK'
      BY <1>1, <1>7, <2>2 DEF ExecDropReports, RowsTypeOK
    <2> QED BY <1>7, <2>1, <2>3, RestType DEF ExecDropReports, TypeOK
  <1>8. CASE ExecDropLogs(c)
    <2>1. ClientsTypeOK'
      BY <1>1, <1>8, LeaveType DEF ExecDropLogs
    <2>2. RowsTypeOK'
      BY <1>1, <1>8, DropLogsType DEF ExecDropLogs, RowsTypeOK
    <2> QED BY <1>8, <2>1, <2>2, RestType DEF ExecDropLogs, TypeOK
  <1>9. CASE ClearCommit(c)
    <2>1. ClientsTypeOK'
      <3>1. CASE dbUp
        BY <1>1, <1>9, <3>1, GoToType DEF ClearCommit, Handling, ClientPc
      <3>2. CASE ~dbUp
        BY <1>1, <1>9, <3>2, LeaveType DEF ClearCommit
      <3> QED BY <3>1, <3>2
    <2>2. RowsTypeOK'
      BY <1>1, <1>9, DropLogsType, DropReportsType, RestType DEF ClearCommit, RowsTypeOK
    <2> QED BY <1>9, <2>1, <2>2, RestType DEF ClearCommit, TypeOK
  <1>10. CASE ClearFiles(c)
    <2>1. ClientsTypeOK'
      BY <1>1, <1>10, LeaveType DEF ClearFiles
    <2>2. ckpt' \subseteq Reports
      BY <1>1, <1>10 DEF ClearFiles
    <2> QED BY <1>10, <2>1, <2>2, RestType DEF ClearFiles, TypeOK
  <1> QED
    BY <1>2, <1>3, <1>4, <1>5, <1>6, <1>7, <1>8, <1>9, <1>10 DEF ClientContinues

LEMMA RecoverType ==
    ASSUME RowsTypeOK, Recover
    PROVE  RowsTypeOK'
  <1> DEFINE missing == {r \in LiveReports : log[r] = "none"}
  <1>1. Cardinality(missing) \in Nat
    <2>1. missing \subseteq Reports
      BY DEF LiveReports
    <2> QED BY <2>1, ReportsAssumption, FS_Subset, FS_CardinalityType
  <1>2. PICK id \in [missing -> nextLog .. MaxLogs] :
          logId' = [r \in Reports |-> IF r \in missing THEN id[r] ELSE logId[r]]
    BY DEF Recover
  <1>3. nextLog' = nextLog + Cardinality(missing)
    BY DEF Recover
  <1>4. logId' \in [Reports -> Nat]
    BY <1>2, SettingsAssumption DEF RowsTypeOK
  <1>5. nextLog' \in Nat \ {0}
    <2> HIDE DEF missing
    <2> QED BY <1>1, <1>3 DEF RowsTypeOK
  <1>6. isResume' \in [Reports -> BOOLEAN]
    BY DEF Recover, RowsTypeOK, Bundle
  <1>7. report' \in [Reports -> ReportStatus] /\ log' \in [Reports -> LogStatus]
    BY Statuses DEF Recover, RowsTypeOK
  <1> QED BY <1>4, <1>5, <1>6, <1>7 DEF RowsTypeOK

LEMMA RestartType ==
    ASSUME TypeOK, Restart
    PROVE  TypeOK'
  <1>1. RowsTypeOK /\ ckpt \subseteq Reports /\ restarts \in Nat /\ outages \in Nat
    BY DEF TypeOK
  <1>2. RowsTypeOK' /\ ckpt' \subseteq Reports
    <2>1. CASE Recover
      BY <1>1, <2>1, RecoverType DEF Recover
    <2>2. CASE Discard
      BY <1>1, <2>2, DropLogsType, DropReportsType DEF Discard, RowsTypeOK
    <2>3. CASE UNCHANGED <<dbVars, ckpt>>
      BY <1>1, <2>3, RestType
    <2> QED BY <2>1, <2>2, <2>3 DEF Restart
  <1>3. WorkersTypeOK'
    BY Statuses DEF Restart, WorkersTypeOK, WorkerTodo
  <1>4. ClientsTypeOK'
    BY DEF Restart, ClientsTypeOK, ClientPc
  <1>5. /\ intent' \subseteq Reports
        /\ dbUp' \in BOOLEAN /\ restarts' \in Nat /\ outages' \in Nat
    BY <1>1 DEF Restart
  <1> QED BY <1>2, <1>3, <1>4, <1>5 DEF TypeOK

LEMMA EnvironmentType ==
    ASSUME TypeOK,
           ClearLogs \/ (\E r \in Reports : ExpireIntent(r)) \/ Outage \/ OutageEnds
    PROVE  TypeOK'
  <1>1. RowsTypeOK /\ intent \subseteq Reports /\ restarts \in Nat /\ outages \in Nat
    BY DEF TypeOK
  <1>2. CASE ClearLogs
    <2>1. RowsTypeOK'
      BY <1>1, <1>2, DropLogsType DEF ClearLogs, RowsTypeOK
    <2> QED BY <1>2, <2>1, RestType DEF ClearLogs, TypeOK
  <1>3. ASSUME NEW r \in Reports, ExpireIntent(r) PROVE TypeOK'
    <2>1. intent' \subseteq Reports
      BY <1>1, <1>3 DEF ExpireIntent
    <2> QED BY <1>3, <2>1, RestType DEF ExpireIntent, TypeOK
  <1>4. CASE Outage
    <2>1. dbUp' \in BOOLEAN
      BY <1>4, Zenon DEF Outage
    <2>2. restarts' \in Nat /\ outages' \in Nat
      BY <1>1, <1>4 DEF Outage
    <2> QED BY <1>4, <2>1, <2>2, RestType DEF Outage, TypeOK
  <1>5. CASE OutageEnds
    <2>1. dbUp' \in BOOLEAN
      BY <1>5, Zenon DEF OutageEnds
    <2>2. restarts' \in Nat /\ outages' \in Nat
      BY <1>1, <1>5 DEF OutageEnds
    <2> QED BY <1>5, <2>1, <2>2, RestType DEF OutageEnds, TypeOK
  <1> QED BY <1>2, <1>3, <1>4, <1>5

LEMMA NextType == TypeOK /\ [Next]_vars => TypeOK'
  <1> SUFFICES ASSUME TypeOK, [Next]_vars PROVE TypeOK'
    OBVIOUS
  <1>1. CASE UNCHANGED vars
    BY <1>1, RestType DEF vars, TypeOK
  <1>2. CASE Next
    BY <1>2, WorkerType, ClientBeginsType, ClientContinuesType, EnvironmentType, RestartType
    DEF Next
  <1> QED BY <1>1, <1>2

\* Every variable keeps its type: the statuses of task_reports and
\* task_execution_logs, the positions of workers and handlers.
THEOREM TypeCorrect == Spec => []TypeOK
  <1> QED BY InitType, NextType, PTL DEF Spec

=============================================================================
