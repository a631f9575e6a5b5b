------------------------ MODULE TaskQueueLedgerProofs ------------------------
(***************************************************************************)
(* The task queue implements ScanLedger, hence never has two live scans of *)
(* a pair. The refinement needs one strengthening of the type invariant:   *)
(* whatever refers to a report, a log or a handler that has read it, refers *)
(* to a row that was once created (Born).                                  *)
(***************************************************************************)
EXTENDS TaskQueueProofs

Scan == [r \in Reports |-> IF report[r] \in Live THEN "live" ELSE report[r]]

Born ==
    /\ \A r \in Reports : log[r] # "none" => report[r] # "unborn"
    /\ \A c \in Clients : \A r \in creps[c] : report[r] # "unborn"
Inv == TypeOK /\ Born

\* What a step does to the ledger.
LedgerStep == [Ledger!Next]_Scan
\* What a step does to Born: no row is uncreated, and logs and handlers
\* only ever come to refer to rows that were created.
Kept    == \A r \in Reports : report'[r] = "unborn" => report[r] = "unborn"
Logged  == \A r \in Reports : log'[r] # "none" => log[r] # "none" \/ report'[r] # "unborn"
Readers == \A c \in Clients : \A r \in creps'[c] : report[r] # "unborn"

-----------------------------------------------------------------------------
(* The writes of task_reports.status, as steps of the ledger.              *)

LEMMA LiveNotUnborn == "unborn" \notin Live /\ "deleted" \notin Live /\ "live" \notin Live
  BY DEF Live, Stages

LEMMA KeepStep ==
    ASSUME UNCHANGED report PROVE LedgerStep /\ Kept
  BY DEF LedgerStep, Scan, Kept

LEMMA SetLiveStep ==
    ASSUME TypeOK, NEW r, NEW s \in Live, SetReport(r, s)
    PROVE  LedgerStep /\ Kept
  <1>1. report \in [Reports -> ReportStatus]
    BY DEF TypeOK, RowsTypeOK
  <1>2. Scan' = Scan
    BY <1>1 DEF Scan, SetReport
  <1> QED BY <1>1, <1>2, LiveNotUnborn DEF LedgerStep, Kept, SetReport

LEMMA CloseStep ==
    ASSUME TypeOK, NEW r \in Reports, NEW v \in {"success", "degraded", "failed", "skipped"},
           report[r] \in Live, report' = [report EXCEPT ![r] = v]
    PROVE  LedgerStep /\ Kept
  <1>1. report \in [Reports -> ReportStatus] /\ v \notin Live /\ v # "unborn"
    BY DEF TypeOK, RowsTypeOK, Live, Stages
  <1>2. Scan[r] = "live"
    BY DEF Scan
  <1>3. Scan' = [Scan EXCEPT ![r] = v]
    BY <1>1 DEF Scan
  <1>4. Ledger!Close(r)
    BY <1>2, <1>3 DEF Ledger!Close, Ledger!Verdicts, Scan
  <1> QED BY <1>1, <1>4 DEF LedgerStep, Kept, Ledger!Next

LEMMA SetVerdictStep ==
    ASSUME TypeOK, NEW r \in Reports, NEW v \in {"success", "degraded", "failed", "skipped"},
           SetReport(r, v)
    PROVE  LedgerStep /\ Kept
  <1>1. CASE dbUp /\ report[r] \in Live
    BY <1>1, CloseStep DEF SetReport
  <1>2. CASE ~(dbUp /\ report[r] \in Live)
    BY <1>2, KeepStep DEF SetReport
  <1> QED BY <1>1, <1>2

LEMMA DropStep ==
    ASSUME TypeOK, NEW S \in SUBSET Reports, \A r \in S : report[r] # "unborn", DropReports(S)
    PROVE  LedgerStep /\ Kept
  <1>1. \A r \in S : Scan[r] # "unborn"
    BY LiveNotUnborn DEF Scan
  <1>2. Scan' = [r \in Reports |-> IF r \in S THEN "deleted" ELSE Scan[r]]
    BY LiveNotUnborn DEF Scan, DropReports
  <1>3. Ledger!Delete(S)
    BY <1>1, <1>2 DEF Ledger!Delete, Scan
  <1> QED BY <1>3 DEF LedgerStep, Kept, Ledger!Next, DropReports

LEMMA CreateStep ==
    ASSUME TypeOK, NEW r \in Reports, report[r] = "unborn", LiveIn(PairOf[r]) = {}, Create(r)
    PROVE  LedgerStep /\ Kept
  <1>1. report \in [Reports -> ReportStatus] /\ "queued" \in Live
    BY DEF TypeOK, RowsTypeOK, Live
  <1>2. Scan[r] = "unborn" /\ \A q \in Reports : PairOf[q] = PairOf[r] => Scan[q] # "live"
    <2>1. \A q \in Reports : PairOf[q] = PairOf[r] => report[q] \notin Live
      BY DEF LiveIn
    <2>2. "live" \notin ReportStatus
      BY DEF ReportStatus, Live, Stages, Terminal
    <2> QED BY <1>1, <2>1, <2>2, LiveNotUnborn DEF Scan
  <1>3. Scan' = [Scan EXCEPT ![r] = "live"]
    BY <1>1 DEF Scan, Create
  <1>4. Ledger!Open(r)
    BY <1>2, <1>3 DEF Ledger!Open, Scan
  <1> QED BY <1>1, <1>4 DEF LedgerStep, Kept, Ledger!Next, Create

LEMMA BornStep ==
    ASSUME Inv, TypeOK', Kept, Logged, Readers
    PROVE  Inv'
  <1>1. \A c \in Clients : creps'[c] \subseteq Reports
    BY DEF TypeOK, ClientsTypeOK
  <1>2. Born'
    BY <1>1 DEF Inv, Born, Kept, Logged, Readers
  <1> QED BY <1>2 DEF Inv

LEMMA SetLogLogged ==
    ASSUME TypeOK, NEW r, NEW id, NEW s, SetLog(r, id, s)
    PROVE  Logged
  BY DEF TypeOK, RowsTypeOK, SetLog, Logged

LEMMA DropLogsLogged == ASSUME NEW S, DropLogs(S) PROVE Logged
  BY DEF DropLogs, Logged

LEMMA SteadyReaders == Inv /\ UNCHANGED creps => Readers
  BY DEF Inv, Born, Readers

LEMMA QuietStep ==  \* a step that writes neither report nor log
    ASSUME UNCHANGED <<report, log>>
    PROVE  LedgerStep /\ Kept /\ Logged
  BY KeepStep DEF Logged

-----------------------------------------------------------------------------
LEMMA WorkerLedger ==
    ASSUME Inv, NEW w \in Workers, WorkerStep(w)
    PROVE  LedgerStep /\ Inv'
  <1>1. TypeOK /\ TypeOK' /\ (wpc[w] # "idle" => wrep[w] \in Reports)
    BY WorkerType DEF Inv, TypeOK, WorkersTypeOK
  <1>2. Readers
    <2>1. UNCHANGED creps
      BY DEF WorkerStep, Claim, Lookup, ResumePrelude, Consume, Load, Register,
             StoreHead, Advance, WriteLog, BundleDone, WriteProgress, StageFails,
             GateSkips, AllChunksFailed, Finish,
             Record, RecordCanceled, CloseCanceled, Steady, clientVars
    <2> QED BY <2>1, SteadyReaders
  <1> SUFFICES LedgerStep /\ Kept /\ Logged
    BY <1>1, <1>2, BornStep
  <1>3. CASE Claim(w)
    <2>1. Logged
      BY <1>1, <1>3 DEF Claim, Oldest, Pending, Logged, TypeOK, RowsTypeOK
    <2> QED BY <1>3, <2>1, KeepStep DEF Claim
  <1>4. CASE ResumePrelude(w)
    <2>1. LedgerStep /\ Kept
      BY <1>1, <1>4, KeepStep, SetVerdictStep DEF ResumePrelude
    <2> QED BY <1>4, <2>1 DEF ResumePrelude, Logged
  <1>5. CASE \/ Lookup(w) \/ Consume(w) \/ Load(w) \/ Register(w) \/ GateSkips(w)
             \/ StoreHead(w) \/ BundleDone(w)
    BY <1>5, QuietStep
    DEF Lookup, Consume, Load, Register, GateSkips, StoreHead, BundleDone
  <1>6. CASE Advance(w)
    <2>1. NextStage[wpc[w]] \in Live
      BY <1>6 DEF Advance, NextStage, Stages, Live
    <2>2. LedgerStep /\ Kept
      BY <1>1, <1>6, <2>1, SetLiveStep DEF Advance
    <2> QED BY <1>6, <2>2 DEF Advance, Logged
  <1>7. CASE WriteProgress(w)
    <2>1. "analyzing" \in Live
      BY DEF Live, Stages
    <2>2. LedgerStep /\ Kept
      BY <1>1, <1>7, <2>1, KeepStep, SetLiveStep DEF WriteProgress
    <2> QED BY <1>7, <2>2 DEF WriteProgress, Logged
  <1>13. CASE WriteLog(w)
    BY <1>1, <1>13, KeepStep, SetLogLogged DEF WriteLog, SetLogOf
  <1>8. CASE StageFails(w) \/ AllChunksFailed(w)
    <2>1. SetReport(wrep[w], "failed") /\ wrep[w] \in Reports /\ UNCHANGED log
      BY <1>1, <1>8 DEF StageFails, AllChunksFailed, Registered, Stages
    <2> QED BY <1>1, <2>1, SetVerdictStep DEF Logged
  <1>9. CASE Finish(w)
    <2>1. LedgerStep /\ Kept
      BY <1>1, <1>9, SetVerdictStep, CloseStep DEF Finish
    <2> QED BY <1>9, <2>1 DEF Finish, Logged
  <1>10. CASE Record(w)
    <2>1. LedgerStep /\ Kept
      BY <1>1, <1>10, KeepStep, SetVerdictStep DEF Record
    <2>2. Logged
      BY <1>1, <1>10, SetLogLogged DEF Record
    <2> QED BY <2>1, <2>2
  <1>11. CASE RecordCanceled(w)
    BY <1>1, <1>11, KeepStep, SetLogLogged DEF RecordCanceled
  <1>12. CASE CloseCanceled(w)
    <2>1. SetReport(wrep[w], "failed") /\ wrep[w] \in Reports /\ UNCHANGED log
      BY <1>1, <1>12 DEF CloseCanceled
    <2> QED BY <1>1, <2>1, SetVerdictStep DEF Logged
  <1> QED
    BY <1>3, <1>4, <1>5, <1>6, <1>7, <1>8, <1>9, <1>10, <1>11, <1>12, <1>13
    DEF WorkerStep

LEMMA GoToReaders ==
    ASSUME Inv, NEW c \in Clients, NEW pc, NEW p, NEW S, NEW ids, GoTo(c, pc, p, S, ids),
           \A r \in S : report[r] # "unborn"
    PROVE  Readers
  BY DEF Inv, Born, Readers, GoTo, TypeOK, ClientsTypeOK

LEMMA LeaveReaders == ASSUME Inv, NEW c \in Clients, Leave(c) PROVE Readers
  BY GoToReaders DEF Leave

LEMMA ClientBeginsLedger ==
    ASSUME Inv, NEW c \in Clients, ClientBegins(c)
    PROVE  LedgerStep /\ Inv'
  <1>1. TypeOK'
    BY ClientBeginsType DEF Inv
  <1>2. UNCHANGED <<report, log>>
    BY DEF ClientBegins, EnqueueCheck, ResumeCheck, DeleteStart, ExecStart, ClearStart, dbVars
  <1>3. Readers
    <2>1. ASSUME NEW p \in Pairs, EnqueueCheck(c, p) PROVE Readers
      BY <2>1, GoToReaders DEF EnqueueCheck, Enqueuing, Inv
    <2>2. ASSUME NEW r \in Reports, ResumeCheck(c, r) \/ DeleteStart(c, r) PROVE Readers
      BY <2>2, GoToReaders DEF ResumeCheck, DeleteStart, Exists, Handling, Inv
    <2>3. ASSUME NEW S \in SUBSET Reports, ExecStart(c, S) PROVE Readers
      BY <2>3, GoToReaders DEF ExecStart, Deleting, Inv, Born
    <2>4. CASE ClearStart(c)
      BY <2>4, GoToReaders DEF ClearStart, Handling, Inv
    <2> QED BY <2>1, <2>2, <2>3, <2>4 DEF ClientBegins
  <1> QED BY <1>1, <1>2, <1>3, QuietStep, BornStep

LEMMA ClientContinuesLedger ==
    ASSUME Inv, NEW c \in Clients, ClientContinues(c)
    PROVE  LedgerStep /\ Inv'
  <1>1. /\ TypeOK /\ TypeOK'
        /\ creps[c] \in SUBSET Reports /\ \A r \in creps[c] : report[r] # "unborn"
    BY ClientContinuesType DEF Inv, Born, TypeOK, ClientsTypeOK
  <1> SUFFICES LedgerStep /\ Kept /\ Logged /\ Readers
    BY <1>1, BornStep
  <1>2. CASE EnqueueCount(c)
    <2>1. Readers
      BY <1>2, LeaveReaders, GoToReaders DEF EnqueueCount, Enqueuing
    <2> QED BY <1>2, <2>1, QuietStep DEF EnqueueCount, dbVars
  <1>3. CASE EnqueueInsert(c)
    <2>1. Readers
      BY <1>3, LeaveReaders DEF EnqueueInsert
    <2>2. CASE UNCHANGED dbVars
      BY <2>1, <2>2, QuietStep DEF dbVars
    <2>3. CASE LiveIn(cpair[c]) = {} /\ \E r \in Reports :
                  PairOf[r] = cpair[c] /\ report[r] = "unborn" /\ Create(r)
      <3>1. PICK r \in Reports : PairOf[r] = cpair[c] /\ report[r] = "unborn" /\ Create(r)
        BY <2>3
      <3>2. LedgerStep /\ Kept
        BY <1>1, <2>3, <3>1, CreateStep
      <3>3. Logged
        BY <1>1, <3>1 DEF Create, Logged, TypeOK, RowsTypeOK
      <3> QED BY <2>1, <3>2, <3>3
    <2> QED BY <1>3, <2>2, <2>3 DEF EnqueueInsert
  <1>4. CASE ResumeCommit(c)
    <2>1. Readers
      BY <1>4, LeaveReaders DEF ResumeCommit
    <2>2. PICK r \in creps[c] :
            (ResumeLog(r) /\ UNCHANGED report) \/ UNCHANGED dbVars
      BY <1>4, Zenon DEF ResumeCommit
    <2>3. CASE UNCHANGED dbVars
      BY <2>1, <2>3, QuietStep DEF dbVars
    <2>4. CASE ResumeLog(r) /\ UNCHANGED report
      <3>1. Logged
        BY <1>1, <2>4 DEF ResumeLog, Logged, TypeOK, RowsTypeOK
      <3> QED BY <2>1, <2>4, <3>1, KeepStep
    <2> QED BY <2>2, <2>3, <2>4
  <1>5. CASE DeleteClean(c)
    <2>1. Readers
      BY <1>1, <1>5, GoToReaders DEF DeleteClean, Handling
    <2> QED BY <1>5, <2>1, QuietStep DEF DeleteClean, dbVars
  <1>6. CASE DeleteCommit(c)
    <2>1. Readers
      BY <1>6, LeaveReaders DEF DeleteCommit
    <2>2. CASE dbUp
      BY <1>1, <1>6, <2>1, <2>2, DropStep, DropLogsLogged DEF DeleteCommit
    <2>3. CASE ~dbUp
      BY <1>6, <2>1, <2>3, QuietStep DEF DeleteCommit, dbVars
    <2> QED BY <2>2, <2>3
  <1>7. CASE ExecDropReports(c)
    <2> DEFINE S == IF dbUp THEN Removable(creps[c]) ELSE {}
    <2>1. Readers
      BY <1>1, <1>7, GoToReaders DEF ExecDropReports, Deleting
    <2>2. S \subseteq creps[c]
      BY DEF Removable
    <2>3. LedgerStep /\ Kept
      BY <1>1, <1>7, <2>2, DropStep DEF ExecDropReports
    <2> QED BY <1>7, <2>1, <2>3 DEF ExecDropReports, Logged
  <1>8. CASE ExecDropLogs(c)
    <2>1. Readers
      BY <1>8, LeaveReaders DEF ExecDropLogs
    <2> QED BY <1>8, <2>1, KeepStep, DropLogsLogged DEF ExecDropLogs
  <1>9. CASE ClearCommit(c)
    <2>1. CASE dbUp
      <3>1. Readers
        BY <1>1, <1>9, <2>1, GoToReaders DEF ClearCommit, Handling
      <3> QED BY <1>1, <1>9, <2>1, <3>1, DropStep, DropLogsLogged DEF ClearCommit
    <2>2. CASE ~dbUp
      <3>1. Readers
        BY <1>9, <2>2, LeaveReaders DEF ClearCommit
      <3> QED BY <1>9, <2>2, <3>1, QuietStep DEF ClearCommit, dbVars
    <2> QED BY <2>1, <2>2
  <1>10. CASE ClearFiles(c)
    <2>1. Readers
      BY <1>10, LeaveReaders DEF ClearFiles
    <2> QED BY <1>10, <2>1, QuietStep DEF ClearFiles, dbVars
  <1> QED
    BY <1>2, <1>3, <1>4, <1>5, <1>6, <1>7, <1>8, <1>9, <1>10 DEF ClientContinues

LEMMA RestartLedger ==
    ASSUME Inv, Restart
    PROVE  LedgerStep /\ Inv'
  <1>1. TypeOK /\ TypeOK' /\ LiveReports \in SUBSET Reports
    BY RestartType DEF Inv, LiveReports
  <1>2. Readers
    BY DEF Restart, Readers
  <1> SUFFICES LedgerStep /\ Kept /\ Logged
    BY <1>1, <1>2, BornStep
  <1>3. CASE Recover
    <2>1. "queued" \in Live
      BY DEF Live
    <2>2. report' = [r \in Reports |-> IF r \in LiveReports THEN "queued" ELSE report[r]]
      BY <1>3 DEF Recover
    <2>3. Scan' = Scan
      BY <2>1, <2>2 DEF Scan, LiveReports
    <2>4. Kept
      BY <2>2 DEF Kept
    <2>5. Logged
      BY <1>3, <2>2 DEF Recover, Logged
    <2> QED BY <2>3, <2>4, <2>5 DEF LedgerStep
  <1>4. CASE Discard
    <2> DEFINE S == {r \in LiveReports : Removable({r}) = {r}}
    <2>1. S \in SUBSET Reports /\ \A r \in S : report[r] # "unborn"
      BY <1>1, LiveNotUnborn DEF LiveReports
    <2>2. LedgerStep /\ Kept
      BY <1>1, <1>4, <2>1, DropStep DEF Discard
    <2> QED BY <1>4, <2>2, DropLogsLogged DEF Discard
  <1>5. CASE UNCHANGED <<dbVars, ckpt>>
    BY <1>5, QuietStep DEF dbVars
  <1> QED BY <1>3, <1>4, <1>5 DEF Restart

LEMMA NextLedger == Inv /\ [Next]_vars => LedgerStep /\ Inv'
  <1> SUFFICES ASSUME Inv, [Next]_vars PROVE LedgerStep /\ Inv'
    OBVIOUS
  <1>1. TypeOK /\ TypeOK'
    BY NextType DEF Inv
  <1>2. CASE UNCHANGED <<report, log, creps>>
    BY <1>1, <1>2, QuietStep, SteadyReaders, BornStep
  <1>3. CASE ClearLogs
    <2>1. UNCHANGED <<report, creps>> /\ Logged
      BY <1>3, DropLogsLogged DEF ClearLogs, clientVars
    <2> QED BY <1>1, <2>1, KeepStep, SteadyReaders, BornStep
  <1>4. CASE UNCHANGED vars \/ Outage \/ OutageEnds \/ \E r \in Reports : ExpireIntent(r)
    BY <1>2, <1>4 DEF vars, dbVars, clientVars, Outage, OutageEnds, ExpireIntent
  <1> QED
    BY <1>3, <1>4, WorkerLedger, ClientBeginsLedger, ClientContinuesLedger, RestartLedger
    DEF Next

LEMMA InitLedger == Init => Inv /\ Ledger!Init
  <1> SUFFICES ASSUME Init PROVE Born /\ Ledger!Init
    BY InitType DEF Inv
  <1>1. Born
    BY DEF Init, Born
  <1>2. Ledger!Init
    BY LiveNotUnborn DEF Init, Ledger!Init
  <1> QED BY <1>1, <1>2

-----------------------------------------------------------------------------
\* The rows of task_reports implement ScanLedger: whatever workers, handlers,
\* failing statements and restarts do, a scan opens once and only while its
\* pair has no live scan, closes with one final verdict, and its deletion is
\* final (UpdateActiveTaskReport and uq_task_reports_active_repo_type).
THEOREM ImplementsLedger == Spec => LedgerSpec
  <1>1. Inv /\ [Next]_vars => Inv' /\ [Ledger!Next]_Scan
    BY NextLedger DEF LedgerStep
  <1> QED BY <1>1, InitLedger, PTL DEF Spec, LedgerSpec, Ledger!Spec, Scan

\* A step of the ledger keeps at most one live scan per pair.
LEMMA LedgerKeepsOneLive ==
    ASSUME TypeOK, TypeOK', OneLiveReport, LedgerStep
    PROVE  OneLiveReport'
  <1> DEFINE Alive(r) == Scan[r] = "live"
  <1>1. \A r \in Reports : Alive(r) <=> report[r] \in Live
    BY DEF Scan, TypeOK, RowsTypeOK, ReportStatus, Live, Stages, Terminal
  <1>2. \A r \in Reports : Alive(r)' <=> report'[r] \in Live
    BY DEF Scan, TypeOK, RowsTypeOK, ReportStatus, Live, Stages, Terminal
  <1>3. SUFFICES ASSUME NEW q \in Reports, NEW r \in Reports,
                        q # r, PairOf[q] = PairOf[r], Alive(q)', Alive(r)'
                 PROVE  FALSE
    BY <1>2 DEF OneLiveReport
  <1>4. ~(Alive(q) /\ Alive(r))
    BY <1>1, <1>3 DEF OneLiveReport
  <1>5. CASE UNCHANGED Scan
    BY <1>3, <1>4, <1>5
  <1>6. ASSUME NEW x \in Reports, Ledger!Open(x) PROVE FALSE
    BY <1>3, <1>4, <1>6 DEF Ledger!Open, Scan
  <1>7. ASSUME NEW x \in Reports, Ledger!Close(x) PROVE FALSE
    BY <1>3, <1>4, <1>7 DEF Ledger!Close, Ledger!Verdicts, Scan
  <1>8. ASSUME NEW S \in SUBSET Reports, Ledger!Delete(S) PROVE FALSE
    BY <1>3, <1>4, <1>8 DEF Ledger!Delete, Scan
  <1> QED BY <1>5, <1>6, <1>7, <1>8 DEF LedgerStep, Ledger!Next

\* At most one scan of a repository with a task type is live, however many
\* requests pass the counts of EnqueueTaskWithTriggerLog together.
THEOREM OneLive == Spec => []OneLiveReport
  <1>1. Init => OneLiveReport
    BY LiveNotUnborn DEF Init, OneLiveReport
  <1>2. Inv /\ OneLiveReport /\ [Next]_vars => Inv' /\ OneLiveReport'
    BY NextLedger, LedgerKeepsOneLive DEF Inv
  <1> QED BY <1>1, <1>2, InitLedger, PTL DEF Spec

=============================================================================
