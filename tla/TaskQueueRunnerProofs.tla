------------------------ MODULE TaskQueueRunnerProofs ------------------------
(***************************************************************************)
(* Who holds a scan: one worker at a time, from the claim of its log until *)
(* the outcome is recorded, and nobody else writes that log. This is what  *)
(* the other invariants of TaskQueue rest on. It needs a database that     *)
(* answers and no foreign key between logs and reports, since with either  *)
(* DeletePendingExecution can delete a log and leave the report (README).  *)
(***************************************************************************)
EXTENDS TaskQueueLedgerProofs

Reliable  == ~ForeignKey /\ outages = 0
Answering == outages = 0 => dbUp

\* A worker holds its log until it has recorded the outcome there.
Busy     == WorkerPc \ {"idle", "cancel_report"}
Taken(r) == log[r] \in {"running"} \cup Stages

\* Logs have ids of their own, and a worker has the id of a log.
Numbered ==
    /\ \A r \in Reports : log[r] = "none" => logId[r] = 0
    /\ \A r \in Reports : log[r] # "none" => logId[r] \in 1 .. nextLog - 1
    /\ \A q, r \in Reports :
          q # r /\ log[q] # "none" /\ log[r] # "none" => logId[q] # logId[r]
\* A handler that deletes pending executions deletes no log of another
\* report, and the reports before the logs.
Aims(c) ==
    /\ \A id \in clogs[c] : id < nextLog
    /\ \A r \in Reports : log[r] # "none" /\ logId[r] \in clogs[c] => r \in creps[c]
Dropping ==
    /\ \A c \in Clients : cpc[c] \in {"exec_report", "exec_log"} => Aims(c)
    /\ \A c \in Clients : cpc[c] = "exec_log" =>
          \A r \in creps[c] : report[r] = "deleted"
\* The log of a busy worker is taken, by this worker, or was deleted together
\* with its report.
Holds(w) == /\ wlog[w] > 0
            /\ \/ Taken(wrep[w]) /\ logId[wrep[w]] = wlog[w]
               \/ log[wrep[w]] = "none" /\ report[wrep[w]] = "deleted"
Holding == \A w \in Workers : wpc[w] \in Busy => Holds(w)
Alone == \A v, w \in Workers :
    v # w /\ wpc[v] \in Busy /\ wpc[w] \in Busy => wrep[v] # wrep[w]

Owned == Numbered /\ Dropping /\ Holding /\ Alone

-----------------------------------------------------------------------------
(* The writes of a worker.                                                 *)

LEMMA LogNames ==
    /\ Stages \cap ({"none", "pending", "running"} \cup Terminal) = {}
    /\ Terminal \cap {"none", "pending", "running"} = {}
    /\ Stages \subseteq Live /\ "queued" \in Live
    /\ Live \cap (Terminal \cup {"unborn", "deleted"}) = {}
    /\ {"success", "failed", "skipped", "degraded"} = Terminal
    /\ Busy = {"claimed", "resume", "consume"} \cup Running \cup Returned
    /\ "idle" \notin Busy /\ "cancel_report" \notin Busy
  BY DEF Stages, Terminal, Live, Busy, WorkerPc, Running, Registered, Returned

LEMMA SetLogEffect ==
    ASSUME TypeOK, NEW r \in Reports, NEW id, NEW s, s # "none", SetLog(r, id, s)
    PROVE  /\ \A q \in Reports : q # r => log'[q] = log[q]
           /\ \A q \in Reports : log'[q] = "none" <=> log[q] = "none"
           /\ log'[r] \in {log[r], s}
           /\ dbUp /\ log[r] # "none" /\ logId[r] = id => log'[r] = s
  <1>1. log \in [Reports -> LogStatus]
    BY DEF TypeOK, RowsTypeOK
  <1>2. CASE dbUp /\ log[r] # "none" /\ logId[r] = id
    BY <1>1, <1>2 DEF SetLog
  <1>3. CASE ~(dbUp /\ log[r] # "none" /\ logId[r] = id)
    BY <1>3 DEF SetLog
  <1> QED BY <1>2, <1>3

LEMMA SetReportEffect ==
    ASSUME TypeOK, NEW r \in Reports, NEW s, SetReport(r, s)
    PROVE  /\ \A q \in Reports : q # r => report'[q] = report[q]
           /\ \A q \in Reports : report'[q] \in Live => report[q] \in Live
           /\ dbUp /\ report[r] \in Live => report'[r] = s
           /\ report[r] \notin Live => report'[r] = report[r]
           /\ report'[r] \in {report[r], s}
  <1>1. report \in [Reports -> ReportStatus]
    BY DEF TypeOK, RowsTypeOK
  <1>2. CASE dbUp /\ report[r] \in Live
    BY <1>1, <1>2 DEF SetReport
  <1>3. CASE ~(dbUp /\ report[r] \in Live)
    BY <1>3 DEF SetReport
  <1> QED BY <1>2, <1>3

\* What a worker leaves alone.
Frame(w) ==
    /\ UNCHANGED <<logId, nextLog, cpc, creps, clogs, outages, restarts, dbUp>>
    /\ \A v \in Workers : v # w =>
          /\ wpc'[v] = wpc[v] /\ wrep'[v] = wrep[v] /\ wlog'[v] = wlog[v]
          /\ wtodo'[v] = wtodo[v]
    /\ \A q \in Reports : q # wrep[w] => report'[q] = report[q] /\ log'[q] = log[q]
    /\ \A q \in Reports : log'[q] = "none" <=> log[q] = "none"
    /\ \A q \in Reports : report'[q] \in Live => report[q] \in Live
\* What it does: it goes on with its scan, it records the outcome in the log
\* (and then closes a canceled report).
Works(w)  == /\ wpc[w] \in Busy /\ wpc'[w] \in Busy
             /\ wrep'[w] = wrep[w] /\ wlog'[w] = wlog[w]
             /\ log'[wrep[w]] \in {log[wrep[w]]} \cup Stages
Leaves(w) == /\ wpc[w] \in Busy /\ wpc'[w] \notin Busy
             /\ \E s \in Terminal : SetLog(wrep[w], wlog[w], s)
Closes(w) == wpc[w] = "cancel_report" /\ wpc'[w] = "idle" /\ log' = log

LEMMA StepFrame ==
    ASSUME TypeOK, NEW w \in Workers, NEW pc, Step(w, pc)
    PROVE  /\ wpc'[w] = pc /\ wrep'[w] = wrep[w] /\ wlog'[w] = wlog[w]
           /\ wtodo'[w] = wtodo[w]
           /\ \A v \in Workers : v # w =>
                 /\ wpc'[v] = wpc[v] /\ wrep'[v] = wrep[v] /\ wlog'[v] = wlog[v]
                 /\ wtodo'[v] = wtodo[v]
  BY DEF Step, TypeOK, WorkersTypeOK

LEMMA MidwayFrame ==
    ASSUME TypeOK, NEW w \in Workers, NEW pc, NEW todo, Midway(w, pc, todo)
    PROVE  /\ wpc'[w] = pc /\ wrep'[w] = wrep[w] /\ wlog'[w] = wlog[w]
           /\ wtodo'[w] = todo
           /\ \A v \in Workers : v # w =>
                 /\ wpc'[v] = wpc[v] /\ wrep'[v] = wrep[v] /\ wlog'[v] = wlog[v]
                 /\ wtodo'[v] = wtodo[v]
  BY DEF Midway, TypeOK, WorkersTypeOK

LEMMA ReleaseFrame ==
    ASSUME TypeOK, NEW w \in Workers, Release(w)
    PROVE  /\ wpc'[w] = "idle"
           /\ \A v \in Workers : v # w =>
                 /\ wpc'[v] = wpc[v] /\ wrep'[v] = wrep[v] /\ wlog'[v] = wlog[v]
                 /\ wtodo'[v] = wtodo[v]
  BY DEF Release, TypeOK, WorkersTypeOK

LEMMA WorkerEffect ==
    ASSUME TypeOK, NEW w \in Workers, WorkerStep(w), ~Claim(w)
    PROVE  wpc[w] # "idle" /\ Frame(w) /\ (Works(w) \/ Leaves(w) \/ Closes(w))
  <1>1. wpc[w] # "idle" /\ wrep[w] \in Reports
    <2>1. wpc[w] # "idle"
      BY DEF WorkerStep, Lookup, ResumePrelude, Consume, Load, Register,
           StoreHead, Advance, WriteLog, BundleDone, WriteProgress, StageFails,
           GateSkips, AllChunksFailed, Finish, Record,
             RecordCanceled, CloseCanceled, NextStage, Registered, Stages
    <2> QED BY <2>1 DEF TypeOK, WorkersTypeOK
  <1>2. UNCHANGED <<logId, nextLog, cpc, creps, clogs, outages, restarts, dbUp>>
    BY DEF WorkerStep, Lookup, ResumePrelude, Consume, Load, Register,
           StoreHead, Advance, WriteLog, BundleDone, WriteProgress, StageFails,
           GateSkips, AllChunksFailed, Finish, Record,
           RecordCanceled, CloseCanceled, Steady, clientVars, faultVars
  <1>3. ASSUME UNCHANGED <<report, log>>, wpc[w] \in Busy,
               NEW pc \in Busy, Step(w, pc)
        PROVE  Frame(w) /\ Works(w)
    BY <1>2, <1>3, StepFrame DEF Frame, Works
  <1>4. ASSUME NEW s, SetReport(wrep[w], s), UNCHANGED log, wpc[w] \in Busy,
               NEW pc \in Busy, Step(w, pc)
        PROVE  Frame(w) /\ Works(w)
    BY <1>1, <1>2, <1>4, StepFrame, SetReportEffect DEF Frame, Works
  <1>5. CASE Lookup(w)
    BY <1>3, <1>5, LogNames DEF Lookup, Returned
  <1>6. CASE ResumePrelude(w)
    BY <1>3, <1>4, <1>6, LogNames DEF ResumePrelude, Returned
  <1>7. CASE Consume(w)
    BY <1>3, <1>7, LogNames DEF Consume, Returned, Running
  <1>8. CASE Load(w)
    BY <1>3, <1>8, LogNames DEF Load, Returned, Running
  <1>9. CASE Register(w)
    BY <1>3, <1>9, LogNames DEF Register, Running, Registered
  <1>10. CASE Advance(w)
    <2> DEFINE s == NextStage[wpc[w]]
    <2>1. s \in Busy /\ wpc[w] \in Busy
      BY <1>10 DEF Advance, NextStage, Stages, Busy, WorkerPc, Running, Registered
    <2>2. SetReport(wrep[w], s) /\ UNCHANGED log /\ Midway(w, s, "log")
      BY <1>10 DEF Advance
    <2> HIDE DEF s
    <2> QED BY <1>1, <1>2, <2>1, <2>2, MidwayFrame, SetReportEffect DEF Frame, Works
  <1>19. ASSUME wpc[w] \in Stages PROVE wpc[w] \in Busy
    BY <1>19, LogNames DEF Running, Registered
  <1>20. ASSUME UNCHANGED <<report, log>>, wpc[w] \in Stages, NEW todo, Midway(w, wpc[w], todo)
         PROVE  Frame(w) /\ Works(w)
    BY <1>2, <1>19, <1>20, MidwayFrame DEF Frame, Works
  <1>11. CASE StoreHead(w) \/ BundleDone(w)
    <2>1. UNCHANGED <<report, log>> /\ wpc[w] \in Stages
      BY <1>11 DEF StoreHead, BundleDone, Stages
    <2>2. PICK todo : Midway(w, wpc[w], todo)
      BY <1>11 DEF StoreHead, BundleDone
    <2> QED BY <1>1, <1>20, <2>1, <2>2
  <1>21. CASE WriteProgress(w)
    <2>1. wpc[w] \in Stages /\ UNCHANGED log
      BY <1>21 DEF WriteProgress, Stages
    <2>2. PICK todo : Midway(w, wpc[w], todo)
      BY <1>21 DEF WriteProgress
    <2>3. CASE UNCHANGED report
      BY <1>1, <1>20, <2>1, <2>2, <2>3
    <2>4. CASE SetReport(wrep[w], "analyzing")
      BY <1>1, <1>2, <1>19, <2>1, <2>2, <2>4, MidwayFrame, SetReportEffect DEF Frame, Works
    <2> QED BY <1>21, <2>3, <2>4 DEF WriteProgress
  <1>22. CASE WriteLog(w)
    <2>1. /\ wpc[w] \in Stages /\ UNCHANGED report /\ Midway(w, wpc[w], "none")
          /\ SetLog(wrep[w], logId[wrep[w]], wpc[w])
      BY <1>22 DEF WriteLog, SetLogOf
    <2>2. wpc[w] # "none"
      BY <2>1, LogNames
    <2> QED BY <1>1, <1>2, <1>19, <2>1, <2>2, MidwayFrame, SetLogEffect DEF Frame, Works
  <1>12. CASE StageFails(w)
    BY <1>4, <1>12, LogNames DEF StageFails, Registered, Running, Returned
  <1>13. CASE GateSkips(w)
    BY <1>3, <1>13, LogNames DEF GateSkips, Registered, Running, Returned, Stages
  <1>14. CASE AllChunksFailed(w)
    BY <1>4, <1>14, LogNames DEF AllChunksFailed, Registered, Running, Returned, Stages
  <1>15. CASE Finish(w)
    <2>1. wpc[w] \in Busy /\ "done" \in Busy /\ "erred" \in Busy /\ UNCHANGED log
      BY <1>15 DEF Finish, Busy, WorkerPc, Running, Registered, Stages, Returned
    <2>4. Step(w, "done") \/ Step(w, "erred")
      <3>1. CASE dbUp /\ report[wrep[w]] \in Live
        BY <1>15, <3>1 DEF Finish
      <3>2. CASE ~(dbUp /\ report[wrep[w]] \in Live)
        BY <1>15, <3>2 DEF Finish
      <3> QED BY <3>1, <3>2
    <2>5. CASE \E v \in {"success", "degraded", "failed"} : SetReport(wrep[w], v)
      <3>1. PICK v : SetReport(wrep[w], v)
        BY <2>5
      <3>2. Step(w, "done") \/ Step(w, "erred")
        BY <2>4
      <3> QED BY <1>1, <1>4, <2>1, <3>1, <3>2
    <2>3. CASE report[wrep[w]] \in Live /\ report' = [report EXCEPT ![wrep[w]] = "degraded"]
      <3>1. Step(w, "done") \/ Step(w, "erred")
        BY <2>4
      <3>2. /\ \A q \in Reports : q # wrep[w] => report'[q] = report[q]
            /\ \A q \in Reports : report'[q] \in Live => report[q] \in Live
        BY <1>1, <2>3 DEF TypeOK, RowsTypeOK
      <3> QED BY <1>1, <1>2, <2>1, <3>1, <3>2, StepFrame DEF Frame, Works
    <2> QED BY <1>15, <2>5, <2>3 DEF Finish
  <1>16. CASE Record(w)
    <2>1. wpc[w] \in Busy
      BY <1>16 DEF Record, Busy, WorkerPc, Returned
    <2>2. PICK s \in Terminal : SetLog(wrep[w], wlog[w], s)
      BY <1>16, LogNames DEF Record
    <2>3. UNCHANGED report \/ SetReport(wrep[w], "skipped")
      BY <1>16 DEF Record
    <2>4. s # "none"
      BY <2>2, LogNames
    <2>5. Release(w)
      BY <1>16 DEF Record
    <2>6. /\ \A q \in Reports : q # wrep[w] => report'[q] = report[q]
          /\ \A q \in Reports : report'[q] \in Live => report[q] \in Live
      BY <1>1, <2>3, SetReportEffect
    <2> QED BY <1>1, <1>2, <2>1, <2>2, <2>4, <2>5, <2>6, ReleaseFrame,
               SetLogEffect, LogNames DEF Frame, Leaves
  <1>17. CASE RecordCanceled(w)
    <2>1. /\ wpc[w] \in Busy /\ "failed" \in Terminal /\ UNCHANGED report
          /\ SetLog(wrep[w], wlog[w], "failed") /\ Step(w, "cancel_report")
      BY <1>17 DEF RecordCanceled, Busy, WorkerPc, Returned, Terminal
    <2> QED BY <1>1, <1>2, <2>1, StepFrame, SetLogEffect, LogNames DEF Frame, Leaves
  <1>18. CASE CloseCanceled(w)
    <2>1. /\ wpc[w] = "cancel_report" /\ UNCHANGED log
          /\ SetReport(wrep[w], "failed") /\ Release(w)
      BY <1>18 DEF CloseCanceled
    <2> QED BY <1>1, <1>2, <2>1, ReleaseFrame, SetReportEffect DEF Frame, Closes
  <1> QED
    BY <1>1, <1>5, <1>6, <1>7, <1>8, <1>9, <1>10, <1>11, <1>12, <1>13, <1>14,
       <1>15, <1>16, <1>17, <1>18, <1>21, <1>22 DEF WorkerStep

-----------------------------------------------------------------------------
(* What a step may do to the logs and reports without harm to the holders. *)

Lasting == \A r \in Reports : report[r] = "deleted" => report'[r] = "deleted"
\* A log is the one it was, or it is new.
Lineage == /\ nextLog' >= nextLog
           /\ \A r \in Reports : log'[r] # "none" =>
                 \/ log[r] # "none" /\ logId'[r] = logId[r]
                 \/ logId'[r] >= nextLog
\* A log that somebody holds is left alone, or goes with its report.
Respects == \A r \in Reports :
    \/ log'[r] = log[r] /\ logId'[r] = logId[r]
    \/ ~Taken(r) /\ ~(log[r] = "none" /\ report[r] = "deleted")
    \/ log'[r] = "none" /\ report'[r] = "deleted"
Untouched(c) == cpc'[c] = cpc[c] /\ creps'[c] = creps[c] /\ clogs'[c] = clogs[c]
Elsewhere(c) == cpc'[c] \notin {"exec_report", "exec_log"}

LEMMA DeletedStays ==
    ASSUME Inv, [Next]_vars
    PROVE  Lasting
  <1>1. LedgerStep /\ TypeOK /\ TypeOK'
    BY NextLedger DEF Inv
  <1>2. \A r \in Reports : report[r] = "deleted" => Scan[r] = "deleted"
    BY LiveNotUnborn DEF Scan
  <1>3. \A r \in Reports : Scan'[r] = "deleted" => report'[r] = "deleted"
    BY LiveNotUnborn DEF Scan
  <1>4. \A r \in Reports : Scan[r] = "deleted" => Scan'[r] = "deleted"
    <2>1. CASE UNCHANGED Scan
      BY <2>1
    <2>2. ASSUME NEW x \in Reports, Ledger!Open(x)
          PROVE  \A r \in Reports : Scan[r] = "deleted" => Scan'[r] = "deleted"
      BY <2>2 DEF Ledger!Open, Scan
    <2>3. ASSUME NEW x \in Reports, Ledger!Close(x)
          PROVE  \A r \in Reports : Scan[r] = "deleted" => Scan'[r] = "deleted"
      BY <2>3 DEF Ledger!Close, Ledger!Verdicts, Scan
    <2>4. ASSUME NEW S \in SUBSET Reports, Ledger!Delete(S)
          PROVE  \A r \in Reports : Scan[r] = "deleted" => Scan'[r] = "deleted"
      BY <2>4 DEF Ledger!Delete, Scan
    <2> QED BY <1>1, <2>1, <2>2, <2>3, <2>4 DEF LedgerStep, Ledger!Next
  <1> QED BY <1>2, <1>3, <1>4 DEF Lasting

LEMMA NumberedSame ==
    ASSUME Numbered, UNCHANGED <<logId, nextLog>>,
           \A r \in Reports : log'[r] = "none" <=> log[r] = "none"
    PROVE  Numbered' /\ (TypeOK => Lineage)
  BY DEF Numbered, Lineage, TypeOK, RowsTypeOK

LEMMA NumberedDrop ==
    ASSUME TypeOK, Numbered, NEW S, DropLogs(S)
    PROVE  Numbered' /\ Lineage
  <1>1. nextLog \in Nat /\ nextLog' = nextLog
    BY DEF TypeOK, RowsTypeOK, DropLogs
  <1>2. \A r \in Reports : \/ r \in S /\ log'[r] = "none" /\ logId'[r] = 0
                           \/ r \notin S /\ log'[r] = log[r] /\ logId'[r] = logId[r]
    BY DEF DropLogs
  <1> QED BY <1>1, <1>2 DEF Numbered, Lineage

LEMMA NumberedNew ==
    ASSUME TypeOK, Numbered, NEW r \in Reports, log[r] = "none",
           log' = [log EXCEPT ![r] = "pending"],
           logId' = [logId EXCEPT ![r] = nextLog], nextLog' = nextLog + 1
    PROVE  Numbered' /\ Lineage
  <1>1. /\ nextLog \in Nat \ {0} /\ logId \in [Reports -> Nat]
        /\ log \in [Reports -> LogStatus]
    BY DEF TypeOK, RowsTypeOK
  <1>2. /\ log'[r] = "pending" /\ logId'[r] = nextLog
        /\ \A q \in Reports : q # r => log'[q] = log[q] /\ logId'[q] = logId[q]
    BY <1>1
  <1> QED BY <1>1, <1>2 DEF Numbered, Lineage

LEMMA DroppingKept ==
    ASSUME TypeOK, TypeOK', Dropping, Lineage, Lasting,
           \A c \in Clients : Untouched(c) \/ Elsewhere(c)
    PROVE  Dropping'
  <1>1. /\ nextLog \in Nat /\ \A c \in Clients : clogs[c] \subseteq Nat
        /\ \A c \in Clients : creps[c] \subseteq Reports
        /\ nextLog' >= nextLog
    BY DEF TypeOK, RowsTypeOK, ClientsTypeOK, Lineage
  <1>2. ASSUME NEW c \in Clients, cpc'[c] \in {"exec_report", "exec_log"}
        PROVE  Aims(c)'
    <2>1. Untouched(c) /\ Aims(c)
      BY <1>2 DEF Elsewhere, Untouched, Dropping
    <2>2. \A id \in clogs[c] : id < nextLog /\ id \in Nat
      BY <1>1, <2>1 DEF Aims
    <2>3. nextLog' \in Nat
      BY DEF TypeOK, RowsTypeOK
    <2>4. \A r \in Reports : log'[r] # "none" /\ logId'[r] \in clogs[c] => r \in creps[c]
      BY <1>1, <2>1, <2>2 DEF Aims, Lineage
    <2> QED BY <1>1, <2>1, <2>2, <2>3, <2>4 DEF Aims, Untouched
  <1>3. ASSUME NEW c \in Clients, cpc'[c] = "exec_log", NEW r \in creps'[c]
        PROVE  report'[r] = "deleted"
    BY <1>1, <1>3 DEF Elsewhere, Untouched, Dropping, Lasting
  <1> QED BY <1>2, <1>3 DEF Dropping

LEMMA HoldingKept ==
    ASSUME TypeOK, Holding, Alone, Lasting, Respects, UNCHANGED <<wpc, wrep, wlog>>
    PROVE  Holding' /\ Alone'
  <1>1. ASSUME NEW w \in Workers, wpc[w] \in Busy
        PROVE  Holds(w)'
    <2>1. Holds(w) /\ wrep[w] \in Reports
      BY <1>1, LogNames DEF Holding, TypeOK, WorkersTypeOK
    <2> QED BY <2>1 DEF Holds, Respects, Lasting, Taken
  <1> QED BY <1>1 DEF Holding, Alone
-----------------------------------------------------------------------------
(* One lemma per kind of step.                                             *)

\* What is known before a step, and what it may rely on.
Before == /\ Inv /\ Owned /\ Reliable /\ dbUp
          /\ TypeOK /\ TypeOK' /\ Lasting

LEMMA ClaimOwned ==
    ASSUME Before, NEW w \in Workers, Claim(w)
    PROVE  Owned'
  <1>1. PICK r \in Reports :
          /\ log[r] = "pending" /\ log' = [log EXCEPT ![r] = "running"]
          /\ wrep' = [wrep EXCEPT ![w] = r] /\ wlog' = [wlog EXCEPT ![w] = logId[r]]
    BY DEF Claim, Oldest, Pending
  <1>2. /\ wpc[w] = "idle" /\ wpc' = [wpc EXCEPT ![w] = "claimed"]
        /\ UNCHANGED <<report, logId, nextLog, cpc, creps, clogs>>
    BY DEF Claim, Steady, clientVars
  <1>3. /\ log \in [Reports -> LogStatus] /\ logId \in [Reports -> Nat]
        /\ wpc \in [Workers -> WorkerPc]
        /\ wrep \in [Workers -> Reports \cup {None}] /\ wlog \in [Workers -> Nat]
        /\ \A v \in Workers : wpc[v] \in Busy => wrep[v] \in Reports
    BY LogNames DEF Before, TypeOK, RowsTypeOK, WorkersTypeOK
  <1>4. \A q \in Reports : log'[q] = "none" <=> log[q] = "none"
    BY <1>1, <1>3
  <1>5. Numbered' /\ Lineage
    BY <1>2, <1>4, NumberedSame DEF Before, Owned
  <1>6. Dropping'
    BY <1>2, <1>5, DroppingKept DEF Before, Owned, Untouched
  <1>7. \A v \in Workers : wpc[v] \in Busy => wrep[v] # r
    <2> SUFFICES ASSUME NEW v \in Workers, wpc[v] \in Busy, wrep[v] = r PROVE FALSE
      OBVIOUS
    <2>1. Holds(v)
      BY DEF Before, Owned, Holding
    <2> QED BY <1>1, <2>1, LogNames DEF Holds, Taken
  <1>8. Holds(w)'
    <2>1. logId[r] > 0 /\ logId[r] \in Nat
      <3>1. nextLog \in Nat /\ logId[r] \in 1 .. nextLog - 1
        BY <1>1 DEF Before, Owned, Numbered, TypeOK, RowsTypeOK
      <3> QED BY <3>1
    <2>2. wrep'[w] = r /\ wlog'[w] = logId[r] /\ log'[r] = "running"
      BY <1>1, <1>3
    <2> QED BY <1>2, <2>1, <2>2 DEF Holds, Taken
  <1>9. \A v \in Workers : v # w =>
          wpc'[v] = wpc[v] /\ wrep'[v] = wrep[v] /\ wlog'[v] = wlog[v]
    BY <1>1, <1>2, <1>3
  <1>10. Holding'
    <2>1. ASSUME NEW v \in Workers, v # w, wpc'[v] \in Busy PROVE Holds(v)'
      <3>1. Holds(v) /\ wrep[v] # r /\ wrep[v] \in Reports
        BY <1>3, <1>7, <1>9, <2>1 DEF Before, Owned, Holding
      <3>2. log'[wrep[v]] = log[wrep[v]]
        BY <1>1, <1>3, <3>1
      <3> QED BY <1>2, <1>9, <2>1, <3>1, <3>2 DEF Holds, Taken
    <2> QED BY <1>8, <2>1 DEF Holding
  <1>11. Alone'
    <2>1. wrep'[w] = r
      BY <1>1, <1>3
    <2>2. \A v \in Workers : v # w /\ wpc'[v] \in Busy => wrep'[v] # r
      BY <1>7, <1>9
    <2> QED BY <1>9, <2>1, <2>2 DEF Alone, Before, Owned
  <1> QED BY <1>5, <1>6, <1>10, <1>11 DEF Owned

LEMMA WorkerOwned ==
    ASSUME Before, NEW w \in Workers, WorkerStep(w)
    PROVE  Owned'
  <1>1. CASE Claim(w)
    BY <1>1, ClaimOwned
  <1>2. CASE ~Claim(w)
    <2>1. wpc[w] # "idle" /\ Frame(w) /\ (Works(w) \/ Leaves(w) \/ Closes(w))
      BY <1>2, WorkerEffect DEF Before
    <2>2. /\ wrep[w] \in Reports
          /\ \A v \in Workers : wpc[v] \in Busy => wrep[v] \in Reports
      BY <2>1, LogNames DEF Before, TypeOK, WorkersTypeOK
    <2>3. Numbered' /\ Lineage
      BY <2>1, NumberedSame DEF Before, Owned, Frame
    <2>4. Dropping'
      BY <2>1, <2>3, DroppingKept DEF Before, Owned, Untouched, Frame
    <2>5. Alone'
      BY <2>1, LogNames DEF Alone, Before, Owned, Frame, Works, Leaves, Closes
    <2>6. ASSUME NEW v \in Workers, v # w, wpc'[v] \in Busy PROVE Holds(v)'
      <3>1. Holds(v) /\ wpc[v] \in Busy /\ wrep[v] \in Reports
        BY <2>1, <2>2, <2>6 DEF Before, Owned, Holding, Frame
      <3>2. log'[wrep[v]] = log[wrep[v]]
        <4>1. CASE wpc[w] \in Busy
          BY <2>1, <2>6, <3>1, <4>1 DEF Before, Owned, Alone, Frame
        <4>2. CASE wpc[w] \notin Busy
          BY <2>1, <4>2 DEF Works, Leaves, Closes
        <4> QED BY <4>1, <4>2
      <3> QED BY <2>1, <2>6, <3>1, <3>2 DEF Holds, Taken, Frame, Before, Lasting
    <2>7. ASSUME wpc'[w] \in Busy PROVE Holds(w)'
      <3>1. Works(w) /\ Holds(w)
        BY <2>1, <2>7, LogNames DEF Leaves, Closes, Works, Before, Owned, Holding
      <3>2. /\ Taken(wrep[w]) => Taken(wrep[w])'
            /\ log[wrep[w]] = "none" => log'[wrep[w]] = "none"
        BY <2>1, <2>2, <3>1, LogNames DEF Works, Taken, Frame
      <3> QED BY <2>1, <2>2, <3>1, <3>2 DEF Holds, Works, Frame, Before, Lasting, Taken
    <2>8. Holding'
      BY <2>6, <2>7 DEF Holding
    <2> QED BY <2>3, <2>4, <2>5, <2>8 DEF Owned
  <1> QED BY <1>1, <1>2
\* A handler has no log dropped that it did not aim at.
LEMMA GoToFrame ==
    ASSUME TypeOK, NEW c \in Clients, NEW pc, NEW p, NEW S, NEW ids,
           GoTo(c, pc, p, S, ids)
    PROVE  /\ cpc'[c] = pc /\ creps'[c] = S /\ clogs'[c] = ids
           /\ \A d \in Clients : d # c => Untouched(d)
  BY DEF GoTo, Untouched, TypeOK, ClientsTypeOK

LEMMA GoesElsewhere ==
    ASSUME TypeOK, NEW c \in Clients, NEW pc, NEW p, NEW S, NEW ids,
           GoTo(c, pc, p, S, ids), pc \notin {"exec_report", "exec_log"}
    PROVE  \A d \in Clients : Untouched(d) \/ Elsewhere(d)
  BY GoToFrame DEF Elsewhere

LEMMA RowsStayOwned ==  \* a step that writes neither logs nor the workers' tasks
    ASSUME Before, UNCHANGED <<log, logId, nextLog, wpc, wrep, wlog>>,
           \A d \in Clients : Untouched(d) \/ Elsewhere(d)
    PROVE  Owned'
  <1>1. Numbered' /\ Lineage
    BY NumberedSame DEF Before, Owned
  <1>2. Respects
    BY DEF Respects
  <1> QED BY <1>1, <1>2, DroppingKept, HoldingKept DEF Before, Owned

LEMMA BeginsOwned ==
    ASSUME Before, NEW c \in Clients, ClientBegins(c)
    PROVE  Owned'
  <1>1. UNCHANGED <<log, logId, nextLog, wpc, wrep, wlog>>
    BY DEF ClientBegins, EnqueueCheck, ResumeCheck, DeleteStart, ExecStart,
           ClearStart, dbVars, workerVars, Cancel
  <1>2. CASE \E p \in Pairs : EnqueueCheck(c, p)
    <2>1. PICK p \in Pairs : GoTo(c, "enq_count", p, {}, {})
      BY <1>2 DEF EnqueueCheck, Enqueuing
    <2> QED BY <1>1, <2>1, GoesElsewhere, RowsStayOwned DEF Before
  <1>3. CASE \E r \in Reports : ResumeCheck(c, r) \/ DeleteStart(c, r)
    <2>1. PICK r \in Reports, pc \in {"resume_tx", "del_clean"} :
                GoTo(c, pc, None, {r}, {})
      BY <1>3 DEF ResumeCheck, DeleteStart, Handling
    <2> QED BY <1>1, <2>1, GoesElsewhere, RowsStayOwned DEF Before
  <1>4. CASE ClearStart(c)
    <2>1. PICK S : GoTo(c, "inv_tx", None, S, {})
      BY <1>4 DEF ClearStart, Handling
    <2> QED BY <1>1, <2>1, GoesElsewhere, RowsStayOwned DEF Before
  <1>5. ASSUME NEW S \in SUBSET Reports, ExecStart(c, S)
        PROVE  Owned'
    <2> DEFINE ids == {logId[r] : r \in S}
    <2>1. /\ GoTo(c, "exec_report", None, S, ids)
          /\ \A r \in S : log[r] # "none"
      BY <1>5 DEF ExecStart, Deleting
    <2>2. /\ cpc'[c] = "exec_report" /\ creps'[c] = S /\ clogs'[c] = ids
          /\ \A d \in Clients : d # c => Untouched(d)
      BY <2>1, GoToFrame DEF Before
    <2>3. Numbered /\ Dropping /\ nextLog \in Nat
      BY DEF Before, Owned, TypeOK, RowsTypeOK
    <2>4. Aims(c)'
      <3>1. \A id \in ids : id < nextLog
        BY <2>1, <2>3 DEF Numbered
      <3>2. \A r \in Reports : log[r] # "none" /\ logId[r] \in ids => r \in S
        BY <2>1, <2>3 DEF Numbered
      <3> HIDE DEF ids
      <3> QED BY <1>1, <2>2, <3>1, <3>2 DEF Aims
    <2>5. Dropping'
      <3>1. \A d \in Clients : d # c /\ cpc'[d] \in {"exec_report", "exec_log"} => Aims(d)'
        BY <1>1, <2>2, <2>3 DEF Dropping, Aims, Untouched
      <3>2. \A d \in Clients : cpc'[d] = "exec_log" =>
              \A r \in creps'[d] : report'[r] = "deleted"
        <4>1. UNCHANGED report
          BY <1>5 DEF ExecStart, dbVars
        <4> QED BY <2>2, <2>3, <4>1 DEF Dropping, Untouched
      <3> QED BY <2>4, <3>1, <3>2 DEF Dropping
    <2>6. Numbered' /\ Respects
      BY <1>1, <2>3, NumberedSame DEF Respects
    <2> QED BY <1>1, <2>5, <2>6, HoldingKept DEF Before, Owned
  <1> QED BY <1>2, <1>3, <1>4, <1>5 DEF ClientBegins

\* Nobody holds the log of a report that was never queued, nor a closed one
\* of a report that is waiting.
LEMMA CreateOwned ==
    ASSUME Before, NEW r \in Reports, report[r] = "unborn", Create(r),
           UNCHANGED <<wpc, wrep, wlog>>,
           \A d \in Clients : Untouched(d) \/ Elsewhere(d)
    PROVE  Owned'
  <1>1. log[r] = "none"
    BY DEF Before, Inv, Born
  <1>2. /\ log' = [log EXCEPT ![r] = "pending"]
        /\ logId' = [logId EXCEPT ![r] = nextLog] /\ nextLog' = nextLog + 1
    BY DEF Create
  <1>3. Numbered' /\ Lineage
    BY <1>1, <1>2, NumberedNew DEF Before, Owned
  <1>4. \A q \in Reports : q # r => log'[q] = log[q] /\ logId'[q] = logId[q]
    BY <1>2 DEF Before, TypeOK, RowsTypeOK
  <1>5. Respects
    BY <1>1, <1>4, LogNames DEF Respects, Taken
  <1> QED BY <1>3, <1>5, DroppingKept, HoldingKept DEF Before, Owned

LEMMA ResumeOwned ==
    ASSUME Before, NEW r \in Reports, report[r] = "queued", ~LogActive(r),
           ResumeLog(r), UNCHANGED <<wpc, wrep, wlog>>,
           \A d \in Clients : Untouched(d) \/ Elsewhere(d)
    PROVE  Owned'
  <1>1. log' = [log EXCEPT ![r] = "pending"]
    BY DEF ResumeLog
  <1>2. /\ log \in [Reports -> LogStatus] /\ logId \in [Reports -> Nat]
        /\ nextLog \in Nat
    BY DEF Before, TypeOK, RowsTypeOK
  <1>3. Numbered' /\ Lineage
    <2>1. CASE log[r] = "none"
      BY <1>1, <2>1, NumberedNew DEF ResumeLog, Before, Owned
    <2>2. CASE log[r] # "none"
      <3>1. UNCHANGED <<logId, nextLog>>
        BY <2>2 DEF ResumeLog
      <3>2. \A q \in Reports : log'[q] = "none" <=> log[q] = "none"
        BY <1>1, <1>2, <2>2
      <3> QED BY <3>1, <3>2, NumberedSame DEF Before, Owned
    <2> QED BY <2>1, <2>2
  <1>4. \A q \in Reports : q # r => log'[q] = log[q] /\ logId'[q] = logId[q]
    BY <1>1, <1>2 DEF ResumeLog
  <1>5. ~Taken(r)
    BY LogNames DEF LogActive, Taken
  <1>6. Respects
    BY <1>4, <1>5 DEF Respects
  <1> QED BY <1>3, <1>6, DroppingKept, HoldingKept DEF Before, Owned

LEMMA DropOwned ==
    ASSUME Before, NEW S \in SUBSET Reports, DropLogs(S), UNCHANGED <<wpc, wrep, wlog>>,
           \A r \in S : \/ ~Taken(r) /\ log[r] # "none"
                        \/ report'[r] = "deleted",
           \A d \in Clients : Untouched(d) \/ Elsewhere(d)
    PROVE  Owned'
  <1>1. Numbered' /\ Lineage
    BY NumberedDrop DEF Before, Owned
  <1>2. Respects
    BY DEF Respects, DropLogs
  <1> QED BY <1>1, <1>2, DroppingKept, HoldingKept DEF Before, Owned

LEMMA ContinuesOwned ==
    ASSUME Before, NEW c \in Clients, ClientContinues(c)
    PROVE  Owned'
  <1>1. /\ TypeOK /\ creps[c] \in SUBSET Reports /\ dbUp
        /\ UNCHANGED <<wpc, wrep, wlog>>
    <2>1. UNCHANGED workerVars
      BY DEF ClientContinues, EnqueueCount, EnqueueInsert, ResumeCommit, DeleteClean,
             DeleteCommit, ExecDropReports, ExecDropLogs, ClearCommit, ClearFiles
    <2> QED BY <2>1 DEF workerVars, Before, TypeOK, ClientsTypeOK
  <1>2. ASSUME Leave(c) PROVE \A d \in Clients : Untouched(d) \/ Elsewhere(d)
    BY <1>1, <1>2, GoesElsewhere DEF Leave
  <1>3. CASE EnqueueCount(c)
    <2>1. PICK pc, p : pc \in {"idle", "enq_insert"} /\ GoTo(c, pc, p, {}, {})
      BY <1>3 DEF EnqueueCount, Leave, Enqueuing
    <2> QED BY <1>1, <1>3, <2>1, GoesElsewhere, RowsStayOwned DEF EnqueueCount, dbVars
  <1>4. CASE EnqueueInsert(c)
    <2>1. CASE UNCHANGED dbVars
      BY <1>1, <1>2, <1>4, <2>1, RowsStayOwned DEF EnqueueInsert, dbVars
    <2>2. CASE \E r \in Reports : report[r] = "unborn" /\ Create(r)
      BY <1>1, <1>2, <1>4, <2>2, CreateOwned DEF EnqueueInsert
    <2> QED BY <1>4, <2>1, <2>2 DEF EnqueueInsert
  <1>5. CASE ResumeCommit(c)
    <2>1. CASE UNCHANGED dbVars
      BY <1>1, <1>2, <1>5, <2>1, RowsStayOwned DEF ResumeCommit, dbVars
    <2>2. CASE \E r \in creps[c] : report[r] = "queued" /\ ~LogActive(r) /\ ResumeLog(r)
      BY <1>1, <1>2, <1>5, <2>2, ResumeOwned DEF ResumeCommit
    <2> QED BY <1>5, <2>1, <2>2, Zenon DEF ResumeCommit
  <1>6. CASE DeleteClean(c)
    <2>1. GoTo(c, "del_tx", None, creps[c], {})
      BY <1>6 DEF DeleteClean, Handling
    <2> QED BY <1>1, <1>6, <2>1, GoesElsewhere, RowsStayOwned DEF DeleteClean, dbVars
  <1>7. CASE DeleteCommit(c)
    BY <1>1, <1>2, <1>7, DropOwned DEF DeleteCommit, DropReports
  <1>8. CASE ExecDropReports(c)
    <2>1. GoTo(c, "exec_log", None, creps[c], clogs[c]) /\ cpc[c] = "exec_report"
      BY <1>8 DEF ExecDropReports, Deleting
    <2>2. /\ cpc'[c] = "exec_log" /\ creps'[c] = creps[c] /\ clogs'[c] = clogs[c]
          /\ \A d \in Clients : d # c => Untouched(d)
      BY <1>1, <2>1, GoToFrame
    <2>3. UNCHANGED <<log, logId, nextLog>>
      BY <1>8 DEF ExecDropReports
    <2>4. Removable(creps[c]) = creps[c]
      BY DEF Removable, Before, Reliable
    <2>5. \A r \in creps[c] : report'[r] = "deleted"
      BY <1>1, <1>8, <2>4 DEF ExecDropReports, DropReports
    <2>6. Numbered' /\ Respects
      BY <2>3, NumberedSame DEF Respects, Before, Owned
    <2>7. Dropping'
      <3>1. \A d \in Clients : cpc'[d] \in {"exec_report", "exec_log"} => Aims(d)'
        BY <2>1, <2>2, <2>3 DEF Dropping, Aims, Untouched, Before, Owned
      <3>2. \A d \in Clients : d # c /\ cpc'[d] = "exec_log" =>
              \A r \in creps'[d] : report'[r] = "deleted"
        <4>1. \A d \in Clients : creps[d] \subseteq Reports
          BY <1>1 DEF TypeOK, ClientsTypeOK
        <4> QED BY <2>2, <4>1 DEF Dropping, Untouched, Before, Owned, Lasting
      <3> QED BY <2>2, <2>5, <3>1, <3>2 DEF Dropping
    <2> QED BY <1>1, <2>6, <2>7, HoldingKept DEF Before, Owned
  <1>9. CASE ExecDropLogs(c)
    <2> DEFINE S == {r \in Reports : dbUp /\ log[r] # "none" /\ logId[r] \in clogs[c]}
    <2>1. DropLogs(S) /\ Leave(c) /\ cpc[c] = "exec_log" /\ UNCHANGED report
      BY <1>9 DEF ExecDropLogs
    <2>2. \A r \in S : report'[r] = "deleted"
      BY <2>1 DEF Before, Owned, Dropping, Aims
    <2> QED BY <1>1, <1>2, <2>1, <2>2, DropOwned
  <1>10. CASE ClearCommit(c)
    <2>1. DropLogs(creps[c]) /\ DropReports(creps[c])
      BY <1>1, <1>10 DEF ClearCommit
    <2>2. GoTo(c, "inv_clean", None, creps[c], {})
      BY <1>1, <1>10 DEF ClearCommit, Handling
    <2> QED BY <1>1, <2>1, <2>2, GoesElsewhere, DropOwned DEF DropReports
  <1>11. CASE ClearFiles(c)
    BY <1>1, <1>2, <1>11, RowsStayOwned DEF ClearFiles, dbVars
  <1> QED
    BY <1>3, <1>4, <1>5, <1>6, <1>7, <1>8, <1>9, <1>10, <1>11 DEF ClientContinues
LEMMA EnvironmentOwned ==
    ASSUME Before, ClearLogs \/ (\E r \in Reports : ExpireIntent(r)) \/ Outage \/ OutageEnds
    PROVE  Owned'
  <1>1. CASE ClearLogs
    <2>1. UNCHANGED <<wpc, wrep, wlog, cpc, creps, clogs>>
      BY <1>1 DEF ClearLogs, workerVars, clientVars
    <2> DEFINE S == {r \in Reports : log[r] \in Terminal}
    <2>2. DropLogs(S) /\ \A r \in S : ~Taken(r) /\ log[r] # "none"
      BY <1>1, LogNames DEF ClearLogs, Taken
    <2>3. \A c \in Clients : Untouched(c)
      BY <2>1 DEF Untouched
    <2> QED BY <2>1, <2>2, <2>3, DropOwned
  <1>2. CASE (\E r \in Reports : ExpireIntent(r)) \/ Outage \/ OutageEnds
    <2>1. UNCHANGED <<dbVars, workerVars, clientVars>>
      BY <1>2 DEF ExpireIntent, Outage, OutageEnds
    <2>2. \A c \in Clients : Untouched(c)
      BY <2>1 DEF Untouched, clientVars
    <2> QED BY <2>1, <2>2, RowsStayOwned DEF dbVars, workerVars
  <1> QED BY <1>1, <1>2

LEMMA RecoverNumbered ==
    ASSUME TypeOK, Numbered, Recover
    PROVE  Numbered'
  <1> DEFINE missing == {r \in LiveReports : log[r] = "none"}
  <1>1. PICK id \in [missing -> nextLog .. MaxLogs] :
          /\ \A q, r \in missing : q # r => id[q] # id[r]
          /\ \A r \in missing : id[r] < nextLog'
          /\ logId' = [r \in Reports |-> IF r \in missing THEN id[r] ELSE logId[r]]
    BY DEF Recover
  <1>2. \A r \in Reports : log'[r] = IF r \in LiveReports THEN "pending" ELSE log[r]
    BY DEF Recover
  <1>3. nextLog \in Nat \ {0} /\ MaxLogs \in Nat
    BY SettingsAssumption DEF TypeOK, RowsTypeOK
  <1>4. \A r \in missing : id[r] \in Int /\ id[r] >= nextLog
    BY <1>1, <1>3
  <1>5. nextLog' \in Nat /\ nextLog' >= nextLog
    <2>1. IsFiniteSet(missing)
      BY ReportsAssumption, FS_Subset DEF LiveReports
    <2>2. Cardinality(missing) \in Nat
      BY <2>1, FS_CardinalityType
    <2>3. nextLog' = nextLog + Cardinality(missing)
      BY DEF Recover
    <2> HIDE DEF missing
    <2> QED BY <1>3, <2>2, <2>3
  <1>6. \A r \in Reports \ missing : log'[r] = "none" <=> log[r] = "none"
    BY <1>2
  <1>7. \A r \in missing : r \in Reports /\ log'[r] = "pending" /\ logId'[r] = id[r]
    BY <1>1, <1>2 DEF LiveReports
  <1>8. \A r \in Reports \ missing : logId'[r] = logId[r]
    BY <1>1
  <1> HIDE DEF missing
  <1>9. \A r \in Reports : log'[r] = "none" => logId'[r] = 0
    BY <1>6, <1>7, <1>8 DEF Numbered
  <1>10. \A r \in Reports : log'[r] # "none" => logId'[r] \in 1 .. nextLog' - 1
    <2> SUFFICES ASSUME NEW r \in Reports, log'[r] # "none"
                 PROVE  logId'[r] \in 1 .. nextLog' - 1
      OBVIOUS
    <2>1. CASE r \in missing
      BY <1>1, <1>3, <1>4, <1>5, <1>7, <2>1
    <2>2. CASE r \notin missing
      BY <1>3, <1>5, <1>6, <1>8, <2>2 DEF Numbered
    <2> QED BY <2>1, <2>2
  <1>11. ASSUME NEW q \in Reports, NEW r \in Reports, q # r, log'[q] # "none", log'[r] # "none"
         PROVE  logId'[q] # logId'[r]
    <2>1. \A x \in Reports \ missing : log'[x] # "none" => logId'[x] < nextLog
      BY <1>3, <1>6, <1>8 DEF Numbered
    <2>2. \A x \in missing : ~(logId'[x] < nextLog)
      BY <1>3, <1>4, <1>7
    <2>3. CASE q \in missing /\ r \in missing
      BY <1>1, <1>7, <1>11, <2>3
    <2>4. CASE q \notin missing /\ r \notin missing
      BY <1>6, <1>8, <1>11, <2>4 DEF Numbered
    <2>5. CASE (q \in missing) # (r \in missing)
      BY <1>11, <2>1, <2>2, <2>5
    <2> QED BY <2>3, <2>4, <2>5
  <1> QED BY <1>9, <1>10, <1>11 DEF Numbered

LEMMA RestartOwned ==
    ASSUME Inv, Owned, Restart
    PROVE  Owned'
  <1>1. /\ \A w \in Workers : wpc'[w] = "idle"
        /\ \A c \in Clients : cpc'[c] = "idle"
    BY DEF Restart
  <1>2. Dropping' /\ Holding' /\ Alone'
    BY <1>1, LogNames DEF Dropping, Holding, Alone
  <1>3. Numbered'
    <2>1. CASE Recover
      BY <2>1, RecoverNumbered DEF Inv, Owned
    <2>2. CASE Discard
      BY <2>2, NumberedDrop DEF Discard, Inv, Owned
    <2>3. CASE UNCHANGED <<dbVars, ckpt>>
      BY <2>3, NumberedSame DEF dbVars, Owned
    <2> QED BY <2>1, <2>2, <2>3 DEF Restart
  <1> QED BY <1>2, <1>3 DEF Owned

\* An outage is counted, and the database answers until the first one.
LEMMA OutagesCount ==
    ASSUME TypeOK, Answering, [Next]_vars
    PROVE  Answering' /\ (outages' = 0 => outages = 0)
  <1>1. outages \in Nat
    BY DEF TypeOK
  <1>2. CASE UNCHANGED <<dbUp, outages>>
    BY <1>2 DEF Answering
  <1>3. CASE Outage
    BY <1>1, <1>3 DEF Outage, Answering
  <1>4. CASE OutageEnds \/ Restart
    BY <1>4, Zenon DEF OutageEnds, Restart, Answering
  <1>5. ASSUME NEW w \in Workers, WorkerStep(w) PROVE UNCHANGED <<dbUp, outages>>
    BY <1>5 DEF WorkerStep, Claim, Lookup, ResumePrelude, Consume, Load, Register,
           StoreHead, Advance, WriteLog, BundleDone, WriteProgress, StageFails,
           GateSkips, AllChunksFailed, Finish, Record,
           RecordCanceled, CloseCanceled, Steady, faultVars
  <1>6. ASSUME NEW c \in Clients, ClientBegins(c) PROVE UNCHANGED <<dbUp, outages>>
    BY <1>6 DEF ClientBegins, EnqueueCheck, ResumeCheck, DeleteStart, ExecStart,
           ClearStart, faultVars
  <1>7. ASSUME NEW c \in Clients, ClientContinues(c) PROVE UNCHANGED <<dbUp, outages>>
    BY <1>7 DEF ClientContinues, EnqueueCount, EnqueueInsert, ResumeCommit, DeleteClean,
             DeleteCommit, ExecDropReports, ExecDropLogs, ClearCommit, ClearFiles, faultVars
  <1>8. CASE ClearLogs \/ (\E r \in Reports : ExpireIntent(r)) \/ UNCHANGED vars
    BY <1>2, <1>8 DEF ClearLogs, ExpireIntent, vars, faultVars
  <1> QED BY <1>2, <1>3, <1>4, <1>5, <1>6, <1>7, <1>8 DEF Next

-----------------------------------------------------------------------------
\* The inductive invariant.
RunnerInv == Inv /\ Answering /\ (Reliable => Owned)

LEMMA BeforeStep ==
    ASSUME RunnerInv, [Next]_vars, Reliable'
    PROVE  Before
  <1>1. Answering' /\ Reliable
    BY OutagesCount DEF RunnerInv, Inv, Reliable
  <1>2. Lasting /\ Inv'
    BY DeletedStays, NextLedger DEF RunnerInv
  <1> QED BY <1>1, <1>2 DEF Before, RunnerInv, Inv, Reliable, Answering

LEMMA RunnerInit == Init => RunnerInv
  <1> SUFFICES ASSUME Init PROVE Answering /\ Owned
    BY InitLedger DEF RunnerInv
  <1>1. Answering
    BY Zenon DEF Init, Answering
  <1>2. Owned
    BY LogNames DEF Init, Owned, Numbered, Dropping, Holding, Alone
  <1> QED BY <1>1, <1>2

LEMMA RunnerNext == RunnerInv /\ [Next]_vars => RunnerInv'
  <1> SUFFICES ASSUME RunnerInv, [Next]_vars PROVE RunnerInv'
    OBVIOUS
  <1>1. Inv' /\ Answering'
    BY NextLedger, OutagesCount DEF RunnerInv, Inv
  <1>2. ASSUME Reliable' PROVE Owned'
    <2>1. Before
      BY <1>2, BeforeStep
    <2>2. CASE UNCHANGED vars
      <3>1. UNCHANGED <<report, log, logId, nextLog, wpc, wrep, wlog, cpc, creps, clogs>>
        BY <2>2 DEF vars, dbVars, workerVars, clientVars
      <3> QED BY <2>1, <3>1, RowsStayOwned DEF Untouched
    <2>3. CASE Restart
      BY <2>1, <2>3, RestartOwned DEF Before
    <2> QED BY <2>1, <2>2, <2>3, WorkerOwned, BeginsOwned, ContinuesOwned, EnvironmentOwned
            DEF Next
  <1> QED BY <1>1, <1>2 DEF RunnerInv

LEMMA RunnerHolds == Spec => []RunnerInv
  <1> QED BY RunnerInit, RunnerNext, PTL DEF Spec

\* Two workers never run the same scan: neither the claim, nor the reset of a
\* log by EnqueueResumeTask, nor RecoverPendingTasks hands out a task that is
\* held, however many workers, requests and crashes there are, until a
\* statement fails for the first time.
THEOREM OneRunner ==
    ASSUME ~ForeignKey
    PROVE  Spec => [](outages = 0 => SingleRunner)
  <1>1. RunnerInv => (outages = 0 => SingleRunner)
    BY LogNames DEF RunnerInv, Reliable, Owned, Alone, SingleRunner
  <1> QED BY <1>1, RunnerHolds, PTL
-----------------------------------------------------------------------------
(* The rows show the stage of the worker.                                  *)

\* Before its first stage a worker's log shows "running".
Fresh    == {"claimed", "resume", "consume", "load", "register", "prepare"}
LogAt(s) == IF s \in Stages THEN s ELSE "running"
Tells(w) == LET shown == log[wrep[w]] IN
    shown = LogAt(wpc[w]) \/ (wtodo[w] = "log" /\ ShowsStageBefore(shown, wpc[w]))
Shown(w) == LET r == wrep[w] IN
    /\ wpc[w] \in Stages /\ report[r] \in Live => report[r] = wpc[w]
    /\ logId[r] = wlog[w] => Tells(w)
Showing == \A w \in Workers : wpc[w] \in Fresh \cup Stages => Shown(w)

LEMMA StageHolds ==
    ASSUME Before, NEW w \in Workers, wpc[w] \in Fresh \cup Stages
    PROVE  /\ wpc[w] \in Busy /\ wrep[w] \in Reports /\ Holds(w)
           /\ report[wrep[w]] # "unborn" /\ log[wrep[w]] # "pending"
           /\ log[wrep[w]] = "none" => report[wrep[w]] = "deleted"
           /\ LogActive(wrep[w]) \/ log[wrep[w]] = "none"
  <1>1. wpc[w] \in Busy
    BY LogNames DEF Fresh, Running, Registered
  <1>2. wrep[w] \in Reports /\ Holds(w)
    BY <1>1, LogNames DEF Before, Owned, Holding, TypeOK, WorkersTypeOK
  <1> QED BY <1>1, <1>2, LogNames DEF Holds, Taken, LogActive, Before, Inv, Born

\* A log that was deleted has no id, and a worker's task has one.
LEMMA NoLogTells ==
    ASSUME Owned', TypeOK', NEW w \in Workers, wpc'[w] \in Fresh \cup Stages,
           log'[wrep'[w]] = "none"
    PROVE  logId'[wrep'[w]] # wlog'[w]
  <1>1. wpc'[w] \in Busy
    BY LogNames DEF Fresh, Running, Registered
  <1>2. wrep'[w] \in Reports /\ wlog'[w] > 0
    BY <1>1, LogNames DEF Owned, Holding, Holds, TypeOK, WorkersTypeOK
  <1> QED BY <1>2 DEF Owned, Numbered

\* What a step by others may do to the rows of a worker in a stage.
LEMMA ShownKept ==
    ASSUME Before, NEW w \in Workers, wpc[w] \in Fresh \cup Stages, Shown(w),
           wpc'[w] = wpc[w], wrep'[w] = wrep[w], wlog'[w] = wlog[w],
           wtodo'[w] = wtodo[w], Owned',
           report'[wrep[w]] \in Live => report'[wrep[w]] = report[wrep[w]],
           log'[wrep[w]] # "none" =>
              log'[wrep[w]] = log[wrep[w]] /\ logId'[wrep[w]] = logId[wrep[w]]
    PROVE  Shown(w)'
  <1>1. CASE log'[wrep[w]] = "none"
    BY <1>1, NoLogTells DEF Shown, Before
  <1>2. CASE log'[wrep[w]] # "none"
    BY <1>2 DEF Shown, Tells, LogAt
  <1> QED BY <1>1, <1>2

\* On its way to its first stage a worker leaves the log alone.
LEMMA FreshShown ==
    ASSUME Before, Showing, Owned', NEW w \in Workers, wpc[w] \in Fresh, NEW pc \in Fresh,
           Step(w, pc), UNCHANGED <<log, logId>>
    PROVE  Shown(w)'
  <1>1. /\ wpc'[w] = pc /\ wrep'[w] = wrep[w] /\ wlog'[w] = wlog[w]
        /\ wtodo'[w] = wtodo[w]
    BY StepFrame DEF Before
  <1>2. wpc[w] \notin Stages /\ pc \notin Stages
    BY DEF Fresh, Stages
  <1>3. logId[wrep[w]] = wlog[w] => log[wrep[w]] = "running"
    <2>1. ~ShowsStageBefore(log[wrep[w]], wpc[w])
      BY <1>2 DEF ShowsStageBefore, NextStage, Stages
    <2> QED BY <1>2, <2>1 DEF Showing, Shown, Tells, LogAt
  <1> QED BY <1>1, <1>2, <1>3 DEF Shown, Tells, LogAt

\* Between two statements of one stage: neither row tells anything new.
LEMMA MidwayShown ==
    ASSUME Before, Showing, NEW w \in Workers, wpc[w] \in Stages, wtodo[w] # "log",
           NEW todo, Midway(w, wpc[w], todo), UNCHANGED <<log, logId>>,
           UNCHANGED report \/ (report' = [report EXCEPT ![wrep[w]] = wpc[w]])
    PROVE  Shown(w)'
  <1>1. wpc'[w] = wpc[w] /\ wrep'[w] = wrep[w] /\ wlog'[w] = wlog[w]
    BY MidwayFrame DEF Before
  <1>2. Shown(w) /\ wrep[w] \in Reports /\ report \in [Reports -> ReportStatus]
    BY StageHolds DEF Showing, Before, TypeOK, RowsTypeOK
  <1>3. report'[wrep[w]] \in Live => report'[wrep[w]] = wpc[w]
    BY <1>2 DEF Shown
  <1> QED BY <1>1, <1>2, <1>3 DEF Shown, Tells, LogAt

\* The worker itself: it announces a stage when it enters it.
LEMMA OwnStage ==
    ASSUME Before, Showing, Owned', NEW w \in Workers, WorkerStep(w),
           wpc'[w] \in Fresh \cup Stages
    PROVE  Shown(w)'
  <1>1. TypeOK /\ dbUp /\ wpc \in [Workers -> WorkerPc]
    BY DEF Before, TypeOK, WorkersTypeOK
  <1>2. CASE Claim(w)
    <2>1. PICK r \in Reports :
            /\ log' = [log EXCEPT ![r] = "running"] /\ wrep' = [wrep EXCEPT ![w] = r]
      BY <1>2 DEF Claim
    <2>2. wrep'[w] = r /\ log'[r] = "running" /\ wpc'[w] = "claimed"
      BY <1>1, <1>2, <2>1 DEF Claim, TypeOK, RowsTypeOK, WorkersTypeOK
    <2>3. "claimed" \notin Stages
      BY DEF Stages
    <2> QED BY <2>2, <2>3 DEF Shown, Tells, LogAt
  <1>3. CASE Advance(w)
    <2> DEFINE s == NextStage[wpc[w]]
               r == wrep[w]
    <2>1. /\ SetReport(r, s) /\ Midway(w, s, "log") /\ UNCHANGED <<log, logId>>
          /\ wtodo[w] # "log" /\ wpc[w] \in DOMAIN NextStage
      BY <1>3 DEF Advance, Steady
    <2>2. wpc[w] \in Fresh \cup Stages /\ r \in Reports /\ Shown(w)
      <3>1. wpc[w] \in Fresh \cup Stages
        BY <2>1 DEF NextStage, Fresh, Stages
      <3> QED BY <3>1, StageHolds DEF Showing
    <2>3. logId[r] = wlog[w] => ShowsStageBefore(log[r], s)
      <3>1. LogAt(wpc[w]) = IF wpc[w] = "prepare" THEN "running" ELSE wpc[w]
        BY <2>1 DEF LogAt, NextStage, Stages
      <3> QED BY <2>1, <2>2, <3>1 DEF Shown, Tells, ShowsStageBefore
    <2> HIDE DEF s
    <2>4. /\ wpc'[w] = s /\ wrep'[w] = r /\ wlog'[w] = wlog[w] /\ wtodo'[w] = "log"
      BY <1>1, <2>1, MidwayFrame
    <2>5. report'[r] \in Live => report'[r] = s
      BY <1>1, <2>1, <2>2, SetReportEffect
    <2> HIDE DEF r
    <2> QED BY <2>1, <2>3, <2>4, <2>5 DEF Shown, Tells
  <1>4. CASE StoreHead(w) \/ BundleDone(w)
    <2>1. wpc[w] \in Stages /\ wtodo[w] # "log" /\ UNCHANGED <<log, logId, report>>
      BY <1>4 DEF StoreHead, BundleDone, Stages, Steady
    <2>2. PICK todo : Midway(w, wpc[w], todo)
      BY <1>4 DEF StoreHead, BundleDone
    <2> QED BY <2>1, <2>2, MidwayShown
  <1>5. CASE WriteProgress(w)
    <2>1. /\ wpc[w] \in Stages /\ wpc[w] = "analyzing" /\ wtodo[w] # "log"
          /\ UNCHANGED <<log, logId>>
      BY <1>5 DEF WriteProgress, Stages, Steady
    <2>2. PICK todo : Midway(w, wpc[w], todo)
      BY <1>5 DEF WriteProgress
    <2>3. UNCHANGED report \/ report' = [report EXCEPT ![wrep[w]] = wpc[w]]
      BY <1>5, <2>1 DEF WriteProgress, SetReport
    <2> QED BY <2>1, <2>2, <2>3, MidwayShown
  <1>6. CASE WriteLog(w)
    <2> DEFINE r == wrep[w]
    <2>1. /\ wpc[w] \in Stages /\ UNCHANGED <<report, logId>>
          /\ Midway(w, wpc[w], "none") /\ SetLog(r, logId[r], wpc[w])
      BY <1>6 DEF WriteLog, SetLogOf, Steady
    <2>2. r \in Reports /\ Shown(w) /\ wpc[w] # "none"
      BY <2>1, StageHolds, LogNames DEF Showing
    <2>3. log'[r] # "none" => log'[r] = wpc[w]
      BY <1>1, <2>1, <2>2, SetLogEffect
    <2>4. wpc'[w] = wpc[w] /\ wrep'[w] = r /\ wlog'[w] = wlog[w]
      BY <1>1, <2>1, MidwayFrame
    <2>5. log'[r] = "none" => logId'[r] # wlog'[w]
      BY <2>4, NoLogTells DEF Before
    <2> QED BY <2>1, <2>2, <2>3, <2>4, <2>5 DEF Shown, Tells, LogAt
  <1>7. ASSUME NEW pc \in Fresh \cup Returned, Step(w, pc), UNCHANGED <<log, logId>>,
               wpc[w] \in Fresh
        PROVE  Shown(w)'
    <2>1. pc = wpc'[w]
      BY <1>1, <1>7, StepFrame
    <2>2. pc \in Fresh
      BY <1>7, <2>1 DEF Fresh, Stages, Returned
    <2> QED BY <1>7, <2>2, FreshShown
  <1>8. CASE Lookup(w) \/ ResumePrelude(w) \/ Consume(w) \/ Load(w) \/ Register(w)
    <2>1. wpc[w] \in Fresh /\ UNCHANGED <<log, logId>>
      BY <1>8 DEF Lookup, ResumePrelude, Consume, Load, Register, Fresh, Steady
    <2>2. \E pc \in Fresh \cup Returned : Step(w, pc)
      BY <1>8 DEF Lookup, ResumePrelude, Consume, Load, Register, Fresh, Returned
    <2> QED BY <1>7, <2>1, <2>2
  <1>9. ASSUME NEW pc \in Returned \cup {"cancel_report"}, Step(w, pc) PROVE FALSE
    <2>1. wpc'[w] = pc
      BY <1>1, <1>9, StepFrame
    <2> QED BY <1>9, <2>1 DEF Fresh, Stages, Returned
  <1>10. CASE StageFails(w) \/ GateSkips(w) \/ AllChunksFailed(w) \/ Finish(w)
                \/ RecordCanceled(w)
    BY <1>9, <1>10 DEF StageFails, GateSkips, AllChunksFailed, Finish, RecordCanceled,
       Returned
  <1>11. CASE Record(w) \/ CloseCanceled(w)
    <2>1. wpc'[w] = "idle"
      BY <1>1, <1>11 DEF Record, CloseCanceled, Release
    <2> QED BY <2>1 DEF Fresh, Stages
  <1> QED BY <1>2, <1>3, <1>4, <1>5, <1>6, <1>8, <1>10, <1>11 DEF WorkerStep

LEMMA WorkerShowing ==
    ASSUME Before, Showing, Owned', NEW u \in Workers, WorkerStep(u)
    PROVE  Showing'
  <1> SUFFICES ASSUME NEW w \in Workers, w # u, wpc'[w] \in Fresh \cup Stages
               PROVE  Shown(w)'
    BY OwnStage DEF Showing
  <1>1. CASE Claim(u)
    <2>1. PICK r \in Reports :
            log[r] = "pending" /\ log' = [log EXCEPT ![r] = "running"]
      BY <1>1 DEF Claim, Oldest, Pending
    <2>2. /\ wpc'[w] = wpc[w] /\ wrep'[w] = wrep[w] /\ wlog'[w] = wlog[w]
          /\ wtodo'[w] = wtodo[w] /\ UNCHANGED <<report, logId>>
      BY <1>1 DEF Claim, Steady, Before, TypeOK, WorkersTypeOK
    <2>3. wrep[w] \in Reports /\ log[wrep[w]] # "pending"
      BY <2>2, StageHolds
    <2>4. log'[wrep[w]] = log[wrep[w]]
      BY <2>1, <2>3 DEF Before, TypeOK, RowsTypeOK
    <2> QED BY <2>2, <2>4, ShownKept DEF Showing
  <1>2. CASE ~Claim(u)
    <2>1. Frame(u) /\ (Works(u) \/ Leaves(u) \/ Closes(u)) /\ wpc[u] # "idle"
      BY <1>2, WorkerEffect DEF Before
    <2>2. /\ wpc'[w] = wpc[w] /\ wrep'[w] = wrep[w] /\ wlog'[w] = wlog[w]
          /\ wtodo'[w] = wtodo[w] /\ UNCHANGED logId
      BY <2>1 DEF Frame
    <2>3. wrep[w] \in Reports /\ wpc[w] \in Busy /\ Shown(w) /\ wpc[w] \in Fresh \cup Stages
      BY <2>2, StageHolds DEF Showing
    <2>4. CASE wpc[u] \in Busy
      <3>1. wrep[u] # wrep[w]
        BY <2>3, <2>4 DEF Before, Owned, Alone
      <3>2. report'[wrep[w]] = report[wrep[w]] /\ log'[wrep[w]] = log[wrep[w]]
        BY <2>1, <2>3, <3>1 DEF Frame
      <3> QED BY <2>2, <2>3, <3>2, ShownKept
    <2>5. CASE wpc[u] \notin Busy
      <3>1. Closes(u)
        BY <2>1, <2>5 DEF Works, Leaves
      <3>2. CloseCanceled(u)
        BY <3>1 DEF Closes, WorkerStep, Claim, Lookup, ResumePrelude, Consume, Load,
           Register, StoreHead, Advance, WriteLog, BundleDone, WriteProgress,
           StageFails, GateSkips, AllChunksFailed, Finish, Record,
           RecordCanceled, NextStage, Registered, Stages
      <3>3. SetReport(wrep[u], "failed") /\ wrep[u] \in Reports /\ log' = log
        BY <2>1, <3>1, <3>2 DEF CloseCanceled, Closes, Before, TypeOK, WorkersTypeOK
      <3>4. report'[wrep[w]] \in Live => report'[wrep[w]] = report[wrep[w]]
        <4>1. "failed" \notin Live
          BY LogNames
        <4> QED BY <2>3, <3>3, <4>1, SetReportEffect DEF Before
      <3> QED BY <2>2, <2>3, <3>3, <3>4, ShownKept
    <2> QED BY <2>4, <2>5
  <1> QED BY <1>1, <1>2

\* The other steps: the rows of a running scan are left alone, or deleted.
Spares ==
    \A r \in Reports :
      \/ report'[r] = report[r] /\ log'[r] = log[r] /\ logId'[r] = logId[r]
      \/ /\ report'[r] \notin Live
         /\ \/ log'[r] = "none"
            \/ log'[r] = log[r] /\ logId'[r] = logId[r]
      \/ report'[r] = report[r] /\ log'[r] = "none"
      \/ report[r] = "unborn"
      \/ report[r] # "deleted" /\ ~LogActive(r)

LEMMA SparesShowing ==
    ASSUME Before, Showing, Owned', UNCHANGED <<wpc, wrep, wlog, wtodo>>, Spares
    PROVE  Showing'
  <1> SUFFICES ASSUME NEW w \in Workers, wpc[w] \in Fresh \cup Stages PROVE Shown(w)'
    BY DEF Showing
  <1>1. /\ wrep[w] \in Reports /\ report[wrep[w]] # "unborn" /\ Shown(w)
        /\ report[wrep[w]] = "deleted" \/ LogActive(wrep[w])
    BY StageHolds DEF Showing
  <1>2. /\ report'[wrep[w]] \in Live => report'[wrep[w]] = report[wrep[w]]
        /\ log'[wrep[w]] # "none" =>
              log'[wrep[w]] = log[wrep[w]] /\ logId'[wrep[w]] = logId[wrep[w]]
    BY <1>1 DEF Spares
  <1> QED BY <1>1, <1>2, ShownKept

LEMMA DropSpares ==
    ASSUME NEW S \in SUBSET Reports, DropLogs(S), UNCHANGED report \/ DropReports(S)
    PROVE  Spares
  <1>1. "deleted" \notin Live
    BY LogNames
  <1>2. \A r \in Reports : \/ r \in S /\ log'[r] = "none"
                           \/ r \notin S /\ log'[r] = log[r] /\ logId'[r] = logId[r]
    BY DEF DropLogs
  <1>3. CASE UNCHANGED report
    BY <1>2, <1>3 DEF Spares
  <1>4. CASE DropReports(S)
    <2>1. \A r \in Reports : \/ r \in S /\ report'[r] = "deleted"
                             \/ r \notin S /\ report'[r] = report[r]
      BY <1>4 DEF DropReports
    <2>2. \A r \in S : report'[r] \notin Live /\ log'[r] = "none"
      BY <1>1, <1>2, <2>1
    <2>3. \A r \in Reports \ S :
             report'[r] = report[r] /\ log'[r] = log[r] /\ logId'[r] = logId[r]
      BY <1>2, <2>1
    <2> QED BY <2>2, <2>3 DEF Spares
  <1> QED BY <1>3, <1>4

LEMMA OthersSpare ==
    ASSUME Before, [Next]_vars, ~Restart, ~\E w \in Workers : WorkerStep(w)
    PROVE  Spares /\ UNCHANGED <<wpc, wrep, wlog, wtodo>>
  <1>1. ASSUME UNCHANGED <<report, log, logId>> PROVE Spares
    BY <1>1 DEF Spares
  <1>2. CASE (\E r \in Reports : ExpireIntent(r)) \/ Outage \/ OutageEnds \/ UNCHANGED vars
    <2>1. UNCHANGED <<dbVars, workerVars>>
      BY <1>2 DEF ExpireIntent, Outage, OutageEnds, vars
    <2> QED BY <1>1, <2>1 DEF dbVars, workerVars
  <1>3. CASE ClearLogs
    <2> DEFINE S == {r \in Reports : log[r] \in Terminal}
    <2>1. DropLogs(S) /\ UNCHANGED report /\ UNCHANGED workerVars
      BY <1>3 DEF ClearLogs
    <2> QED BY <2>1, DropSpares DEF workerVars
  <1>4. ASSUME NEW c \in Clients, ClientBegins(c)
        PROVE  UNCHANGED <<report, log, logId, wpc, wrep, wlog, wtodo>>
    BY <1>4 DEF ClientBegins, EnqueueCheck, ResumeCheck, DeleteStart, ExecStart,
           ClearStart, dbVars, workerVars, Cancel
  <1>5. ASSUME NEW c \in Clients, ClientContinues(c)
        PROVE  Spares /\ UNCHANGED workerVars
    <2>1. UNCHANGED workerVars
      BY <1>5 DEF ClientContinues, EnqueueCount, EnqueueInsert, ResumeCommit, DeleteClean,
             DeleteCommit, ExecDropReports, ExecDropLogs, ClearCommit, ClearFiles
    <2>2. /\ dbUp /\ creps[c] \in SUBSET Reports
          /\ log \in [Reports -> LogStatus] /\ logId \in [Reports -> Nat]
          /\ report \in [Reports -> ReportStatus]
      BY DEF Before, TypeOK, RowsTypeOK, ClientsTypeOK
    <2>3. ASSUME UNCHANGED dbVars PROVE Spares
      BY <1>1, <2>3 DEF dbVars
    <2>4. CASE EnqueueCount(c) \/ DeleteClean(c) \/ ClearFiles(c)
      BY <2>3, <2>4 DEF EnqueueCount, DeleteClean, ClearFiles
    <2>5. CASE EnqueueInsert(c)
      <3>1. ASSUME NEW r \in Reports, report[r] = "unborn", Create(r) PROVE Spares
        BY <2>2, <3>1 DEF Create, Spares
      <3> QED BY <2>3, <2>5, <3>1 DEF EnqueueInsert
    <2>6. CASE ResumeCommit(c)
      <3>1. ASSUME NEW r \in Reports, report[r] = "queued", ~LogActive(r), ResumeLog(r),
                   UNCHANGED report
            PROVE  Spares
        <4>1. \A q \in Reports : q # r => log'[q] = log[q] /\ logId'[q] = logId[q]
          BY <2>2, <3>1 DEF ResumeLog
        <4> QED BY <3>1, <4>1 DEF Spares
      <3> QED BY <2>2, <2>3, <2>6, <3>1, Zenon DEF ResumeCommit
    <2>7. CASE DeleteCommit(c)
      BY <2>2, <2>7, DropSpares DEF DeleteCommit
    <2>8. CASE ExecDropReports(c)
      BY <2>8, LogNames DEF ExecDropReports, DropReports, Spares
    <2>9. CASE ExecDropLogs(c)
      <3> DEFINE S == {r \in Reports : dbUp /\ log[r] # "none" /\ logId[r] \in clogs[c]}
      <3>1. DropLogs(S) /\ UNCHANGED report
        BY <2>9 DEF ExecDropLogs
      <3> HIDE DEF S
      <3>2. S \in SUBSET Reports
        BY DEF S
      <3> QED BY <2>1, <3>1, <3>2, DropSpares
    <2>10. CASE ClearCommit(c)
      BY <2>2, <2>10, DropSpares DEF ClearCommit
    <2> QED BY <1>5, <2>1, <2>4, <2>5, <2>6, <2>7, <2>8, <2>9, <2>10 DEF ClientContinues
  <1> QED BY <1>1, <1>2, <1>3, <1>4, <1>5 DEF Next, workerVars

LEMMA ShowingNext ==
    ASSUME RunnerInv, RunnerInv', [Next]_vars, Reliable', Showing
    PROVE  Showing'
  <1>1. Before /\ Owned'
    BY BeforeStep DEF RunnerInv
  <1>2. CASE Restart
    <2>1. \A w \in Workers : wpc'[w] = "idle"
      BY <1>2 DEF Restart
    <2> QED BY <2>1 DEF Showing, Fresh, Stages
  <1>3. CASE \E w \in Workers : WorkerStep(w)
    BY <1>1, <1>3, WorkerShowing
  <1>4. CASE ~Restart /\ ~\E w \in Workers : WorkerStep(w)
    BY <1>1, <1>4, OthersSpare, SparesShowing
  <1> QED BY <1>2, <1>3, <1>4

\* While a scan runs and its rows exist, task_reports and
\* task_execution_logs show the stage its worker is in, the log possibly the
\* stage before while its own statement is still to come: whatever cancels,
\* deletes, resumes or crashes between the two, until a statement fails.
THEOREM ProgressIsShown ==
    ASSUME ~ForeignKey
    PROVE  Spec => []ProgressAgrees
  <1> DEFINE I == RunnerInv /\ (outages = 0 => Showing)
  <1>1. Init => I
    <2>1. Init => Showing
      BY DEF Init, Showing, Fresh, Stages
    <2> QED BY <2>1, RunnerInit
  <1>2. I /\ [Next]_vars => I'
    <2> SUFFICES ASSUME I, [Next]_vars PROVE I'
      OBVIOUS
    <2>1. RunnerInv' /\ (outages' = 0 => outages = 0)
      BY RunnerNext, OutagesCount DEF RunnerInv, Inv
    <2>2. outages' = 0 => Reliable'
      BY DEF Reliable
    <2> QED BY <2>1, <2>2, ShowingNext
  <1>3. I => ProgressAgrees
    BY DEF ProgressAgrees, Showing, Shown, Tells, LogAt
  <1> QED BY <1>1, <1>2, <1>3, PTL DEF Spec
-----------------------------------------------------------------------------
(* No log that is taken is left behind, and no scan is lost.               *)

\* A worker has every log that is neither waiting nor closed.
Held(r) == \E w \in Workers : wpc[w] \in Busy /\ wrep[w] = r
NoneLeft == \A r \in Reports : LogActive(r) /\ log[r] # "pending" => Held(r)

LEMMA ClaimNoneLeft ==
    ASSUME Before, NoneLeft, NEW w \in Workers, Claim(w)
    PROVE  NoneLeft'
  <1>1. PICK q \in Reports :
          log' = [log EXCEPT ![q] = "running"] /\ wrep' = [wrep EXCEPT ![w] = q]
    BY DEF Claim
  <1>2. /\ wpc[w] = "idle" /\ wpc' = [wpc EXCEPT ![w] = "claimed"]
        /\ wpc \in [Workers -> WorkerPc] /\ log \in [Reports -> LogStatus]
        /\ wrep \in [Workers -> Reports \cup {None}]
    BY DEF Claim, Before, TypeOK, RowsTypeOK, WorkersTypeOK
  <1>3. wpc'[w] \in Busy /\ wrep'[w] = q
    BY <1>1, <1>2, LogNames
  <1>4. \A v \in Workers : wpc[v] \in Busy =>
          v # w /\ wpc'[v] = wpc[v] /\ wrep'[v] = wrep[v]
    BY <1>1, <1>2, LogNames
  <1>5. \A r \in Reports : Held(r) \/ r = q => Held(r)'
    BY <1>3, <1>4 DEF Held
  <1>6. \A r \in Reports : r # q => log'[r] = log[r]
    BY <1>1, <1>2
  <1> QED BY <1>5, <1>6 DEF NoneLeft, LogActive

LEMMA WorkerNoneLeft ==
    ASSUME Before, NoneLeft, NEW w \in Workers, WorkerStep(w)
    PROVE  NoneLeft'
  <1>1. CASE Claim(w)
    BY <1>1, ClaimNoneLeft
  <1>2. CASE ~Claim(w)
    <2>1. wpc[w] # "idle" /\ Frame(w) /\ (Works(w) \/ Leaves(w) \/ Closes(w))
      BY <1>2, WorkerEffect DEF Before
    <2>2. wrep[w] \in Reports
      BY <2>1 DEF Before, TypeOK, WorkersTypeOK
    <2>3. \A r \in Reports : r # wrep[w] /\ Held(r) => Held(r)'
      BY <2>1 DEF Held, Frame
    <2>4. \A r \in Reports : r # wrep[w] => log'[r] = log[r]
      BY <2>1 DEF Frame
    <2>5. CASE Works(w)
      <3>1. \A r \in Reports : r = wrep[w] => Held(r)'
        BY <2>5 DEF Works, Held
      <3> QED BY <2>3, <2>4, <3>1 DEF NoneLeft, LogActive
    <2>6. CASE Leaves(w)
      <3>1. PICK s \in Terminal : SetLog(wrep[w], wlog[w], s)
        BY <2>6 DEF Leaves
      <3>2. Holds(w) /\ s # "none"
        BY <2>6, LogNames DEF Leaves, Before, Owned, Holding
      <3>3. log'[wrep[w]] = "none" \/ log'[wrep[w]] = s
        <4>1. CASE log[wrep[w]] = "none"
          BY <2>1, <2>2, <4>1 DEF Frame
        <4>2. CASE log[wrep[w]] # "none"
          BY <2>2, <3>1, <3>2, <4>2, SetLogEffect DEF Before, Holds
        <4> QED BY <4>1, <4>2
      <3> QED BY <2>3, <2>4, <3>1, <3>3 DEF NoneLeft, LogActive
    <2>7. CASE Closes(w)
      <3>1. \A v \in Workers : wpc[v] \in Busy =>
              wpc'[v] = wpc[v] /\ wrep'[v] = wrep[v]
        BY <2>1, <2>7, LogNames DEF Closes, Frame
      <3>2. \A r \in Reports : Held(r) => Held(r)'
        BY <3>1 DEF Held
      <3> QED BY <2>7, <3>2 DEF Closes, NoneLeft, LogActive
    <2> QED BY <2>1, <2>5, <2>6, <2>7
  <1> QED BY <1>1, <1>2

\* The other steps create waiting logs, and delete logs.
Queues == \A r \in Reports : log'[r] \in {log[r], "none", "pending"}

LEMMA OthersQueue ==
    ASSUME Before, [Next]_vars, ~Restart, ~\E w \in Workers : WorkerStep(w)
    PROVE  Queues
  <1>1. ASSUME UNCHANGED log PROVE Queues
    BY <1>1 DEF Queues
  <1>2. ASSUME NEW S, DropLogs(S) PROVE Queues
    BY <1>2 DEF Queues, DropLogs
  <1>3. ASSUME NEW r \in Reports, log' = [log EXCEPT ![r] = "pending"] PROVE Queues
    BY <1>3 DEF Queues, Before, TypeOK, RowsTypeOK
  <1>4. CASE (\E r \in Reports : ExpireIntent(r)) \/ Outage \/ OutageEnds \/ UNCHANGED vars
    <2>1. UNCHANGED dbVars
      BY <1>4 DEF ExpireIntent, Outage, OutageEnds, vars
    <2> QED BY <1>1, <2>1 DEF dbVars
  <1>5. CASE ClearLogs
    BY <1>2, <1>5 DEF ClearLogs
  <1>6. ASSUME NEW c \in Clients, ClientBegins(c) PROVE UNCHANGED log
    BY <1>6 DEF ClientBegins, EnqueueCheck, ResumeCheck, DeleteStart, ExecStart,
           ClearStart, dbVars
  <1>7. ASSUME NEW c \in Clients, ClientContinues(c) PROVE Queues
    <2>1. ASSUME UNCHANGED dbVars PROVE Queues
      BY <1>1, <2>1 DEF dbVars
    <2>2. CASE EnqueueCount(c) \/ DeleteClean(c) \/ ClearFiles(c)
      BY <2>1, <2>2 DEF EnqueueCount, DeleteClean, ClearFiles
    <2>3. CASE EnqueueInsert(c)
      BY <1>3, <2>1, <2>3 DEF EnqueueInsert, Create
    <2>4. CASE ResumeCommit(c)
      <3>1. creps[c] \in SUBSET Reports
        BY DEF Before, TypeOK, ClientsTypeOK
      <3>2. ASSUME NEW r \in creps[c], ResumeLog(r) PROVE Queues
        BY <1>3, <3>1, <3>2 DEF ResumeLog
      <3> QED BY <2>1, <2>4, <3>2, Zenon DEF ResumeCommit
    <2>5. CASE DeleteCommit(c)
      BY <1>2, <2>5 DEF DeleteCommit, Before
    <2>6. CASE ExecDropReports(c)
      BY <1>1, <2>6 DEF ExecDropReports
    <2>7. CASE ExecDropLogs(c)
      BY <1>2, <2>7 DEF ExecDropLogs
    <2>8. CASE ClearCommit(c)
      BY <1>2, <2>8 DEF ClearCommit, Before
    <2> QED BY <1>7, <2>2, <2>3, <2>4, <2>5, <2>6, <2>7, <2>8 DEF ClientContinues
  <1> QED BY <1>1, <1>4, <1>5, <1>6, <1>7 DEF Next

\* Crashes are counted; all other steps leave the count alone.
LEMMA CrashesCount ==
    ASSUME TypeOK, [Next]_vars
    PROVE  /\ restarts' + outages' = 0 => restarts + outages = 0
           /\ Restart => restarts' + outages' # 0
  <1>1. restarts \in Nat /\ outages \in Nat
    BY DEF TypeOK
  <1>2. CASE UNCHANGED <<restarts, outages>> /\ ~Restart
    BY <1>2
  <1>3. CASE Restart
    <2>1. restarts' = restarts + 1 /\ outages' = outages
      BY <1>3 DEF Restart
    <2> QED BY <1>1, <2>1
  <1>4. CASE Outage /\ ~Restart
    <2>1. restarts' = restarts /\ outages' = outages + 1
      BY <1>4 DEF Outage
    <2> QED BY <1>1, <1>4, <2>1
  <1>5. ASSUME NEW w \in Workers, WorkerStep(w) PROVE UNCHANGED <<restarts, outages>>
    BY <1>5 DEF WorkerStep, Claim, Lookup, ResumePrelude, Consume, Load, Register,
           StoreHead, Advance, WriteLog, BundleDone, WriteProgress, StageFails,
           GateSkips, AllChunksFailed, Finish, Record,
           RecordCanceled, CloseCanceled, Steady, faultVars
  <1>6. ASSUME NEW c \in Clients, ClientBegins(c) PROVE UNCHANGED <<restarts, outages>>
    BY <1>6 DEF ClientBegins, EnqueueCheck, ResumeCheck, DeleteStart, ExecStart,
           ClearStart, faultVars
  <1>7. ASSUME NEW c \in Clients, ClientContinues(c) PROVE UNCHANGED <<restarts, outages>>
    BY <1>7 DEF ClientContinues, EnqueueCount, EnqueueInsert, ResumeCommit, DeleteClean,
             DeleteCommit, ExecDropReports, ExecDropLogs, ClearCommit, ClearFiles, faultVars
  <1>8. ASSUME ClearLogs \/ OutageEnds \/ (\E r \in Reports : ExpireIntent(r)) \/ UNCHANGED vars
        PROVE  UNCHANGED <<restarts, outages>>
    BY <1>8 DEF ClearLogs, OutageEnds, ExpireIntent, vars, faultVars
  <1>9. Restart \/ Outage \/ UNCHANGED <<restarts, outages>>
    BY <1>5, <1>6, <1>7, <1>8 DEF Next
  <1> QED BY <1>2, <1>3, <1>4, <1>9

LEMMA NoneLeftNext ==
    ASSUME Before, NoneLeft, [Next]_vars, ~Restart
    PROVE  NoneLeft'
  <1>1. CASE \E w \in Workers : WorkerStep(w)
    BY <1>1, WorkerNoneLeft
  <1>2. CASE ~\E w \in Workers : WorkerStep(w)
    <2>1. Queues /\ UNCHANGED <<wpc, wrep, wlog>>
      BY <1>2, OthersQueue, OthersSpare
    <2> QED BY <2>1 DEF Queues, NoneLeft, LogActive, Held
  <1> QED BY <1>1, <1>2

\* A log that was claimed is closed by the worker that claimed it, or waits
\* again: as long as nothing crashes, EnqueueTask refuses no pair for ever
\* because of a log that nobody will close.
THEOREM NoLogIsOrphaned ==
    ASSUME ~ForeignKey
    PROVE  Spec => []NoOrphanLogInSteadyState
  <1> DEFINE I == RunnerInv /\ (restarts + outages = 0 => NoneLeft)
  <1>1. Init => I
    <2>1. Init => NoneLeft
      BY DEF Init, NoneLeft, LogActive
    <2> QED BY <2>1, RunnerInit
  <1>2. RunnerInv => (restarts + outages = 0 => outages = 0)
    BY DEF RunnerInv, Inv, TypeOK
  <1>3. I /\ [Next]_vars => I'
    <2> SUFFICES ASSUME I, [Next]_vars PROVE I'
      OBVIOUS
    <2>1. /\ RunnerInv'
          /\ restarts' + outages' = 0 => restarts + outages = 0 /\ ~Restart
      BY RunnerNext, CrashesCount DEF RunnerInv, Inv
    <2>2. restarts' + outages' = 0 => outages' = 0
      <3>1. restarts' \in Nat /\ outages' \in Nat
        BY <2>1 DEF RunnerInv, Inv, TypeOK
      <3>2. \A m, n \in Nat : m + n = 0 => n = 0
        OBVIOUS
      <3> QED BY <3>1, <3>2
    <2>3. restarts' + outages' = 0 => Before
      BY <2>2, BeforeStep DEF Reliable
    <2> QED BY <2>1, <2>3, NoneLeftNext
  <1>4. I => NoOrphanLogInSteadyState
    <2> SUFFICES ASSUME I, restarts + outages = 0, NEW r \in Reports, LogActive(r),
                        log[r] # "pending"
                 PROVE  \E w \in Workers : wpc[w] # "idle" /\ wrep[w] = r /\ wlog[w] = logId[r]
      BY DEF NoOrphanLogInSteadyState, NoOrphanLog
    <2>1. Owned
      BY <1>2 DEF RunnerInv, Reliable
    <2>2. PICK w \in Workers : wpc[w] \in Busy /\ wrep[w] = r
      BY DEF NoneLeft, Held
    <2>3. Holds(w) /\ log[r] # "none"
      BY <2>1, <2>2 DEF Owned, Holding, LogActive
    <2> QED BY <2>2, <2>3, LogNames DEF Holds
  <1> QED BY <1>1, <1>3, <1>4, PTL DEF Spec
-----------------------------------------------------------------------------
(* A live report waits or is carried.                                      *)

NotLost == \A r \in LiveReports :
              log[r] = "pending" \/ \E w \in Workers : Carries(w, r)

\* A worker that lets go of its report has closed it, or found it closed.
LEMMA CarriedOn ==
    ASSUME Before, NEW w \in Workers, WorkerStep(w), NEW r \in Reports, Carries(w, r)
    PROVE  Carries(w, r)' \/ report'[r] \notin Live
  <1>1. /\ TypeOK /\ dbUp /\ wrep[w] = r /\ wpc[w] \notin {"idle", "done", "erred"}
        /\ report \in [Reports -> ReportStatus]
    BY DEF Before, Carries, TypeOK, RowsTypeOK
  <1>2. {"failed", "skipped"} \cap Live = {} /\ \A q : ~Exists(q) => report[q] \notin Live
    BY LogNames DEF Exists
  <1>3. ASSUME NEW pc, Step(w, pc), pc \notin {"idle", "done", "erred"}
        PROVE  Carries(w, r)'
    BY <1>1, <1>3, StepFrame DEF Carries
  <1>4. ASSUME NEW s \in {"failed", "skipped"}, SetReport(r, s)
        PROVE  report'[r] \notin Live
    BY <1>1, <1>2, <1>4, SetReportEffect
  <1>5. CASE Claim(w)
    BY <1>1, <1>5 DEF Claim
  <1>6. CASE Lookup(w)
    <2>1. CASE Exists(r)
      BY <1>1, <1>3, <1>6, <2>1 DEF Lookup
    <2>2. CASE ~Exists(r)
      BY <1>2, <1>6, <2>2 DEF Lookup
    <2> QED BY <2>1, <2>2
  <1>7. CASE ResumePrelude(w)
    <2>1. CASE Step(w, "consume")
      BY <1>3, <2>1
    <2>2. CASE UNCHANGED report /\ (~dbUp \/ ~Exists(r) \/ report[r] \notin Live)
      BY <1>1, <1>2, <2>2
    <2>3. CASE SetReport(r, "failed")
      BY <1>4, <2>3
    <2> QED BY <1>1, <1>7, <2>1, <2>2, <2>3 DEF ResumePrelude
  <1>8. CASE Consume(w)
    BY <1>3, <1>8 DEF Consume
  <1>9. CASE Load(w)
    <2>1. CASE Exists(r)
      BY <1>1, <1>3, <1>9, <2>1 DEF Load
    <2>2. CASE ~Exists(r)
      BY <1>2, <1>9, <2>2 DEF Load
    <2> QED BY <2>1, <2>2
  <1>10. CASE Register(w)
    BY <1>3, <1>10 DEF Register
  <1>11. CASE Advance(w)
    <2> DEFINE s == NextStage[wpc[w]]
    <2>1. Midway(w, s, "log") /\ s \notin {"idle", "done", "erred"}
      BY <1>11 DEF Advance, NextStage
    <2> HIDE DEF s
    <2> QED BY <1>1, <2>1, MidwayFrame DEF Carries
  <1>12. CASE StoreHead(w) \/ WriteLog(w) \/ BundleDone(w) \/ WriteProgress(w)
    <2>1. PICK todo : Midway(w, wpc[w], todo)
      BY <1>12 DEF StoreHead, WriteLog, BundleDone, WriteProgress
    <2> QED BY <1>1, <2>1, MidwayFrame DEF Carries
  <1>13. CASE StageFails(w) \/ AllChunksFailed(w)
    BY <1>1, <1>4, <1>13 DEF StageFails, AllChunksFailed
  <1>14. CASE GateSkips(w)
    BY <1>3, <1>14 DEF GateSkips
  <1>15. CASE Finish(w)
    <2>1. PICK v \in {"success", "degraded", "failed"} : SetReport(r, v)
      BY <1>1, <1>15 DEF Finish
    <2>2. v \notin Live
      BY LogNames
    <2> QED BY <1>1, <2>1, <2>2, SetReportEffect
  <1>16. CASE Record(w)
    BY <1>1, <1>4, <1>16 DEF Record
  <1>17. CASE RecordCanceled(w)
    BY <1>3, <1>17 DEF RecordCanceled
  <1>18. CASE CloseCanceled(w)
    BY <1>1, <1>4, <1>18 DEF CloseCanceled
  <1> QED
    BY <1>5, <1>6, <1>7, <1>8, <1>9, <1>10, <1>11, <1>12, <1>13, <1>14, <1>15,
       <1>16, <1>17, <1>18 DEF WorkerStep

LEMMA WorkerNotLost ==
    ASSUME Before, NotLost, NEW w \in Workers, WorkerStep(w)
    PROVE  NotLost'
  <1> SUFFICES ASSUME NEW r \in Reports, report'[r] \in Live
               PROVE  log'[r] = "pending" \/ \E v \in Workers : Carries(v, r)'
    BY DEF NotLost, LiveReports
  <1>1. CASE Claim(w)
    <2>1. PICK q \in Reports :
            log' = [log EXCEPT ![q] = "running"] /\ wrep' = [wrep EXCEPT ![w] = q]
      BY <1>1 DEF Claim
    <2>2. /\ wpc[w] = "idle" /\ wpc' = [wpc EXCEPT ![w] = "claimed"] /\ report' = report
          /\ wpc \in [Workers -> WorkerPc] /\ log \in [Reports -> LogStatus]
          /\ wrep \in [Workers -> Reports \cup {None}]
      BY <1>1 DEF Claim, Before, TypeOK, RowsTypeOK, WorkersTypeOK
    <2>3. CASE r = q
      BY <2>1, <2>2, <2>3 DEF Carries
    <2>4. CASE r # q
      <3>1. log'[r] = log[r]
        BY <2>1, <2>2, <2>4
      <3>2. \A v \in Workers : Carries(v, r) => Carries(v, r)'
        BY <2>1, <2>2 DEF Carries
      <3> QED BY <2>2, <3>1, <3>2 DEF NotLost, LiveReports
    <2> QED BY <2>3, <2>4
  <1>2. CASE ~Claim(w)
    <2>1. Frame(w) /\ (Works(w) \/ Leaves(w) \/ Closes(w))
      BY <1>2, WorkerEffect DEF Before
    <2>2. r \in LiveReports
      BY <2>1 DEF Frame, LiveReports
    <2>3. ASSUME NEW v \in Workers, Carries(v, r) PROVE Carries(v, r)'
      BY <2>1, <2>3, CarriedOn DEF Frame, Carries
    <2>4. ASSUME log[r] = "pending" PROVE log'[r] = "pending"
      <3>1. CASE r # wrep[w]
        BY <2>1, <2>4, <3>1 DEF Frame
      <3>2. CASE r = wrep[w]
        <4>1. wpc[w] \notin Busy
          BY <2>4, <3>2, LogNames DEF Before, Owned, Holding, Holds, Taken
        <4> QED BY <2>1, <2>4, <4>1 DEF Works, Leaves, Closes
      <3> QED BY <3>1, <3>2
    <2> QED BY <2>2, <2>3, <2>4 DEF NotLost
  <1> QED BY <1>1, <1>2

\* The other steps keep a waiting log, or the report is gone, or it is one
\* that a resume or an enqueue has queued.
Waits == \A r \in Reports :
    report'[r] \in Live =>
       \/ log'[r] = "pending"
       \/ report[r] \in Live /\ log[r] # "pending"

LEMMA OthersWait ==
    ASSUME Before, [Next]_vars, ~Restart, ~\E w \in Workers : WorkerStep(w)
    PROVE  Waits
  <1>1. ASSUME UNCHANGED <<report, log>> PROVE Waits
    BY <1>1 DEF Waits
  <1>2. CASE (\E r \in Reports : ExpireIntent(r)) \/ Outage \/ OutageEnds \/ UNCHANGED vars
    <2>1. UNCHANGED dbVars
      BY <1>2 DEF ExpireIntent, Outage, OutageEnds, vars
    <2> QED BY <1>1, <2>1 DEF dbVars
  <1>3. ASSUME NEW S \in SUBSET Reports, DropLogs(S),
               \/ UNCHANGED report /\ \A r \in S : log[r] # "pending" \/ report[r] \notin Live
               \/ DropReports(S)
        PROVE  Waits
    <2>1. \A r \in Reports \ S : log'[r] = log[r]
      BY <1>3 DEF DropLogs
    <2>2. \A r \in Reports \ S : report'[r] = report[r]
      BY <1>3 DEF DropReports
    <2>3. \A r \in S : report'[r] \in Live => report[r] \in Live /\ log[r] # "pending"
      <3>1. CASE UNCHANGED report /\ \A r \in S : log[r] # "pending" \/ report[r] \notin Live
        BY <3>1
      <3>2. CASE DropReports(S)
        BY <3>2, LogNames DEF DropReports
      <3> QED BY <1>3, <3>1, <3>2
    <2> QED BY <2>1, <2>2, <2>3 DEF Waits
  <1>4. CASE ClearLogs
    <2> DEFINE S == {r \in Reports : log[r] \in Terminal}
    <2>1. DropLogs(S) /\ UNCHANGED report /\ \A r \in S : log[r] # "pending"
      BY <1>4, LogNames DEF ClearLogs
    <2>2. S \in SUBSET Reports
      OBVIOUS
    <2> HIDE DEF S
    <2> QED BY <1>3, <2>1, <2>2
  <1>5. ASSUME NEW c \in Clients, ClientBegins(c) PROVE UNCHANGED <<report, log>>
    BY <1>5 DEF ClientBegins, EnqueueCheck, ResumeCheck, DeleteStart, ExecStart,
           ClearStart, dbVars
  <1>6. ASSUME NEW c \in Clients, ClientContinues(c) PROVE Waits
    <2>1. /\ dbUp /\ creps[c] \in SUBSET Reports
          /\ log \in [Reports -> LogStatus] /\ report \in [Reports -> ReportStatus]
      BY DEF Before, TypeOK, RowsTypeOK, ClientsTypeOK
    <2>2. ASSUME UNCHANGED dbVars PROVE Waits
      BY <1>1, <2>2 DEF dbVars
    <2>3. CASE EnqueueCount(c) \/ DeleteClean(c) \/ ClearFiles(c)
      BY <2>2, <2>3 DEF EnqueueCount, DeleteClean, ClearFiles
    <2>4. CASE EnqueueInsert(c)
      <3>1. ASSUME NEW r \in Reports, Create(r) PROVE Waits
        BY <2>1, <3>1 DEF Create, Waits
      <3> QED BY <2>2, <2>4, <3>1 DEF EnqueueInsert
    <2>5. CASE ResumeCommit(c)
      <3>1. ASSUME NEW r \in Reports, ResumeLog(r), UNCHANGED report PROVE Waits
        BY <2>1, <3>1 DEF ResumeLog, Waits
      <3> QED BY <2>1, <2>2, <2>5, <3>1, Zenon DEF ResumeCommit
    <2>6. CASE DeleteCommit(c)
      BY <1>3, <2>1, <2>6 DEF DeleteCommit
    <2>7. CASE ExecDropReports(c)
      <3>1. \A r \in Reports : report'[r] \in {report[r], "deleted"}
        BY <2>7 DEF ExecDropReports, DropReports
      <3> QED BY <2>7, <3>1, LogNames DEF ExecDropReports, Waits
    <2>8. CASE ExecDropLogs(c)
      <3> DEFINE S == {r \in Reports : dbUp /\ log[r] # "none" /\ logId[r] \in clogs[c]}
      <3>1. DropLogs(S) /\ UNCHANGED report /\ cpc[c] = "exec_log"
        BY <2>8 DEF ExecDropLogs
      <3>2. \A r \in S : report[r] \notin Live
        BY <3>1, LogNames DEF Before, Owned, Dropping, Aims
      <3>3. S \in SUBSET Reports
        OBVIOUS
      <3> HIDE DEF S
      <3> QED BY <1>3, <3>1, <3>2, <3>3
    <2>9. CASE ClearCommit(c)
      BY <1>3, <2>1, <2>9 DEF ClearCommit
    <2> QED BY <1>6, <2>3, <2>4, <2>5, <2>6, <2>7, <2>8, <2>9 DEF ClientContinues
  <1> QED BY <1>1, <1>2, <1>4, <1>5, <1>6 DEF Next

LEMMA RestartNotLost ==
    ASSUME ~ForeignKey, StaleActions \subseteq {"recover", "delete"}, Restart
    PROVE  NotLost'
  <1>1. CASE Recover
    BY <1>1, LogNames DEF Recover, NotLost, LiveReports
  <1>2. CASE Discard
    <2>1. \A r \in LiveReports : Removable({r}) = {r}
      BY DEF Removable
    <2>2. \A r \in Reports : report'[r] \notin Live
      BY <1>2, <2>1, LogNames DEF Discard, DropReports, LiveReports
    <2> QED BY <2>2 DEF NotLost, LiveReports
  <1> QED BY <1>1, <1>2 DEF Restart

LEMMA NotLostNext ==
    ASSUME Before, NotLost, [Next]_vars, StaleActions \subseteq {"recover", "delete"}
    PROVE  NotLost'
  <1>1. CASE Restart
    BY <1>1, RestartNotLost DEF Before, Reliable
  <1>2. CASE \E w \in Workers : WorkerStep(w)
    BY <1>2, WorkerNotLost
  <1>3. CASE ~Restart /\ ~\E w \in Workers : WorkerStep(w)
    <2>1. Waits /\ UNCHANGED <<wpc, wrep, wlog>>
      BY <1>3, OthersWait, OthersSpare
    <2> QED BY <2>1 DEF Waits, NotLost, LiveReports, Carries
  <1> QED BY <1>1, <1>2, <1>3

\* A live report waits in the queue or is carried by a worker that will close
\* it, whatever handlers do and after every crash that RecoverPendingTasks
\* repairs, until a statement fails: it cannot block its pair for ever.
THEOREM NoScanIsLost == Spec => []NoLostScan
  <1> DEFINE Cond == ~ForeignKey /\ StaleActions \subseteq {"recover", "delete"}
             I == RunnerInv /\ (Cond /\ outages = 0 => NotLost)
  <1>1. Init => I
    <2>1. Init => NotLost
      BY LogNames DEF Init, NotLost, LiveReports
    <2> QED BY <2>1, RunnerInit
  <1>2. I /\ [Next]_vars => I'
    <2> SUFFICES ASSUME I, [Next]_vars, Cond, outages' = 0 PROVE NotLost'
      BY RunnerNext
    <2>1. outages = 0
      BY OutagesCount DEF RunnerInv, Inv
    <2>2. Before
      BY BeforeStep DEF Reliable
    <2> QED BY <2>1, <2>2, NotLostNext
  <1>3. I => NoLostScan
    BY DEF NoLostScan, NotLost
  <1> QED BY <1>1, <1>2, <1>3, PTL DEF Spec
-----------------------------------------------------------------------------
(* The limit of the queue.                                                 *)

Room == Cardinality(Pending) + Cardinality(Entering)
            < MaxQueueSize + Cardinality(Clients)

\* Sets that shrink, and one that gains an element.
LEMMA Shrinks ==
    ASSUME NEW S, IsFiniteSet(S), NEW A \in SUBSET S, NEW B \in SUBSET A
    PROVE  /\ Cardinality(A) \in Nat /\ Cardinality(B) \in Nat
           /\ Cardinality(B) <= Cardinality(A)
  BY FS_Subset, FS_CardinalityType

LEMMA Gains ==
    ASSUME NEW S, IsFiniteSet(S), NEW A \in SUBSET S, NEW x, NEW B \in SUBSET (A \cup {x})
    PROVE  Cardinality(B) <= Cardinality(A) + 1
  <1>1. IsFiniteSet(A) /\ Cardinality(A) \in Nat
    BY FS_Subset, FS_CardinalityType
  <1>2. /\ IsFiniteSet(A \cup {x}) /\ Cardinality(A \cup {x}) \in Nat
        /\ Cardinality(A \cup {x}) <= Cardinality(A) + 1
    <2>1. CASE x \in A
      <3>1. A \cup {x} = A
        BY <2>1
      <3>2. Cardinality(A \cup {x}) = Cardinality(A) /\ IsFiniteSet(A \cup {x})
        BY <1>1, <3>1, Zenon
      <3> QED BY <1>1, <3>2
    <2>2. CASE x \notin A
      <3>1. IsFiniteSet(A \cup {x}) /\ Cardinality(A \cup {x}) = Cardinality(A) + 1
        BY <1>1, <2>2, FS_AddElement
      <3> QED BY <1>1, <3>1
    <2> QED BY <2>1, <2>2
  <1>3. Cardinality(B) \in Nat /\ Cardinality(B) <= Cardinality(A \cup {x})
    BY <1>2, FS_Subset, FS_CardinalityType
  <1> QED BY <1>1, <1>2, <1>3

LEMMA Loses ==
    ASSUME NEW S, IsFiniteSet(S), NEW A \in SUBSET S, NEW x \in A, NEW B \in SUBSET (A \ {x})
    PROVE  Cardinality(B) + 1 <= Cardinality(A)
  <1>1. IsFiniteSet(A) /\ Cardinality(A) \in Nat
    BY FS_Subset, FS_CardinalityType
  <1>2. IsFiniteSet(A \ {x}) /\ Cardinality(A \ {x}) = Cardinality(A) - 1
    BY <1>1, FS_RemoveElement
  <1>3. Cardinality(B) \in Nat /\ Cardinality(B) <= Cardinality(A \ {x})
    BY <1>2, FS_Subset, FS_CardinalityType
  <1> QED BY <1>1, <1>2, <1>3

LEMMA Sizes ==
    /\ Cardinality(Pending) \in Nat /\ Cardinality(Entering) \in Nat
    /\ Cardinality(Pending') \in Nat /\ Cardinality(Entering') \in Nat
    /\ Cardinality(Clients) \in Nat /\ MaxQueueSize \in Int
    /\ Cardinality(Entering) <= Cardinality(Clients)
    /\ Cardinality(Entering') <= Cardinality(Clients)
  <1>1. /\ Pending \in SUBSET Reports /\ Pending' \in SUBSET Reports
        /\ Entering \in SUBSET Clients /\ Entering' \in SUBSET Clients
    BY DEF Pending, Entering
  <1>2. Clients \in SUBSET Clients /\ Reports \in SUBSET Reports
    OBVIOUS
  <1> HIDE DEF Pending, Entering
  <1> QED BY <1>1, <1>2, Shrinks, ReportsAssumption, ClientsAssumption, SettingsAssumption

\* A step that puts nothing into the queue and passes no test.
LEMMA RoomKept ==
    ASSUME Room, Pending' \subseteq Pending, Entering' \subseteq Entering
    PROVE  Room'
  <1>1. Pending \in SUBSET Reports /\ Entering \in SUBSET Clients
    BY DEF Pending, Entering
  <1>2. Cardinality(Pending') <= Cardinality(Pending)
    BY <1>1, Shrinks, ReportsAssumption
  <1>3. Cardinality(Entering') <= Cardinality(Entering)
    BY <1>1, Shrinks, ClientsAssumption
  <1> QED BY <1>2, <1>3, Sizes DEF Room

\* A request passes the test: there is room for one more of every client.
LEMMA RoomTested ==
    ASSUME ~AtLimit, MaxQueueSize > 0, UNCHANGED log
    PROVE  Room'
  <1>1. Pending' = Pending
    BY DEF Pending
  <1>2. Cardinality(Pending') < MaxQueueSize
    BY <1>1, Sizes DEF AtLimit
  <1> QED BY <1>2, Sizes DEF Room

\* A request in flight adds a log to the queue, and has arrived.
LEMMA RoomTaken ==
    ASSUME Room, NEW r \in Reports, Pending' \subseteq Pending \cup {r},
           NEW c \in Entering, Entering' \subseteq Entering \ {c}
    PROVE  Room'
  <1>1. Pending \in SUBSET Reports /\ Entering \in SUBSET Clients
    BY DEF Pending, Entering
  <1>2. Cardinality(Pending') <= Cardinality(Pending) + 1
    BY <1>1, Gains, ReportsAssumption
  <1>3. Cardinality(Entering') + 1 <= Cardinality(Entering)
    BY <1>1, Loses, ClientsAssumption
  <1> QED BY <1>2, <1>3, Sizes DEF Room

LEMMA DropPending == ASSUME NEW S, DropLogs(S) PROVE Pending' \subseteq Pending
  BY DEF DropLogs, Pending

LEMMA WorkerRoom ==
    ASSUME TypeOK, Room, NEW w \in Workers, WorkerStep(w)
    PROVE  Room'
  <1>1. CASE Claim(w)
    <2>1. PICK r \in Reports : log' = [log EXCEPT ![r] = "running"]
      BY <1>1 DEF Claim
    <2>2. Pending' \subseteq Pending /\ cpc' = cpc
      BY <1>1, <2>1 DEF Claim, Steady, clientVars, Pending, TypeOK, RowsTypeOK
    <2>3. Entering' = Entering
      BY <2>2 DEF Entering
    <2> QED BY <2>2, <2>3, RoomKept
  <1>2. CASE ~Claim(w)
    <2>1. wpc[w] # "idle" /\ Frame(w) /\ (Works(w) \/ Leaves(w) \/ Closes(w))
      BY <1>2, WorkerEffect
    <2>2. wrep[w] \in Reports
      BY <2>1 DEF TypeOK, WorkersTypeOK
    <2>3. log'[wrep[w]] = "pending" => log[wrep[w]] = "pending"
      <3>1. CASE Works(w)
        BY <3>1, LogNames DEF Works
      <3>2. CASE Leaves(w)
        <4>1. PICK s \in Terminal : SetLog(wrep[w], wlog[w], s)
          BY <3>2 DEF Leaves
        <4>2. s # "none" /\ s # "pending"
          BY LogNames
        <4> QED BY <2>2, <4>1, <4>2, SetLogEffect
      <3>3. CASE Closes(w)
        BY <3>3 DEF Closes
      <3> QED BY <2>1, <3>1, <3>2, <3>3
    <2>4. Pending' \subseteq Pending
      BY <2>1, <2>3 DEF Frame, Pending
    <2>5. Entering' = Entering
      BY <2>1 DEF Frame, Entering
    <2> QED BY <2>4, <2>5, RoomKept
  <1> QED BY <1>1, <1>2

LEMMA LeftFlight ==
    ASSUME TypeOK, NEW c \in Clients, NEW pc, NEW p, NEW S, NEW ids,
           GoTo(c, pc, p, S, ids),
           pc \notin {"enq_count", "enq_insert", "resume_tx"}
    PROVE  Entering' \subseteq Entering \ {c}
  BY GoToFrame DEF Entering, Untouched

LEMMA BeginsRoom ==
    ASSUME TypeOK, Room, dbUp, MaxQueueSize > 0, NEW c \in Clients, ClientBegins(c)
    PROVE  Room'
  <1>1. CASE (\E p \in Pairs : EnqueueCheck(c, p)) \/ (\E r \in Reports : ResumeCheck(c, r))
    <2>1. ~AtLimit /\ UNCHANGED log
      BY <1>1 DEF EnqueueCheck, ResumeCheck, dbVars
    <2> QED BY <2>1, RoomTested
  <1>2. ASSUME NEW pc \in {"del_clean", "exec_report", "inv_tx"}, NEW S, NEW ids,
               GoTo(c, pc, None, S, ids), UNCHANGED log
        PROVE  Room'
    <2>1. Pending' = Pending
      BY <1>2 DEF Pending
    <2>2. Entering' \subseteq Entering
      BY <1>2, LeftFlight
    <2> QED BY <2>1, <2>2, RoomKept
  <1>3. ASSUME NEW r \in Reports, DeleteStart(c, r) PROVE Room'
    BY <1>2, <1>3 DEF DeleteStart, Handling, dbVars
  <1>4. ASSUME NEW S \in SUBSET Reports, ExecStart(c, S) PROVE Room'
    BY <1>2, <1>4 DEF ExecStart, Deleting, dbVars
  <1>5. CASE ClearStart(c)
    BY <1>2, <1>5 DEF ClearStart, Handling, dbVars
  <1> QED BY <1>1, <1>3, <1>4, <1>5 DEF ClientBegins

LEMMA ContinuesRoom ==
    ASSUME TypeOK, Room, NEW c \in Clients, ClientContinues(c)
    PROVE  Room'
  <1>1. log \in [Reports -> LogStatus] /\ creps[c] \in SUBSET Reports
    BY DEF TypeOK, RowsTypeOK, ClientsTypeOK
  <1>2. ASSUME UNCHANGED dbVars PROVE Pending' = Pending
    BY <1>2 DEF dbVars, Pending
  <1>3. Leave(c) => Entering' \subseteq Entering \ {c}
    BY LeftFlight DEF Leave
  <1>4. CASE EnqueueCount(c)
    <2>1. Entering' \subseteq Entering
      <3>1. c \in Entering
        BY <1>4 DEF EnqueueCount, Entering
      <3>2. PICK pc, p : GoTo(c, pc, p, {}, {})
        BY <1>4 DEF EnqueueCount, Leave, Enqueuing
      <3> QED BY <3>1, <3>2, GoToFrame DEF Entering, Untouched
    <2> QED BY <1>2, <1>4, <2>1, RoomKept DEF EnqueueCount
  <1>5. CASE EnqueueInsert(c)
    <2>1. c \in Entering /\ Entering' \subseteq Entering \ {c}
      BY <1>3, <1>5 DEF EnqueueInsert, Entering
    <2>2. ASSUME NEW r \in Reports, Create(r) PROVE Pending' \subseteq Pending \cup {r}
      BY <1>1, <2>2 DEF Create, Pending
    <2> QED BY <1>2, <1>5, <2>1, <2>2, RoomTaken, RoomKept DEF EnqueueInsert
  <1>6. CASE ResumeCommit(c)
    <2>1. c \in Entering /\ Entering' \subseteq Entering \ {c}
      BY <1>3, <1>6 DEF ResumeCommit, Entering
    <2>2. ASSUME NEW r \in creps[c], ResumeLog(r) PROVE Room'
      <3>1. Pending' \subseteq Pending \cup {r}
        BY <1>1, <2>2 DEF ResumeLog, Pending
      <3> QED BY <1>1, <2>1, <3>1, RoomTaken
    <2>3. CASE UNCHANGED dbVars
      BY <1>2, <2>1, <2>3, RoomKept
    <2> QED BY <1>6, <2>2, <2>3, Zenon DEF ResumeCommit
  <1>7. ASSUME NEW pc \in {"del_tx", "exec_log", "inv_clean", "idle"}, NEW p, NEW S, NEW ids,
               GoTo(c, pc, p, S, ids), Pending' \subseteq Pending
        PROVE  Room'
    <2>1. Entering' \subseteq Entering
      BY <1>7, LeftFlight
    <2> QED BY <1>7, <2>1, RoomKept
  <1>8. CASE DeleteClean(c) \/ ClearFiles(c)
    BY <1>2, <1>7, <1>8 DEF DeleteClean, ClearFiles, Handling, Leave
  <1>9. CASE DeleteCommit(c)
    <2>1. Pending' \subseteq Pending
      BY <1>2, <1>9, DropPending DEF DeleteCommit
    <2> QED BY <1>7, <1>9, <2>1 DEF DeleteCommit, Leave
  <1>10. CASE ExecDropReports(c)
    <2>1. Pending' \subseteq Pending
      BY <1>10 DEF ExecDropReports, Pending
    <2> QED BY <1>7, <1>10, <2>1 DEF ExecDropReports, Deleting
  <1>11. CASE ExecDropLogs(c)
    <2>1. Pending' \subseteq Pending
      BY <1>11, DropPending DEF ExecDropLogs
    <2> QED BY <1>7, <1>11, <2>1 DEF ExecDropLogs, Leave
  <1>12. CASE ClearCommit(c)
    <2>1. Pending' \subseteq Pending
      BY <1>2, <1>12, DropPending DEF ClearCommit
    <2> QED BY <1>7, <1>12, <2>1 DEF ClearCommit, Handling, Leave
  <1> QED BY <1>4, <1>5, <1>6, <1>8, <1>9, <1>10, <1>11, <1>12 DEF ClientContinues

LEMMA RoomNext ==
    ASSUME TypeOK, Room, dbUp, MaxQueueSize > 0, [Next]_vars, ~Restart
    PROVE  Room'
  <1>1. CASE (\E r \in Reports : ExpireIntent(r)) \/ Outage \/ OutageEnds \/ UNCHANGED vars
    <2>1. UNCHANGED <<log, cpc>>
      BY <1>1 DEF ExpireIntent, Outage, OutageEnds, vars, dbVars, clientVars
    <2> QED BY <2>1, RoomKept DEF Pending, Entering
  <1>2. CASE ClearLogs
    <2>1. Pending' \subseteq Pending /\ UNCHANGED cpc
      BY <1>2, DropPending DEF ClearLogs, clientVars
    <2> QED BY <2>1, RoomKept DEF Entering
  <1> QED BY <1>1, <1>2, WorkerRoom, BeginsRoom, ContinuesRoom DEF Next

\* max_queue_size is tested outside the transaction that adds to the queue,
\* so the queue can exceed it, but only by the requests that have passed the
\* test and are still on their way, and by no more once they have arrived.
THEOREM QueueIsBounded == Spec => []PendingBound
  <1> DEFINE NoFault == MaxQueueSize > 0 /\ restarts + outages = 0
             I == RunnerInv /\ (NoFault => Room)
  <1>1. Init => I
    <2> SUFFICES ASSUME Init, MaxQueueSize > 0 PROVE Room
      BY RunnerInit
    <2>1. Pending = {} /\ Entering = {}
      BY DEF Init, Pending, Entering
    <2>2. Cardinality(Pending) = 0 /\ Cardinality(Entering) = 0
      BY <2>1, FS_EmptySet
    <2> QED BY <2>2, Sizes DEF Room
  <1>2. I /\ [Next]_vars => I'
    <2> SUFFICES ASSUME I, [Next]_vars, NoFault' PROVE Room'
      BY RunnerNext
    <2>1. restarts + outages = 0 /\ ~Restart /\ TypeOK
      BY CrashesCount DEF RunnerInv, Inv
    <2>2. outages = 0
      <3>1. restarts \in Nat /\ outages \in Nat
        BY <2>1 DEF TypeOK
      <3>2. \A m, n \in Nat : m + n = 0 => n = 0
        OBVIOUS
      <3> QED BY <2>1, <3>1, <3>2
    <2>3. dbUp
      BY <2>2 DEF RunnerInv, Answering
    <2> QED BY <2>1, <2>3, RoomNext
  <1>3. I => PendingBound
    BY Sizes DEF PendingBound, Room
  <1> QED BY <1>1, <1>2, <1>3, PTL DEF Spec
=============================================================================
