# Code Shield: a TLA+ model of the scan pipeline

Code Shield scans git repositories with language models. An HTTP server (Go,
gin, PostgreSQL through GORM) queues scans, a pool of worker goroutines runs
them through six stages, and every call of a model passes through a dispatcher
that rations the slots of the model servers. This directory holds the TLA+
modules that model the parts of this program where interleavings, crashes,
failing statements and limits matter, the TLC configurations that check them on
small instances, and proofs that TLAPS checks for instances of any size.

    TaskQueue.tla               task queue, scan lifecycle, handlers, recovery
    ScanLedger.tla              abstract: what a row of task_reports may do
    TaskQueueProofs.tla         type correctness of TaskQueue
    TaskQueueLedgerProofs.tla   TaskQueue implements ScanLedger; one live scan
    TaskQueueRunnerProofs.tla   one runner, progress, no lost scan, queue bound
    SlotPool.tla                slots of the model servers
    SlotPoolProofs.tla          types, lost slots, exact counters, capacity
    Throttle.tla                how fast scans may run: overrides, probe, hours
    ThrottleProofs.tla          all its safety properties
    TierRecovery.tla            operators: what follows a failed attempt
    Debate.tla                  an analysis: bundles, stages, checkpoints, coverage
    DebateProofs.tla            verdicts and the number of calls
    DebateLedgerProofs.tla      accounts, coverage, checkpoints, semaphore
    DefectLedger.tla            defects across scans: matching, commit, people
    DefectLedgerProofs.tla      its invariants and what a commit may do
    MC*.tla, MC*.cfg            the instances TLC checks

`PROJECT.json` lists components, runs, mutants, the code every definition
stands for, findings, hazards and theorems.

## 1. The system

### 1.1 Components

**Task queue** (`services/queue/queue.go`). State: the tables `task_reports`
(one row per scan, `status`) and `task_execution_logs` (one row per execution,
`status`, `is_resume`, `task_report_id`), a partial unique index on live
reports of a (repository, task type) pair, the worker goroutines, the pause
switch, the in-flight counter. Operations: `EnqueueTaskWithTriggerLog`,
`EnqueueResumeTask`, `fetchNextPendingTask` (claim), `worker` (records the
outcome), `RecoverPendingTasks` at startup, `StartWorkerPool`,
`ResizeWorkerPool`. Hard: handlers and workers share no lock but the database,
and the two rows of a scan are mostly written by separate statements whose
errors are dropped. Correct when: a pair has one live scan, a scan is run by one
worker, none is lost or blocks its pair for ever, also across a crash.

**Scan lifecycle** (`services/runner/*.go`). State: `activeTasks` (cancel
functions of running scans), `cancelRequests` (cancels that found no runner,
valid for 5 minutes), the status of both rows. Operations: `RunTaskSync` with
its stages prepare, clone, pre-process, analyze, synthesize, post-process,
merge; `CancelRunningTask`, `consumeCancelRequest`, `MarkFailed`, `Finalize`,
`UpdateTaskStatus`, `UpdateTaskProgress`. Hard: cancels race with claims, the
report may be deleted or closed under the runner. Correct when: a verdict is
final, both rows show the stage of the runner, a cancel takes effect.

**Queue and report handlers** (`handlers/task.go`, `handlers/schedule.go`).
Stateless; each reads rows, cancels runners, then deletes or updates rows and
files in several steps. **Cron jobs** (`cron_jobs/jobs.go`) enqueue like a
handler. **Server start and shutdown** (`main.go`): recovery, then the pool,
then the HTTP server.

**Resource dispatcher** (`services/dispatcher`: `dispatcher.go`, `lease.go`,
`wrapper.go`, `tier.go`). State: the resources with their `Active` counters,
`enabled`, `waitingCallers`, leases, a condition variable. Operations: acquire
(scoped to a list of resources), release, hot reload, reset of the counters,
candidate choice by weight. Hard: waits on a condition variable, counters
moved by hand, objects replaced while calls hold them. Correct when: a server
never runs more calls than its limit, no slot is lost, every waiter is woken.

**Throttling** (`adaptive.go`, `health.go`). State: the manual override with its
end and its timer, the work hours, the adaptive scale with its counters, the
probe goroutine; the override is also in the row of `system_configs`.
Operations: `SetScale`, `RestoreManualScale`, the sweep of an override whose
time is over, heartbeat, probe and AIMD step, restart, the settings page. Hard:
a timer that went off while a new override is being set; two places that start
the probe worker; a request that writes an old row back. Correct when: an
override ends, is not ended by the timer of another, survives a crash, and the
adaptive scale rises only when earned and always comes back.

**Tier recovery** (`recovery.go`): retries on a resource, failover to another,
split of a call that fails, within one budget. Correct when: bounded, whatever
the configuration and the errors.

**Debate engine** (`services/engines/debate`). State: the bundles with their
goroutines and the semaphore, the merged details and records, the checkpoints
on disk. Operations: `Run` with reuse, start and merge; in each bundle hunter,
challenger, judge, or the specialized assessment; split, second pass, checkpoint;
cancel and resume. Hard: goroutines merge while the main loop goes on; the
working tree is shared with scans of other task types; a cancel at any point.
Correct when: no bundle or candidate is lost or counted twice, a resume reuses
only what is fresh, and the run ends.

**Coverage ledger** (`services/coverage`, and the reconciliation in
`engines/engine.go`): which units were planned, analysed, failed, and the state
of the coverage that decides the status of the report. Correct when: a complete
coverage is true.

**Defect lifecycle ledger** and **defect matching** (`services/defectlifecycle`).
State: the tables of defects (with `row_version`), observations, SYSTEM events,
aliases, `ledger_committed_at` of the reports. Operations: `PersistScanFacts`
(snapshot, matching, one transaction with rollback, creation, update, lifecycle
advance; conflict retry), status changes, merges, splits, bindings by people,
retention. Hard: the matching reads without a lock what the commit writes
later; two scans of a pair finish in any order; people decide in between.
Correct when: nobody's decision is lost, no finding disappears, nothing is
resolved without evidence, an old report never overwrites a later one.

**Debate artifacts, assessment pipeline, planner and chunker**: deterministic
transformations of text, code and findings. **Governance**, **AI invokers**,
**configuration and users handlers**, **reports and exporters**, **frontend**:
see `PROJECT.json`.

### 1.2 How they interact

    handlers, cron ──enqueue/resume──▶ task_execution_logs ◀──claim── workers
         │  cancel                        task_reports                  │
         └──────────▶ runner maps ◀──── register / consume ──── RunTaskSync
                                                                        │
                      engines (debate, assessment) ◀────────────────────┤
                                │  every model call          findings   ▼
                                │                       defect ledger ◀── people
                                ▼
      tier recovery ─▶ dispatcher (slots, leases) ─▶ invoker ─▶ model server
                                ▲
      throttling (manual, hours, probe), hot reload, reset

Workers ask the dispatcher whether to claim (`CanAdmitNewTask`), and the release
of a slot wakes idle workers.

### 1.3 Hazards

`PROJECT.json` lists the hazards of this code with their lines: what a test can
hardly reach, and the properties that catch it. Five have no property; each
carries a note, and section 11 says why.

## 2. Plan

| module | abstract specification | checked | proved |
|---|---|---|---|
| TaskQueue, ScanLedger | ScanLedger | safety, refinement, liveness | types, refinement, every safety property of its passing runs |
| SlotPool | | safety, liveness | types and every safety property of its passing runs |
| Throttle | | safety, liveness | types and every safety property |
| TierRecovery, Debate | | safety, liveness | types and every safety property |
| DefectLedger | | safety | types and every safety property |
| WorkerPool | | not written | |

Which module stands next to which: Debate EXTENDS TierRecovery and applies its
decisions to the hunter. TaskQueue's step `analyze` is a run of Debate, whose
result is the choice TaskQueue makes among success, degraded and failed; the
`Switch` of Debate is a scan of another task type of TaskQueue. A scan of
DefectLedger is the end of that step. A call of Debate is a request of SlotPool;
`SetScale` of SlotPool stands for every change of the scale that Throttle
computes. The modules are checked side by side, not in one state space: what one
takes from another is a free choice in it, so that it holds whatever the other
does.

WorkerPool would be next: the number of workers while `ResizeWorkerPool` calls
overlap, the wake-up channel, pause and back-pressure.

## 3. TaskQueue

### 3.1 State and steps

A scan is an element of `Reports`; `report[r]` is the status of its row,
`log[r]`, `logId[r]`, `isResume[r]` its execution log. The code links at most
one log to a report: enqueueing creates the pair of rows, and resume and
recovery create a log only if none is left. `unborn` and `deleted` stand for
rows that do not exist; a row id is never reused. `wpc[w]` is the position of a
worker in its loop: `claimed`, `resume`, `consume`, `load`, `register`,
`prepare`, the six stages, a return value, `cancel_report`; `wtodo[w]` is the
statement its runner issues next, where a function writes several. `cpc[c]` is
the position of a request in its handler, with the rows it has read
(`creps`, `clogs`).

One action is one SQL statement, one transaction, or one critical section of
the runner's maps. The end of a stage is `Advance`, the statement of
`UpdateTaskStatus` on the report, and then `WriteLog`, the one on the log; after
the clone `StoreHead` writes the head commit first, and finds that the row was
closed or deleted. A bundle that ends is `BundleDone` (its checkpoint, and the
status that `UpdateTaskProgress` reads), `WriteProgress` (the counters, and the
status if it lagged behind) and `WriteLog`. Requests, other workers and crashes
come between any two of them. Exceptions, all towards coarser steps of a single
goroutine:

* `CancelRunningTask` looks up the runner and otherwise stores the intent in two
  critical sections; they are one action.
* The checks a handler makes before a transaction that makes them again are
  part of that transaction (`DeleteTaskReport`); where the transaction does not
  repeat them they are steps of their own (`EnqueueCheck`, `ResumeCheck`).
* `RecoverPendingTasks` runs before any other goroutine exists and is one step
  of `Restart`; a server that crashes again in the middle of it is not modelled.

Guards the model replaces by a choice: when a worker claims (pause switch,
back-pressure, sleep), the verdict of the coverage, and how a stage ends. The
lock around the synchronisation of a repository is not modelled: a scan may stay
in `prepare` for any time. `TriggerTask`, schedules and re-scans enqueue like
any client.

### 3.2 Failures

*Crash* (`Restart`): all goroutines and both maps of the runner vanish at any
point, then `main` recovers according to the `-stale` flag (`StaleActions`). A
graceful shutdown cancels the runners, which is `StageFails` and then a crash.

*Outage*: between `Outage` and `OutageEnds` every statement fails. The code's
reaction is kept for each statement: an error that returns, one that closes the
log, one that is dropped. A restart needs the database.

*ForeignKey*: whether `task_execution_logs.task_report_id` is a foreign key is
decided by the library that migrates the schema, outside this repository (the
comment at `models/db.go:297` suggests it is). With it,
`DeletePendingExecution` deletes the report in vain, then the log in a second
statement, without looking at errors; the report stays live with no log. TLC
then finds a behaviour in which a cancel is lost as well and a resume gives the
report to a second worker. `SingleRunner` and `NoLostScan` are hence
checked without the foreign key, the ledger with and without it. Foreign
keys of other tables are not modelled.

### 3.3 Properties and runs

| run | instance | what it shows |
|---|---|---|
| queue_concurrent | 2 workers, 2 requests, 2 scans of one pair | `TypeOK`; `OneLiveReport`; `ProgressAgrees`: report and log show the stage of the worker as long as both exist, the log the stage before while its statement is still to come |
| queue_resume | one scan that can be resumed, 2 workers, 2 requests, 1 crash | `SingleRunner`; `NoLostScan`; refinement of `ScanLedger`; `ScanEnds` (liveness) |
| queue_faults | foreign key, every `-stale` action, 1 crash or outage | refinement of `ScanLedger` under failing statements |
| queue_limit | 2 pairs, 2 requests, 1 worker, limit 1, no faults | `NoOrphanLogInSteadyState`; `PendingBound`: requests that test the size at the same time exceed the limit, by one for each other request at most |
| queue_cancel | violation | `CancelReachesRunner`: what the comment at `handlers/schedule.go:316` says |
| queue_crash | violation | `NoOrphanLog`: what `main.go:82` says of recovery |

Bounds. In queue_concurrent two scans compete for a pair or follow one another,
with two workers and two requests for every pairwise interleaving. In
queue_resume one request cancels a scan while the other resumes it: the resume
may commit between the two statements by which the worker closes the cancelled
scan (`RecordCanceled`, `CloseCanceled`), and the second worker may claim it
before the first has closed the report, with a crash at any point. In
queue_limit both requests pass the test of the size before either inserts, so
that two scans wait where one may. `MaxLogs` leaves more logs than there are
reports, for a resume that has to create one; one fault is placed at every point.
Workers and requests are interchangeable; symmetry is used in the runs without
liveness only. The model may run out of reports and logs; no run turns deadlock
checking off for TaskQueue, since clients can always ask again.

Fairness (`FairSpec`, for `ScanEnds` only): a worker keeps taking steps because
it polls every two seconds and because git and model calls have deadlines, as
long as the queue is not paused for ever and the back-pressure lets go; a
handler, once started, goes on. The end of the analysis (`AnalysisEnds`) is
strongly fair: a scan has finitely many bundles, which the model does not count,
so that their reports cannot keep it from ending. Requests, cancels and faults
are never forced. `ScanEnds` begins with a scan that waits; with one
scan it says nothing of the order in which several are claimed.

## 4. SlotPool

### 4.1 State and steps

`Servers` are resource keys (`ResourceKey`), `Objects` the `ModelResource`
structures: a hot reload keeps the object of a key that stays and allocates one
for a key that is new. `pool` is `d.resources`; `d.enabled` is always
`pool # {}`. `slot[c]` is the object the call has to release, `active[o]` its
counter. A call is a `Request`: the servers that support its backend and that
its list allows, whether there is a list, and its preferences by resource and by
model. One action is one critical section of the dispatcher's mutex. The two
reads of `d.enabled` that the code makes without the mutex matter: the one
before an acquire is in `Invoke` and `Bypass`, the one before a release is
`CheckRelease`.

`SetScale` stands for every change of the effective scale; the waiters may or
may not be told, because an expired manual scale and the hours of the day
announce themselves to no one. The heartbeat then wakes the waiters.

Abstractions: scales are percentages and round exactly, where the code uses
floating point; among equally loaded resources the choice is free, where the
code takes the first; a key keeps its backend across reloads; a configuration
does not name a key twice; the observability records, metrics and the ring of
recent leases are left out.

### 4.2 Properties and runs

| run | instance | what it shows |
|---|---|---|
| slots | 3 calls, 2 servers of capacity 1 or 2, 2 changes of scale or resources | `TypeOK`; `ActiveCountsCalls`; `GrantWithinCapacity`: a slot is granted only while fewer calls than the limit really run on the server |
| slots_reset | 2 calls, reload, re-addition and reset | `NoLostSlot`; `WaitersCounted`; `CallServed` (liveness) |
| slots_readd | violation | `ActiveCountsCalls` with a server removed and added again |

A third call makes the queue for a server of capacity 2; two changes suffice to
remove a server and to add it again; three objects allow that re-addition.
These instances end when calls and changes are used up, hence
`CHECK_DEADLOCK FALSE`.

Fairness: goroutines run, a model call ends (deadline), the ticker fires. The
calls are finitely many: Go's mutex gives no order among waiters, so a caller
could be overtaken for ever by an endless stream of others, and `CallServed`
does not claim otherwise. It assumes that the scale is above zero infinitely
often; a pool that stays paused serves nobody.

## 5. Throttle

### 5.1 State and steps

| model | code |
|---|---|
| `manual` | `manualActive`, `manualScale`, `scaleExpiresAt` |
| `timer`, `fired` | the `AfterFunc` of `d.scaleTimer` while it is armed; timers that went off and wait for `d.mu` |
| `aimd` | `adaptiveScale`, the counters of failures, idle and recovery probes |
| `probeRunning`, `prober`, `reply` | the flag, the goroutines that try to be the probe worker, what a probe brought back |
| `last` | `lastEffectiveScale`, `lastThrottleMode` |
| `db` | `concurrency_scale`, `scale_expires_at` of `system_configs` |
| `request` | what a request of the settings page read and has still to do |
| `load` | the sentinel node |

One action is one critical section of `d.mu` or one statement. Whoever computes
the effective scale first drops an override whose time is over (`Swept`): the
heartbeat, the probe, and slot calls, admission tests and status pages (`Look`).
A probe is two steps, because the code asks the sentinel without the lock.
`InitModelDispatcher` and `main` each start a probe worker, of which one must
stay. `UpdateConfig` is three: it reads the row, writes all of its columns back
or fails, and then calls the dispatcher. `Restart` is a crash and what
`InitModelDispatcher` makes of the row. Scales are in hundredths; 0 stands for no
time.

Fixed: the configuration of probe and working hours, which `main` sets once.
Left out: the health counters of the resources, which are for display, and who
is woken when the scale changes, which is in SlotPool.

### 5.2 Properties and run

`throttle`: any three of a request, a change of the load and a crash, with
timers, heartbeat and probe workers in any order.

| property | what it says |
|---|---|
| `TimerBelongs` | an armed timer is that of the override in force |
| `OneProber` | one worker adjusts the scale |
| `RestartKeepsOverride` | a restart finds the override that was in force |
| `RaisesNeedCalm` | the scale rises only after three calm probes in a row |
| `OverrideEnds` | an override with an end does not stay |
| `Recovers` | with a calm sentinel the scale comes back, from a pause too |
| `FallsBack` | with a sentinel that is down the adaptive scale stops counting |

`Sync` may fail, because `syncToDBLocked` does not look at the error of its
UPDATE. `behind` is the history variable that says so: the row does not tell
what override is in force, because the UPDATE of its last change failed, a
request wrote an old row back, or a restart could not read it. A sweep of an
override that is over makes nothing worse if its UPDATE fails: the row then tells
of an end that has passed. `RestartKeepsOverride` makes the exceptions the code
makes: a permanent pause or 100% (`Survivor`), a row that is `behind`, and one
that the restart cannot read. They are findings.

Bounds: one request at a time on the settings page, which may overlap timers,
probes and crashes; an override that ends and one that does not; a load for each
branch of the AIMD rule and a sentinel that is down; `MinScale` 0, where a cut
can become a pause. Three events are enough for set, replace or save, and crash.
The clock stops at `MaxTime` unless an override has time left, so that an end is
always reached.

Fairness: time passes, the ticker of the heartbeat and the probe worker run,
`main` gets to its call. Nothing is assumed of the timer, of slot calls or of
requests: `OverrideEnds` holds by the heartbeat alone.

## 6. TierRecovery and Debate

### 6.1 State and steps

`TierRecovery` has no state: it holds the decision the code takes after a failed
attempt (retry on the resource, failover, split, or nothing), in the order of
`RunTierInvocationWithRecovery`, as an operator of the attempt and the class of
the error. `Debate` applies it.

`Plan` builds the bundles, with the macros and outlines that every prompt quotes
(`built`); `Start` asks for the commit the checkpoints will name (`meta`), which
git may fail to tell (`Unknown`). The working tree may move between the two.
`at` is the main goroutine of `Run`: first it offers every bundle its checkpoint
(`Reuse`), then starts the others in their order as slots of the semaphore
become free (`Spawn`), until it is cancelled (`Break`); `Finish` waits for all.
`work[b]` is the goroutine of a bundle: what is left of it (`parts`), the
attempt, the candidates, the verdicts, and the versions of its files it has read.
One action is one call of a model, one reading of the files, one write of the
checkpoint, or the merge under the lock. The judge answers a batch with any
sequence of candidates (`Answers`), and `Valid` decides as `validateJudgeOutput`
does, by number, duplicates and the set of ids, whether it is taken as it came;
otherwise the claims of the hunter stand. `details` and `records` are what was
merged; `result` is the coverage and the status they lead to, computed by the
operators of `services/coverage` and of the reconciliation.

`Switch` moves the working tree to another commit, `Cancel` is a user, a timeout
or a shutdown, `Crash` loses everything but the checkpoints; `Start` runs
again.

Abstractions: a part is a sequence of units that stay together; prompts, answers
and their parsing are the choice of how many candidates come back, or of which
units were assessed; an error of `BuildBundles` ends a run before anything is
written and is left out; a checkpoint that is not written, because the files
could not be hashed or the disk failed, is `UNCHANGED saved`; the content of
files is a number per commit and bundle; the recovery of the calls of challenger
and judge is one step, because both have a fallback that leaves the same state;
delays and deadlines are the choice of `HunterStopped`.

### 6.2 Properties and run

`debate`: two bundles, three plans (a debate, an assessment, an incremental
one), a semaphore of one or two, one cancel or crash, one switch of the tree and
a resume.

| property | what it says |
|---|---|
| `OneVerdictEach` | every candidate has exactly one verdict, across batches and failures, whatever the judge answers and in whatever order |
| `Accounting` | progress and records count every bundle and unit once |
| `ReuseIsFresh` | a checkpoint that is accepted tells what is in the files now |
| `CoverageHonest` | complete or success rests on bundles that all succeeded |
| `CallsBounded` | each attempt leaves less to do, from a bound of the configuration |
| `RunEnds` | a run ends: no slot of the semaphore is lost (liveness) |

`ReuseIsFresh` has three conditions, which are what the code does not look at:

* `~back`: it compares the commit and the content at the end of the analysis, so
  a tree that moved from A to B and back to A while a bundle was analysed goes
  unnoticed;
* both commits are known: `resume.go:280` compares them only then, and
  `checkpoint.go:68-72` leaves the commit empty when git fails;
* `Sound`: the evidence is of the commit the checkpoint names. The bundles are
  built before the commit is asked for (`engine.go:79-92`, `engine.go:105`).

Without any one of them TLC finds a stale checkpoint that is accepted (without
the first with two switches of the tree); the last two are findings. With the one
switch of the instance the tree never comes back; the theorem covers any number
of switches.

Bounds: three candidates and batches of two give a batch that is not full; a
split depth of 1 a split and a bundle that may not be split again; two attempts
in total and on a resource, and two resources, a retry and a failover; four
classes of errors one for each kind of decision. One stop and two starts give a
resume of a cancelled or crashed run. The tree begins at one of the two commits,
which the contents do not tell apart. `CHECK_DEADLOCK FALSE`: the instance ends
with a run that succeeded, or when the starts are used up.

Fairness: the main loop and each goroutine go on, because every call of a model
has a timeout and the recovery a deadline.

## 7. DefectLedger

### 7.1 State and steps

A slot is a `slot_key`: a place in a file where one kind of defect can be.
`defect` is the table of defects, `obs` that of the observations, `snap` the
snapshots in the SYSTEM events, `alias` the strong aliases, `committed` the
reports with `ledger_committed_at`. `pc[r]` is where `PersistScanFacts` is for
the report `r`.

`Load` reads the ledger without a lock and matches: strong candidates are taken
by one finding each, for the rest the scores, the budget and the AI are a
choice. `Begin` opens the transaction under the advisory lock, tests the order
of the reports and takes back an earlier commit of the same report; `Apply`,
`Conflict` or `Collide` ends it. In between people may still decide about rows
the transaction has not written, without the advisory lock. That matters most
where the code asks whether a slot has another active defect and then, in a
statement of its own, makes a row the active one of that slot (`ledger.go:590`
and `632`, `788` and `820`). `Check` records what these queries found
(`Claims`). Where a person has made another row active meanwhile, the unique
index refuses the write, and in PostgreSQL that aborts the transaction: the
queries and merges the code then tries (`ledger.go:633-639`, `822-845`) are
refused as well, and nobody retries. That is `Collide`. The claims of a commit
are one set, so a claim that no longer holds may be one the code would have
asked about only later: `Collide` allows a little more than the code does, also
where a conflict of versions would come first. The commit itself folds pure
steps over the sets of the observation groups and of the defects, in ascending
order (`InOrder`): every group is observed (`Observe`), every observation
updates its defect (`Update`), every defect that was loaded and not matched is
advanced (`Advance`). A step compares the version of a row with the one that was
loaded (`Write`) and may make the transaction fail. Two flags of the policy that
people set are part of the input of a scan: `require` (`RequireCoverage`) and
`autoResolve` (`AutoResolveMissing`). `Covered` is what the code calls covered,
skipped and excluded files included; `Counts` is the test at `ledger.go:981`,
which every file passes where coverage is not required. `Withheld` is the row
whose status the code changes before it takes the snapshot. `Refuse` is a
rollback that the unique index does not admit; `Admits` the same index for what
people write. `Supersede` is a report that comes too late, `Abort` any failure,
`Rerun` the resume of the task.

People: `SetStatus`, `Merge`, `Split`, `BindProbable`, `Confirm`; `Purge` is the
retention.

Left out: the scope entries and the manifest file, hunks and anchors of a match
beyond whether they agree, the text of events, projections and statistics.

### 7.2 Properties and run

`defects`: two scans of a pair match and commit in any order, conflict, fail and
are scanned again while a person decides.

| property | what it says |
|---|---|
| `RejectedOnlyByRace` | the unique index on the active defect of a slot fails the first commit of a report only if a person made a row active while the transaction was open |
| `ReferencesExist` | observations, aliases and merges name rows that exist, until a commit is taken back |
| `OldReportsNeverWrite` | a report changes nothing after a later one committed |
| `HumanDecisionsStick` | what people closed or merged no scan reopens, and a status never changes without its version |
| `FindingsLand` | every finding has an observation, and its defect is open, or nobody is sure, or a person closed it, or a passing group of the scan was matched with it too |
| `ResolvedOnEvidence` | what a scan resolves was cleared in a coverage that is not degraded; or it was not observed and its file is gone, under a policy that resolves such defects, or it was missed once more and often enough, in a coverage that is not degraded and in a file that counts |

Four of them are stated for the first commit of a report, because the rollback
before a second one does not keep them: it restores a row whatever people did to
it, and ACTIVE whoever holds the slot now (findings). The last exception of
`FindingsLand` is a finding too: a merge target, or the owner of a slot, that a
finding ends with at the commit is still free for the passing groups.

`ResolvedOnEvidence` does not say that somebody looked: a file that was skipped
or excluded is covered for the code, and every file counts for a policy without
`RequireCoverage`. That is as far as the evidence of a resolution goes.

Bounds: two slots and three ids leave room for one new defect. The two ledgers
are a merge whose strong alias stayed, next to an active defect, and two defects
of one slot, resolved and in a gap, either of which can become the active one.
The five scans find both slots; find one and clear the other; miss one in a file
that is gone and one in a file that was not planned, under a strict policy and
under a lax one; and clear with a degraded coverage. A major defect is resolved
at the second miss, a minor one becomes dormant at the first. Two tries are one
retry. People set a defect ACTIVE or closed, or merge, split, bind or confirm:
one decision, placed between any two steps of two scans, one of which may run
twice. What a second decision could add the proofs cover (section 9).
`CHECK_DEADLOCK FALSE`: the instance ends when scans, decisions and reruns are
used up.

## 8. Mutants

An operator `MutX` (or another name that starts with `Mut`) next to `X` is `X`
with a bug someone could write: a dropped guard, a counter moved twice, a missing
write. No action uses them. `PROJECT.json` says which property of which run
detects which one, so that every property is known to be able to fail.

## 9. Proofs

The assumptions are those named in the modules: the sets of identities are
finite, `None` is none of them, bounds are naturals, plans and ledgers are well
formed, `MinScale <= 100 <= MaxScale`. The proofs hold for every number of
reports, workers, requests, callers, servers, bundles, candidates and defects,
and for every bound.

**TaskQueueProofs**: `TypeCorrect`, one lemma per action. The one conjunct that
is not a mere type is that a busy worker holds a report.

**TaskQueueLedgerProofs**: `ImplementsLedger`, `Spec => LedgerSpec`. The
refinement maps all running statuses to `live`. `TypeOK` is not enough, because
deleting maps to `Delete` only for rows that exist. The strengthening `Born`
says that logs and handlers refer to rows that were once created; every action
is shown to be a step of the ledger or a stutter, and to keep `Born`. The writes
of a status are lemmas of their own (`SetLiveStep`, `CloseStep`, `DropStep`,
`CreateStep`): what matters is that `UpdateActiveTaskReport` touches live rows
only and that the unique index guards the only insert. `OneLive` follows from
the same invariant.

**TaskQueueRunnerProofs**: `SingleRunner` is not inductive, since it does not say
why the second worker could not get the report. `RunnerInv` says where every log
is: logs have ids of their own (`Numbered`), the log of a busy worker is taken by
that worker or deleted with its report (`Holding`), a handler that deletes
pending executions aims only at logs of its reports, and drops the reports
before the logs (`Dropping`), and two busy workers hold different reports
(`Alone`). It holds without a foreign key and until a statement fails
(`Reliable`): with a foreign key the report stays when its log is deleted, and a
statement that fails without being looked at lets a handler go on as if it had
worked; TLC finds a second worker on the report in either case, so that both
conditions are needed. `OneRunner` is a consequence;
`ProgressIsShown`, `NoLogIsOrphaned`, `NoScanIsLost` and `QueueIsBounded` each
add one more invariant to it (`Showing`, `NoneLeft`, `NotLost`, `Room`).
`Showing` knows the two statements of `UpdateTaskStatus` apart: the log may show
the stage before only while `wtodo` says that its statement is still to come.

**SlotPoolProofs**: `SlotTypeCorrect` and `WaitersAreCounted` are one induction:
that `waitingCallers` stays a natural number depends on its being the number of
calls that wait. `NoSlotIsLost`: a counter never exceeds the number of holders;
inductive with the types, for all reloads, re-additions and resets. `ExactCounts`:
with neither re-additions nor resets the counters are exact. That needs two more
facts: no two objects ever had the same key (`OneObject`), so that a release
finds no replacement to decrement, and a held object was allocated
(`HeldExists`), so that a new object has no holder. `CapacityRespected` follows:
the counter a grant compares with the limit is the number of calls on that
server.

**ThrottleProofs**: `Types` gives the theorem of the types and the bounds of
the scale. `Books` says that an armed timer is that of the override and that,
unless the row is `behind`, reviving the row gives what survives of the
override: every writer of `manual` writes the row in the same critical section,
or fails to and leaves the row behind, or drops an override whose time is over,
which the old row revives to as well. `Probing` says that a probe worker beyond
`starting` is the one that holds the flag, which is why the second test of the
flag is enough, and that the counters of AIMD are never ahead of the calm probes
in a row.

**DebateProofs**: what a goroutine may hold at each stage (`WorkOK`) and, for
every step of a bundle, that it goes on in the order of the stages (`Onward`) and
spends calls (`Left`). `OneVerdictForEach` rests on two things. A ruling has the
length of its batch and contains every candidate of it, because a valid answer
does and the fallback is the batch itself; the judge may answer anything. And
consecutive batches meet, and the last ends with the last candidate. As many
verdicts as candidates, and each candidate among them, is exactly one for each.
`CallsAreBounded` shows that a retry and a failover spend an attempt and that a
split spends one of the splits, which pays for the attempts of the part it adds.
**DebateLedgerProofs** adds the accounts: which bundles are merged, reused or at
work (`BooksInv`), which commits the tree was at while a bundle was read
(`TreeInv`), and the semaphore as the number of goroutines (`SlotsInv`).
`ReusedIsFresh` is the deepest: a tree that never comes back has held one content
as long as it was at one commit. So a checkpoint whose two commits, that of the
evidence and that asked for at the start, are known and the same tells of one
content, and a run at this commit finds the same.

**DefectLedgerProofs**: every invariant and action property of the run, in three
layers.

1. *Steps.* For each of `Observe`, `Update`, `Advance` one lemma says which row
   it may write and with what (`ObserveStep`, `UpdateStep`, `AdvanceStep`):
   nothing else is known of them afterwards. From this, one lemma for each thing
   that must be kept. `Apart` is the central one: the index holds, no defect
   disappears, a row whose version is the loaded one is the loaded one, and
   every row is what it was or a later version of one that no person had closed.
   `Evidence`, `Refs` (references), `Bound` and `Landed` (where the findings are)
   and `Basic` (what holds for a rerun too) go with it.
2. *Folds.* `MapThenFoldSet` is defined by a function chosen to satisfy the
   recursion. `FoldExists` shows that there is one, and `FoldBy` that a set `Q`
   of pairs of a subset and a result that the steps keep has the pair of the
   whole fold; both by `SubsetInduction`, which is well-foundedness of the
   strict subset ordering of a finite set. Giving `Q` as a set of pairs is what
   makes the induction possible for this prover, which has no operator
   parameters to instantiate. `CommitFold` is the three folds in a row.
3. *Actions.* `IInv` is inductive, one lemma per action. It adds to the
   invariants that are checked: an observation or alias is of a committed report
   or older than all (`History`: a first commit has nothing to take back); ids from
   `next` on are free; the index holds; a row that an open transaction loaded is
   the stored one, unless its version grew (`OpenTx`, `Kept`: why comparing
   versions is enough), and an active row of a slot that the transaction claims
   has a version other than the loaded one (`Claimed`); every group that a commit takes was decided (`Decided`).
   For reports that were committed before, it claims no more of the loaded rows
   than their type: the rollback breaks the rest.

`PeopleAreRespected`, `FindingsAreNotLost` and `ResolutionsHaveEvidence` follow
from `IInv` and the fold, `ReferencesStayGood` is a conjunct of it.
`FirstCommitsFailOnlyByRace` needs both halves: `Apply` and `Conflict` never meet
the index (`Apart`), and `Collide` only a row that a person changed after the
transaction had loaded it (`Claimed`). `StepsKeepIndex` and `StepsSparePeople`
say of every single step, for reruns too, that it keeps a slot to one active
defect and writes no row whose version changed or that a person closed.

Trying to prove them corrected what had been stated: `FindingsLand`
was too strong as first written; without its exceptions the run finds it
violated.

**Only model-checked**: liveness (`ScanEnds`, `CallServed`, `RunEnds`,
`OverrideEnds`, `Recovers`, `FallsBack`), which needs fairness and enabledness.

## 10. Findings

With a run:

* A cancel between the consumption of the intents and the registration of the
  runner reaches nobody (queue_cancel). The handler deletes the rows, the
  repository is cloned for nothing, and the write of the head commit
  (`runner.go:223`), which finds no row, stops the runner.
* A crash between closing a report and closing its log leaves a log that blocks
  its pair for ever (queue_crash).
* A server removed and added again by two reloads takes releases of calls it
  never counted (slots_readd).

Read in the code while modelling, with the definition that shows each, in
`PROJECT.json`. In short:

* Scan: `Finalize` writes `degraded` after the row is terminal, without effect; a
  scan whose chunks all failed has a failed report and a successful log.
* Slots: a scoped call bypasses the slots when the pool is emptied while it waits.
* Throttle: a permanent pause is lost by a restart; a timer that went off late
  ends a newer override; saving another setting writes an old override back; an
  UPDATE of the row that fails goes unnoticed, and a restart believes the row; the
  version of the compute configuration is compared in memory only.
* Debate: a cancelled challenger or judge makes a success that a resume reuses;
  a last part that cannot be split loses its retry; an empty commit hash is equal
  to every other; a checkpoint may name a later commit than its evidence is of.
* Defects: some version conflicts are not retried; the fallbacks for a write that
  the unique index refuses run in a transaction that is already aborted; the
  snapshot of a withheld row says COVERAGE_GAP already; rolling a commit back
  restores rows people changed and misses those it had not observed; an
  auto-merge leaves the observation with the merged defect; `missed_count` is
  never reset; skipped files count as covered; one scan can find a defect and
  resolve it; a rollback may restore a second active defect of a slot, and the
  index then rejects every rerun.

Worth knowing, though no finding: a run cancelled before its first bundle, of a
plan without excluded or unchanged files, has the coverage NOT_APPLICABLE; files
skipped as unchanged make every coverage PARTIAL; `RequireChange` of the
lifecycle policy is loaded and never read.

## 11. What is not modelled

* **Size of the worker pool** (`queue.go:107`, `queue.go:198`). TaskQueue has a
  fixed set of workers and a claim may simply not happen. Two resizes that
  overlap can leave the pool larger than its target until it is scaled down
  again: `ResizeWorkerPool` sets the target in one critical section and counts
  or registers the workers in later ones.
* **The summary file of a scan** (`finalize.go:195`) and **the manifest of the
  scope** (`service.go:254`): files for display; no modelled state is computed
  from them.
* **Findings of a report deleted while it is analysed** (`runner.go:347`):
  TaskQueue has the deletion and no findings, DefectLedger the findings and no
  deletion.
* **Deletion of later committed reports** (`ledger.go:354-371`): the reports of
  DefectLedger stay, so that the order test always sees every commit.
* **Working trees** are in Debate as far as checkpoints depend on them; what
  else two scans of one repository read from each other's checkout is not.
* **UpdateComputeConfig**: its end is the hot reload of SlotPool; its version
  check is a finding.
* **Text**: parsing and repair of answers, planning, chunking, similarity and
  hashing, rendering, prompts. These are pure functions of data, which unit tests
  reach and a finite state model does not; where control depends on their result,
  the models choose it freely.
* **Single-statement handlers** (users, repositories, schedules, lists,
  statistics), the frontend, invokers (subprocess and HTTP I/O, whose failures
  are choices of the models), governance campaigns (they write none of the
  modelled state).

Most of the repository's lines are of the last two kinds, so that the map, which
names only lines a definition translates, covers the part of the implementation
that keeps state and decides control, and no more.
