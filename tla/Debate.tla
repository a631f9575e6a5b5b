-------------------------------- MODULE Debate --------------------------------
(***************************************************************************)
(* The debate engine: one analysis of a repository and its resumptions.    *)
(*   services/engines/debate/engine.go      Run, ProcessBundle, the stages *)
(*   services/engines/debate/assessment.go  the specialized assessment     *)
(*   services/engines/debate/resume.go      checkpoints of bundles         *)
(*   services/coverage, engines/engine.go, runner/context.go  coverage     *)
(* Bundles of files are analysed concurrently, some at a time. In each, a  *)
(* hunter looks for candidates, a challenger and a judge argue about them; *)
(* or the units are assessed directly. A hunter that fails is tried again, *)
(* elsewhere, or on two halves of its work.                                *)
(* What a bundle found is saved; a run that was cancelled or crashed is    *)
(* resumed and reuses it, if the files have not changed. The working tree  *)
(* is shared with the scans of other task types, which move it.            *)
(***************************************************************************)
EXTENDS TierRecovery, Sequences, FiniteSets, SequencesExt

CONSTANTS
    NBundles,           \* bundles are numbered in their order
    Plans,              \* what the planner may select, see PlanOK
    Commits,            \* commits the working tree may be at ...
    FirstCommits,       \* ... and those it may be at when the task begins
    Content,            \* [Commits -> [Bundles -> Nat]]: of a bundle's files
    Concurrency,        \* widths of the semaphore that are configured
    Selected,           \* resources a tier may prefer, by load and by health
    MaxSplitDepth, MaxCandidates, BatchSize,
    Classes,            \* classes of the errors that happen
    Finds,              \* numbers of candidates a hunter may report
    MaxSwitches, MaxStops, MaxStarts   \* bounds

\* The commit hash when git could not tell it.
Unknown == ""
Bundles == 1 .. NBundles
\* A part is a sequence of units that stay together: a source file and its
\* headers, or, in an assessment, one primary unit.
UnitsOf(part) == UNION ToSet(part)
Units == UNION {UNION {UnitsOf(p.bundle[b]) : b \in Bundles} : p \in Plans}
PlanOK(p) ==
    /\ p.assessment \in BOOLEAN
    /\ \A b \in Bundles :
          /\ p.bundle[b] \in Seq(SUBSET Units) /\ p.bundle[b] # <<>>
          /\ \A i \in DOMAIN p.bundle[b] : /\ IsFiniteSet(p.bundle[b][i])
                                           /\ p.bundle[b][i] # {}
    /\ p.assessment => \A b \in Bundles : \A i \in 1 .. Len(p.bundle[b]) :
                          Cardinality(p.bundle[b][i]) = 1
    /\ \A b, c \in Bundles : b # c =>
          UnitsOf(p.bundle[b]) \cap UnitsOf(p.bundle[c]) = {}
    /\ \A b \in Bundles : UnitsOf(p.bundle[b]) \cap (p.excluded \cup p.unchanged) = {}
ASSUME DebateAssumption ==
    /\ {NBundles, MaxCandidates, BatchSize} \cup Concurrency \subseteq Nat \ {0}
    /\ {MaxSplitDepth, MaxSwitches, MaxStops, MaxStarts} \subseteq Nat
    /\ Selected \subseteq 1 .. Resources
    /\ Content \in [Commits -> [Bundles -> Nat]]
    /\ Classes \subseteq ErrorClass \ {"canceled"} /\ Finds \subseteq Nat
    /\ FirstCommits \subseteq Commits /\ Unknown \notin Commits
ASSUME PlansAssumption == \A p \in Plans : PlanOK(p)

VARIABLES
    plan, tree,     \* the plan; the commit the working tree is at
    mode,           \* "idle", "planned", "running" or "ended"
    built,          \* the commit that was there when the bundles were built
    meta, width,    \* what the run read when it started: commit, semaphore
    at,             \* the main loop: the next bundle, first to reuse, then to start
    cancelled,      \* the context of the run
    slots,          \* the semaphore: bundles that are being analysed
    work,           \* [Bundles -> Work]: their goroutines
    details,        \* [Bundles -> {"", "success", "failed"}]: chunkDetailsList
    records,        \* [Units -> Nat]: allAssessments, counted
    processed, succeeded,   \* the counters of the progress
    saved,          \* [Bundles -> Checkpoint]: on disk
    result,         \* what the run reports
    left, back,     \* history: the commits the tree has left; whether it came
                    \* back to one of them
    switches, stops, starts \* counters for the bounds

counts == <<switches, stops, starts>>
run == <<mode, built, meta, width, at, cancelled>>
merged == <<details, records, processed, succeeded>>
vars == <<plan, tree, run, slots, work, merged, saved, result, left, back, counts>>

Pc == {"none", "hunter", "challenger", "judge", "hash", "write", "merge", "done"}
NoWork == [pc |-> "none", pass |-> 1, parts |-> <<>>, try |-> FirstTry(1),
           splits |-> 0, found |-> 0, batch |-> 0, verdicts |-> <<>>,
           units |-> {}, ok |-> TRUE, read |-> {}, snap |-> 0]
NoCheckpoint == [commit |-> "none", built |-> "none", snap |-> 0, units |-> {},
                 read |-> {}]
NoResult == [coverage |-> "none", status |-> "none"]

-----------------------------------------------------------------------------
(* Splitting and batches                                                   *)

FilesIn(part) == FoldLeft(LAMBDA n, g : n + Cardinality(g), 0, part)
\* Half of the files go to the first part, but no unit is torn apart and no
\* part is empty.
Enough(part, k) == \/ k = Len(part) - 1
                   \/ 2 * FilesIn(SubSeq(part, 1, k)) >= FilesIn(part)
SplitAt(part) == CHOOSE k \in 1 .. Len(part) - 1 :
                    Enough(part, k) /\ \A j \in 1 .. k - 1 : ~Enough(part, j)
Halves(part) == <<SubSeq(part, 1, SplitAt(part)),
                  SubSeq(part, SplitAt(part) + 1, Len(part))>>
CanSplit(w) == w.splits < MaxSplitDepth /\ Len(Head(w.parts)) >= 2

Kept(n) == IF n > MaxCandidates THEN MaxCandidates ELSE n
NBatches(n) == (n + BatchSize - 1) \div BatchSize
Least(m, n) == IF m < n THEN m ELSE n
\* Batches of almost the same size; batch i ends before candidate Offset(n, i).
Offset(n, i) == i * (n \div NBatches(n)) + Least(i, n % NBatches(n))
Ids(from, to) == [i \in 1 .. to - from |-> from + i]
Batch(n, i) == Ids(Offset(n, i - 1), Offset(n, i))
\* validateJudgeOutput: as many verdicts as candidates, none twice, none missing.
\* In which order is up to the judge.
\* Mut...: a definition as a plausible bug would change it; no action uses it.
MutValid(answer, batch) == Len(answer) = Len(batch) /\ IsInjective(answer)
Valid(answer, batch) ==
    /\ Len(answer) = Len(batch) /\ IsInjective(answer)
    /\ ToSet(batch) \subseteq ToSet(answer)
\* What the judge may say; 0 is a candidate nobody asked about.
Answers(n) == BoundedSeq(0 .. n, BatchSize)

-----------------------------------------------------------------------------
(* Coverage and the status of the report, from what was merged             *)

Planned(p) == UNION {UnitsOf(p.bundle[b]) : b \in Bundles}
InChunks(p, status) == UNION {UnitsOf(p.bundle[b]) : b \in {c \in Bundles : details[c] = status}}
\* A bundle that was never started has blank details: its files are in the
\* coverage of nobody, and only the reconciliation misses them.
Files(p) == InChunks(p, "success") \cup InChunks(p, "failed") \cup p.excluded \cup p.unchanged
AnalysisComplete(p) == Files(p) # {} /\ InChunks(p, "failed") = {} /\ p.unchanged = {}
MissingUnits(p) == {u \in Planned(p) : records[u] = 0}
UnmatchedUnits(p) == {u \in Planned(p) : records[u] > 1}
MutCoverageComplete(p) == AnalysisComplete(p)
CoverageComplete(p) == /\ AnalysisComplete(p)
                       /\ MissingUnits(p) = {} /\ UnmatchedUnits(p) = {}
CoverageState(p) == CASE Files(p) = {} -> "NOT_APPLICABLE"
                      [] Files(p) # {} /\ CoverageComplete(p) -> "COMPLETE"
                      [] OTHER -> "PARTIAL"
FailedChunks == {b \in Bundles : details[b] # "success"}
\* The summary of the execution knows the blank bundles as failed ones.
ExecutionState(p) ==
    IF CoverageState(p) = "COMPLETE" /\ (FailedChunks # {} \/ MissingUnits(p) # {})
    THEN "PARTIAL" ELSE CoverageState(p)
TerminalTaskStatus(p) ==
    CASE FailedChunks = Bundles -> "failed"
      [] FailedChunks # Bundles /\ \/ ExecutionState(p) = "PARTIAL"
                                   \/ FailedChunks # {} \/ MissingUnits(p) # {} -> "degraded"
      [] OTHER -> "success"

-----------------------------------------------------------------------------
(* Checkpoints                                                             *)

\* ValidBundleResumeCheckpoint: of this configuration and content, and of this
\* commit if both are known.
MutAccepts(c, commit, b) == c # NoCheckpoint /\ c.snap = Content[tree][b]
Accepts(c, commit, b) ==
    /\ c # NoCheckpoint /\ c.snap = Content[tree][b]
    /\ Unknown \in {c.commit, commit} \/ c.commit = commit
Counted(S) == [u \in Units |-> IF u \in S THEN records[u] + 1 ELSE records[u]]

-----------------------------------------------------------------------------
(* The main goroutine                                                      *)

Idle == UNCHANGED <<plan, tree, left, back, counts>>
Started(b) == work[b].pc \notin {"none", "done"}

\* A resumed run begins with nothing but the checkpoints.
Fresh ==
    /\ work' = [b \in Bundles |-> NoWork] /\ slots' = 0
    /\ details' = [b \in Bundles |-> ""] /\ records' = [u \in Units |-> 0]
    /\ processed' = 0 /\ succeeded' = 0
\* The bundles are built: the macros and outlines that every prompt quotes are
\* those of the tree as it is now.
Plan ==
    /\ mode = "idle" \/ (mode = "ended" /\ result.status # "success")
    /\ starts < MaxStarts /\ starts' = starts + 1
    /\ mode' = "planned" /\ built' = tree /\ at' = 0 /\ cancelled' = FALSE
    /\ result' = NoResult /\ Fresh
    /\ UNCHANGED <<plan, tree, meta, width, saved, left, back, switches, stops>>
\* Then the commit is asked for, and the checkpoints are loaded.
Start ==
    /\ mode = "planned" /\ mode' = "running" /\ at' = 1
    /\ meta' \in {tree, Unknown} /\ width' \in Concurrency
    /\ UNCHANGED <<built, cancelled, slots, work, merged, saved, result>> /\ Idle

\* Phase 1, bundle after bundle: what was saved is reused, if it is valid.
Merge(b, status, S) ==
    /\ details' = [details EXCEPT ![b] = status]
    /\ records' = Counted(S)
    /\ processed' = processed + 1
    /\ succeeded' = IF status = "success" THEN succeeded + 1 ELSE succeeded
Reuse(b) ==
    /\ mode = "running" /\ at = b /\ at' = at + 1
    /\ IF Accepts(saved[b], meta, b) THEN Merge(b, "success", saved[b].units)
       ELSE UNCHANGED merged
    /\ UNCHANGED <<mode, built, meta, width, cancelled, slots, work, saved, result>> /\ Idle

\* What the prompts of a bundle quote before its goroutine has read a file.
Evidence(b) == {Content[built][b]}
\* Phase 2: the others are started in their order, as slots become free,
\* until the run is cancelled.
MutSkip(b) == FALSE
Skip(b) == details[b] # ""
Spawn(b) ==
    /\ mode = "running" /\ at = NBundles + b /\ ~cancelled
    /\ at' = at + 1
    /\ IF Skip(b) THEN UNCHANGED <<slots, work>>
       ELSE /\ slots < width /\ slots' = slots + 1
            /\ \E r \in Selected :
                  work' = [work EXCEPT ![b] =
                    [NoWork EXCEPT !.pc = "hunter", !.parts = <<plan.bundle[b]>>,
                                   !.try = FirstTry(r), !.read = Evidence(b) \cup {Content[tree][b]}]]
    /\ UNCHANGED <<mode, built, meta, width, cancelled, merged, saved, result>> /\ Idle
Break ==
    /\ mode = "running" /\ cancelled /\ at \in NBundles + 1 .. 2 * NBundles
    /\ at' = 2 * NBundles + 1
    /\ UNCHANGED <<mode, built, meta, width, cancelled, slots, work, merged, saved, result>> /\ Idle

MutFinish ==
    /\ mode = "running" /\ at > 2 * NBundles
    /\ processed = NBundles
    /\ mode' = "ended"
    /\ result' = [coverage |-> CoverageState(plan), status |-> TerminalTaskStatus(plan)]
    /\ UNCHANGED <<built, meta, width, at, cancelled, slots, work, merged, saved>> /\ Idle
\* All goroutines have returned: the coverage, and the status it leads to.
Finish ==
    /\ mode = "running" /\ at > 2 * NBundles
    /\ \A b \in Bundles : ~Started(b)
    /\ mode' = "ended"
    /\ result' = [coverage |-> CoverageState(plan), status |-> TerminalTaskStatus(plan)]
    /\ UNCHANGED <<built, meta, width, at, cancelled, slots, work, merged, saved>> /\ Idle

-----------------------------------------------------------------------------
(* The goroutine of a bundle. It reads the files of the working tree as    *)
(* they are: what it read is what was there when a step of it ended.       *)

Here(w, b) == [w EXCEPT !.read = @ \cup {Content[tree][b]}]
Step(b, w) == /\ mode = "running"
              /\ work' = [work EXCEPT ![b] = Here(w, b)]
              /\ UNCHANGED <<run, slots, merged, saved, result>> /\ Idle

\* The hunter, or the assessment, is done with the first part; with the last
\* one it returns what it has.
NextPart(w, r) == [w EXCEPT !.parts = Tail(@), !.try = FirstTry(r)]
Returned(w, pc) == [NoWork EXCEPT !.pc = pc, !.found = Kept(w.found),
                                  !.units = w.units, !.read = w.read]
HunterFinds(b) ==
    LET w == work[b] IN
    /\ w.pc = "hunter" /\ ~cancelled /\ ~plan.assessment
    /\ \E n \in Finds, r \in Selected :
          LET v == [w EXCEPT !.found = @ + n]
          IN  Step(b, CASE Len(w.parts) > 1               -> NextPart(v, r)
                        [] Len(w.parts) = 1 /\ v.found = 0 -> Returned(v, "hash")
                        [] Len(w.parts) = 1 /\ v.found > 0 -> Returned(v, "challenger"))
\* An assessment is valid if it has something to say about one unit.
UnitsAssessed(b) ==
    LET w == work[b] IN
    /\ w.pc = "hunter" /\ ~cancelled /\ plan.assessment
    /\ \E S \in (SUBSET UnitsOf(Head(w.parts))) \ {{}}, r \in Selected :
          LET v == [w EXCEPT !.units = @ \cup S]
          IN  Step(b, IF Len(w.parts) > 1 THEN NextPart(v, r) ELSE Returned(v, "hash"))

\* An attempt fails. Without hope the bundle is analysed once more from the
\* beginning, for some errors; then it fails, and an assessment keeps what
\* the parts before told it.
RetryBundle(class) == class \in {"rate_limited", "network_transient", "unknown"}
GivenUp(w) == [Returned(w, "hash") EXCEPT !.ok = FALSE, !.found = 0]
Again(b, w, r) == [NoWork EXCEPT !.pc = "hunter", !.pass = 2, !.try = FirstTry(r),
                                 !.parts = <<plan.bundle[b]>>, !.read = Evidence(b)]
Failed(b, w, class, r) == IF w.pass = 1 /\ RetryBundle(class) THEN Again(b, w, r)
                          ELSE GivenUp(w)
Split(w, r) == [w EXCEPT !.parts = Halves(Head(@)) \o Tail(@),
                         !.splits = @ + 1, !.try = FirstTry(r)]
Recovered(b, w, class, decision, r) ==
    CASE decision \in {"retry", "failover"} -> [w EXCEPT !.try = Following(@, decision)]
      [] decision = "split" /\ CanSplit(w)  -> Split(w, r)
      [] OTHER -> Failed(b, w, class, r)
HunterFails(b) ==
    LET w == work[b] IN
    /\ w.pc = "hunter" /\ ~cancelled
    /\ \E class \in Classes, r \in Selected :
          Step(b, Recovered(b, w, class,
                            Decision(w.try, class, FilesIn(Head(w.parts)) > 1), r))
\* The context of the run is done, or the budget of the stage.
HunterStopped(b) == work[b].pc = "hunter" /\ Step(b, GivenUp(work[b]))

\* The challenger may fail: the judge goes on without it.
Challenge(b) == work[b].pc = "challenger" /\ Step(b, [work[b] EXCEPT !.pc = "judge"])

\* The judge rules on one batch after the other, and a valid answer is taken as
\* it came.  Where the call fails or the answer stays invalid, or the run is
\* cancelled, the claims of the hunter are the verdicts, for people to review.
Verdicts(answer, batch) == IF Valid(answer, batch) THEN answer ELSE batch
Rulings(w) == {Verdicts(answer, Batch(w.found, w.batch + 1)) : answer \in Answers(w.found)}
JudgeBatch(b) ==
    LET w == work[b] IN
    /\ w.pc = "judge"
    /\ \E ruling \in Rulings(w) :
          Step(b, [w EXCEPT !.batch = @ + 1, !.verdicts = @ \o ruling,
                     !.pc = IF w.batch + 1 = NBatches(w.found) THEN "hash" ELSE @])
\* The stage fails as a whole: what was ruled before is not used.
JudgeFails(b) ==
    LET w == work[b] IN
    /\ w.pc = "judge"
    /\ Step(b, [w EXCEPT !.pc = "hash", !.batch = NBatches(w.found),
                         !.verdicts = Ids(0, w.found)])

\* The hash of the files as they are now; a success is saved under it and
\* under the commit of the start; a failed write is only logged.
Hash(b) ==
    LET w == work[b] IN
    /\ w.pc = "hash"
    /\ Step(b, [w EXCEPT !.snap = Content[tree][b], !.verdicts = <<>>,
                         !.pc = IF w.ok THEN "write" ELSE "merge",
                         !.units = IF w.ok /\ ~plan.assessment
                                   THEN UnitsOf(plan.bundle[b]) ELSE @])
Write(b) ==
    LET w == work[b] IN
    /\ mode = "running" /\ w.pc = "write"
    /\ work' = [work EXCEPT ![b].pc = "merge"]
    /\ \/ saved' = [saved EXCEPT ![b] = [commit |-> meta, built |-> built, snap |-> w.snap,
                                         units |-> w.units, read |-> w.read]]
       \/ UNCHANGED saved
    /\ UNCHANGED <<run, slots, merged, result>> /\ Idle
MutLeave(b) == work' = [work EXCEPT ![b] = [NoWork EXCEPT !.pc = "done"]] /\ slots' = slots
Leave(b) == /\ work' = [work EXCEPT ![b] = [NoWork EXCEPT !.pc = "done"]]
            /\ slots' = slots - 1
MergeBundle(b) ==
    /\ mode = "running" /\ work[b].pc = "merge"
    /\ Merge(b, IF work[b].ok THEN "success" ELSE "failed", work[b].units)
    /\ Leave(b)
    /\ UNCHANGED <<run, saved, result>> /\ Idle

-----------------------------------------------------------------------------
(* The environment                                                         *)

\* The runner synchronizes the repository, or a scan of another task type
\* does: the working tree is at another commit.
Switch(c) ==
    /\ switches < MaxSwitches /\ switches' = switches + 1
    /\ c # tree /\ tree' = c
    /\ left' = left \cup {tree} /\ back' = (back \/ c \in left)
    /\ UNCHANGED <<plan, run, slots, work, merged, saved, result, stops, starts>>
\* A user, the timeout or the shutdown.
Cancel ==
    /\ mode \in {"planned", "running"} /\ ~cancelled /\ cancelled' = TRUE
    /\ stops < MaxStops /\ stops' = stops + 1
    /\ UNCHANGED <<plan, tree, mode, built, meta, width, at, slots, work, merged, saved, result,
                   left, back, switches, starts>>
Crash ==
    /\ mode \in {"planned", "running"} /\ mode' = "idle" /\ Fresh
    /\ stops < MaxStops /\ stops' = stops + 1
    /\ at' = 0 /\ cancelled' = FALSE
    /\ UNCHANGED <<plan, tree, built, meta, width, saved, result, left, back, switches, starts>>

-----------------------------------------------------------------------------
Init ==
    /\ plan \in Plans /\ tree \in FirstCommits
    /\ mode = "idle" /\ built = tree /\ meta = tree /\ width \in Concurrency
    /\ at = 0 /\ cancelled = FALSE /\ slots = 0
    /\ work = [b \in Bundles |-> NoWork]
    /\ details = [b \in Bundles |-> ""] /\ records = [u \in Units |-> 0]
    /\ processed = 0 /\ succeeded = 0
    /\ saved = [b \in Bundles |-> NoCheckpoint] /\ result = NoResult
    /\ left = {} /\ back = FALSE /\ switches = 0 /\ stops = 0 /\ starts = 0

Main == Start \/ Break \/ Finish \/ \E b \in Bundles : Reuse(b) \/ Spawn(b)
Goroutine(b) ==
    \/ HunterFinds(b) \/ UnitsAssessed(b) \/ HunterFails(b) \/ HunterStopped(b)
    \/ Challenge(b) \/ JudgeBatch(b) \/ JudgeFails(b)
    \/ Hash(b) \/ Write(b) \/ MergeBundle(b)
Environment == Cancel \/ Crash \/ \E c \in Commits : Switch(c)
Next == Plan \/ Main \/ Environment \/ \E b \in Bundles : Goroutine(b)
\* Every call of a model has a timeout and every goroutine runs on: the main
\* loop and the bundles are fair.
Spec == /\ Init /\ [][Next]_vars /\ WF_vars(Main)
        /\ \A b \in Bundles : WF_vars(Goroutine(b))

-----------------------------------------------------------------------------
(* Properties                                                              *)

Budget == MaxTotalAttempts * (2 * MaxSplitDepth + 1)
\* Attempts that are left to the hunter of a bundle, at most.
Left(w) == (2 - w.pass) * Budget + MaxTotalAttempts *
               (2 * (MaxSplitDepth - w.splits) + Len(w.parts)) - (w.try.n - 1)

TypeOK ==
    /\ plan \in Plans /\ {tree, built} \subseteq Commits
    /\ meta \in Commits \cup {Unknown}
    /\ mode \in {"idle", "planned", "running", "ended"} /\ at \in 0 .. 2 * NBundles + 1
    /\ width \in Concurrency /\ slots \in 0 .. width
    /\ slots = Cardinality({b \in Bundles : Started(b)})
    /\ \A b \in Bundles :
        /\ work[b].pc \in Pc /\ work[b].try \in Try /\ work[b].pass \in {1, 2}
        /\ work[b].splits \in 0 .. MaxSplitDepth /\ work[b].found \in Nat
        /\ work[b].verdicts \in Seq(Nat)
        /\ work[b].units \subseteq UnitsOf(plan.bundle[b])
        /\ work[b].pc = "hunter" => UnitsOf(work[b].parts[1]) # {}
        /\ \/ saved[b] = NoCheckpoint
           \/ saved[b].commit \in Commits \cup {Unknown} /\ saved[b].built \in Commits
        /\ details[b] \in {"", "success", "failed"}
    /\ records \in [Units -> Nat]
    /\ switches \in 0 .. MaxSwitches /\ stops \in 0 .. MaxStops /\ starts \in 0 .. MaxStarts

\* There are as many verdicts as candidates that were kept, and each of these has
\* one: so exactly one, though the judge sees them in batches, may answer in any
\* order and with anything, and some of its calls fail.
OneVerdictEach == \A b \in Bundles :
    work[b].pc = "hash" /\ work[b].ok =>
        /\ Len(work[b].verdicts) = work[b].found
        /\ \A c \in 1 .. work[b].found :
              \E i \in 1 .. work[b].found : work[b].verdicts[i] = c

\* Nothing is counted twice or forgotten, whether it was reused or analysed:
\* the progress is the number of details, and a unit has at most one record.
Accounting ==
    /\ processed = Cardinality({b \in Bundles : details[b] # ""})
    /\ succeeded = Cardinality({b \in Bundles : details[b] = "success"})
    /\ \A u \in Units : records[u] <= 1
    /\ mode = "ended" /\ ~cancelled => processed = NBundles

\* A checkpoint that a run accepts, the one that goes on or one that starts
\* now, tells what is in the files now, though the tree moved while it was
\* made, or since. The code does not promise it where the tree came back to a
\* commit it had left, where git did not tell one of the two commits, and where
\* the tree moved between the building of the bundles and the question for the
\* commit, so that the checkpoint names another commit than its evidence.
Reuses(b) == {tree} \cup (IF mode = "running" /\ at <= b THEN {meta} \ {Unknown} ELSE {})
Sound(c) == c.built = c.commit
ReuseIsFresh == ~back => \A b \in Bundles : \A c \in Reuses(b) :
    Accepts(saved[b], c, b) /\ Sound(saved[b]) => saved[b].read = {Content[tree][b]}

\* Retries, failovers, splits and the second pass cannot go on for ever: each
\* failed attempt leaves less to do, from a bound the configuration gives.
CallsBounded ==
    [][\A b \in Bundles : work'[b].pc = "hunter" /\ work'[b] # work[b] =>
          IF work[b].pc = "hunter" THEN Left(work'[b]) \in 1 .. Left(work[b]) - 1
          ELSE Left(work'[b]) = 2 * Budget]_vars

\* A coverage that is complete, or not degraded, is so because every bundle
\* succeeded and every unit has a record; a success of the report needs that,
\* or that nothing was planned.
CoverageHonest == mode = "ended" =>
    /\ result.coverage = "COMPLETE" \/ result.status = "success" =>
         /\ \A b \in Bundles : details[b] = "success"
         /\ \A u \in Planned(plan) : records[u] = 1
    /\ result.coverage = "NOT_APPLICABLE" => result.status = "failed"

\* A run ends, or the process does: no bundle waits for ever for a slot.
RunEnds == mode \in {"planned", "running"} ~> mode \in {"idle", "ended"}
=============================================================================
