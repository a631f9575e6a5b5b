-------------------------- MODULE DebateLedgerProofs --------------------------
(***************************************************************************)
(* Proofs about what the bundles of the debate engine leave behind: the    *)
(* progress and the records, the coverage they lead to, the slots of the   *)
(* semaphore, and the checkpoints a resumed run reuses.                    *)
(***************************************************************************)
EXTENDS DebateProofs, FiniteSetTheorems

Merged == {b \in Bundles : details[b] # ""}
Succeeded == {b \in Bundles : details[b] = "success"}

Checkpoint == [commit : Commits \cup {"none", Unknown}, built : Commits \cup {"none"},
               snap : Nat, units : SUBSET Units, read : SUBSET Nat]
IsCheckpoint(c) == c.commit \in Commits \cup {Unknown} /\ c.built \in Commits

\* The progress, the records and the checkpoints of the bundles.
BooksInv ==
    /\ details \in [Bundles -> {"", "success", "failed"}]
    /\ processed = Cardinality(Merged) /\ succeeded = Cardinality(Succeeded)
    /\ records \in [Units -> {0, 1}]
    /\ \A u \in Units : records[u] = 1 =>
          \E b \in Merged : u \in UnitsOf(plan.bundle[b])
    /\ saved \in [Bundles -> Checkpoint]
    /\ \A b \in Bundles : saved[b].units \subseteq UnitsOf(plan.bundle[b])
    /\ \A b \in Bundles : saved[b] = NoCheckpoint \/ IsCheckpoint(saved[b])
    \* A bundle is merged once, when its goroutine ends, or reused before.
    /\ \A b \in RunningSet : details[b] = ""
    /\ mode = "planned" => Merged = {}
    /\ mode = "running" => \A b \in Bundles : at <= b => details[b] = ""
    \* Of a run that is not cancelled no bundle is passed over.
    /\ mode = "running" /\ ~cancelled =>
          \A b \in Bundles : at > NBundles + b => b \in RunningSet \cup Merged
    /\ mode = "ended" /\ ~cancelled => Merged = Bundles

LEMMA Numbers == 0 # 1 /\ 0 + 1 = 1 /\ 0 <= 1 /\ 1 <= 1
  OBVIOUS

LEMMA BundlesFinite ==
    /\ IsFiniteSet(Bundles) /\ Cardinality(Bundles) = NBundles
    /\ \A S \in SUBSET Bundles : IsFiniteSet(S) /\ Cardinality(S) \in Nat
<1>1. IsFiniteSet(Bundles) /\ Cardinality(Bundles) = NBundles
  <2>1. 1 \in Int /\ NBundles \in Int /\ NBundles >= 1
    BY BundleNumbers
  <2> QED BY <2>1, BundleNumbers, FS_Interval DEF Bundles
<1>2. \A S \in SUBSET Bundles : IsFiniteSet(S) /\ Cardinality(S) \in Nat
  BY <1>1, FS_Subset, FS_CardinalityType
<1> QED BY <1>1, <1>2

LEMMA OneMore ==
    ASSUME NEW S \in SUBSET Bundles, NEW b \in Bundles, b \notin S
    PROVE  Cardinality(S \cup {b}) = Cardinality(S) + 1
  BY BundlesFinite, FS_AddElement

LEMMA OneLess ==
    ASSUME NEW S \in SUBSET Bundles, NEW b \in S
    PROVE  Cardinality(S \ {b}) = Cardinality(S) - 1
  BY BundlesFinite, FS_RemoveElement

\* What Merge does to the books, when the bundle has no details yet.
LEMMA MergeBooks ==
    ASSUME BundlesInv, BooksInv, NEW b \in Bundles, details[b] = "",
           NEW status \in {"success", "failed"},
           NEW S, S \subseteq UnitsOf(plan.bundle[b]), Merge(b, status, S), plan' = plan
    PROVE  /\ details' \in [Bundles -> {"", "success", "failed"}]
           /\ Merged' = Merged \cup {b} /\ \A c \in Bundles \ {b} : details'[c] = details[c]
           /\ processed' = Cardinality(Merged') /\ succeeded' = Cardinality(Succeeded')
           /\ records' \in [Units -> {0, 1}]
           /\ \A u \in Units : records'[u] = 1 =>
                 \E c \in Merged' : u \in UnitsOf(plan'.bundle[c])
<1>1. /\ details' = [details EXCEPT ![b] = status]
      /\ details' \in [Bundles -> {"", "success", "failed"}]
      /\ details'[b] = status /\ \A c \in Bundles \ {b} : details'[c] = details[c]
  BY DEF Merge, BooksInv
<1>2. Merged' = Merged \cup {b} /\ b \notin Merged
  BY <1>1 DEF Merged
<1>3. processed' = Cardinality(Merged')
  <2>1. Merged \in SUBSET Bundles /\ processed' = processed + 1
    BY DEF Merged, Merge
  <2> QED BY <1>2, <2>1, OneMore DEF BooksInv
<1>4. succeeded' = Cardinality(Succeeded')
  <2>1. Succeeded \in SUBSET Bundles /\ b \notin Succeeded
    BY DEF Succeeded
  <2>2. CASE status = "success"
    <3>1. Succeeded' = Succeeded \cup {b}
      BY <1>1, <2>2 DEF Succeeded
    <3> QED BY <2>1, <2>2, <3>1, OneMore DEF Merge, BooksInv
  <2>3. CASE status # "success"
    <3>1. Succeeded' = Succeeded
      BY <1>1, <2>3 DEF Succeeded
    <3> QED BY <2>3, <3>1 DEF Merge, BooksInv
  <2> QED BY <2>2, <2>3
<1>5. \A u \in S : u \in Units => records[u] = 0
  <2> SUFFICES ASSUME NEW u \in S, u \in Units, records[u] = 1 PROVE FALSE
    BY DEF BooksInv
  <2>1. PICK c \in Merged : u \in UnitsOf(plan.bundle[c])
    BY DEF BooksInv
  <2>2. c \in Bundles /\ c # b
    BY <1>2, <2>1 DEF Merged
  <2>3. UnitsOf(plan.bundle[b]) \cap UnitsOf(plan.bundle[c]) = {}
    BY <2>2, PlansAssumption DEF BundlesInv, PlanOK
  <2> QED BY <2>1, <2>3
<1>6. records' = [u \in Units |-> IF u \in S THEN records[u] + 1 ELSE records[u]]
  BY DEF Merge, Counted
<1>7. records' \in [Units -> {0, 1}]
  <2>1. ASSUME NEW u \in Units
        PROVE  (IF u \in S THEN records[u] + 1 ELSE records[u]) \in {0, 1}
    <3>1. records[u] \in {0, 1}
      BY DEF BooksInv
    <3>2. CASE u \in S
      <4>1. records[u] = 0
        BY <1>5, <3>2
      <4>2. records[u] + 1 = 1
        BY <4>1, Numbers, Zenon
      <4> QED BY <3>2, <4>2
    <3> QED BY <3>1, <3>2
  <2> QED BY <1>6, <2>1
<1>8. ASSUME NEW u \in Units, records'[u] = 1
      PROVE  \E c \in Merged' : u \in UnitsOf(plan'.bundle[c])
  <2>1. CASE u \in S
    BY <1>2, <2>1
  <2>2. CASE u \notin S
    <3>1. records[u] = 1
      BY <1>6, <1>8, <2>2
    <3> QED BY <1>2, <3>1 DEF BooksInv
  <2> QED BY <2>1, <2>2
<1> QED BY <1>1, <1>2, <1>3, <1>4, <1>7, <1>8

-----------------------------------------------------------------------------
(* The books are kept by every step.                                       *)

LEMMA BooksInit ==
    ASSUME Init
    PROVE  BooksInv
<1>1. /\ details = [b \in Bundles |-> ""] /\ records = [u \in Units |-> 0]
      /\ processed = 0 /\ succeeded = 0 /\ mode = "idle"
      /\ saved = [b \in Bundles |-> NoCheckpoint]
      /\ work = [b \in Bundles |-> NoWork]
  BY DEF Init
<1>2. Merged = {} /\ Succeeded = {} /\ Cardinality({}) = 0
  BY <1>1, FS_EmptySet DEF Merged, Succeeded
<1>3. NoCheckpoint \in Checkpoint /\ NoCheckpoint.units = {}
  BY DEF NoCheckpoint, Checkpoint
<1>4. /\ saved \in [Bundles -> Checkpoint]
      /\ \A b \in Bundles : saved[b].units \subseteq UnitsOf(plan.bundle[b])
      /\ \A b \in Bundles : saved[b] = NoCheckpoint
  BY <1>1, <1>3
<1>5. \A b \in RunningSet : details[b] = ""
  BY <1>1 DEF RunningSet
<1>6. details \in [Bundles -> {"", "success", "failed"}] /\ records \in [Units -> {0, 1}]
      /\ \A u \in Units : records[u] = 0
  BY <1>1
<1>7. processed = Cardinality(Merged) /\ succeeded = Cardinality(Succeeded)
  BY <1>1, <1>2
<1>8. \A u \in Units : records[u] # 1
  BY <1>6, Numbers, Zenon
<1>9. mode = "idle"
  BY <1>1
<1> QED BY <1>2, <1>4, <1>5, <1>6, <1>7, <1>8, <1>9 DEF BooksInv

\* A run that begins, or a process that does: nothing is merged.
LEMMA FreshBooks ==
    ASSUME BooksInv, Fresh, saved' = saved, plan' = plan,
           mode' \in {"idle", "planned"}
    PROVE  BooksInv'
<1> USE BundleNumbers
<1>1. /\ details' = [b \in Bundles |-> ""] /\ records' = [u \in Units |-> 0]
      /\ processed' = 0 /\ succeeded' = 0
      /\ work' = [b \in Bundles |-> NoWork]
  BY DEF Fresh
<1>2. Merged' = {} /\ Succeeded' = {} /\ Cardinality({}) = 0
  BY <1>1, FS_EmptySet DEF Merged, Succeeded
<1>4. \A b \in Bundles : details'[b] = ""
  BY <1>1
<1>5. RunningSet' \subseteq Bundles
  BY DEF RunningSet
<1>6. details' \in [Bundles -> {"", "success", "failed"}] /\ records' \in [Units -> {0, 1}]
      /\ \A u \in Units : records'[u] = 0
  BY <1>1
<1>7. /\ saved' \in [Bundles -> Checkpoint]
      /\ \A b \in Bundles : saved'[b].units \subseteq UnitsOf(plan'.bundle[b])
      /\ \A b \in Bundles : saved'[b] = NoCheckpoint \/ IsCheckpoint(saved'[b])
  BY DEF BooksInv
<1>8. mode' # "running" /\ mode' # "ended"
  OBVIOUS
<1>9. processed' = Cardinality(Merged') /\ succeeded' = Cardinality(Succeeded')
  BY <1>1, <1>2
<1>10. \A u \in Units : records'[u] # 1
  BY <1>6, Numbers, Zenon
<1>11. \A b \in RunningSet' : details'[b] = ""
  BY <1>4, <1>5
<1> QED BY <1>2, <1>4, <1>6, <1>7, <1>8, <1>9, <1>10, <1>11 DEF BooksInv

LEMMA LocalBooks ==
    ASSUME BundlesInv, BooksInv, NEW b \in Bundles, Local(b) \/ Write(b)
    PROVE  BooksInv'
<1>1. /\ mode = "running" /\ RunningSet' = RunningSet
      /\ UNCHANGED <<run, slots, merged, result>> /\ Idle
      /\ Local(b) => UNCHANGED saved
  BY LocalKeepsRunning
<1>2. Merged' = Merged /\ Succeeded' = Succeeded
  BY <1>1 DEF Merged, Succeeded, merged
<1>3. CASE saved' = saved
  BY <1>1, <1>2, <1>3 DEF BooksInv, run, merged, Idle
<1>4. CASE saved' # saved
  <2> DEFINE w == work[b]
             c == [commit |-> meta, built |-> built, snap |-> w.snap, units |-> w.units,
                   read |-> w.read]
  <2>1. saved' = [saved EXCEPT ![b] = c]
    BY <1>1, <1>4 DEF Write
  <2>2. WorkOK(b, w) /\ w \in Work /\ meta \in Commits \cup {Unknown} /\ built \in Commits
    BY DEF BundlesInv, WorkOK
  <2>3. c \in Checkpoint /\ IsCheckpoint(c) /\ c.units \subseteq UnitsOf(plan.bundle[b])
    BY <2>2 DEF Checkpoint, IsCheckpoint, WorkOK, Work
  <2> HIDE DEF c
  <2>4. /\ saved' \in [Bundles -> Checkpoint]
        /\ \A a \in Bundles : saved'[a].units \subseteq UnitsOf(plan.bundle[a])
        /\ \A a \in Bundles : saved'[a] = NoCheckpoint \/ IsCheckpoint(saved'[a])
    BY <2>1, <2>3 DEF BooksInv
  <2> QED BY <1>1, <1>2, <2>4 DEF BooksInv, run, merged, Idle
<1> QED BY <1>3, <1>4

LEMMA ReuseBooks ==
    ASSUME BundlesInv, ControlInv, BooksInv, NEW b \in Bundles, Reuse(b)
    PROVE  BooksInv'
<1> USE BundleNumbers
<1>1. /\ mode = "running" /\ mode' = mode /\ at = b /\ at' = b + 1 /\ cancelled' = cancelled
      /\ work' = work /\ saved' = saved /\ plan' = plan
  BY DEF Reuse, Idle
<1>2. RunningSet = {} /\ RunningSet' = {}
  <2>1. \A c \in Bundles : at <= NBundles + c
    BY <1>1
  <2> QED BY <1>1, <2>1 DEF ControlInv, NotYet, RunningSet, Started
<1>3. details[b] = ""
  <2>1. at <= b
    BY <1>1
  <2> QED BY <1>1, <2>1 DEF BooksInv
<1>4. \A c \in Bundles : /\ at' <= c => at <= c /\ c # b
                         /\ ~(at' > NBundles + c)
  BY <1>1
<1>5. CASE UNCHANGED merged
  <2>1. Merged' = Merged /\ Succeeded' = Succeeded
    BY <1>5 DEF Merged, Succeeded, merged
  <2> QED BY <1>1, <1>2, <1>4, <1>5, <2>1 DEF BooksInv, merged
<1>6. CASE Merge(b, "success", saved[b].units)
  <2>1. saved[b].units \subseteq UnitsOf(plan.bundle[b])
    BY DEF BooksInv
  <2>2. /\ details' \in [Bundles -> {"", "success", "failed"}]
        /\ Merged' = Merged \cup {b} /\ \A c \in Bundles \ {b} : details'[c] = details[c]
        /\ processed' = Cardinality(Merged') /\ succeeded' = Cardinality(Succeeded')
        /\ records' \in [Units -> {0, 1}]
        /\ \A u \in Units : records'[u] = 1 =>
              \E c \in Merged' : u \in UnitsOf(plan'.bundle[c])
    BY <1>1, <1>3, <1>6, <2>1, MergeBooks
  <2> QED BY <1>1, <1>2, <1>4, <2>2 DEF BooksInv
<1> QED BY <1>5, <1>6 DEF Reuse

LEMMA SpawnBooks ==
    ASSUME BundlesInv, ControlInv, BooksInv, NEW b \in Bundles, Spawn(b)
    PROVE  BooksInv'
<1> USE BundleNumbers
<1>1. /\ mode = "running" /\ mode' = mode /\ at = NBundles + b /\ at' = at + 1
      /\ ~cancelled /\ cancelled' = cancelled
      /\ details' = details /\ records' = records /\ processed' = processed
      /\ succeeded' = succeeded /\ saved' = saved /\ plan' = plan
  BY DEF Spawn, Idle, merged
<1>2. Merged' = Merged /\ Succeeded' = Succeeded
  BY <1>1 DEF Merged, Succeeded
<1>3. \A c \in Bundles : /\ ~(at' <= c)
                         /\ at' > NBundles + c => c = b \/ at > NBundles + c
  BY <1>1
<1>4. CASE Skip(b)
  <2>1. RunningSet' = RunningSet /\ b \in Merged
    BY <1>4, SpawnRuns DEF Skip, Merged
  <2> QED BY <1>1, <1>2, <1>3, <2>1 DEF BooksInv
<1>5. CASE ~Skip(b)
  <2>1. RunningSet' = RunningSet \cup {b} /\ details[b] = ""
    BY <1>5, SpawnRuns DEF Skip
  <2> QED BY <1>1, <1>2, <1>3, <2>1 DEF BooksInv
<1> QED BY <1>4, <1>5

LEMMA LeaveBooks ==
    ASSUME BundlesInv, ControlInv, BooksInv, NEW b \in Bundles, MergeBundle(b)
    PROVE  BooksInv'
<1> USE BundleNumbers
<1> DEFINE status == IF work[b].ok THEN "success" ELSE "failed"
           S == work[b].units
<1>1. /\ mode = "running" /\ mode' = mode /\ at' = at /\ cancelled' = cancelled
      /\ saved' = saved /\ plan' = plan /\ Merge(b, status, S)
  BY DEF MergeBundle, Idle, run
<1>2. Started(b) /\ RunningSet' = RunningSet \ {b} /\ b \in RunningSet
  BY LeaveEnds DEF RunningSet
<1>3. details[b] = "" /\ S \subseteq UnitsOf(plan.bundle[b]) /\ status \in {"success", "failed"}
  BY <1>2 DEF BooksInv, BundlesInv, WorkOK
<1> HIDE DEF status, S
<1>4. /\ details' \in [Bundles -> {"", "success", "failed"}]
      /\ Merged' = Merged \cup {b} /\ \A c \in Bundles \ {b} : details'[c] = details[c]
      /\ processed' = Cardinality(Merged') /\ succeeded' = Cardinality(Succeeded')
      /\ records' \in [Units -> {0, 1}]
      /\ \A u \in Units : records'[u] = 1 =>
            \E c \in Merged' : u \in UnitsOf(plan'.bundle[c])
  BY <1>1, <1>3, MergeBooks
<1>5. ~(at <= b)
  <2>1. at <= b => at <= NBundles + b
    BY DEF ControlInv
  <2> QED BY <1>1, <1>2, <2>1 DEF ControlInv, NotYet
<1>6. RunningSet' \subseteq Bundles \ {b} /\ RunningSet' \subseteq RunningSet
  BY <1>2 DEF RunningSet
<1> QED BY <1>1, <1>2, <1>4, <1>5, <1>6 DEF BooksInv

LEMMA StartBooks ==
    ASSUME BundlesInv, ControlInv, BooksInv, Start
    PROVE  BooksInv'
<1> USE BundleNumbers
<1>1. /\ mode = "planned" /\ mode' = "running" /\ at' = 1 /\ work' = work
      /\ details' = details /\ records' = records /\ processed' = processed
      /\ succeeded' = succeeded /\ saved' = saved /\ plan' = plan
  BY DEF Start, Idle, merged
<1>2. Merged' = Merged /\ Succeeded' = Succeeded /\ RunningSet' = RunningSet
  BY <1>1 DEF Merged, Succeeded, RunningSet, Started
<1>3. \A b \in Bundles : details[b] = ""
  BY <1>1 DEF BooksInv, Merged
<1>4. \A b \in Bundles : ~(at' > NBundles + b)
  BY <1>1
<1> QED BY <1>1, <1>2, <1>3, <1>4 DEF BooksInv

LEMMA OthersBooks ==
    ASSUME BundlesInv, ControlInv, BooksInv,
           Break \/ Finish \/ Cancel \/ (\E c \in Commits : Switch(c)) \/ UNCHANGED vars
    PROVE  BooksInv'
<1> USE BundleNumbers
<1>1. /\ work' = work /\ details' = details /\ records' = records /\ processed' = processed
      /\ succeeded' = succeeded /\ saved' = saved /\ plan' = plan
  BY DEF Break, Finish, Cancel, Switch, vars, merged, Idle
<1>2. Merged' = Merged /\ Succeeded' = Succeeded /\ RunningSet' = RunningSet
  BY <1>1 DEF Merged, Succeeded, RunningSet, Started
<1>3. CASE (\E c \in Commits : Switch(c)) \/ UNCHANGED vars
  <2>1. UNCHANGED run
    BY <1>3 DEF Switch, vars
  <2> QED BY <1>1, <1>2, <2>1 DEF BooksInv, run
<1>4. CASE Break
  <2>1. mode' = mode /\ mode = "running" /\ cancelled' = cancelled /\ cancelled
        /\ at' = 2 * NBundles + 1
    BY <1>4 DEF Break
  <2>2. \A c \in Bundles : ~(at' <= c)
    BY <2>1
  <2> QED BY <1>1, <1>2, <2>1, <2>2 DEF BooksInv
<1>5. CASE Finish
  <2>1. /\ mode = "running" /\ mode' = "ended" /\ at > 2 * NBundles
        /\ cancelled' = cancelled /\ RunningSet = {}
    BY <1>5 DEF Finish, RunningSet
  <2>2. \A c \in Bundles : at > NBundles + c
    BY <2>1 DEF ControlInv
  <2>3. ~cancelled => Merged = Bundles
    BY <2>1, <2>2 DEF BooksInv, Merged
  <2> QED BY <1>1, <1>2, <2>1, <2>3 DEF BooksInv
<1>6. CASE Cancel
  <2>1. mode' = mode /\ cancelled' /\ at' = at /\ mode \in {"planned", "running"}
    BY <1>6 DEF Cancel
  <2> QED BY <1>1, <1>2, <2>1 DEF BooksInv
<1> QED BY <1>3, <1>4, <1>5, <1>6

LEMMA BooksKept ==
    ASSUME BundlesInv, ControlInv, BooksInv, [Next]_vars
    PROVE  BooksInv'
<1>1. ASSUME Plan \/ Crash PROVE BooksInv'
  BY <1>1, FreshBooks DEF Plan, Crash
<1>4. ASSUME Start PROVE BooksInv'
  BY <1>4, StartBooks
<1>2. ASSUME NEW b \in Bundles, Reuse(b) \/ Spawn(b) \/ Local(b) \/ Write(b) \/ MergeBundle(b)
      PROVE  BooksInv'
  BY <1>2, ReuseBooks, SpawnBooks, LocalBooks, LeaveBooks
<1>3. ASSUME Break \/ Finish \/ Cancel \/ (\E c \in Commits : Switch(c)) \/ UNCHANGED vars
      PROVE  BooksInv'
  BY <1>3, OthersBooks
<1> QED BY <1>1, <1>2, <1>3, <1>4, NextCases DEF Others

BooksAll == WorkInv /\ BooksInv
LEMMA BooksHold == Spec => []BooksAll
<1>1. Init => BooksAll
  BY WorkInvInit, BooksInit DEF BooksAll
<1>2. BooksAll /\ [Next]_vars => BooksAll'
  BY WorkInvNext, BooksKept DEF BooksAll, WorkInv
<1> QED BY <1>1, <1>2, PTL DEF Spec

LEMMA BooksAccount ==
    ASSUME BooksAll
    PROVE  Accounting
<1>1. processed = Cardinality(Merged) /\ succeeded = Cardinality(Succeeded)
  BY DEF BooksAll, BooksInv
<1>2. ASSUME NEW u \in Units PROVE records[u] <= 1
  <2>1. records[u] \in {0, 1}
    BY DEF BooksAll, BooksInv
  <2> QED BY <2>1
<1>3. mode = "ended" /\ ~cancelled => processed = NBundles
  BY <1>1, BundlesFinite DEF BooksAll, BooksInv
<1> QED BY <1>1, <1>2, <1>3 DEF Accounting, Merged, Succeeded

\* For any number of bundles, any plan and any number of resumptions: the
\* progress counts the bundles with details, none twice, none forgotten by a
\* run that nobody cancelled, and no unit has two records.
THEOREM ProgressAddsUp == Spec => []Accounting
  BY BooksHold, BooksAccount, PTL

-----------------------------------------------------------------------------
(* The coverage of what was merged.                                        *)

\* A bundle without details has units without a record.
LEMMA BlankIsMissing ==
    ASSUME BooksAll, NEW b \in Bundles, details[b] = ""
    PROVE  MissingUnits(plan) # {}
<1>1. plan \in Plans
  BY DEF BooksAll, WorkInv, BundlesInv
<1>2. PICK u : u \in UnitsOf(plan.bundle[b])
  BY <1>1, BundleIsPart, PartUnits
<1>3. u \in Units /\ u \in Planned(plan)
  BY <1>1, <1>2, BundleIsPart, PartUnits DEF Planned
<1>4. records[u] # 1
  <2> SUFFICES ASSUME records[u] = 1 PROVE FALSE
    OBVIOUS
  <2>1. PICK c \in Merged : u \in UnitsOf(plan.bundle[c])
    BY <1>3 DEF BooksAll, BooksInv
  <2>2. c \in Bundles /\ c # b
    BY <2>1 DEF Merged
  <2>3. UnitsOf(plan.bundle[b]) \cap UnitsOf(plan.bundle[c]) = {}
    BY <1>1, <2>2, PlansAssumption DEF PlanOK
  <2> QED BY <1>2, <2>1, <2>3
<1>5. records[u] = 0
  <2>1. records[u] \in {0, 1}
    BY <1>3 DEF BooksAll, BooksInv
  <2> QED BY <1>4, <2>1
<1> QED BY <1>3, <1>5 DEF MissingUnits

LEMMA NothingMissing ==
    ASSUME BooksAll, MissingUnits(plan) = {}
    PROVE  \A u \in Planned(plan) : records[u] = 1
<1> TAKE u \in Planned(plan)
<1>1. u \in Units
  BY BundleIsPart, PartUnits DEF Planned, BooksAll, WorkInv, BundlesInv
<1>2. records[u] \in {0, 1} /\ records[u] # 0
  BY <1>1 DEF BooksAll, BooksInv, MissingUnits
<1> QED BY <1>2

LEMMA ChunksHaveUnits ==
    ASSUME BooksAll, NEW b \in Bundles
    PROVE  InChunks(plan, details[b]) # {}
<1>1. UnitsOf(plan.bundle[b]) # {}
  BY BundleIsPart, PartUnits DEF BooksAll, WorkInv, BundlesInv
<1> QED BY <1>1 DEF InChunks

LEMMA CompleteIsHonest ==
    ASSUME BooksAll, CoverageState(plan) = "COMPLETE"
    PROVE  /\ \A b \in Bundles : details[b] = "success"
           /\ \A u \in Planned(plan) : records[u] = 1
<1>1. CoverageComplete(plan)
  BY DEF CoverageState
<1>2. InChunks(plan, "failed") = {} /\ MissingUnits(plan) = {}
  BY <1>1 DEF CoverageComplete, AnalysisComplete
<1>3. ASSUME NEW b \in Bundles PROVE details[b] = "success"
  <2>1. details[b] \in {"", "success", "failed"}
    BY DEF BooksAll, BooksInv
  <2>2. details[b] # ""
    BY <1>2, BlankIsMissing
  <2>3. details[b] # "failed"
    BY <1>2, ChunksHaveUnits
  <2> QED BY <2>1, <2>2, <2>3
<1> QED BY <1>2, <1>3, NothingMissing

LEMMA SuccessIsHonest ==
    ASSUME BooksAll, TerminalTaskStatus(plan) = "success"
    PROVE  /\ \A b \in Bundles : details[b] = "success"
           /\ \A u \in Planned(plan) : records[u] = 1
<1>1. FailedChunks # Bundles
  BY DEF TerminalTaskStatus
<1>2. FailedChunks = {} /\ MissingUnits(plan) = {}
  BY <1>1 DEF TerminalTaskStatus
<1>3. \A b \in Bundles : details[b] = "success"
  BY <1>2 DEF FailedChunks
<1> QED BY <1>2, <1>3, NothingMissing

LEMMA NothingIsFailed ==
    ASSUME BooksAll, CoverageState(plan) = "NOT_APPLICABLE"
    PROVE  TerminalTaskStatus(plan) = "failed"
<1>1. Files(plan) = {}
  BY DEF CoverageState
<1>2. \A b \in Bundles : details[b] # "success"
  BY <1>1, ChunksHaveUnits DEF Files
<1>3. FailedChunks = Bundles
  BY <1>2 DEF FailedChunks
<1> QED BY <1>3 DEF TerminalTaskStatus

LEMMA HonestKept ==
    ASSUME BooksAll, CoverageHonest, [Next]_vars
    PROVE  CoverageHonest'
<1>1. CASE mode' # "ended"
  BY <1>1 DEF CoverageHonest
<1>2. CASE Finish
  <2>1. /\ result' = [coverage |-> CoverageState(plan), status |-> TerminalTaskStatus(plan)]
        /\ details' = details /\ records' = records /\ plan' = plan
    BY <1>2 DEF Finish, merged, Idle
  <2>2. Planned(plan)' = Planned(plan)
    BY <2>1
  <2>3. /\ result'.coverage = CoverageState(plan) /\ result'.status = TerminalTaskStatus(plan)
    BY <2>1
  <2>4. result'.coverage = "COMPLETE" \/ result'.status = "success" =>
          /\ \A b \in Bundles : details[b] = "success"
          /\ \A u \in Planned(plan) : records[u] = 1
    BY <2>3, CompleteIsHonest, SuccessIsHonest
  <2>5. result'.coverage = "NOT_APPLICABLE" => result'.status = "failed"
    BY <2>3, NothingIsFailed
  <2> QED BY <2>1, <2>2, <2>4, <2>5 DEF CoverageHonest
<1>3. CASE mode' = "ended" /\ ~Finish
  <2>1. mode = "ended" /\ UNCHANGED <<details, records, plan, result>>
    <3>1. ASSUME Others PROVE mode = "ended" /\ UNCHANGED <<details, records, plan, result>>
      BY <1>3, <3>1 DEF Others, Plan, Start, Break, Cancel, Crash, Switch, Reuse, run, merged, Idle
    <3>2. ASSUME NEW b \in Bundles, Local(b) \/ Write(b) PROVE FALSE
      <4>1. mode = "running" /\ mode' = mode
        BY <3>2, LocalKeepsRunning DEF BooksAll, WorkInv, run
      <4> QED BY <1>3, <4>1
    <3>3. ASSUME NEW b \in Bundles, Spawn(b) \/ MergeBundle(b) PROVE FALSE
      BY <1>3, <3>3 DEF Spawn, MergeBundle, run
    <3>4. CASE UNCHANGED vars
      BY <1>3, <3>4 DEF vars, run, merged
    <3> QED BY <3>1, <3>2, <3>3, <3>4, NextCases
  <2>2. Planned(plan)' = Planned(plan)
    BY <2>1
  <2> QED BY <2>1, <2>2 DEF CoverageHonest
<1> QED BY <1>1, <1>2, <1>3

\* For every plan and every history of a run: what is reported as complete, or
\* as a success, rests on bundles that all succeeded and on a record of every
\* planned unit.
THEOREM CoverageIsHonest == Spec => []CoverageHonest
<1>1. Init => CoverageHonest
  BY DEF Init, CoverageHonest
<1>2. BooksAll /\ CoverageHonest /\ [Next]_vars => CoverageHonest'
  BY HonestKept
<1> QED BY <1>1, <1>2, BooksHold, PTL DEF Spec

-----------------------------------------------------------------------------
(* The checkpoints, and the working tree that moves under them.            *)

\* What is known of a checkpoint while the tree has not come back to a commit,
\* if it names the commit its bundle was built from: one of the commit that is
\* there was made of the files that are there, and one of the commit of the
\* start, that this run has not replaced yet, is of the files whose hash it holds.
SavedHere(b) == saved[b] # NoCheckpoint /\ saved[b].commit = tree /\ Sound(saved[b]) =>
                    saved[b].read = {Content[tree][b]} /\ saved[b].snap = Content[tree][b]
SavedBefore(b) == saved[b] # NoCheckpoint /\ saved[b].commit = meta /\ Sound(saved[b])
                     /\ mode = "running" /\ at <= b => saved[b].read = {saved[b].snap}
SavedOnceHere(b) == saved[b] # NoCheckpoint => saved[b].commit \in left \cup {tree, Unknown}
\* A goroutine of a run whose commit is still there, as it was when the bundles
\* were built, has read nothing else.
ReadsHere(b) == Started(b) => /\ work[b].read = {Content[tree][b]}
                              /\ work[b].pc = "write" => work[b].snap = Content[tree][b]
TreeInv ==
    /\ \A b \in Bundles : SavedOnceHere(b)
    /\ mode = "running" => meta \in left \cup {tree, Unknown}
    /\ ~back => /\ tree \notin left
                /\ \A b \in Bundles : SavedHere(b) /\ SavedBefore(b)
                /\ mode = "running" /\ meta = tree /\ built = tree =>
                      \A b \in Bundles : ReadsHere(b)

\* A checkpoint that names the commit of its bundles names one.
LEMMA SoundIsKnown ==
    ASSUME BooksInv, NEW b \in Bundles, saved[b] # NoCheckpoint, Sound(saved[b])
    PROVE  saved[b].commit \in Commits /\ saved[b].commit # Unknown
  BY DebateAssumption DEF BooksInv, IsCheckpoint, Sound

LEMMA StartTree ==
    ASSUME ControlInv, BooksInv, TreeInv, Start
    PROVE  TreeInv'
<1>1. /\ mode = "planned" /\ mode' = "running" /\ meta' \in {tree, Unknown} /\ tree' = tree
      /\ saved' = saved /\ left' = left /\ back' = back /\ work' = work
  BY DEF Start, Idle
<1>2. \A b \in Bundles : ~Started(b)'
  BY <1>1 DEF ControlInv, RunningSet, Started
<1>3. ASSUME NEW b \in Bundles
      PROVE  /\ SavedOnceHere(b)'
             /\ ~back' => SavedHere(b)' /\ SavedBefore(b)' /\ ReadsHere(b)'
  <2>1. SavedOnceHere(b) /\ (~back => SavedHere(b))
    BY DEF TreeInv
  <2>2. SavedOnceHere(b)' /\ (~back => SavedHere(b)')
    BY <1>1, <2>1 DEF SavedOnceHere, SavedHere, Sound
  <2>3. ReadsHere(b)'
    BY <1>2 DEF ReadsHere
  <2>4. CASE meta' = tree
    BY <1>1, <2>1, <2>2, <2>3, <2>4 DEF SavedHere, SavedBefore, Sound
  <2>5. CASE meta' = Unknown
    <3>1. ~(saved[b] # NoCheckpoint /\ saved[b].commit = Unknown /\ Sound(saved[b]))
      BY SoundIsKnown
    <3>2. SavedBefore(b)'
      BY <1>1, <2>5, <3>1 DEF SavedBefore, Sound
    <3> QED BY <1>1, <2>2, <2>3, <3>2
  <2> QED BY <1>1, <2>4, <2>5
<1> QED BY <1>1, <1>3 DEF TreeInv

\* The tree leaves its commit. If it comes to one where it was, it came back.
LEMMA SwitchTree ==
    ASSUME TreeInv, NEW c \in Commits, Switch(c)
    PROVE  TreeInv'
<1>1. /\ c # tree /\ tree' = c /\ left' = left \cup {tree} /\ back' = (back \/ c \in left)
      /\ mode' = mode /\ meta' = meta /\ at' = at /\ saved' = saved /\ work' = work
  BY DEF Switch, run
<1>2. \A b \in Bundles : SavedOnceHere(b)'
  BY <1>1 DEF TreeInv, SavedOnceHere
<1>3. mode' = "running" => meta' \in left' \cup {tree', Unknown}
  BY <1>1 DEF TreeInv
<1>4. ASSUME ~back'
      PROVE  /\ tree' \notin left'
             /\ \A b \in Bundles : SavedHere(b)' /\ SavedBefore(b)'
             /\ ~(mode' = "running" /\ meta' = tree')
  <2>1. ~back /\ c \notin left /\ c # Unknown
    BY <1>1, <1>4, DebateAssumption
  <2>2. \A b \in Bundles : SavedHere(b)'
    BY <1>1, <2>1 DEF TreeInv, SavedOnceHere, SavedHere
  <2>3. \A b \in Bundles : SavedBefore(b)'
    BY <1>1, <2>1 DEF TreeInv, SavedBefore, Sound
  <2> QED BY <1>1, <2>1, <2>2, <2>3 DEF TreeInv
<1> QED BY <1>2, <1>3, <1>4 DEF TreeInv

\* The steps of the main loop and of a goroutine that does not write.
LEMMA CalmTree ==
    ASSUME TreeInv, UNCHANGED <<tree, left, back, saved>>,
           mode' = "running" => /\ mode = "running" /\ meta' = meta /\ built' = built
                                /\ \A b \in Bundles : at' <= b => at <= b,
           ~back /\ mode' = "running" /\ meta = tree /\ built = tree =>
              \A b \in Bundles : ReadsHere(b) => ReadsHere(b)'
    PROVE  TreeInv'
<1>1. ASSUME NEW b \in Bundles
      PROVE  /\ SavedOnceHere(b)'
             /\ ~back => SavedHere(b)' /\ SavedBefore(b)'
  <2>1. SavedOnceHere(b) /\ (~back => SavedHere(b) /\ SavedBefore(b))
    BY DEF TreeInv
  <2>2. SavedOnceHere(b)' /\ (~back => SavedHere(b)')
    BY <2>1 DEF SavedOnceHere, SavedHere, Sound
  <2>3. ~back => SavedBefore(b)'
    BY <2>1 DEF SavedBefore, Sound
  <2> QED BY <2>2, <2>3
<1> QED BY <1>1 DEF TreeInv

LEMMA MovesRead ==
    ASSUME BundlesInv, NEW b \in Bundles, Local(b), NEW c \in Bundles, ReadsHere(c),
           tree' = tree, built = tree
    PROVE  ReadsHere(c)'
<1>1. PICK v : Moves(b, v)
  BY LocalMoves DEF BundlesInv
<1>2. v \in Work /\ v.read \in {work[b].read, Evidence(b)} /\ Started(b)
      /\ (v.pc = "write" => v.snap = Content[tree][b])
  BY <1>1 DEF Moves, Onward, WorkOK
<1> DEFINE w == Here(v, b)
<1>3. w.read = v.read \cup {Content[tree][b]} /\ w.pc = v.pc /\ w.snap = v.snap
  BY <1>2 DEF Here, Work
<1>4. work' = [work EXCEPT ![b] = w]
  BY <1>1 DEF Moves, Step
<1> HIDE DEF w
<1>5. CASE c = b
  <2>1. work'[c] = w
    BY <1>4, <1>5 DEF BundlesInv
  <2>2. v.read \subseteq {Content[tree][b]}
    BY <1>2, <1>5 DEF ReadsHere, Evidence
  <2> QED BY <1>2, <1>3, <1>5, <2>1, <2>2 DEF ReadsHere
<1>6. CASE c # b
  <2>1. work'[c] = work[c]
    BY <1>4, <1>6 DEF BundlesInv
  <2> QED BY <2>1 DEF ReadsHere, Started
<1> QED BY <1>5, <1>6

LEMMA WriteTree ==
    ASSUME BundlesInv, ControlInv, BooksInv, TreeInv, NEW b \in Bundles, Write(b)
    PROVE  TreeInv'
<1> USE BundleNumbers
<1> DEFINE w == work[b]
           c == [commit |-> meta, built |-> built, snap |-> w.snap, units |-> w.units,
                 read |-> w.read]
<1>1. /\ mode = "running" /\ mode' = mode /\ meta' = meta /\ at' = at /\ tree' = tree
      /\ built' = built /\ left' = left /\ back' = back /\ w.pc = "write"
      /\ work' = [work EXCEPT ![b] = [work[b] EXCEPT !.pc = "merge"]]
      /\ saved' = saved \/ saved' = [saved EXCEPT ![b] = c]
  BY DEF Write, run, Idle
<1>2. /\ \A a \in Bundles : saved'[a] = saved[a] \/ (a = b /\ saved'[a] = c)
      /\ c.commit = meta /\ c.snap = w.snap /\ c.read = w.read /\ c.built = built
  BY <1>1 DEF BooksInv
<1> HIDE DEF c
<1>3. ASSUME NEW a \in Bundles, ReadsHere(a)
      PROVE  ReadsHere(a)'
  <2>1. CASE a = b
    <3>1. work'[a].read = work[a].read /\ work'[a].pc = "merge" /\ Started(a)
      BY <1>1, <2>1 DEF BundlesInv, Work, Started
    <3> QED BY <1>1, <1>3, <3>1 DEF ReadsHere
  <2>2. CASE a # b
    <3>1. work'[a] = work[a]
      BY <1>1, <2>2 DEF BundlesInv
    <3> QED BY <1>1, <1>3, <3>1 DEF ReadsHere, Started
  <2> QED BY <2>1, <2>2
<1>4. ~(at <= b)
  <2>1. at <= b => at <= NBundles + b
    BY DEF ControlInv
  <2>2. Started(b)
    BY <1>1 DEF Started
  <2> QED BY <1>1, <2>1, <2>2 DEF ControlInv, NotYet
<1>5. ASSUME NEW a \in Bundles
      PROVE  /\ SavedOnceHere(a)'
             /\ ~back => SavedHere(a)' /\ SavedBefore(a)'
  <2>1. CASE saved'[a] = saved[a]
    BY <1>1, <2>1 DEF TreeInv, SavedOnceHere, SavedHere, SavedBefore, Sound
  <2>2. CASE a = b /\ saved'[a] = c
    <3>1. SavedOnceHere(a)'
      BY <1>1, <1>2, <2>2 DEF TreeInv, SavedOnceHere
    <3>2. SavedBefore(a)'
      BY <1>1, <1>4, <2>2 DEF SavedBefore
    <3>3. ASSUME ~back, meta = tree, built = tree
          PROVE  w.read = {Content[tree][b]} /\ w.snap = Content[tree][b]
      <4>1. ReadsHere(b) /\ Started(b)
        BY <1>1, <3>3 DEF TreeInv, Started
      <4> QED BY <1>1, <4>1 DEF ReadsHere
    <3>4. ~back => SavedHere(a)'
      BY <1>1, <1>2, <2>2, <3>3 DEF SavedHere, Sound
    <3> QED BY <3>1, <3>2, <3>4
  <2> QED BY <1>2, <2>1, <2>2
<1> QED BY <1>1, <1>3, <1>5 DEF TreeInv

LEMMA TreeKept ==
    ASSUME BundlesInv, ControlInv, BooksInv, TreeInv, [Next]_vars
    PROVE  TreeInv'
<1> USE BundleNumbers
<1>1. CASE Start
  BY <1>1, StartTree
<1>2. CASE \E c \in Commits : Switch(c)
  BY <1>2, SwitchTree
<1>3. ASSUME NEW b \in Bundles, Write(b) PROVE TreeInv'
  BY <1>3, WriteTree
<1>4. ASSUME NEW b \in Bundles, Local(b) PROVE TreeInv'
  <2>1. /\ mode = "running" /\ UNCHANGED <<run, saved>> /\ Idle
    BY <1>4, LocalKeepsRunning
  <2>2. built = tree => \A c \in Bundles : ReadsHere(c) => ReadsHere(c)'
    BY <1>4, <2>1, MovesRead DEF Idle
  <2> QED BY <2>1, <2>2, CalmTree DEF run, Idle
<1>5. ASSUME NEW b \in Bundles, Spawn(b) PROVE TreeInv'
  <2>1. /\ mode = "running" /\ meta' = meta /\ built' = built /\ at = NBundles + b
        /\ at' = at + 1 /\ UNCHANGED <<tree, left, back, saved>>
    BY <1>5 DEF Spawn, Idle
  <2>2. \A c \in Bundles : at' <= c => at <= c
    BY <2>1
  <2>3. ASSUME NEW c \in Bundles, ReadsHere(c), built = tree PROVE ReadsHere(c)'
    <3>1. CASE work'[c] = work[c]
      BY <2>1, <2>3, <3>1 DEF ReadsHere, Started
    <3>2. CASE work'[c] # work[c]
      <4>1. /\ c = b /\ work'[c].read = Evidence(b) \cup {Content[tree][b]}
            /\ work'[c].pc = "hunter"
        BY <1>5, <3>2, SpawnRuns
      <4> QED BY <2>1, <2>3, <4>1 DEF ReadsHere, Evidence
    <3> QED BY <3>1, <3>2
  <2> QED BY <2>1, <2>2, <2>3, CalmTree
<1>6. ASSUME NEW b \in Bundles, MergeBundle(b) PROVE TreeInv'
  <2>1. mode = "running" /\ UNCHANGED <<run, saved>> /\ Idle
    BY <1>6 DEF MergeBundle
  <2>2. ASSUME NEW c \in Bundles, ReadsHere(c) PROVE ReadsHere(c)'
    <3>1. work'[b].pc = "done" /\ (c # b => work'[c] = work[c])
      BY <1>6, LeaveEnds
    <3> QED BY <2>1, <2>2, <3>1 DEF ReadsHere, Started, Idle
  <2> QED BY <2>1, <2>2, CalmTree DEF run, Idle
<1>7. ASSUME NEW b \in Bundles, Reuse(b) PROVE TreeInv'
  <2>1. /\ mode = "running" /\ meta' = meta /\ built' = built /\ at = b /\ at' = at + 1
        /\ work' = work
        /\ UNCHANGED <<tree, left, back, saved>>
    BY <1>7 DEF Reuse, Idle
  <2>2. \A c \in Bundles : at' <= c => at <= c
    BY <2>1
  <2>3. \A c \in Bundles : ReadsHere(c) => ReadsHere(c)'
    BY <2>1 DEF ReadsHere, Started
  <2> QED BY <2>1, <2>2, <2>3, CalmTree
<1>8. CASE Break \/ Finish \/ Cancel \/ UNCHANGED vars
  <2>1. /\ meta' = meta /\ built' = built /\ work' = work
        /\ UNCHANGED <<tree, left, back, saved>>
        /\ mode' = "running" => mode = "running"
    BY <1>8 DEF Break, Finish, Cancel, vars, run, Idle
  <2>2. \A c \in Bundles : at' <= c => at <= c
    <3>1. CASE at' = at
      BY <3>1
    <3>2. CASE at' = 2 * NBundles + 1
      BY <3>2
    <3> QED BY <1>8, <3>1, <3>2 DEF Break, Finish, Cancel, vars, run
  <2>3. \A c \in Bundles : ReadsHere(c) => ReadsHere(c)'
    BY <2>1 DEF ReadsHere, Started
  <2> QED BY <2>1, <2>2, <2>3, CalmTree
<1>9. CASE Plan \/ Crash
  <2>1. mode' \in {"idle", "planned"} /\ UNCHANGED <<tree, left, back, saved>>
    BY <1>9 DEF Plan, Crash
  <2> QED BY <2>1, CalmTree
<1> QED BY <1>1, <1>2, <1>3, <1>4, <1>5, <1>6, <1>7, <1>8, <1>9, NextCases DEF Others

LEMMA TreeFresh ==
    ASSUME BooksAll, TreeInv
    PROVE  ReuseIsFresh
<1> SUFFICES ASSUME ~back, NEW b \in Bundles, NEW c \in Reuses(b),
                    Accepts(saved[b], c, b), Sound(saved[b])
             PROVE  saved[b].read = {Content[tree][b]}
  BY DEF ReuseIsFresh
<1>1. saved[b] # NoCheckpoint /\ saved[b].snap = Content[tree][b]
  BY DEF Accepts
<1>2. saved[b].commit # Unknown
  BY <1>1, SoundIsKnown DEF BooksAll
<1>3. /\ c = tree \/ (c = meta /\ mode = "running" /\ at <= b)
      /\ c # Unknown
  BY DebateAssumption DEF Reuses, BooksAll, WorkInv, BundlesInv
<1>4. saved[b].commit = c
  BY <1>2, <1>3 DEF Accepts
<1> QED BY <1>1, <1>3, <1>4 DEF TreeInv, SavedHere, SavedBefore

\* For any contents of any commits, any number of switches of the working tree
\* by others, crashes and resumptions, and whether git tells the commit or not: a
\* checkpoint that is accepted, by a run that knows its commit, was made of what
\* is in the files now, if it names the commit its bundles were built from and
\* the tree did not come back to a commit it had left.
THEOREM ReusedIsFresh == Spec => []ReuseIsFresh
<1>1. Init => TreeInv
  <2> SUFFICES ASSUME Init PROVE TreeInv
    OBVIOUS
  <2>1. mode = "idle" /\ left = {} /\ \A b \in Bundles : saved[b] = NoCheckpoint
    BY DEF Init
  <2> QED BY <2>1 DEF TreeInv, SavedHere, SavedBefore, SavedOnceHere
<1>2. BooksAll /\ TreeInv /\ [Next]_vars => TreeInv'
  BY TreeKept DEF BooksAll, WorkInv
<1>3. BooksAll /\ TreeInv => ReuseIsFresh
  BY TreeFresh
<1> QED BY <1>1, <1>2, <1>3, BooksHold, PTL DEF Spec

-----------------------------------------------------------------------------
(* The semaphore, and the types.                                           *)

\* A slot is taken for every goroutine that runs, and given back by it.
SlotsInv ==
    /\ width \in Concurrency /\ slots = Cardinality(RunningSet) /\ slots \in 0 .. width
    /\ switches \in 0 .. MaxSwitches /\ stops \in 0 .. MaxStops /\ starts \in 0 .. MaxStarts

LEMMA SlotsKept ==
    ASSUME BundlesInv, ControlInv, SlotsInv, [Next]_vars
    PROVE  SlotsInv'
<1> USE BundleNumbers
<1>1. \A w \in Concurrency : w \in Nat \ {0}
  BY DebateAssumption
<1>2. {MaxSwitches, MaxStops, MaxStarts} \subseteq Nat
  BY DebateAssumption
<1>3. Cardinality({}) = 0
  BY FS_EmptySet
<1>9. ASSUME Start PROVE SlotsInv'
  <2>1. /\ slots' = slots /\ width' \in Concurrency /\ work' = work /\ UNCHANGED counts
        /\ mode = "planned"
    BY <1>9 DEF Start, Idle
  <2>2. RunningSet' = RunningSet /\ RunningSet = {}
    BY <2>1 DEF RunningSet, Started, ControlInv
  <2>3. slots' = Cardinality(RunningSet') /\ slots' = 0
    BY <1>3, <2>1, <2>2 DEF SlotsInv
  <2>4. slots' \in 0 .. width'
    BY <1>1, <2>1, <2>3
  <2> QED BY <2>1, <2>3, <2>4 DEF SlotsInv, counts
<1>4. ASSUME Plan \/ Crash PROVE SlotsInv'
  <2>1. slots' = 0 /\ width' \in Concurrency
    BY <1>4 DEF Plan, Crash, Fresh, SlotsInv
  <2>2. RunningSet' = {}
    <3>1. work' = [b \in Bundles |-> NoWork]
      BY <1>4 DEF Plan, Crash, Fresh
    <3>2. \A b \in Bundles : ~Started(b)'
      BY <3>1 DEF Started, NoWork
    <3> QED BY <3>2 DEF RunningSet
  <2>3. switches' \in 0 .. MaxSwitches /\ stops' \in 0 .. MaxStops /\ starts' \in 0 .. MaxStarts
    BY <1>2, <1>4 DEF Plan, Crash, SlotsInv
  <2>4. slots' \in 0 .. width' /\ slots' = Cardinality(RunningSet')
    BY <1>1, <1>3, <2>1, <2>2
  <2> QED BY <2>1, <2>3, <2>4 DEF SlotsInv
<1>5. ASSUME Break \/ Finish \/ Cancel \/ (\E c \in Commits : Switch(c))
             \/ (\E b \in Bundles : Reuse(b)) \/ UNCHANGED vars
      PROVE  SlotsInv'
  <2>1. slots' = slots /\ width' = width /\ work' = work
    BY <1>5 DEF Break, Finish, Cancel, Switch, Reuse, vars, run
  <2>2. RunningSet' = RunningSet
    BY <2>1 DEF RunningSet, Started
  <2>3. switches' \in 0 .. MaxSwitches /\ stops' \in 0 .. MaxStops /\ starts' \in 0 .. MaxStarts
    BY <1>2, <1>5 DEF Break, Finish, Cancel, Switch, Reuse, vars, SlotsInv, Idle, counts
  <2> QED BY <2>1, <2>2, <2>3 DEF SlotsInv
<1>6. ASSUME NEW b \in Bundles, Local(b) \/ Write(b) PROVE SlotsInv'
  BY <1>6, LocalKeepsRunning DEF SlotsInv, run, Idle, counts
<1>7. ASSUME NEW b \in Bundles, Spawn(b) PROVE SlotsInv'
  <2>1. width' = width /\ UNCHANGED counts
    BY <1>7 DEF Spawn, Idle
  <2>2. CASE Skip(b)
    BY <1>7, <2>1, <2>2, SpawnRuns DEF SlotsInv, counts
  <2>3. CASE ~Skip(b)
    <3>1. /\ RunningSet' = RunningSet \cup {b} /\ b \notin RunningSet
          /\ slots < width /\ slots' = slots + 1
      BY <1>7, <2>3, SpawnRuns DEF RunningSet
    <3>2. RunningSet \in SUBSET Bundles
      BY DEF RunningSet
    <3>3. Cardinality(RunningSet') = Cardinality(RunningSet) + 1
      BY <3>1, <3>2, OneMore
    <3>4. width \in Nat
      BY <1>1 DEF SlotsInv
    <3>5. slots' \in 0 .. width /\ slots' = Cardinality(RunningSet')
      BY <3>1, <3>3, <3>4 DEF SlotsInv
    <3> QED BY <2>1, <3>5 DEF SlotsInv, counts
  <2> QED BY <2>2, <2>3
<1>8. ASSUME NEW b \in Bundles, MergeBundle(b) PROVE SlotsInv'
  <2>1. width' = width /\ UNCHANGED counts
    BY <1>8 DEF MergeBundle, Idle, run
  <2>2. b \in RunningSet /\ RunningSet' = RunningSet \ {b} /\ slots' = slots - 1
    BY <1>8, LeaveEnds DEF RunningSet
  <2>3. RunningSet \in SUBSET Bundles
    BY DEF RunningSet
  <2>4. Cardinality(RunningSet') = Cardinality(RunningSet) - 1 /\ Cardinality(RunningSet') \in Nat
    BY <2>2, <2>3, OneLess, BundlesFinite
  <2>5. width \in Nat
    BY <1>1 DEF SlotsInv
  <2>6. slots' \in 0 .. width /\ slots' = Cardinality(RunningSet')
    BY <2>2, <2>4, <2>5 DEF SlotsInv
  <2> QED BY <2>1, <2>6 DEF SlotsInv, counts
<1> QED BY <1>4, <1>5, <1>6, <1>7, <1>8, <1>9, NextCases DEF Others

LEMMA TypesHold ==
    ASSUME BooksAll, SlotsInv
    PROVE  TypeOK
<1>1. /\ plan \in Plans /\ {tree, built} \subseteq Commits /\ meta \in Commits \cup {Unknown}
      /\ mode \in {"idle", "planned", "running", "ended"} /\ at \in 0 .. 2 * NBundles + 1
      /\ width \in Concurrency /\ slots \in 0 .. width
      /\ slots = Cardinality({b \in Bundles : Started(b)})
      /\ switches \in 0 .. MaxSwitches /\ stops \in 0 .. MaxStops /\ starts \in 0 .. MaxStarts
  BY DEF BooksAll, WorkInv, BundlesInv, ControlInv, SlotsInv, RunningSet
<1>2. ASSUME NEW b \in Bundles
      PROVE  /\ work[b].pc \in Pc /\ work[b].try \in Try /\ work[b].pass \in {1, 2}
             /\ work[b].splits \in 0 .. MaxSplitDepth /\ work[b].found \in Nat
             /\ work[b].verdicts \in Seq(Nat)
             /\ work[b].units \subseteq UnitsOf(plan.bundle[b])
             /\ work[b].pc = "hunter" => UnitsOf(work[b].parts[1]) # {}
             /\ \/ saved[b] = NoCheckpoint
                \/ saved[b].commit \in Commits \cup {Unknown} /\ saved[b].built \in Commits
             /\ details[b] \in {"", "success", "failed"}
  <2>1. WorkOK(b, work[b])
    BY DEF BooksAll, WorkInv, BundlesInv
  <2>2. /\ work[b].pc \in Pc /\ work[b].try \in Try /\ work[b].pass \in {1, 2}
        /\ work[b].splits \in 0 .. MaxSplitDepth /\ work[b].found \in Nat
        /\ work[b].units \subseteq UnitsOf(plan.bundle[b])
    BY <2>1 DEF WorkOK, Work
  <2>3. work[b].verdicts \in Seq(Nat)
    BY <2>1 DEF WorkOK, Work
  <2>4. ASSUME work[b].pc = "hunter" PROVE UnitsOf(work[b].parts[1]) # {}
    <3>1. 1 \in 1 .. Len(work[b].parts)
      BY <2>1, <2>4, HunterFacts
    <3>2. IsPart(work[b].parts[1])
      BY <2>1, <2>4, <3>1 DEF WorkOK, ArePartsOf
    <3> QED BY <3>2, PartUnits
  <2>5. /\ \/ saved[b] = NoCheckpoint
           \/ saved[b].commit \in Commits \cup {Unknown} /\ saved[b].built \in Commits
        /\ details[b] \in {"", "success", "failed"}
    BY DEF BooksAll, BooksInv, IsCheckpoint
  <2> QED BY <2>2, <2>3, <2>4, <2>5
<1>3. records \in [Units -> Nat]
  <2>1. records \in [Units -> {0, 1}]
    BY DEF BooksAll, BooksInv
  <2>2. {0, 1} \subseteq Nat
    OBVIOUS
  <2> QED BY <2>1, <2>2
<1> QED BY <1>1, <1>2, <1>3 DEF TypeOK

\* For every configuration: what the variables hold. It says too that never
\* more bundles are analysed than the semaphore has slots, and that no slot is
\* lost: those that are taken are those of the goroutines that run.
THEOREM TypesOK == Spec => []TypeOK
<1>1. Init => SlotsInv
  <2> SUFFICES ASSUME Init PROVE SlotsInv
    OBVIOUS
  <2>1. RunningSet = {}
    BY DEF Init, RunningSet, Started, NoWork
  <2>2. width \in Nat /\ {MaxSwitches, MaxStops, MaxStarts} \subseteq Nat
    BY DebateAssumption DEF Init
  <2>3. slots = 0 /\ switches = 0 /\ stops = 0 /\ starts = 0 /\ width \in Concurrency
    BY DEF Init
  <2>4. slots = Cardinality(RunningSet)
    BY <2>1, <2>3, FS_EmptySet
  <2>5. slots \in 0 .. width /\ switches \in 0 .. MaxSwitches /\ stops \in 0 .. MaxStops
        /\ starts \in 0 .. MaxStarts
    BY <2>2, <2>3
  <2> QED BY <2>3, <2>4, <2>5 DEF SlotsInv
<1>2. BooksAll /\ SlotsInv /\ [Next]_vars => SlotsInv'
  BY SlotsKept DEF BooksAll, WorkInv
<1>3. BooksAll /\ SlotsInv => TypeOK
  BY TypesHold
<1> QED BY <1>1, <1>2, <1>3, BooksHold, PTL DEF Spec
=============================================================================
