---------------------------- MODULE DefectLedger ----------------------------
(***************************************************************************)
(* The defect ledger of one repository and task type:                      *)
(*   services/defectlifecycle/service.go      PersistScanFacts             *)
(*   services/defectlifecycle/matching.go     RunMatching                  *)
(*   services/defectlifecycle/ledger.go       the transaction of a commit  *)
(*   services/defectlifecycle/governance.go,  what people decide           *)
(*     campaign.go, workbench.go, retention.go                             *)
(* A scan matches what it observed with a snapshot of the ledger, without  *)
(* a lock, and commits the decisions later in one transaction, under the   *)
(* advisory lock of the pair. People change defects in between, and in the *)
(* middle of the transaction, which finds out by the versions of the rows  *)
(* and by the unique index. A slot is a place in a file where one kind of  *)
(* defect can be: slot_key. One slot stands for one file and at most one   *)
(* observation group of a scan.                                            *)
(***************************************************************************)
EXTENDS Naturals, FiniteSets, Folds

CONSTANTS
    Slots,      \* slot keys, numbered in the order of the observations
    Reports,    \* ids of the reports: a later scan has a larger id
    MaxId,      \* bound: ids of defects
    Severity,   \* [Slots -> {"high", "major", "minor"}]
    Ledgers,    \* ledgers to start from, see LedgerOK
    Scans,      \* what a scan may have observed, see ScanOK
    ResolvedRounds, DormantRounds, ObsoleteRounds,  \* the lifecycle policy
    Settable,   \* statuses people give
    MaxTries,   \* attempts of PersistScanFacts
    MaxHuman,   \* bound: decisions of people
    MaxReruns   \* bound: reports that are scanned again

Ids == 1 .. MaxId
\* COVERAGE_GAP and VERIFIED_PENDING are shortened; "none": no such row.
Active == "ACTIVE"
Advancing == {Active, "GAP", "PENDING", "DORMANT"}
Exempt    == {"HUMAN_CLOSED", "MERGED"}
Status    == Advancing \cup Exempt \cup {"RESOLVED", "OBSOLETE"}
Verdicts  == {"NEW", "EXISTED", "REOPENED", "PROBABLE", "CLEARED"}
Outcomes  == {"scanned", "skipped", "failed", "unplanned", "gone"}

Row == [slot : Slots, status : Status \cup {"none"}, missed : Nat,
        dormant : Nat, version : Nat, first : Nat, into : Ids \cup {0}]
Snapshot == [status : Status, missed : Nat, dormant : Nat, version : Nat]
NoSnapshot == <<>>
Observation == [report : Reports \cup {0}, slot : Slots,
                defect : Ids \cup {0}, verdict : Verdicts]

\* What a scan saw: findings and passing assessments by slot, the outcome
\* of each file, whether the coverage is degraded, and whether lines moved;
\* and two flags of the policy it ran under, which people set: RequireCoverage
\* and AutoResolveMissing.
ScanOK(x) ==
    /\ x.found \subseteq Slots /\ x.passed \subseteq Slots \ x.found
    /\ x.outcome \in [Slots -> Outcomes]
    /\ \A s \in x.found \cup x.passed : x.outcome[s] = "scanned"
    /\ x.degraded \in BOOLEAN /\ x.moved \in BOOLEAN
    /\ x.require \in BOOLEAN /\ x.autoResolve \in BOOLEAN
    /\ (\E s \in Slots : x.outcome[s] = "failed") => x.degraded
\* Rows, strong aliases by slot, and observations of a report before all.
LedgerOK(l) ==
    /\ l.defect \in [Ids -> Row] /\ l.alias \in [Slots -> Ids \cup {0}]
    /\ \A d, e \in Ids :
          /\ l.defect[d].status = Active /\ l.defect[e].status = Active
          /\ l.defect[d].slot = l.defect[e].slot
          => d = e
    /\ l.next \in Nat \ {0} /\ \A d \in Ids : l.defect[d].first = 0
    /\ \A d \in Ids : l.defect[d].status = "none" <=> d >= l.next
    /\ \A d \in Ids : l.defect[d].status = "MERGED" =>
          l.defect[d].into # 0 /\ l.defect[d].into < l.next
    /\ \A s \in Slots : l.alias[s] < l.next
ASSUME LedgerAssumption ==
    /\ Slots \subseteq Nat /\ IsFiniteSet(Slots) /\ Reports \subseteq Nat \ {0}
    /\ MaxId \in Nat
    /\ Severity \in [Slots -> {"high", "major", "minor"}]
    /\ \A l \in Ledgers : LedgerOK(l)
    /\ \A x \in Scans : ScanOK(x)
    /\ {ResolvedRounds, DormantRounds, ObsoleteRounds, MaxTries} \subseteq Nat \ {0}
    /\ Settable \subseteq Status \ {"MERGED"} /\ MaxHuman \in Nat /\ MaxReruns \in Nat

VARIABLES
    defect,     \* [Ids -> Row]: the table defects
    next,       \* the next id; ids are not used twice
    obs,        \* the table defect_observations
    snap,       \* [Reports -> [Ids -> ...]]: SYSTEM events STATUS_CHANGED,
                \* of each report and defect the first one's snapshot
    alias,      \* [Slots -> [owner, last]]: strong aliases SLOT_HEALED
    committed,  \* reports with ledger_committed_at
    redone,     \* history: reports whose earlier commit was taken back
    pc,         \* [Reports -> Pc]: where PersistScanFacts is
    scan,       \* [Reports -> Scans]: its input
    tries,      \* [Reports -> 1 .. MaxTries]: its attempts
    decision,   \* [Reports -> [Slots -> Decision]]: result of the matching
    tx,         \* [Reports -> ...]: what an open transaction loaded
    humans, reruns  \* counters for the bounds

rows == <<defect, next, obs, snap, alias>>
scanner == <<pc, scan, tries, decision, tx>>
table == <<rows, committed, redone>>
vars == <<table, scanner, humans, reruns>>

Pc == {"idle", "matched", "open", "committed", "superseded", "conflict",
      "rejected", "failed"}
Decision == [defect : Ids \cup {0}, verdict : Verdicts \cup {"none"}]
Undecided == [defect |-> 0, verdict |-> "none"]
NoDecisions == [s \in Slots |-> Undecided]
NoScan == [found |-> {}, passed |-> {}, outcome |-> [s \in Slots |-> "unplanned"],
           degraded |-> TRUE, moved |-> FALSE, require |-> TRUE, autoResolve |-> TRUE]

-----------------------------------------------------------------------------
(* Helpers                                                                 *)

Present(db) == {d \in Ids : db[d].status # "none"}
ActiveIn(db, s) == {d \in Ids : db[d].status = Active /\ db[d].slot = s}
Largest(S) == CHOOSE x \in S : \A y \in S : y <= x
Smallest(S) == CHOOSE x \in S : \A y \in S : x <= y

\* The partial unique index on the slot of ACTIVE rows.
IndexHolds(db) == \A d, e \in Present(db) :
    db[d].status = Active /\ db[e].status = Active /\ db[d].slot = db[e].slot
        => d = e
MatchedVerdict(status) ==
    IF status \in {Active, "GAP"} THEN "EXISTED"
    ELSE IF status \in {"PENDING", "RESOLVED", "DORMANT", "OBSOLETE"} THEN "REOPENED"
    ELSE "PROBABLE"
Groups(x) == x.found \cup x.passed
\* A planned file that was skipped, or that the scope excludes, is covered too;
\* without RequireCoverage every file counts as if it had been looked at.
Covered(x, s) == x.outcome[s] \in {"scanned", "skipped"}
Counts(x, s) == Covered(x, s) \/ ~x.require
\* Mut...: a definition as a plausible bug would change it; no action uses it.
MutNewRow(s, r) == [slot |-> s, status |-> "NEW", missed |-> 0, dormant |-> 0,
                    version |-> 1, first |-> r, into |-> 0]
NewRow(s, r) == [slot |-> s, status |-> Active, missed |-> 0, dormant |-> 0,
                 version |-> 1, first |-> r, into |-> 0]
Absent == [slot |-> Smallest(Slots), status |-> "none", missed |-> 0,
           dormant |-> 0, version |-> 0, first |-> 0, into |-> 0]
SnapshotOf(row) == [status |-> row.status, missed |-> row.missed,
                    dormant |-> row.dormant, version |-> row.version]
Bumped(row) == [row EXCEPT !.version = @ + 1]

-----------------------------------------------------------------------------
(* Matching: from a snapshot of the ledger, in memory                      *)

\* A row that is not ACTIVE while another one is, in its slot, cannot be
\* revived.
Candidates(db) == {d \in Present(db) :
    db[d].status = Active \/ ActiveIn(db, db[d].slot) = {}}

\* The defect of exactly this slot: the active one, else the newest one that
\* nobody closed or merged.
Precise(db, s) ==
    LET old == {d \in Present(db) : /\ db[d].slot = s
                                    /\ db[d].status \notin Exempt}
    IN  IF ActiveIn(db, s) # {} THEN ActiveIn(db, s)
        ELSE IF old = {} THEN {} ELSE {Largest(old)}
Strong(db, s) == (Precise(db, s) \cup {alias[s].owner}) \cap Candidates(db)

\* First every group, in order, takes a strong candidate that no group before
\* it took; which one, the scores decide.
StrongBinding(db, groups) ==
    {b \in [groups -> Candidates(db) \cup {0}] : \A s \in groups :
        LET free == Strong(db, s) \ {b[t] : t \in {u \in groups : u < s}}
        IN  IF free = {} THEN b[s] = 0 ELSE b[s] \in free}

\* For the rest the scores, the budget and the AI decide: a candidate, even
\* one that is bound already, a new defect, or nothing certain. Then the
\* passing groups are matched with the defects no finding was matched with.
\* One that has a candidate with the same anchor clears it; one whose
\* candidates have other anchors can still be bound afterwards, by the AI or
\* by the rule of the gray zone, with the verdict of a finding.
Found(db, c) == [defect |-> c, verdict |-> MatchedVerdict(db[c].status)]
Cleared(c) == [defect |-> c, verdict |-> "CLEARED"]
MatchFindings(db, x) ==
    UNION {{d \in [x.found -> Decision] : \A s \in x.found :
                IF b[s] # 0 THEN d[s] = Found(db, b[s])
                ELSE d[s] \in {Found(db, c) : c \in Candidates(db)} \cup
                              {[defect |-> 0, verdict |-> "NEW"],
                               [defect |-> 0, verdict |-> "PROBABLE"]}}
           : b \in StrongBinding(db, x.found)}
MatchPasses(db, x, d) ==
    LET left == [c \in Ids |-> IF \E s \in x.found : d[s].defect = c THEN Absent ELSE db[c]]
        spare == Candidates(left)
    IN  UNION {{p \in [x.passed -> Decision] : \A s \in x.passed :
                    IF b[s] # 0 THEN p[s] = Cleared(b[s])
                    ELSE p[s] \in {Cleared(c) : c \in spare} \cup
                                  {Found(db, c) : c \in spare} \cup {Undecided}}
               : b \in StrongBinding(left, x.passed)}

-----------------------------------------------------------------------------
(* The transaction of a commit, one pure step after the other. l holds the *)
(* rows as the transaction sees them (db), the copies it loaded before     *)
(* (view), the observations by slot, the defect each ended with in memory, *)
(* and why the transaction fails (fault).                                  *)

NoAlias == [owner |-> 0, last |-> 0]
NoSnapshots == [d \in Ids |-> NoSnapshot]

\* A report that is committed again takes back what it did before: as far as
\* its observations and the snapshots in its events tell. What is left of the
\* observations is rest; the defects that were observed are touched; the ones
\* that only this report knew are gone.
Touched(rest) == {o.defect : o \in obs \ rest} \cap Present(defect)
OnlyIn(r, rest) == {d \in Touched(rest) : /\ defect[d].first = r
                                        /\ \A o \in rest : o.defect # d}
Restored(row, old) == IF old = NoSnapshot THEN row
    ELSE [row EXCEPT !.status = old.status, !.missed = old.missed,
                     !.dormant = old.dormant, !.version = old.version]
\* The last report that saw the alias is the last one that saw its owner.
Unhealed(a, r, rest, gone) ==
    LET seenIn == {o.report : o \in {q \in rest : q.defect = a.owner}}
    IN  IF a.owner \notin gone /\ a.last # r THEN a
        ELSE IF a.owner \in gone \/ seenIn = {} THEN NoAlias
        ELSE [a EXCEPT !.last = Largest(seenIn)]
Undo(r, rest, touched, gone) ==
    [touched |-> touched, rest |-> rest,
     db |-> [d \in Ids |-> IF d \in gone THEN Absent
                           ELSE IF d \in touched THEN Restored(defect[d], snap[r][d])
                           ELSE defect[d]],
     alias |-> [s \in Slots |-> Unhealed(alias[s], r, rest, gone)]]
Others(r) == {o \in obs : o.report # r}
Rollback(r) == Undo(r, Others(r), Touched(Others(r)), OnlyIn(r, Others(r)))

\* A passing group counts if a defect was found for it, and clears only if
\* the coverage is complete.
Committable(r) == {s \in Groups(scan[r]) :
    \/ s \in scan[r].found
    \/ /\ decision[r][s].defect # 0
       /\ decision[r][s].verdict = "CLEARED" => ~scan[r].degraded}

\* An active defect of the slot is taken instead of a new one.
Take(l, s, d, row, verdict, new) ==
    IF d \notin Ids THEN [l EXCEPT !.fault = "bound"]
    ELSE [l EXCEPT !.db[d] = row, !.view[d] = row,
                   !.next = IF new THEN d + 1 ELSE @,
                   !.dirty = IF new THEN @ \cup {d} ELSE @,
                   !.seen[s] = [defect |-> d, verdict |-> verdict]]
Reuse(l, r, s, d) == Take(l, s, d, l.db[d],
    IF l.db[d].first = r THEN "NEW" ELSE MatchedVerdict(Active), FALSE)
Create(l, r, s) ==
    IF ActiveIn(l.db, s) = {} THEN Take(l, s, l.next, NewRow(s, r), "NEW", TRUE)
    ELSE Reuse(l, r, s, Smallest(ActiveIn(l.db, s)))

\* A merged defect passes its observation on, to the defect it was merged
\* into and no further.
Redirected(view, o, asked) ==
    LET to == view[o.defect].into
    IN  IF o.defect = 0 \/ view[o.defect].status # "MERGED" \/ to = 0 THEN o
        ELSE [defect |-> to,
              verdict |-> IF asked # "CLEARED" /\ view[to].status # "none"
                          THEN MatchedVerdict(view[to].status) ELSE o.verdict]
MutRecord(l, s, o) == IF l.fault # "none" THEN l
                      ELSE [l EXCEPT !.seen[s] = o, !.mem[s] = o.defect]
Record(l, s, o) ==
    IF l.fault # "none" THEN l
    ELSE [l EXCEPT !.seen[s] = o, !.mem[s] = o.defect,
                   !.matched = @ \cup ({o.defect} \ {0})]
Settled(l, s, asked) == Record(l, s, Redirected(l.view, l.seen[s], asked))

\* A decision for a row that is gone becomes NEW.
Observe(l, r, s) ==
    LET dec == decision[r][s]
        new == \/ dec.verdict = "NEW"
               \/ dec.defect # 0 /\ l.view[dec.defect].status = "none"
    IN  Settled(IF new THEN Create(l, r, s) ELSE [l EXCEPT !.seen[s] = dec],
                s, dec.verdict)

\* Writes a row if it still has the version that was loaded.
MutWrite(l, d, row, before, fault) ==
    [l EXCEPT !.db[d] = row, !.view[d] = row, !.dirty = @ \cup {d},
              !.snap[d] = IF @ = NoSnapshot THEN before ELSE @]
Write(l, d, row, before, fault) ==
    IF l.db[d].version # l.view[d].version THEN [l EXCEPT !.fault = fault]
    ELSE [l EXCEPT !.db[d] = row, !.view[d] = row, !.dirty = @ \cup {d},
                   !.snap[d] = IF @ = NoSnapshot THEN before ELSE @]

\* updateMatchedDefect: an observation gives its defect a status. One that
\* would become the second active one of its slot is merged into the first;
\* the stored observation stays with it.
Given(v, verdict) ==
    IF verdict \in {"EXISTED", "REOPENED"} THEN Active
    ELSE IF verdict = "CLEARED" /\ v.status \in Advancing \cup {"RESOLVED"} THEN "RESOLVED"
    ELSE v.status
MutRivals(db, d, v, status) == {}
Rivals(db, d, v, status) == IF status = Active THEN ActiveIn(db, v.slot) \ {d} ELSE {}
MutWithStatus(v, status, rivals) ==
    [v EXCEPT !.status = IF rivals = {} THEN status ELSE "MERGED"]
WithStatus(v, status, rivals) ==
    IF rivals = {} THEN [v EXCEPT !.status = status]
    ELSE [v EXCEPT !.status = "MERGED", !.into = Smallest(rivals)]
Rewrite(l, d, v, new, moved) ==
    IF new.status # v.status \/ moved
    THEN Write(l, d, Bumped(new), SnapshotOf(v), "retry")
    ELSE Write(l, d, new, NoSnapshot, "retry")
Matched(l, s, d, v, rivals, status, moved) ==
    Rewrite(IF rivals = {} THEN l ELSE [l EXCEPT !.mem[s] = Smallest(rivals)],
            d, v, WithStatus(v, status, rivals), moved)
Update(l, r, s) ==
    LET o == l.seen[s]
        v == l.view[o.defect]
        status == Given(v, o.verdict)
    IN  IF \/ l.fault # "none" \/ o.defect = 0 \/ o.verdict = "NEW"
           \/ v.status \in Exempt \cup {"none"}
        THEN l
        ELSE Matched(l, s, o.defect, v, Rivals(l.db, o.defect, v, status),
                     status, scan[r].moved)

\* advanceUnmatchedDefects, for one defect: the new row.
NextStatus(v, covered, missed) ==
    CASE ~covered -> IF v.status = Active THEN "GAP" ELSE v.status
      [] covered /\ Severity[v.slot] = "high"  -> "PENDING"
      [] covered /\ Severity[v.slot] = "major" ->
            IF missed >= ResolvedRounds THEN "RESOLVED" ELSE "GAP"
      [] covered /\ Severity[v.slot] = "minor" ->
            IF missed >= DormantRounds THEN "DORMANT" ELSE "GAP"
Aged(v) == IF v.status # "DORMANT" THEN v
           ELSE [v EXCEPT !.dormant = @ + 1,
                          !.status = IF v.dormant + 1 >= ObsoleteRounds
                                     THEN "OBSOLETE" ELSE @]
Missed(v) == [v EXCEPT !.missed = @ + 1,
                       !.status = NextStatus(v, TRUE, v.missed + 1)]
Advanced(v, covered, counts) ==
    IF ~counts THEN [v EXCEPT !.status = NextStatus(v, FALSE, v.missed)]
    ELSE IF covered THEN Aged(Missed(v)) ELSE Missed(v)
Snapped(l, d, v, new, fault) ==
    Write(l, d, Bumped(new), IF new = v THEN NoSnapshot ELSE SnapshotOf(Bumped(v)), fault)
\* The snapshot of a row that is withheld is taken after its status changed.
Withheld(v) == Bumped([v EXCEPT !.status = "GAP"])
Gone(x, s) == x.autoResolve /\ x.outcome[s] = "gone"
MutAdvance(l, x, d, v) ==
    IF l.fault # "none" \/ d \in l.matched \/ v.status \notin Advancing THEN l
    ELSE IF Gone(x, v.slot)
    THEN Snapped(l, d, v, [v EXCEPT !.status = "RESOLVED"], "fatal")
    ELSE Snapped(l, d, v, Advanced(v, Covered(x, v.slot), Counts(x, v.slot)), "fatal")
Advance(l, x, d, v) ==
    IF l.fault # "none" \/ d \in l.matched \/ v.status \notin Advancing THEN l
    ELSE IF Gone(x, v.slot)
    THEN Snapped(l, d, v, [v EXCEPT !.status = "RESOLVED"], "fatal")
    ELSE IF ~x.degraded
    THEN Snapped(l, d, v, Advanced(v, Covered(x, v.slot), Counts(x, v.slot)), "fatal")
    ELSE IF v.status = Active
    THEN Write(l, d, Withheld(v), SnapshotOf(Withheld(v)), "retry")
    ELSE l

\* upsertDefectAliases: a strong alias keeps its first owner.
Healed(a, r, d) == IF d = 0 THEN a
                   ELSE IF a.owner = 0 THEN [owner |-> d, last |-> r]
                   ELSE [a EXCEPT !.last = r]

Started(view, back) ==
    [db |-> back.db, view |-> view, next |-> next, dirty |-> back.touched,
     seen |-> NoDecisions, mem |-> [s \in Slots |-> 0], matched |-> {},
     snap |-> NoSnapshots, fault |-> "none"]
\* op for every member of S, in ascending order.
InOrder(op(_, _), S, l) == MapThenFoldSet(op, l, LAMBDA x : x, Largest, S)
Observed(r, groups, l) == InOrder(LAMBDA s, k : Observe(k, r, s), groups, l)
Updated(r, groups, l)  == InOrder(LAMBDA s, k : Update(k, r, s), groups, l)
AllAdvanced(x, view, l) ==
    InOrder(LAMBDA d, k : Advance(k, x, d, view[d]), Present(view), l)
Outcome(r, back, l) ==
    [row   |-> l,
     obs   |-> back.rest \cup {[report |-> r, slot |-> s, defect |-> l.seen[s].defect,
                                verdict |-> l.seen[s].verdict] : s \in Committable(r)},
     alias |-> [s \in Slots |-> Healed(back.alias[s], r, l.mem[s])],
     fault |-> IF l.fault = "none" /\ ~IndexHolds(l.db) THEN "index" ELSE l.fault]
Steps(r, groups, back) ==
    Outcome(r, back, AllAdvanced(scan[r], tx[r].view,
        Updated(r, groups, Observed(r, groups, Started(tx[r].view, back)))))
Commit(r) == Steps(r, Committable(r), Rollback(r))

-----------------------------------------------------------------------------
(* Scans                                                                   *)

NoTx == [view |-> <<>>, touched |-> {}, claims |-> {}]
Terminal == {"committed", "superseded", "conflict", "rejected", "failed"}
NobodyCommits == \A r \in Reports : pc[r] # "open"

\* Phases 1 and 2: the ledger is read without a lock, and matched.
Load(r) ==
    /\ pc[r] = "idle"
    /\ \E x \in IF tries[r] = 1 THEN Scans ELSE {scan[r]} :
       \E d \in MatchFindings(defect, x) : \E p \in MatchPasses(defect, x, d) :
          /\ scan' = [scan EXCEPT ![r] = x]
          /\ decision' = [decision EXCEPT ![r] = [s \in Slots |->
                IF s \in x.found THEN d[s]
                ELSE IF s \in x.passed THEN p[s] ELSE Undecided]]
    /\ pc' = [pc EXCEPT ![r] = "matched"]
    /\ UNCHANGED <<table, tries, tx, humans, reruns>>

\* Phase 3 begins: the advisory lock, the order of the reports, the rollback
\* of an earlier commit of the report, the rows it will compare with.
Opened(r, back) == tx' = [tx EXCEPT ![r] =
    [view |-> back.db, touched |-> back.touched, claims |-> {}]]
MutBegin(r) ==
    /\ pc[r] = "matched" /\ NobodyCommits
    /\ pc' = [pc EXCEPT ![r] = "open"] /\ Opened(r, Rollback(r))
    /\ UNCHANGED <<table, scan, tries, decision, humans, reruns>>
Begin(r) ==
    /\ pc[r] = "matched" /\ NobodyCommits
    /\ \A q \in committed : q <= r /\ IndexHolds(Rollback(r).db)
    /\ pc' = [pc EXCEPT ![r] = "open"] /\ Opened(r, Rollback(r))
    /\ UNCHANGED <<table, scan, tries, decision, humans, reruns>>

\* PersistScanFacts returns: it forgets what it matched.
Done(r, end) ==
    /\ pc' = [pc EXCEPT ![r] = end] /\ tx' = [tx EXCEPT ![r] = NoTx]
    /\ scan' = [scan EXCEPT ![r] = NoScan]
    /\ decision' = [decision EXCEPT ![r] = NoDecisions]
    /\ tries' = [tries EXCEPT ![r] = 1]
    /\ UNCHANGED <<humans, reruns>>

\* The rollback restores one row after the other, in no order, and the index
\* sees each of them: it may refuse one that is active again.
Refuse(r) ==
    /\ pc[r] = "matched" /\ NobodyCommits /\ \A q \in committed : q <= r
    /\ \E done \in SUBSET Rollback(r).touched :
          ~IndexHolds([d \in Ids |-> IF d \in done THEN Rollback(r).db[d] ELSE defect[d]])
    /\ Done(r, "rejected") /\ UNCHANGED table

\* A later report has been committed: this one only gets its mark.
Supersede(r) ==
    /\ pc[r] = "matched" /\ NobodyCommits
    /\ \E q \in committed : q > r
    /\ committed' = committed \cup {r}
    /\ Done(r, "superseded") /\ UNCHANGED <<rows, redone>>

\* Before it makes a row the active one of a slot, the transaction asks for
\* another one, and finds none: a claim. The row is written by a statement of
\* its own, later, and what people do meanwhile takes no lock. (If there is
\* another one, and it is closed meanwhile, that might as well come after the
\* commit.) The transaction asks about one slot after the other: a claim that
\* no longer holds may be one that it had not made yet.
Claim == [slot : Slots, defect : Ids]
Claims(r) ==
    LET before == Rollback(r).db
        after  == Commit(r).row.db
    IN  {c \in Claim : /\ ActiveIn(before, c.slot) = {}
                       /\ c.defect \in ActiveIn(after, c.slot)}
Check(r) ==
    /\ pc[r] = "open" /\ tx[r].claims # Claims(r)
    /\ tx' = [tx EXCEPT ![r].claims = Claims(r)]
    /\ UNCHANGED <<table, pc, scan, tries, decision, humans, reruns>>
\* The index refuses the row, and that ends the transaction: the queries and
\* the merge that the code then tries are refused too, and nobody retries.
Lost(r, c) == ActiveIn(Rollback(r).db, c.slot) \ {c.defect} # {}
Collide(r) ==
    /\ pc[r] = "open" /\ \E c \in tx[r].claims : Lost(r, c)
    /\ Done(r, "rejected") /\ UNCHANGED table

\* Phase 3 ends: everything is written, or nothing is.
Stored(r, c) ==
    /\ c.fault = "none"
    /\ defect' = [d \in Ids |-> IF d \in c.row.dirty THEN c.row.db[d] ELSE defect[d]]
    /\ next' = c.row.next /\ obs' = c.obs /\ alias' = c.alias
    /\ snap' = [snap EXCEPT ![r] = c.row.snap]
Apply(r) ==
    /\ pc[r] = "open" /\ tx[r].claims = Claims(r) /\ Stored(r, Commit(r))
    /\ committed' = committed \cup {r}
    /\ redone' = IF r \in committed THEN redone \cup {r} ELSE redone
    /\ Done(r, "committed")

\* A conflict of versions is tried again from a new snapshot, if its message
\* is one of those isVersionConflict knows.
Retry(r) ==
    /\ tries[r] < MaxTries /\ tries' = [tries EXCEPT ![r] = @ + 1]
    /\ pc' = [pc EXCEPT ![r] = "idle"] /\ tx' = [tx EXCEPT ![r] = NoTx]
    /\ decision' = [decision EXCEPT ![r] = NoDecisions]
    /\ UNCHANGED <<scan, humans, reruns>>
Stopped(r, fault) ==
    \/ fault = "retry" /\ Retry(r)
    \/ fault = "retry" /\ tries[r] = MaxTries /\ Done(r, "conflict")
    \/ fault = "fatal" /\ Done(r, "conflict")
    \/ fault = "index" /\ Done(r, "rejected")
Conflict(r) == pc[r] = "open" /\ Stopped(r, Commit(r).fault) /\ UNCHANGED table

\* The database fails, the process stops, or the report was cancelled and has
\* become immutable: the transaction is rolled back.
Abort(r) ==
    /\ pc[r] \in {"idle", "matched", "open"}
    /\ Done(r, "failed") /\ UNCHANGED table

\* The task of the report failed later, or here, and is resumed.
Rerun(r) ==
    /\ pc[r] \in Terminal /\ reruns < MaxReruns
    /\ reruns' = reruns + 1
    /\ pc' = [pc EXCEPT ![r] = "idle"]
    /\ UNCHANGED <<table, scan, tries, decision, tx, humans>>

-----------------------------------------------------------------------------
(* People. Each decision is a transaction of its own; rows that an open    *)
(* commit has written already are locked, and their places in the index.   *)

Unlocked(d) == \A r \in Reports : pc[r] = "open" => d \notin tx[r].touched
Decides(d) == humans < MaxHuman /\ humans' = humans + 1
                                /\ d \in Present(defect) /\ Unlocked(d)
Admits(db) == IndexHolds(db) /\ \A r \in Reports : pc[r] = "open" =>
    IndexHolds([d \in Ids |-> IF d \in tx[r].touched THEN tx[r].view[d] ELSE db[d]])
Unscanned == UNCHANGED <<committed, redone, scanner, reruns>>

\* A new status, or the same one with a comment or another assignee.
SetStatus(d, status) ==
    /\ Decides(d)
    /\ status \in Settable \cup {defect[d].status}
    /\ defect' = [defect EXCEPT ![d] = Bumped([@ EXCEPT !.status = status])]
    /\ Admits(defect')
    /\ UNCHANGED <<next, obs, snap, alias>> /\ Unscanned

\* The strong aliases of the source go to the target.
Merge(d, e) ==
    /\ Decides(d) /\ d # e
    /\ e \in Present(defect) /\ Unlocked(e) /\ defect[e].status # "MERGED"
    /\ defect' = [defect EXCEPT ![d] =
                    Bumped([@ EXCEPT !.status = "MERGED", !.into = e])]
    /\ alias' = [s \in Slots |-> IF alias[s].owner = d
                                 THEN [alias[s] EXCEPT !.owner = e] ELSE alias[s]]
    /\ UNCHANGED <<next, obs, snap>> /\ Unscanned

\* The observation o becomes one of d, by hand.
Moved(o, d) == (obs \ {o}) \cup {[o EXCEPT !.defect = d, !.verdict = "EXISTED"]}

\* createDefect takes the active defect of the slot, or makes one, under the
\* advisory lock of the pair.
CreateFor(o) ==
    LET owner == ActiveIn(defect, o.slot)
        d     == IF owner = {} THEN next ELSE Smallest(owner)
    IN  /\ NobodyCommits /\ d \in Ids
        /\ defect' = IF owner = {}
                     THEN [defect EXCEPT ![d] = NewRow(o.slot, o.report)] ELSE defect
        /\ next' = IF owner = {} THEN next + 1 ELSE next
        /\ obs' = Moved(o, d)
        /\ alias' = [alias EXCEPT ![o.slot] = Healed(@, 0, d)]
        /\ UNCHANGED snap
Split(o) ==
    /\ o \in obs /\ o.report # 0 /\ Decides(o.defect)
    /\ CreateFor(o) /\ Unscanned

\* A probable observation is bound to a defect, which becomes active unless
\* it is closed or merged.
Revived(row) == [row EXCEPT !.status = IF @ \in Exempt THEN @ ELSE Active]
Bind(o, d) ==
    /\ o \in obs /\ o.report # 0 /\ o.verdict = "PROBABLE" /\ Decides(d)
    /\ \A r \in Reports : pc[r] = "open" => r # o.report
    /\ defect' = [defect EXCEPT ![d] = Bumped(Revived(@))]
    /\ Admits(defect')
    /\ obs' = Moved(o, d)
    /\ UNCHANGED <<next, snap>>

BindProbable(o, d) == Bind(o, d) /\ UNCHANGED alias /\ Unscanned

\* It is confirmed: bound to the first defect with its fingerprint, whatever
\* its status, or to a new one.
Confirm(o) ==
    LET same == {d \in Present(defect) : defect[d].slot = o.slot}
    IN  /\ o \in obs /\ o.report # 0 /\ o.verdict = "PROBABLE"
        /\ \/ /\ same # {} /\ Bind(o, Smallest(same))
              /\ alias' = [alias EXCEPT ![o.slot] = Healed(@, 0, Smallest(same))]
           \/ /\ same = {} /\ humans < MaxHuman /\ humans' = humans + 1
              /\ CreateFor(o)
        /\ Unscanned

\* Retention deletes the observations and SYSTEM events of old reports, and
\* of old failed ones.
Purge(r) ==
    /\ \E o \in obs : o.report = r
    /\ r # 0 => \/ pc[r] \in {"conflict", "rejected", "failed"}
                \/ pc[r] \in Terminal /\ \E q \in committed : q > r
    /\ humans < MaxHuman /\ humans' = humans + 1
    /\ obs' = {o \in obs : o.report # r}
    /\ snap' = [q \in Reports |-> IF q = r THEN NoSnapshots ELSE snap[q]]
    /\ UNCHANGED <<defect, next, alias>> /\ Unscanned

-----------------------------------------------------------------------------
Init ==
    /\ \E l \in Ledgers :
        /\ defect = l.defect /\ next = l.next
        /\ alias = [s \in Slots |-> [owner |-> l.alias[s], last |-> 0]]
        /\ obs = {[report |-> 0, slot |-> l.defect[d].slot, defect |-> d,
                   verdict |-> "EXISTED"] : d \in Present(l.defect)}
    /\ snap = [r \in Reports |-> NoSnapshots]
    /\ committed = {} /\ redone = {}
    /\ pc = [r \in Reports |-> "idle"]
    /\ scan = [r \in Reports |-> NoScan]
    /\ tries = [r \in Reports |-> 1]
    /\ decision = [r \in Reports |-> NoDecisions]
    /\ tx = [r \in Reports |-> NoTx]
    /\ humans = 0 /\ reruns = 0

Scanner(r) == \/ Load(r) \/ Begin(r) \/ Refuse(r) \/ Supersede(r)
              \/ Check(r) \/ Collide(r) \/ Apply(r) \/ Conflict(r)
Fault(r) == Abort(r) \/ Rerun(r)
People ==
    \/ \E d \in Ids : \E st \in Status : SetStatus(d, st)
    \/ \E d, e \in Ids : Merge(d, e)
    \/ \E o \in obs : Split(o) \/ Confirm(o)
    \/ \E o \in obs : \E d \in Ids : BindProbable(o, d)
    \/ \E r \in Reports \cup {0} : Purge(r)

Next == (\E r \in Reports : Scanner(r) \/ Fault(r)) \/ People
Spec == Init /\ [][Next]_vars

-----------------------------------------------------------------------------
(* Properties                                                              *)

TypeOK ==
    /\ defect \in [Ids -> Row] /\ next \in Nat \ {0}
    /\ obs \subseteq Observation /\ IsFiniteSet(obs)
    /\ snap \in [Reports -> [Ids -> Snapshot \cup {NoSnapshot}]]
    /\ alias \in [Slots -> [owner : Ids \cup {0}, last : Reports \cup {0}]]
    /\ committed \subseteq Reports /\ redone \subseteq committed
    /\ pc \in [Reports -> Pc] /\ scan \in [Reports -> Scans \cup {NoScan}]
    /\ tries \in [Reports -> 1 .. MaxTries]
    /\ decision \in [Reports -> [Slots -> Decision]]
    /\ tx \in [Reports -> [view : [Ids -> Row] \cup {<<>>}, touched : SUBSET Ids,
                           claims : SUBSET Claim]]
    /\ humans \in 0 .. MaxHuman /\ reruns \in 0 .. MaxReruns

\* What an observation, a strong alias or a merge names exists: a retention
\* leaves nothing that hangs in the air, and a rollback neither, as long as
\* it does not have to take a commit back that did go through.
ReferencesExist == redone = {} =>
    /\ \A o \in obs : o.defect # 0 => o.defect \in Present(defect)
    /\ \A s \in Slots : alias[s].owner # 0 => alias[s].owner \in Present(defect)
    /\ \A d \in Ids : defect[d].status = "MERGED" => defect[d].into \in Present(defect)

Commits(r) == pc[r] = "open" /\ pc'[r] = "committed"
First(r)   == Commits(r) /\ r \notin committed

\* The unique index rejects the first commit of a report only because of what a
\* person did while the transaction was open, to a row that is active now and
\* that the transaction loaded before: reuse and auto-merge keep every slot to
\* one active defect, whatever people did since the snapshot was matched. (The
\* rollback before a second commit is not so careful: see Refuse.)
RejectedOnlyByRace ==
    [][\A r \in Reports \ committed : pc[r] # "rejected" /\ pc'[r] = "rejected" =>
          /\ pc[r] = "open"
          /\ \E d \in Ids : /\ defect[d].status = Active
                            /\ defect[d].version # tx[r].view[d].version]_vars

\* A report never changes the ledger after a later one did, though it was
\* matched before that one was committed.
OldReportsNeverWrite ==
    [][\A r \in Reports : Commits(r) => \A q \in committed : q <= r]_vars

\* What a person closed or merged, before the snapshot or after it, no scan
\* reopens, and every status a scan changes shows in the version that the
\* forms of the people compare. (A report that is committed again restores
\* old rows: it is left out.)
HumanDecisionsStick ==
    [][\A r \in Reports : First(r) => \A d \in Present(defect) :
          /\ defect[d].status \in Exempt => defect'[d].status = defect[d].status
          /\ defect'[d].status # defect[d].status =>
                defect'[d].version > defect[d].version]_vars

\* Every finding of a scan has an observation, and the defect it ends with is
\* open, unless nobody is sure, or a person had closed or merged it, or a
\* passing group of the same scan was matched with it too: it can be the
\* target of a merge, or the owner of a slot, of which the matching of the
\* passing groups does not know.
FindingsLand ==
    [][\A r \in Reports : First(r) /\ redone = {} => \A s \in scan[r].found :
          \E o \in obs' :
             /\ o.report = r /\ o.slot = s
             /\ \/ o.verdict = "PROBABLE"
                \/ defect'[o.defect].status \in {Active} \cup Exempt
                \/ tx[r].view[o.defect].status \in Exempt
                \/ \E p \in obs' : /\ p.report = r /\ p.defect = o.defect
                                   /\ p.verdict = "CLEARED"]_vars

\* What a scan resolves has evidence. A passing group cleared it, in a coverage
\* that is not degraded. Or no observation names it, and its file is gone, under
\* a policy that resolves such defects; or the coverage is not degraded, and it
\* was missed once more, often enough, in a file that counts: it was covered,
\* or the policy does not ask for that.
ResolvedOnEvidence ==
    [][\A r \in Reports : First(r) => \A d \in Ids :
          defect[d].status # "RESOLVED" /\ defect'[d].status = "RESOLVED"
             => \/ /\ ~scan[r].degraded
                   /\ \E o \in obs' : /\ o.report = r /\ o.defect = d
                                      /\ o.verdict = "CLEARED"
                \/ /\ \A o \in obs' : o.report = r => o.defect # d
                   /\ \/ Gone(scan[r], defect[d].slot)
                      \/ /\ ~scan[r].degraded /\ Counts(scan[r], defect[d].slot)
                         /\ defect'[d].missed = defect[d].missed + 1
                         /\ defect'[d].missed >= ResolvedRounds]_vars
=============================================================================
