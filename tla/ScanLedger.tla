----------------------------- MODULE ScanLedger -----------------------------
(***************************************************************************)
(* What the task queue promises about the rows of task_reports, whatever   *)
(* its workers, its HTTP handlers and its restarts do: a scan is opened    *)
(* once, at most one scan of a (repository, task type) pair is live at a   *)
(* time, it closes with one verdict that never changes, and the only thing *)
(* that may happen to a row afterwards is its deletion, which is final.    *)
(***************************************************************************)
CONSTANTS Reports, Pairs, PairOf

VARIABLE scan  \* [Reports -> State], one row per report identity

Verdicts == {"success", "degraded", "failed", "skipped"}
State    == {"unborn", "live", "deleted"} \cup Verdicts

Init == scan = [r \in Reports |-> "unborn"]

\* A new row for the pair of r, refused while the pair has a live scan.
Open(r) ==
    /\ scan[r] = "unborn"
    /\ \A q \in Reports : PairOf[q] = PairOf[r] => scan[q] # "live"
    /\ scan' = [scan EXCEPT ![r] = "live"]

Close(r) ==
    /\ scan[r] = "live"
    /\ \E v \in Verdicts : scan' = [scan EXCEPT ![r] = v]

\* Rows are deleted one at a time or in a batch, live or closed.
Delete(S) ==
    /\ \A r \in S : scan[r] # "unborn"
    /\ scan' = [r \in Reports |-> IF r \in S THEN "deleted" ELSE scan[r]]

Next ==
    \/ \E r \in Reports : Open(r) \/ Close(r)
    \/ \E S \in SUBSET Reports : Delete(S)

Spec == Init /\ [][Next]_scan
=============================================================================
