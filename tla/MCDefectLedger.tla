---------------------------- MODULE MCDefectLedger ----------------------------
(* A small instance of DefectLedger for TLC.                                 *)
EXTENDS DefectLedger

RowIn(s, status, missed, into) ==
    [slot |-> s, status |-> status, missed |-> missed, dormant |-> 0,
     version |-> 1, first |-> 0, into |-> into]
Blank == [slot |-> 1, status |-> "none", missed |-> 0, dormant |-> 0,
          version |-> 0, first |-> 0, into |-> 0]
LedgerOf(d1, d2, owners) ==
    [defect |-> [d \in Ids |-> CASE d = 1 -> d1 [] d = 2 -> d2 [] OTHER -> Blank],
     next |-> CASE d1.status = "none" -> 1 [] d2.status = "none" -> 2 [] OTHER -> 3,
     alias |-> owners]

\* One defect that an auto-merge gave to another, and that still has its alias;
\* two of one slot, of which a person can revive the one and a scan the other.
TheLedgers == {
    LedgerOf(RowIn(1, "MERGED", 0, 2), RowIn(2, Active, 0, 0), <<1, 2>>),
    LedgerOf(RowIn(1, "RESOLVED", 0, 0), RowIn(1, "GAP", 1, 0), <<2, 0>>)}

ScanOf(found, passed, o1, o2, degraded, moved, lax) ==
    [found |-> found, passed |-> passed, outcome |-> <<o1, o2>>,
     degraded |-> degraded, moved |-> moved, require |-> ~lax, autoResolve |-> ~lax]
\* In the third scan the file of slot 1 is gone and slot 2 is not covered; the
\* last one sees the same under a policy that asks for neither.
TheScans == {
    ScanOf({1, 2}, {}, "scanned", "scanned", FALSE, TRUE, FALSE),
    ScanOf({1}, {2}, "scanned", "scanned", FALSE, FALSE, FALSE),
    ScanOf({}, {}, "gone", "unplanned", FALSE, FALSE, FALSE),
    ScanOf({}, {1}, "scanned", "skipped", TRUE, FALSE, FALSE),
    ScanOf({}, {}, "gone", "unplanned", FALSE, FALSE, TRUE)}
TheSettable == {Active, "HUMAN_CLOSED"}
TheSeverity == <<"major", "minor">>
=============================================================================
