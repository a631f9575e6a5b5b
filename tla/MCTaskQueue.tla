----------------------------- MODULE MCTaskQueue -----------------------------
(* Small instances of TaskQueue for TLC.                                    *)
EXTENDS TaskQueue, TLC

CONSTANTS r1, r2, p1, p2

\* A single scan, worked on by everybody at once.
OneScan  == [r \in {r1} |-> p1]
\* Two scans of one pair, which compete for it.
OnePair  == [r \in {r1, r2} |-> p1]
\* A pair of its own for every scan, so that both can wait at once.
OwnPairs == (r1 :> p1) @@ (r2 :> p2)

Symmetry == Permutations(Workers) \cup Permutations(Clients)
=============================================================================
