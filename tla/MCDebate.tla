------------------------------- MODULE MCDebate -------------------------------
(* A small instance of Debate for TLC.                                       *)
EXTENDS Debate

\* A source with its header and another file, and a file of its own; or three
\* units of two bundles, which are assessed; or two, in an incremental scan.
ThePlans == {
    [assessment |-> FALSE, bundle |-> <<<<{"a.c", "a.h"}, {"b.c"}>>, <<{"c.c"}>>>>,
     excluded |-> {"x.c"}, unchanged |-> {}],
    [assessment |-> TRUE, bundle |-> <<<<{"a.c"}, {"b.c"}>>, <<{"c.c"}>>>>,
     excluded |-> {}, unchanged |-> {}],
    [assessment |-> TRUE, bundle |-> <<<<{"a.c"}>>, <<{"c.c"}>>>>,
     excluded |-> {}, unchanged |-> {"u.c"}]}
TheWidths == {1, 2}
TheSelected == {1}
TheCommits == {"old", "new"}
\* The first bundle differs, the other is the same at both: so it is enough to
\* begin at one of them.
TheContent == [c \in TheCommits |-> IF c = "old" THEN <<1, 1>> ELSE <<2, 1>>]
TheRetryOn == {"timeout", "output_missing", "resource_unavailable"}
TheSplitOn == {"timeout", "output_missing"}
TheFailoverOn == {"output_missing", "resource_unavailable"}
TheRepairOn == {"contract_mismatch"}
TheClasses == {"timeout", "output_missing", "resource_unavailable", "unknown"}
TheFinds == {0, 3}
=============================================================================
