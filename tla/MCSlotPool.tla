------------------------------ MODULE MCSlotPool ------------------------------
(* Small instances of SlotPool for TLC.                                     *)
EXTENDS SlotPool, TLC

CONSTANTS s1, s2

\* A call restricted to one server, and one without a list, which bypasses
\* the slots if no server supports it.
Narrow == [wants |-> {s1}, scoped |-> TRUE, resource |-> {s1}, model |-> {}]
Wide   == [wants |-> {s1, s2}, scoped |-> FALSE, resource |-> {}, model |-> {}]
TwoRequests == {Narrow, Wide}
\* ... and one that may use both servers and prefers a model of s2.
MixedRequests == TwoRequests \cup
    {[wants |-> {s1, s2}, scoped |-> TRUE, resource |-> {}, model |-> {s2}]}

Symmetry == Permutations(Callers) \cup Permutations(Objects)
=============================================================================
