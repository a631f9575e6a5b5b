SPECIFICATION Spec
CONSTANTS
    s1 = s1
    s2 = s2
    Callers = {c1, c2}
    Servers = {s1, s2}
    Objects = {o1, o2, o3}
    Capacities = {1}
    Scales = {100}
    Requests <- MixedRequests
    Changes = {"reload", "readd"}
    MaxCalls = 3
    MaxChanges = 2
    None = None
SYMMETRY Symmetry
INVARIANTS
    ActiveCountsCalls
CHECK_DEADLOCK FALSE
