SPECIFICATION Spec
CONSTANTS
    s1 = s1
    s2 = s2
    Callers = {c1, c2, c3}
    Servers = {s1, s2}
    Objects = {o1, o2}
    Capacities = {1, 2}
    Scales = {50, 100}
    Requests <- MixedRequests
    Changes = {"scale", "reload"}
    MaxCalls = 3
    MaxChanges = 2
    None = None
SYMMETRY Symmetry
INVARIANTS
    TypeOK
    ActiveCountsCalls
PROPERTIES
    GrantWithinCapacity
CHECK_DEADLOCK FALSE
