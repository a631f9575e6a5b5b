SPECIFICATION FairSpec
CONSTANTS
    s1 = s1
    s2 = s2
    Callers = {c1, c2}
    Servers = {s1, s2}
    Objects = {o1, o2, o3}
    Capacities = {1}
    Scales = {0, 100}
    Requests <- TwoRequests
    Changes = {"scale", "reload", "readd", "reset"}
    MaxCalls = 2
    MaxChanges = 2
    None = None
INVARIANTS
    NoLostSlot
    WaitersCounted
PROPERTIES
    CallServed
CHECK_DEADLOCK FALSE
