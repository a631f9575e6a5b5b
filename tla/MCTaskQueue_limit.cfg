SPECIFICATION Spec
CONSTANTS
    r1 = r1
    r2 = r2
    p1 = p1
    p2 = p2
    Reports = {r1, r2}
    Pairs = {p1, p2}
    PairOf <- OwnPairs
    BundlePairs = {p1}
    Workers = {w1}
    Clients = {c1, c2}
    MaxQueueSize = 1
    StaleActions = {"recover"}
    ForeignKey = FALSE
    MaxLogs = 3
    Faults = {}
    MaxFaults = 0
    None = None
SYMMETRY Symmetry
INVARIANTS
    NoOrphanLogInSteadyState
    PendingBound
