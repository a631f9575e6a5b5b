SPECIFICATION Spec
CONSTANTS
    r1 = r1
    r2 = r2
    p1 = p1
    p2 = p2
    Reports = {r1, r2}
    Pairs = {p1}
    PairOf <- OnePair
    BundlePairs = {}
    Workers = {w1}
    Clients = {c1}
    MaxQueueSize = 0
    StaleActions = {"recover", "delete", "ignore"}
    ForeignKey = TRUE
    MaxLogs = 3
    Faults = {"crash", "outage"}
    MaxFaults = 1
    None = None
SYMMETRY Symmetry
PROPERTIES
    LedgerSpec
