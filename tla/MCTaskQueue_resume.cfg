SPECIFICATION FairSpec
CONSTANTS
    r1 = r1
    r2 = r2
    p1 = p1
    p2 = p2
    Reports = {r1}
    Pairs = {p1}
    PairOf <- OneScan
    BundlePairs = {p1}
    Workers = {w1, w2}
    Clients = {c1, c2}
    MaxQueueSize = 0
    StaleActions = {"recover", "delete"}
    ForeignKey = FALSE
    MaxLogs = 3
    Faults = {"crash"}
    MaxFaults = 1
    None = None
INVARIANTS
    SingleRunner
    NoLostScan
PROPERTIES
    LedgerSpec
    ScanEnds
