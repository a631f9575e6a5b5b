CONSTANTS
    Resources = 2
    MaxTotalAttempts = 2
    MaxAttemptsPerResource = 2
    MaxCandidateFailovers = 1
    RetryOn <- TheRetryOn
    ContractRepairOn <- TheRepairOn
    SplitOn <- TheSplitOn
    CandidateFailoverOn <- TheFailoverOn
    NBundles = 2
    Plans <- ThePlans
    Commits <- TheCommits
    FirstCommits = {"old"}
    Content <- TheContent
    Concurrency <- TheWidths
    Selected <- TheSelected
    MaxSplitDepth = 1
    MaxCandidates = 3
    BatchSize = 2
    Classes <- TheClasses
    Finds <- TheFinds
    MaxSwitches = 1
    MaxStops = 1
    MaxStarts = 2
SPECIFICATION Spec
INVARIANTS TypeOK OneVerdictEach Accounting ReuseIsFresh CoverageHonest
PROPERTIES CallsBounded RunEnds
CHECK_DEADLOCK FALSE
