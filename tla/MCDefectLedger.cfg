SPECIFICATION Spec
CONSTANTS
    Slots = {1, 2}
    Reports = {1, 2}
    MaxId = 3
    Severity <- TheSeverity
    Ledgers <- TheLedgers
    Scans <- TheScans
    ResolvedRounds = 2
    DormantRounds = 1
    ObsoleteRounds = 2
    Settable <- TheSettable
    MaxTries = 2
    MaxHuman = 1
    MaxReruns = 1
INVARIANTS
    TypeOK
    ReferencesExist
PROPERTIES
    RejectedOnlyByRace
    OldReportsNeverWrite
    HumanDecisionsStick
    FindingsLand
    ResolvedOnEvidence
CHECK_DEADLOCK FALSE
