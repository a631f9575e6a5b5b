SPECIFICATION FairSpec
CONSTANTS
    Requests = {r1}
    Overrides <- SomeOverrides
    Loads <- SomeLoads
    Down = Down
    FirstLoad <- Idle
    MinScale = 0
    MaxScale = 110
    ActiveLow = 15
    ActiveHigh = 20
    Critical = 3
    WorkTime = {2}
    WorkScale = 30
    ProbeOn = TRUE
    MaxTime = 1
    MaxEvents = 3
    None = None
INVARIANTS
    TypeOK
    TimerBelongs
    OneProber
PROPERTIES
    RestartKeepsOverride
    RaisesNeedCalm
    OverrideEnds
    Recovers
    FallsBack
