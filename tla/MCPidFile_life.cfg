SPECIFICATION FairSpec
CONSTANTS
    d1 = d1
    d2 = d2
    d3 = d3
    k1 = k1
    None = None
    Daemons <- TwoStarts
    Killers <- OneKill
    MaxCrashes = 1
INVARIANTS
    TypeOK
    OwnsItsFile
    NoStaleFile
    OneDaemon
    RestartWorks
PROPERTIES
    RefusedByTheLiving
    KillEnds
    SignalEnds
    StartEnds
CHECK_DEADLOCK FALSE
