SPECIFICATION Spec
CONSTANTS
    d1 = d1
    d2 = d2
    d3 = d3
    k1 = k1
    None = None
    Daemons <- ThreeStarts
    Killers <- NoKill
    MaxCrashes = 0
INVARIANTS
    OneDaemon
CHECK_DEADLOCK FALSE
