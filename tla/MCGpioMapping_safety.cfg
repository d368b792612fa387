SPECIFICATION Spec
CONSTANTS
    Gpio <- MCGpio
    Keys <- MCKeys
    Commands <- MCCommands
    PekPresses = {"short"}
    Errnos <- MCErrnos
    Boot <- MCBoot
    Scripts <- MCAllScripts
    MaxScripts = 1
    FaultKinds = {"select", "input"}
    MaxFaults = 1
INVARIANTS
    TypeOK
    NoStuckKey
    HeldKeyIsDown
    UniqueMasks
    DisjointMappings
    SearchResult
    KeysMonitored
    SortedWins
PROPERTIES
    OrderLostAtHead
    HeldKeyStaysDown
    KeymapSpec
