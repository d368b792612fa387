SPECIFICATION FairSpec
CONSTANTS
    Gpio <- MCGpio
    Keys <- MCKeys
    Commands <- MCCommands
    PekPresses = {}
    Errnos <- MCErrnos
    Boot <- MCCommandOnly
    Scripts <- MCNone
    MaxScripts = 0
    FaultKinds = {}
    MaxFaults = 0
PROPERTIES
    Converges
