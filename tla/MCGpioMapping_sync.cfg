SPECIFICATION FairSpec
CONSTANTS
    Gpio <- MCGpio
    Keys <- MCKeys
    Commands <- MCCommands
    PekPresses = {"short"}
    Errnos <- MCErrnos
    Boot <- MCBoot
    Scripts <- MCKeyScripts
    MaxScripts = 1
    FaultKinds = {"fd", "input"}
    MaxFaults = 1
INVARIANTS
    InSync
PROPERTIES
    Converges
