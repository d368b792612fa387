SPECIFICATION Spec
CONSTANTS
    Gpio <- MCGpio
    Keys <- MCKeys
    Commands <- MCCommands
    PekPresses = {"short"}
    Errnos <- MCErrnos
    Boot <- MCCombinationFirst
    Scripts <- MCNone
    MaxScripts = 0
    FaultKinds = {}
    MaxFaults = 0
INVARIANTS
    BiggestWins
