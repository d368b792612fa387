SPECIFICATION Spec
CONSTANTS
    Gpio <- MCSmallGpio
    Keys <- MCKeys
    Commands <- MCCommands
    PekPresses = {"short"}
    Errnos <- MCErrnos
    Boot <- MCSmallBoot
    Scripts <- MCNop
    MaxScripts = 1
    FaultKinds = {}
    MaxFaults = 0
PROPERTIES
    ReleaseOnlyReleased
