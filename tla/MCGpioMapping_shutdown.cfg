SPECIFICATION FairSpec
CONSTANTS
    Gpio <- MCSmallGpio
    Keys <- MCKeys
    Commands <- MCCommands
    PekPresses = {"short", "long"}
    Errnos <- MCErrnos
    Boot <- MCSmallBoot
    Scripts <- MCClear
    MaxScripts = 1
    FaultKinds = {"select", "fd", "axp", "status", "input"}
    MaxFaults = 2
INVARIANTS
    NoFalseShutdown
PROPERTIES
    LidShutsDown
    PekServed
