SPECIFICATION FairSpec
CONSTANTS
    a = a
    b = b
    SP = SP
    NL = NL
    NUL = NUL
    Letters = {a, b}
    Writes <- MCWhole
    Size = 12
    WordSize = 64
    MaxWrites = 4
PROPERTY
    EveryLineRuns
CHECK_DEADLOCK FALSE
