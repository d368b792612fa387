SPECIFICATION FairSpec
CONSTANTS
    a = a
    b = b
    SP = SP
    NL = NL
    NUL = NUL
    Letters = {a, b}
    Writes <- MCWrites
    Size = 12
    WordSize = 64
    MaxWrites = 4
INVARIANTS
    TypeOK
    LinesInOrder
    NoWrap
PROPERTIES
    QueueSpec
    AWriteIsHeard
CHECK_DEADLOCK FALSE
