SPECIFICATION FairSpec
CONSTANTS
    n1 = n1
    n2 = n2
    n3 = n3
    fn = fn
    a = a
    b = b
    boot = boot
    nest = nest
    loop = loop
    out_ = out_
    none = none
    dim = dim
    head = head
    Nodes <- MCNodes
    FileNames <- MCFileNames
    NoFile = none
    Boot = boot
    Buttons = {fn, a, b}
    Commands = {dim}
    Disk <- MCDisk
    FifoLines <- MCFifoLines
    MaxOpen = 2
    MaxLines = 3
    MaxCrashes = 1
INVARIANTS
    TypeOK
    WellLinked
    NoDangling
    EachLineOnce
    LoadRestores
PROPERTIES
    RereadHarmless
    StoreSpec
    LinesEnd
CHECK_DEADLOCK FALSE
