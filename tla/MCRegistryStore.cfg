\* Two processes, at once or one after another; saves fail, and processes die
\* in the middle of one.
CONSTANTS
    Service = {s1, s2}
    ContainerId = {c1}
    Process = {p1, p2}
    BasePort = 9000
    NoEntry = NoEntry
    NoId = NoId
    NoRegistry = NoRegistry
    Absent = Absent
    Empty = Empty
    Corrupt = Corrupt
    SaveFaults = TRUE
    Crashes = TRUE
    WrittenStatus = {"running"}
SPECIFICATION Spec
SYMMETRY Symmetry
INVARIANTS
    TypeOK
    
    FileCurrent
PROPERTY PortAllocationSpec
\* No process can start once the file does not decode.
CHECK_DEADLOCK FALSE
