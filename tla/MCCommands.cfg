\* One process after another; what they do overlaps, their calls fail, are lost
\* or come too late, and they are killed.
CONSTANTS
    Service = {s1, s2}
    Configured = {s1, s2}
    ContainerId = {c1, c2, c3, c4, c5}
    Worker = {w1, w2}
    BasePort = 9000
    NoEntry = NoEntry
    NoId = NoId
    NoContainer = NoContainer
    NoService = NoService
    NameMatches <- OwnNameOnly
    Tasks = {"invoke", "reload", "stopall", "stop"}
    Faults = {"docker", "slow"}
    Unreadable = Unreadable
SPECIFICATION CommandsSpec
CONSTRAINT OneOverlap
SYMMETRY Symmetry
INVARIANTS
    RunningIsRecorded
    StoppedHasNone
    ContainersAreOnFile
PROPERTY LifecycleKept
\* No command starts once the file does not decode.
CHECK_DEADLOCK FALSE
