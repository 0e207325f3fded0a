\* Requests, reloads and SIGINT at any time; calls fail, are slow, are lost,
\* clients go away.
CONSTANTS
    Service = {s1}
    Configured = {s1}
    ContainerId = {c1, c2, c3, c4}
    Worker = {main, w1, w2}
    Main = main
    BasePort = 9000
    NoEntry = NoEntry
    NoId = NoId
    NoContainer = NoContainer
    NoService = NoService
    NameMatches <- OwnNameOnly
    Tasks = {"invoke", "reload", "stopall"}
    Faults = {"docker", "save", "slow", "cancel"}
SPECIFICATION SessionSpec
SYMMETRY Symmetry
INVARIANTS
    SessionTypeOK
    LeftIsKnown
    ChangesAreKept
\* A session ends.
CHECK_DEADLOCK FALSE
