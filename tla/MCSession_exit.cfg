\* Any interleaving: SIGINT may come at any time.
CONSTANTS
    Service = {s1}
    Configured = {s1}
    ContainerId = {c1, c2, c3, c4}
    Worker = {main, w1, w2}
    Main = main
    BasePort = 9000
    NoEntry = NoEntry
    NoId = NoId
    NoContainer = NoContainer
    NoService = NoService
    NameMatches <- OwnNameOnly
    Tasks = {"invoke", "reload", "stopall"}
    Faults = {}
SPECIFICATION SessionSpec
INVARIANT CleanExit
\* A session ends.
CHECK_DEADLOCK FALSE
