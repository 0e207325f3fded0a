\* No call fails.
CONSTANTS
    Service = {s1}
    Configured = {s1}
    ContainerId = {c1, c2, c3}
    Worker = {w1}
    BasePort = 9000
    NoEntry = NoEntry
    NoId = NoId
    NoContainer = NoContainer
    NoService = NoService
    NameMatches <- OwnNameOnly
    Tasks = {"invoke", "reload", "stopall", "stop"}
    Faults = {}
    Unreadable = Unreadable
SPECIFICATION CommandsSpec
PROPERTY DownStops
\* No command starts once the file does not decode.
CHECK_DEADLOCK FALSE
