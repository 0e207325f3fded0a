\* Everything overlaps and everything fails, containers die by themselves.
CONSTANTS
    Service = {s1}
    Configured = {s1}
    ContainerId = {c1, c2, c3, c4}
    Worker = {w1, w2}
    BasePort = 9000
    NoEntry = NoEntry
    NoId = NoId
    NoContainer = NoContainer
    NoService = NoService
    NameMatches <- OwnNameOnly
    Tasks = {"invoke", "reload", "stopall"}
    Faults = {"docker", "save", "slow", "cancel", "crash"}
SPECIFICATION FairSpec
INVARIANTS
    TypeOK
    OneContainerPerService
PROPERTY TasksEnd
