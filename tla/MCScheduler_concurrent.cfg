\* Requests for a service overlap; containers are slow, saves fail.
CONSTANTS
    Service = {s1, s2}
    Configured = {s1, s2}
    ContainerId = {c1, c2, c3, c4, c5}
    Worker = {w1, w2, w3}
    BasePort = 9000
    NoEntry = NoEntry
    NoId = NoId
    NoContainer = NoContainer
    NoService = NoService
    NameMatches <- OwnNameOnly
    Tasks = {"invoke"}
    Faults = {"slow", "save"}
SPECIFICATION Spec
SYMMETRY Symmetry
INVARIANT RunningAnswers
