\* A container dies by itself while requests keep coming.
CONSTANTS
    Service = {s1}
    Configured = {s1}
    ContainerId = {c1, c2, c3}
    Worker = {w1}
    BasePort = 9000
    NoEntry = NoEntry
    NoId = NoId
    NoContainer = NoContainer
    NoService = NoService
    NameMatches <- OwnNameOnly
    Tasks = {"invoke"}
    Faults = {"crash"}
SPECIFICATION RequestedSpec
PROPERTY DeadIsRestarted
