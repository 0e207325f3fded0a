\* One trigger of each kind in turn, with everything that can happen to it.
CONSTANTS
    Message = {m1, m2}
    BatchSize = 2
    Shard = {h1, h2}
    MaxRecords <- MCMaxRecords
    Malformed <- MCMalformed
    Limit = 2
    StartingPosition = "LATEST"
    NoIterator = NoIterator
    Expired = Expired
    NoShard = NoShard
    Publication = {p1, p2}
    FunctionFails = TRUE
    File = {f1, f2}
    Filters <- MCFilters
    MaxEvents = 2
    NoEvent = NoEvent
SPECIFICATION Spec
INVARIANTS
    TypeOK
    DeletedWasAttempted
    
    ReportsFollow
PROPERTIES
    InterruptedIsKept
    EveryMessageAttempted
    EveryRecordDelivered
    DeliveriesEnd
    TicksAreMadeUp
    LoopsEnd
\* The trigger has ended and nothing happens outside any more.
CHECK_DEADLOCK FALSE
