\* Every service fails and recovers at will; each timeout may pass any time.
CONSTANTS
    Machine = {"Order", "left", "right", "inner"}
    Root = "Order"
    Name <- TheName
    NoName = "none"
    NoState = NoState
    Definition <- TheDefinition
    Key <- TheKey
    ErrorText <- TheErrorText
    CauseText <- NoCause
    Timestamp <- TheTimestamp
    Float64 <- TheFloat64
    Document <- TheDocument
    Data <- TheData
    Inputs <- TheInputs
    Answers <- TheAnswers
SPECIFICATION DataSpec
INVARIANTS
    TypeOK
    BranchesAreJoined
    RetriesAreBounded
    TimeoutStopsRetries
    OnlyNullPanics
PROPERTIES
    OnlyEndLosesFailure
    FieldsKept
    ResultIsFound
    ChoiceIsFirstSatisfied
    EndsOrPanics
\* A workflow that has ended stays so.
CHECK_DEADLOCK FALSE
