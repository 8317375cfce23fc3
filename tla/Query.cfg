SPECIFICATION FairSpec
CONSTANTS
    Null = Null
    One = 10000
    Cent = 100
    SqlDigit = 10
    Error = Error
    Absent = Absent
    Today = 20000
    MaxDepth = 4
    Ids = {1, 2, 3}
    Amounts = {"amount", "other"}
    Moments = {"due"}
    Texts = {"note"}
    Indexed = {"amount"}
    Options <- SomeOptions
    Plans <- SomePlans
    InDatabase <- CompiledFormula
    InPython <- ApplyPrepared
    Rows <- SomeRows
    NewRows <- SomeNewRows
    FilterLists <- SomeFilters
    GroupBy = "other"
    QueryRequests <- SomeRequests
    Periods <- SomePeriods
    MaxPage = 2
    Owners = {"o1"}
    Managers = {"m1"}
    Strangers = {"x1"}
    AssignedStores <- NoStores
    NoStore = NoStore
    GrantLists <- SomeGrantLists
    MaxWrites = 2
INVARIANT StableRowsInOrder
INVARIANT FiguresAgree
INVARIANT AnsweredOnCurrentGrant
PROPERTY EveryScanEnds
CHECK_DEADLOCK FALSE
