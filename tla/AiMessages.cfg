SPECIFICATION FairSpec
CONSTANTS
    Messages = {1, 2, 3}
    Owner = owner
    Users = {owner}
    Sender <- OneOwner
    Sessions = {s1}
    None = None
    MainPool = 3
    ReaderPool = 2
    WindowLimit = 2
    DailyCap = 1
    MaxToolCalls = 1
    MaxRows = 1
    ResultRows = {0, 2}
    Batches = {1, 2}
    CallCosts = {1}
    DayLength = 1
    MaxTime = 1
INVARIANTS MeterCountsEveryMessage NeverOvercharged BudgetsHold ProposalsOfAnswers
PROPERTY EveryMessageEnds
CHECK_DEADLOCK FALSE
