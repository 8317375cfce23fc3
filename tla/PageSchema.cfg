SPECIFICATION FairSpec
CONSTANTS
    Columns = {a, b}
    FirstColumn = a
    Second = b
    FirstType = "NUMBER"
    NumSlots = {num_1, num_2}
    DateSlots = {date_1}
    Records = {x}
    Whole = Whole
    Fraction = Fraction
    Huge = Huge
    Day = Day
    Moment = Moment
    Numbers <- SomeNumbers
    Dates <- SomeDates
    Words = {w1}
    Kept <- SlotKeeps
    Null = Null
    Absent = Absent
    None = None
    Requests = {1, 2, 3}
    Calls <- SchemaCalls
INVARIANT SlotsNotShared
INVARIANT CachedSchemaCurrent
INVARIANT OneWinnerPerVersion
INVARIANT FreshRowsAgree
PROPERTY EveryRequestEnds
CHECK_DEADLOCK FALSE
