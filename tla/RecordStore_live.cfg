SPECIFICATION FairSpec
CONSTANTS
    Records = {r1, r2, r3, r4}
    LedgerRecords = {r1, r2, r3, r4}
    Seeds = {r1}
    Bodies = {b1}
    Flags = {f1}
    Blank = Blank
    Requests = {q1, q2, q3}
    None = None
PROPERTIES EveryRequestAnswered
CHECK_DEADLOCK FALSE
