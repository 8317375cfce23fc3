SPECIFICATION FairSpec
CONSTANTS
    Keys = {k1, k2}
    UuidKeys = {k1}
    Bodies = {b1, b2}
    Ids = {i1, i2, i3}
    Attempts = {a1, a2, a3}
    None = None
INVARIANTS ReservationsSound OnePerKey ReceiptsBacked ReplaysTheOriginal
PROPERTIES EveryAttemptAnswered
CHECK_DEADLOCK FALSE
