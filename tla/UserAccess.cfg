SPECIFICATION Spec
CONSTANTS
    Updates = {u1, u2}
    Sessions = {s1}
    Stores = {st1}
    None = None
SYMMETRY Symmetry
INVARIANTS AcceptedUnlessStale TrailTellsUser
CHECK_DEADLOCK FALSE
