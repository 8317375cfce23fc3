SPECIFICATION LoginSpec
CONSTANTS
    q1 = q1
    q2 = q2
    q3 = q3
    Requests = {q1, q2, q3}
    MaxFailed = 2
    Lockout = 1
    MaxSmallInt = 3
    MaxTime = 2
SYMMETRY Symmetry
INVARIANTS LockMatchesCounter GuessesBounded
PROPERTIES FloorNeverFalls
