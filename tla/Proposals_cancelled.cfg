SPECIFICATION Spec
CONSTANTS
    Records = {r1}
    Values = {v1, v2}
    Props = {p1}
    Requests = {q1, q2}
    None = None
    MaxVersion = 2
SYMMETRY Symmetry
INVARIANTS CancelledIsUntouched
CHECK_DEADLOCK FALSE
