SPECIFICATION Spec
CONSTANTS
    Records = {r1}
    Values = {v1, v2}
    Props = {p1, p2}
    Requests = {q1, q2, q3}
    None = None
    MaxVersion = 2
SYMMETRY Symmetry
INVARIANTS AppliedOnce
PROPERTIES AppliesWhatWasShown
CHECK_DEADLOCK FALSE
