SPECIFICATION Spec
CONSTANTS
    Tokens = {t1, t2, t3}
    Devices = {d1, d2}
    Requests = {q1, q2, q3}
    None = None
SYMMETRY Symmetry
INVARIANTS ClaimsSound OneLivePerLogin AnsweredIsRevoked
PROPERTIES IssuedInExchange
