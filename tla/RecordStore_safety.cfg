SPECIFICATION Spec
CONSTANTS
    Records = {r1, r2, r3, r4}
    LedgerRecords = {r1, r3, r4}
    Seeds = {r1, r2}
    Bodies = {b1}
    Flags = {f1, f2}
    Blank = Blank
    Requests = {q1, q2, q3}
    None = None
SYMMETRY Symmetry
INVARIANTS HandlesSound CorrectedOnce TrailExplainsRow
PROPERTIES NoLostUpdate ImplementsAtomicRecords
CHECK_DEADLOCK FALSE
