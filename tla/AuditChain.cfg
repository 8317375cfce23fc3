SPECIFICATION Spec
CONSTANTS
    Writers = {w1, w2}
    None = None
    MaxId = 4
SYMMETRY Symmetry
INVARIANTS ChainLinked NeverRefused NoFalseAlarm TruncationIsCaught
