SPECIFICATION Spec
CONSTANTS
    Conns = {c1, c2}
    maxConnections = 2
    MAX_ATTEMPTS = 2
    MaxStarts = 2
INVARIANTS OneAnswer WorkersKnown Answered
SYMMETRY ConnSymmetry
CHECK_DEADLOCK FALSE
