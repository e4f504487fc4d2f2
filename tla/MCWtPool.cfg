SPECIFICATION Spec
CONSTANTS
    PoolSize = 2
    Callers = {k1, k2, k3}
    NumDials = 2
    MaxResets = 1
SYMMETRY Symmetry
INVARIANTS OneDialPerSlot LoadExact NobodyStranded
