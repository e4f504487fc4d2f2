SPECIFICATION Spec
CONSTANTS
    Calls = {c1, c2, c3}
    h1 = h1
    h2 = h2
    Hosts <- MCHosts
    Records <- MCRecords
    MAX_CACHE_SIZE = 1
    MaxData = 2
    MaxClears = 1
SYMMETRY CallSymmetry
INVARIANTS OneQuery EvenlyServed
CHECK_DEADLOCK FALSE
