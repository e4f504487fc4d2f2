SPECIFICATION RelayFairSpec
CONSTANTS
    Streams = {s1, s2}
    MaxStreams = 1
INVARIANT FinIsWhole
PROPERTY TeardownEnds
