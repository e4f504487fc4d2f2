SPECIFICATION FairSpec
CONSTANTS
    Clients = {c1, c2}
    NumListeners = 1
    MaxConnections = 1
    MAX_ATTEMPTS = 3
    MaxStarts = 1
INVARIANTS OneReply SessionsReleased StopIsComplete
PROPERTIES NoReplay CallsReturn
