SPECIFICATION HubSpec
CONSTANTS
    MaxStarts = 1
    MaxCallbacks = 1
    MaxClients = 1
    MaxWrites = 1
    MaxCasts = 1
    MAX_LOGS = 1
    MaxSends = 1
INVARIANTS EndOffered
CHECK_DEADLOCK FALSE
