SPECIFICATION FairHub
CONSTANTS
    MaxStarts = 2
    MaxCallbacks = 2
    MaxClients = 2
    MaxWrites = 1
    MaxCasts = 1
    MAX_LOGS = 2
    MaxSends = 2
INVARIANTS OneStack ShownAgrees FreshConnection BroadcastOnce
PROPERTIES ButtonReturns Recovers PeersPart
CHECK_DEADLOCK FALSE
