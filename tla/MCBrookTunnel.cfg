SPECIFICATION Spec
CONSTANTS
    FinalAttempt = TRUE
    LeftoverChunks = 2
    NONCE = 2
    LENGTH = 1
    PAYLOAD = 2
    RxCap = 5
    MaxChunk = 4
    MaxFed = 8
    MaxReads = 2
    MaxSlices = 2
INVARIANTS NoLostWakeup BothClosedComplete RxGauge
PROPERTIES FinAfterData KeepsContract
