SPECIFICATION FairSpec
CONSTANTS
    FinalAttempt = FALSE
    LeftoverChunks = 0
    NONCE = 2
    LENGTH = 1
    PAYLOAD = 2
    RxCap = 3
    MaxChunk = 2
    MaxFed = 5
    MaxReads = 1
    MaxSlices = 2
PROPERTIES Returns
