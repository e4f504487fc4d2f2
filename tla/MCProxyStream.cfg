SPECIFICATION PathSpec
CONSTANTS
    Text <- MCText
    Clients <- MCClients
    Wires <- MCWires
    ListenerTypes <- MCListenerTypes
    MAX_HEADER = 14
    WORD = 4
    NONCE_LENGTH = 2
    TAG_LENGTH = 1
    CHUNK_SIZE = 5
    MAX_FRAME_PAYLOAD = 1
    MAX_HEADER_LENGTH = 24
    MAX_DRIFT = 120
    ServerClock = 1000
    ClientClocks <- MCClientClocks
    ClientNonces <- MCClientNonces
    ServerNonces <- MCServerNonces
    Confs <- MCConfs
    Reply <- MCReply
    Sizes = {1, 2}
    MAX_READ_QUEUE_BYTES = 3
    MaxChunks = 3
    MAX_PENDING = 1
    MaxIncoming = 2
    MaxSends = 4
INVARIANTS TargetAgrees UploadIsBody BytesInOrder UploadWhole ReadIsServed StreamInOrder EndIsLearnt
CHECK_DEADLOCK FALSE
