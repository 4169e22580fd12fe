SPECIFICATION BufferSpec
CONSTANTS
    b1 = b1
    b2 = b2
    Buffers <- TwoBuffers
    Deferred = {b2}
    Strings <- Short
    Marked = "x"
    Sizes = {1, 3, 5}
    MIN_BUFFER_SIZE = 2
    EVBUFFER_CHAIN_SIZE = 1
    EVBUFFER_CHAIN_MAX_AUTO_SIZE = 8
    MAX_TO_REALIGN_IN_EXPAND = 4
    PrintfRoom = 1
    NUM_READ_IOVEC = 3
    MaxBytes = 4
    MaxChains = 3
    MaxBufferCalls = 4
INVARIANTS ContentsAreBytes Validated ReportsAddUp
CHECK_DEADLOCK FALSE
