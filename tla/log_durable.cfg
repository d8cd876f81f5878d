SPECIFICATION Spec
CONSTANTS
    WORKER_NUM = 2
    LOGGER_NUM = 2
    LoggerOf <- OneEach
    BUFFER_NUM = 1
    MAX_BUFFERED_LOG_ENTRIES = 1
    Sizes = {1}
    MaxTx = 3
    MaxEpoch = 3
    NULL = NULL
INVARIANTS OneEpochPerBuffer DurableIsPersisted PepochBehind
PROPERTIES DurableGrows
