SPECIFICATION ProgramSpec
CONSTANTS
    WORKER_NUM = 2
    LOGGER_NUM = 1
    LoggerOf <- OneLogger
    BUFFER_NUM = 2
    MAX_BUFFERED_LOG_ENTRIES = 1
    Sizes = {0, 1}
    MaxTx = 1
    MaxEpoch = 2
    NULL = NULL
PROPERTIES EpochEnds
