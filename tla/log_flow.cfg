SPECIFICATION FairSpec
CONSTANTS
    WORKER_NUM = 2
    LOGGER_NUM = 1
    LoggerOf <- OneLogger
    BUFFER_NUM = 2
    MAX_BUFFERED_LOG_ENTRIES = 0
    Sizes = {0, 1}
    MaxTx = 2
    MaxEpoch = 1
    NULL = NULL
INVARIANTS TypeOK BufferInOnePlace LogInOrder BufferBounded PoolReady
PROPERTIES PushReturns ShutdownTerminates ImplementsRedoLog
