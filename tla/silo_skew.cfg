SPECIFICATION Spec
CONSTANTS
    WORKER_NUM = 2
    Keys = {1, 2}
    InitKeys = {1, 2}
    Procedures <- SkewProcedures
    MaxTx = 2
    MaxEpoch = 1
    TIDLimit = 3
INVARIANTS TypeOK LockHasOwner SingleHolder WriteAhead Serializable LogExplainsDatabase
PROPERTIES VersionsGrow CommitTidAbove
