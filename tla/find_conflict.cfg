SPECIFICATION Spec
CONSTANTS
    WORKER_NUM = 2
    Keys = {1, 2}
    InitKeys = {1, 2}
    Procedures <- SkewProcedures
    MaxTx = 1
    MaxEpoch = 1
    TIDLimit = 8
PROPERTIES ConflictAborts
