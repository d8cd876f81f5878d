SPECIFICATION FairSpec
CONSTANTS
    WORKER_NUM = 2
    Keys = {1, 2}
    InitKeys = {1}
    Procedures <- MixedProcedures
    MaxTx = 1
    MaxEpoch = 3
    TIDLimit = 2
INVARIANTS CommitEpoch Serializable LogExplainsDatabase
PROPERTIES QuitTerminates
