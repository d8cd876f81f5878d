SPECIFICATION FairSpec
CONSTANTS
    Configs <- SomeConfigs
INVARIANTS RegisteredBeforeRun QueueOpen
PROPERTIES ProgramEnds
