SPECIFICATION FairSpec
CONSTANTS
    TUPLE_NUM = 8
    SLOTS_NUM = 2
    MaxAttempts = 2
    Keys = {0, 16, 32, 1, 17, 33, 49, 13, 29, 45, 9, 25}
    Vals = {1, 2}
    Workers = {1, 2, 3}
    Plans <- SomePlans
    NULL = NULL
INVARIANTS TypeOK LocksHeld EntriesStay SearchIsExact
PROPERTIES ImplementsDictionary CallsReturn
