SPECIFICATION Spec
CONSTANTS
    ORDER = 3
    Keys = {1, 2, 3, 4, 5, 6}
    Workers = {1, 2, 3}
    Plans <- SomePlans
    NULL = NULL
INVARIANTS ChangesAreSeen
