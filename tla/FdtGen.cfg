CONSTANTS
    N = 4
    Wanted = {3}
    Whole = {0, 1}
    MaxDeps = 2
    MaxCalls = 3
SPECIFICATION Spec
INVARIANTS
    ListsTheNeeds
    GeneratesRight
PROPERTY GenerateTerminates
CHECK_DEADLOCK FALSE
