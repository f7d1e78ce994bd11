SPECIFICATION Spec
CONSTANTS
    Keys = {"a", "b"}
    MaxLen = 6
    MaxJsonNodes = 5
    MaxDepth = 3
    Documents <- MCDocuments
CHECK_DEADLOCK FALSE
INVARIANTS
    AcceptsExactlyStrict
    BudgetIsHonest
