SPECIFICATION Spec
CONSTANTS
    k1 = k1
    Keys <- MCKeys
    Clauses <- MCClauses
    Var = var
    AnyKey = anykey
    Cap0 = 2
    IxMin = 2
    Every = 2
    MaxSlots = 3
    MaxRef = 5
    MaxGoals = 1
    MaxTx = 1
    Strict = FALSE
INVARIANT CallFindsAll
