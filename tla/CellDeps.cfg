SPECIFICATION FairSpec
CONSTANTS
    c1 = c1
    t1 = t1
    t2 = t2
    Call = {c1}
    Token = {t1, t2}
    StaticTokens = {t1}
    Published <- MCPublished
    Documents <- MCDocuments
    Old = 1
    MaxRefresh = 2
    MaxSwitch = 1
    MaxFlaps = 2
INVARIANTS
    OneDeployment
PROPERTIES
    ListSettles
CHECK_DEADLOCK FALSE
