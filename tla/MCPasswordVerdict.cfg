SPECIFICATION LiveSpec
CONSTANTS
    v1 = v1
    v2 = v2
    m1 = m1
    m2 = m2
    Verdicts = {v1, v2}
    Marks = {m1, m2}
    MarkOf <- MCMarkOf
    None = None
    MaxDocs = 2
CHECK_DEADLOCK FALSE
PROPERTIES
    FreshLeavesOnlySeen
    VerdictIsSeen
