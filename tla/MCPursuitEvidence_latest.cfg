SPECIFICATION Spec
CONSTANTS
    c1 = c1
    c2 = c2
    h1 = h1
    w1 = w1
    w2 = w2
    o1 = o1
    None = None
    Objective <- TwoObjective
    Human <- NoHuman
    Contents <- TwoContents
    Outputs <- OneOutput
    MaxRevision = 0
    MaxVersion = 1
    MaxCycles = 3
    MaxTranche = 1
INVARIANT LatestCheckDecides
CHECK_DEADLOCK FALSE
