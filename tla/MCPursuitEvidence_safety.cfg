SPECIFICATION Spec
CONSTANTS
    c1 = c1
    c2 = c2
    h1 = h1
    w1 = w1
    w2 = w2
    o1 = o1
    None = None
    Objective <- OneObjective
    Human <- OneHuman
    Contents <- TwoContents
    Outputs <- OneOutput
    MaxRevision = 1
    MaxVersion = 2
    MaxCycles = 1
    MaxTranche = 2
INVARIANTS
    TypeOK
    SuccessRestsOnLastBatch
    SignoffIsNeverInvented
    DeadlineIsLastResort
PROPERTIES
    SignoffIsOfTheCheckedWorkspace
    StopWins
    ArchiveIsFinal
CHECK_DEADLOCK FALSE
