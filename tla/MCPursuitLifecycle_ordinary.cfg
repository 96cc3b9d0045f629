SPECIFICATION FairSpec
CONSTANTS
    None = None
    Disturbances <- Ordinary
INVARIANTS
    WorkIsApproved
    NotStranded
    EveryTurnIsWatched
    OnePromptAtATime
PROPERTIES
    StopCancelsContinuation
    StopEnds
    DeadlineEnds
    CheckingEnds
    Contracted
