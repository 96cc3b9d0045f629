SPECIFICATION FairSpec
CONSTANTS
    MaxTurn = 4
    Disturbances <- Ordinary
INVARIANTS
    TypeOK
    EveryTurnIsWatched
PROPERTIES
    OnePromptAtATime
    StopIsComplete
    TurnIsAnswered
    StopEnds
CHECK_DEADLOCK FALSE
