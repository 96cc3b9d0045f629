SPECIFICATION Spec
CONSTANTS
    MaxTurn = 2
    Disturbances <- LateErrors
INVARIANT EveryTurnIsWatched
CHECK_DEADLOCK FALSE
