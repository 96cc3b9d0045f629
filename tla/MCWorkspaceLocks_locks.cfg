SPECIFICATION FairSpec
CONSTANTS
    r1 = r1
    r2 = r2
    r3 = r3
    d1 = d1
    d2 = d2
    None = None
    Room <- ThreeRooms
    Directory <- TwoDirectories
    Disturbances <- Crash
INVARIANTS
    TypeOK
    OnePursuitPerDirectory
    PursuitIsAlone
PROPERTY NobodyWaitsForever
CHECK_DEADLOCK FALSE
