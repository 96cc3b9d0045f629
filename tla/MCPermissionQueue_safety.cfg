SPECIFICATION Spec
CONSTANTS
    None = None
    MaxRequest = 2
    MaxSession = 4
    Disturbances <- Everything
INVARIANTS
    TypeOK
    NotForgotten
PROPERTY AutoApprovalIsCovered
