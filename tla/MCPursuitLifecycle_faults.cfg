SPECIFICATION Spec
CONSTANTS
    None = None
    Disturbances <- Everything
INVARIANTS
    TypeOK
    LeaseIsAuthorized
PROPERTY DeadlineIsFinal
