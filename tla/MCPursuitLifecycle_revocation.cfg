SPECIFICATION Spec
CONSTANTS
    None = None
    Disturbances <- LateRevocation
INVARIANT NotStranded
