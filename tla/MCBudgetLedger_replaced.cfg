SPECIFICATION Spec
CONSTANTS
    None = None
    MaxCycles = 2
    MaxToolCalls = 1
    MaxTokens = 2
    MaxElapsed = 1
    Second = 2
    MaxTicks = 2
    MaxSpent = 2
    MaxTranche = 2
    Disturbances <- SessionLost
INVARIANT MarkIsOfThisSession
