SPECIFICATION FairSpec
CONSTANTS
    Options <- EveryOption
    MaxLocations = 2
    MaxCalls = 2
    MaxVia = 2
INVARIANTS
    TypeOK
    FailureContained
    RequestsAlike
PROPERTY
    DoReturns
