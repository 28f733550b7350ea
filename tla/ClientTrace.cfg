SPECIFICATION Spec
CONSTANTS
    Levels <- SomeLevels
    Headers <- SomeHeaders
    Pseudo <- PseudoOnes
    Addresses <- OnlySecond
    MaxTrips = 2
    MaxRetries = 1
CHECK_DEADLOCK FALSE
INVARIANTS
    TypeOK
    LevelsReadBack
    TraceReadable
