SPECIFICATION Spec
CONSTANTS
    Tokens <- SomeTokens
    CommandLines <- SomeLines
    Configs <- SomeConfigs
    Requests <- SomeRequests
    Files <- SomeFiles
CHECK_DEADLOCK FALSE
INVARIANTS
    TypeOK
    ServesWhereTold
    MiddlewareOnEvery
    HandlersAsOptions
