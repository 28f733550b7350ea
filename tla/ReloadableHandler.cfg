SPECIFICATION FairSpec
CONSTANTS
    r1 = r1
    r2 = r2
    i1 = i1
    i2 = i2
    NoProc = NoProc
    Requests <- TwoRequests
    Reloaders <- TwoReloaders
    MaxReloads = 1
INVARIANTS
    TypeOK
    BuildDiscipline
    NoStaleServe
    OnlyInvalidateDisturbs
PROPERTIES
    ImplementsHandlerCache
    CallsFinish
