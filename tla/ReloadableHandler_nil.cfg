SPECIFICATION Spec
CONSTANTS
    r1 = r1
    r2 = r2
    i1 = i1
    NoProc = NoProc
    Requests <- TwoRequests
    Reloaders <- OneReloader
    MaxReloads = 2
INVARIANT
    RecomputesWhenInvalid
