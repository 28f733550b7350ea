SPECIFICATION Spec
CONSTANTS
    p1 = p1
    p2 = p2
    p3 = p3
    bad = bad
    h1 = h1
    h2 = h2
    k1 = k1
    k2 = k2
    Patterns <- ThreePatterns
    Malformed <- NoneMalformed
    Reloadables <- TwoReloadables
    ReloadHandler = ReloadHandler
    NoRoute = NoRoute
    Posts <- OnePost
    MaxVersion = 2
CHECK_DEADLOCK FALSE
INVARIANT
    ReloadReachesAll
