SPECIFICATION Spec
CONSTANTS
    p1 = p1
    p2 = p2
    p3 = p3
    bad = bad
    h1 = h1
    h2 = h2
    k1 = k1
    k2 = k2
    Patterns <- FourPatterns
    Malformed <- OneMalformed
    Reloadables <- TwoReloadables
    ReloadHandler = ReloadHandler
    NoRoute = NoRoute
    Posts <- TwoPosts
    MaxVersion = 3
CHECK_DEADLOCK FALSE
SYMMETRY Symmetry
INVARIANTS
    TypeOK
    RegistrationsHold
    ReloadReachesTargets
