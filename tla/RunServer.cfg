SPECIFICATION FairSpec
CONSTANTS
    c1 = c1
    c2 = c2
    Conns <- TwoConns
    Options <- EveryOption
INVARIANTS
    CommandTypeOK
    ConfiguredHandlerServes
    ListenerAsReported
PROPERTY
    CommandEnds
