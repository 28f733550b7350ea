SPECIFICATION Spec
CONSTANTS
    Options <- EveryOption
    Names <- SomeNames
    Paths <- SomePaths
    Empty <- NoString
    Suffix <- DotIndex
    MaxResponses = 2
CHECK_DEADLOCK FALSE
INVARIANTS
    TypeOK
    VerifiedOnSuccess
    DownloadsKept
    StripsLeading
