SPECIFICATION WriterSpec
CONSTANTS
    Codes <- SomeCodes
    Informational <- Hints
    NoBody <- Bodiless
    OK <- Success
    NoTee = NoTee
    Tees = {t1, t2}
    MaxChunk = 2
    MaxBytes = 3
CHECK_DEADLOCK FALSE
INVARIANTS
    WriterTypeOK
    WrapperTransparent
    WritesAddUp
