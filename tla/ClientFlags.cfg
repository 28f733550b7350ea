SPECIFICATION Spec
CONSTANTS
    CommandLines <- SomeLines
    Queries <- SomeQueries
    Dotted <- SomeDotted
    Typed <- SomeTyped
    CertsIn <- SomeCerts
    PemIn <- SomePem
    KeyPairs <- SomeKeyPairs
    SuiteNames <- SomeNames
    CurveNames <- SomeNames
CHECK_DEADLOCK FALSE
INVARIANTS
    TypeOK
    BodyAsGiven
    CredentialsAsGiven
    LocationsIndependent
    TLSAsGiven
