SPECIFICATION Spec
CONSTANTS
    NameTokens <- Names2
    Numbers <- Digits
    Unreserved <- Plain
    Reserved <- Kept
    TypeNames <- Types
    Chars <- Tokens
    Schemes <- Scheme2
    ParamArgs <- SomeParamArgs
    ParamsArgs <- SomeParamsArgs
    ParamsTexts <- SomeParamsTexts
    TemplateArgs <- SomeTemplates
    UrlArgs <- SomeUrls
    BaseArgs <- SomeBases
    Rests <- SomeRests
    MaxFlags = 4
CHECK_DEADLOCK FALSE
INVARIANTS
    TypeOK
    OccurrencesAccumulate
    PartialKeepsRest
    TemplatesExpand
