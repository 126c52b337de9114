CONSTANTS
    Names <- AllKeys
    Texts <- MCTexts
    BasicSchemas <- MCBasicSchemas
    Depth = 4
    Schemas <- MCSchemas
    Inputs <- MCInputs
    Configurations <- MCConfigurations
    NumberOf <- MCNumberOf
    TrueTexts <- MCTrueTexts
    PartsOf <- MCPartsOf
    UpperCase <- MCUpperCase
SPECIFICATION ValidationSpec
INVARIANTS
    ValidatedHasItsType
    ValuesComeThrough
\* A value is validated once.
CHECK_DEADLOCK FALSE
