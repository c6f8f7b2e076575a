\* One thread, all types and all functions.
CONSTANTS
    MAX <- Limits
    CharIsSigned = TRUE
    UNIT = 2
    Programs <- AllPrograms
    Functions <- AllFunctions
    Risks = {}

SPECIFICATION Spec

INVARIANTS
    ArithmeticIsExact
    NoExceptionIsMissed
    RollBackRestoresTheUnit
