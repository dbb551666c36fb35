SPECIFICATION Spec
CONSTANTS
    EmbeddedMaxAge = 1
    LiveMaxAge = 0
    Inputs <- MCInputs
INVARIANTS
    GoodIsProved
    ListedIsReported
    AgreesWithHistory
PROPERTIES
    ResultIsPromised
CHECK_DEADLOCK FALSE
