SPECIFICATION Spec
CONSTANTS
    Contexts <- MCContexts
    CoSigned <- MCCoSigned
    MaxSigners = 0
INVARIANT
    RevokedLaterIsNoError
CHECK_DEADLOCK FALSE
