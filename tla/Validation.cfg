SPECIFICATION Spec
CONSTANTS
    Contexts <- MCContexts
    CoSigned <- MCCoSigned
    MaxSigners = 2
INVARIANTS
    ReportIsFaithful
    VerdictWithinPolicy
    ClaimsAgree
CHECK_DEADLOCK FALSE
