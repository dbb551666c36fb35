SPECIFICATION Spec
CONSTANTS
    signer = signer
    one = one
    two = two
    three = three
    root = root
    Cert <- MCCert
    Signer = signer
    NoCert = NoCert
    Unlimited = Unlimited
    MaxIssuerCandidates = 3
    Inputs <- MCInputs
INVARIANTS
    TrustedIsSound
    RefusalIsJustified
PROPERTIES
    VerdictIsPromised
CHECK_DEADLOCK FALSE
