CONSTANTS
    Pages = {"p", "q"}
    Certs <- MCCerts
    Signer = "signer"
    Tsas <- MCTsas
    Anchors = {"ca"}
    Stored = {"sub", "ca", "root", "cross", "tsa1"}
    IssuerOf <- MCIssuerOf
    Embeds = {"tsa2", "tsa3"}
    Responders = {"signer", "tsa1", "tsa2", "tsa3", "cross"}
    Listed = {"tsa1", "sub"}
    Lifetime = 0
    MaxRenewals = 1
    MaxDepth = 4
    MaxTime = 1
    MaxCalls = 2
    MaxEdits = 1
    MaxLength = 4
    FormFields <- MCFormFields
SPECIFICATION FairSpec
INVARIANTS
    SignedVerifies
    LongTermIsSelfContained
    
PROPERTIES
    SigningOnlyAdds
    EverySignEnds
CHECK_DEADLOCK FALSE
