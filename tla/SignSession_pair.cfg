SPECIFICATION Spec
CONSTANTS
    Threads = {t1, t2}
    t1 = t1
    t2 = t2
    Keys = {"k1", "k2"}
    Urls = {"u1", "u2"}
    IssuerUrl <- Issuers
    InContainer <- Containers
    Ops = {"ReadPrivateKey", "SignData", "SignDataBase64", "RawSignFile", "SignFileAsicECades", "AddSignatureToAsicE", "SignFileAsicXades", "SignXml", "SignPdfLT"}
    MaxCalls = 2
SYMMETRY Symmetry
INVARIANTS
    StampedAsAsked
    FailureLeavesNothing
    CertificateOfKey
    ErrorIsOfCall
CHECK_DEADLOCK FALSE
