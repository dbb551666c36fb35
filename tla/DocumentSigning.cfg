SPECIFICATION Spec
CONSTANTS
    Keys = {"k1", "k2"}
    OwnDke = {"k1", "dke ca"}
    IssuerOf <- MCIssuerOf
    Contents = {"c1", "c2"}
    FileNames <- MCFileNames
    MaxSignatures = 2
    MaxEntries = 2
    MaxEdits = 2
INVARIANTS
    OwnOutputVerifies
    AcceptedIsSigned
    CoSignKeepsValid
    StampedIsOriginal
CHECK_DEADLOCK FALSE
