SPECIFICATION FrontSpec
CONSTANTS
    Threads = {t1}
    t1 = t1
    Entries = {"VerifyData", "VerifyDataBase64", "VerifyFile", "RawVerifyFile", "VerifyDataInternal", "VerifyDataInternalBase64", "VerifyDataInternalStr", "VerifyDataInternalBase64Str", "VerifyXml", "VerifyPdf", "VerifyFileAsicS", "VerifyFileAsicE", "VerifyFileAsicEXades", "RecordVerifyFailure", "Initialize", "Finalize"}
    MaxCalls = 1
    MaxSigs = 2
    MaxElsewhere = 0
    Fronts = {"cli"}
    k1 = k1
    k2 = k2
    NoKey = NoKey
    CertStore <- Directory
    Scripts <- SessionScripts
    CliScripts <- VerifyRuns
    Asks <- VerifyAsks
    Requests <- KeyRequests
    Offers <- Offered
    Folders <- KeyFolders
    Caches <- KeyCaches
    KeySettings <- AllSettings
    Reissued <- NewIssues
INVARIANT ExitCodeTellsPolicy
CHECK_DEADLOCK FALSE
