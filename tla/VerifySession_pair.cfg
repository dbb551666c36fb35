SPECIFICATION Spec
CONSTANTS
    Threads = {t1, t2}
    t1 = t1
    t2 = t2
    Entries = {"VerifyDataBase64", "RawVerifyFile", "VerifyDataInternalBase64", "VerifyDataInternalStr", "VerifyFileAsicS", "VerifyFileAsicE", "VerifyFileAsicEXades", "VerifyXml", "VerifyPdf", "RecordVerifyFailure", "Initialize", "Finalize"}
    MaxCalls = 2
    MaxSigs = 2
    MaxElsewhere = 1
SYMMETRY Symmetry
CONSTRAINT StringCallsAlone
INVARIANTS
    ReportOfOneCall
    CompletedReportNamed
    CoverageDeclared
PROPERTIES
    ImplementsReportSlot
CHECK_DEADLOCK FALSE
