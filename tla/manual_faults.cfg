SPECIFICATION FairSpec
CONSTANTS
    r1 = r1
    r2 = r2
    s1 = s1
    t1 = t1
    None = None
    Uploads = {r1, r2}
    Sources = {s1}
    Targets = {t1}
    DbFaults = TRUE
    Crashes = TRUE
INVARIANTS
    TypeOK
    EveryRunHasItsUpload
    ArchiveKeepsTarget
    SuccessIsVerified
    LogsExplainOutcome
PROPERTIES
    EveryUploadDecided
\* a form is sent once: the instance ends when all have been
CHECK_DEADLOCK FALSE
