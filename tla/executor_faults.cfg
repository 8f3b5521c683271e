SPECIFICATION Spec
CONSTANTS
    j1 = j1
    j2 = j2
    r1 = r1
    r2 = r2
    NoJob = NoJob
    Jobs <- TwoJobs
    Runs <- TwoRuns
    DbFaults = TRUE
    Panics = TRUE
    Crashes = TRUE
    Disconnects = TRUE
SYMMETRY RunJobSymmetry
INVARIANTS
    TypeOK
    MutualExclusion
    LockHeldByLiveTask
    SuccessIsVerified
    LogsExplainOutcome
PROPERTIES
    StageNeverGoesBack
    TerminalRowsFrozen
\* ids are finite: the instance ends when every run has been used
CHECK_DEADLOCK FALSE
