SPECIFICATION FairSpec
CONSTANTS
    j1 = j1
    j2 = j2
    r1 = r1
    r2 = r2
    NoJob = NoJob
    Jobs <- OneJob
    Runs <- TwoRuns
    DbFaults = FALSE
    Panics = TRUE
    Crashes = FALSE
    Disconnects = FALSE
PROPERTIES
    RunningRunEnds
\* ids are finite: the instance ends when every run has been used
CHECK_DEADLOCK FALSE
