SPECIFICATION FairSpec
CONSTANTS
    j1 = j1
    j2 = j2
    q1 = q1
    q2 = q2
    Main = Main
    Jobs = {j1, j2}
    Requests = {q1, q2}
    MaxVersion <- Writes
    MaxBreaks = 2
    BadCrons = {j2}
    Faults = TRUE
    Cancels = TRUE
    Crashes = TRUE
INVARIANTS
    TypeOK
    ScheduledOnce
    InSync
    AnsweredIsEffective
PROPERTIES
    ReloadsEnd
\* the writes to a row are bounded: the instance ends when they are used up
CHECK_DEADLOCK FALSE
