SPECIFICATION Spec
CONSTANTS
    r1 = r1
    r2 = r2
    None = None
    Runs <- MCRuns
    Limit = 1
INVARIANTS
    PollsUntilClosed
    LogsShownExplained
PROPERTIES
    EndIsNoticed
