SPECIFICATION Spec
CONSTANTS
    t1 = t1
    t2 = t2
    p1 = p1
    p2 = p2
    NoPath = NoPath
    Tasks <- MCTasks
    Paths <- MCPaths
    Asked = {"testTarget", "testSource", "listDatabases", "download", "delete", "backup", "manual"}
    Faults = TRUE
SYMMETRY TaskPathSymmetry
INVARIANTS
    CommandsHaveTheirKey
    FilesLeftAreExcused
\* names are finite: the instance ends when every name has been used
CHECK_DEADLOCK FALSE
