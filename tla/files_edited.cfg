SPECIFICATION Spec
CONSTANTS
    t1 = t1
    t2 = t2
    h1 = h1
    h2 = h2
    j1 = j1
    j2 = j2
    r1 = r1
    r2 = r2
    q1 = q1
    q2 = q2
    d1 = d1
    f1 = f1
    None = None
    ManualDir = ManualDir
    DirOf <- SharedDir
    Targets = {t1, t2}
    Hosts = {h1, h2}
    Jobs = {j1}
    Runs = {r1, r2}
    Requests = {q1}
    FileNames = {f1}
    MaxClock = 2
    EditJobs = TRUE
    EditTargets = TRUE
    DbFaults = FALSE
    SshFaults = FALSE
    Crashes = FALSE
SYMMETRY RunSymmetry
INVARIANTS
    TypeOK
    DownloadIntegrity
PROPERTIES
    FileLossExplained
