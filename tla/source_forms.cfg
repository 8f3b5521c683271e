SPECIFICATION Spec
CONSTANTS
    s1 = s1
    s2 = s2
    d1 = d1
    d2 = d2
    h1 = h1
    h2 = h2
    MaxLoads = 2
    MaxRequests = 3
    None = None
    Blank = Blank
    Sources <- MCSources
    Databases <- MCDatabases
    DatabasesOf <- MCDatabasesOf
    Forms <- MCForms
SYMMETRY SourceSymmetry
INVARIANTS
    SourcesConnectAsTested
    DefaultDatabaseListed
PROPERTIES
    JobDatabaseExplained
