SPECIFICATION Spec
CONSTANTS
    s1 = s1
    t1 = t1
    j1 = j1
    q1 = q1
    q2 = q2
    None = None
    Sources = {s1}
    Targets = {t1}
    Jobs = {j1}
    Requests = {q1, q2}
    MaxVersion = 3
SYMMETRY RequestSymmetry
INVARIANTS
    TypeOK
    NoDanglingReference
    SecretsStayInPlace
    BlankKeepsSecret
PROPERTIES
    DeletedForGood
