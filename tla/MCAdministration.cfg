CONSTANTS
    p1 = p1
    p2 = p2
    m1 = m1
    m2 = m2
    m3 = m3
    w1 = w1
    w2 = w2
    l1 = l1
    Models = {m1, m2, m3}
    FirstModel = m1
    People = {p1, p2}
    NoOne = NoOne
    Workers = {w1, w2}
    Catalogs <- MCCatalogs
    Edits <- MCEdits
    Limits = {10, 20}
    FirstLimit = 10
    Malformed = Malformed
    Loaders = {l1}
    MaxLosses = 1
    Roots = {p1, p2}
    MaxActivities = 3
SPECIFICATION Spec
SYMMETRY Symmetric
INVARIANT TypeOK
INVARIANT OneDefault
INVARIANT FreshUnlessOvertaken
INVARIANT AdministratorRemains
PROPERTY SummaryModelUsable
CHECK_DEADLOCK FALSE
