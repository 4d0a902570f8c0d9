SPECIFICATION OperatorSpec
CONSTANTS
    c1 = c1  c2 = c2  r1 = r1  r2 = r2  ro = ro  n1 = n1  n2 = n2
    Workers = {w1}
    CRs = {c1}
    Refs = {ro}
    Deletable = {c1}
    TargetsOf <- MCTargetsOf
    RORef = ro
    Namespaces = {n1}
    NamespaceOf <- MCNamespaceOf
    Policies = {p1, p2}
    Users = {u1}
    Keys = {k1}
    InitRoots <- PassthroughRoot
    EditedRoots <- PassthroughRoot
    None = None
    SecretLag = TRUE
    Disturbances = {"callFails", "crash", "secretEdits", "namespaceDeletes"}
    MaxFaults = 1
    MaxGen = 2
    MaxHours = 1
    Central = {}
    Version = "4.1"
    COLag = TRUE
    MaxStatusFaults = 0
INVARIANTS OperatorTypeOK NoLostWakeup QueueConsistent
SYMMETRY Symmetry
