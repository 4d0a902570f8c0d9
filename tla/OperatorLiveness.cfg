SPECIFICATION OperatorFairSpec
CONSTANTS
    c1 = c1  c2 = c2  r1 = r1  r2 = r2  ro = ro  n1 = n1  n2 = n2
    Workers = {w1}
    CRs = {c1, c2}
    Refs = {r1, ro}
    Deletable = {}
    TargetsOf <- MCTargetsOf
    RORef = ro
    Namespaces = {n1}
    NamespaceOf <- MCNamespaceOf
    Policies = {p1}
    Users = {u1}
    Keys = {k1}
    InitRoots <- InsufficientRoot
    EditedRoots <- InsufficientRoot
    None = None
    SecretLag = FALSE
    Disturbances = {}
    MaxFaults = 0
    MaxGen = 1
    MaxHours = 1
    Central = {c1, c2}
    Version = "4.1"
    COLag = FALSE
    MaxStatusFaults = 1
PROPERTIES NobodyStarves StatusConverges
